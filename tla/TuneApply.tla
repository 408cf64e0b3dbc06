----------------------------- MODULE TuneApply -----------------------------
(***************************************************************************)
(* Concurrent runs of `pgav tune`: app.Service.Tune and postgres.Catalog   *)
(* on one connection each, against one PostgreSQL server.                  *)
(*                                                                         *)
(* A run reads the cluster settings, then the settings of every table,     *)
(* computes its batch from what it read, reads the long transactions, and, *)
(* under --apply, sends BEGIN, one ALTER TABLE per table of the batch and  *)
(* COMMIT, each answered or not before the query timeout.  Nothing is held *)
(* between the reads and BEGIN.  The server is modelled from how the       *)
(* catalog uses it: a session stages its ALTERs under one exclusive lock   *)
(* per table until COMMIT, ROLLBACK, an error or the end of the session.   *)
(***************************************************************************)
EXTENDS ReloptionBatch

CONSTANTS
    NoTable,      \* no statement is being executed
    Unstaged,     \* the session has not altered this table
    OtherTables   \* the tables other sessions lock and alter (a bound)

ASSUME ApplyAssumption ==
    /\ NoTable \notin Tables
    /\ Unstaged \notin VacuumSettings
    /\ OtherTables \subseteq Tables

VARIABLES
    \* one run of pgav
    pc,        \* where the run is
    mode,      \* mode[p]: --apply was given
    batch,     \* the statements Tune computed
    executed,  \* the tables whose ALTER was answered without error
    cur,       \* the table of the ALTER the run is waiting for
    told,      \* what the run told its user
    \* its connection
    conn,      \* "new", "open" or "closed": the run's end
    wire,      \* "idle", the request in flight, or its reply "ok" / "error"
    \* the server
    session,   \* session[p]: "none", "idle", "intx" or "aborted"
    staged,    \* staged[p][t]: the settings p's transaction gives t, or Unstaged
    lock,      \* lock[t]: the session holding t's lock
    settings,  \* the committed settings
    \* history
    author,    \* the run that altered t last, or Other
    landed     \* the runs whose COMMIT the server executed

client == <<pc, mode, batch, executed, cur, told>>
server == <<session, staged, lock, settings, author, landed>>
vars == <<client, conn, wire, server>>

Applying == {"begin", "exec", "commit", "rollback"}

TypeOK ==
    /\ pc \in [Procs -> {"start", "cluster", "snaps", "xacts", "render", "close", "done"}
                        \cup Applying]
    /\ mode \in [Procs -> BOOLEAN]
    /\ batch \in [Procs -> Batch]
    /\ executed \in [Procs -> SUBSET Tables]
    /\ cur \in [Procs -> Tables \cup {NoTable}]
    /\ told \in [Procs -> {"nothing", "applied", "dry-run", "failed"}]
    /\ conn \in [Procs -> {"new", "open", "closed"}]
    /\ wire \in [Procs -> {"idle", "ok", "error"} \cup Applying]
    /\ session \in [Procs -> {"none", "idle", "intx", "aborted"}]
    /\ staged \in [Procs -> [Tables -> VacuumSettings \cup {Unstaged}]]
    /\ lock \in [Tables -> Procs \cup {Free, Other}]
    /\ settings \in [Tables -> VacuumSettings]
    /\ author \in [Tables -> Procs \cup {Other}]
    /\ landed \subseteq Procs

NothingStaged == [t \in Tables |-> Unstaged]

Init ==
    /\ pc = [p \in Procs |-> "start"]
    /\ mode \in [Procs -> BOOLEAN]
    /\ batch = [p \in Procs |-> EmptyBatch]
    /\ executed = [p \in Procs |-> {}]
    /\ cur = [p \in Procs |-> NoTable]
    /\ told = [p \in Procs |-> "nothing"]
    /\ conn = [p \in Procs |-> "new"]
    /\ wire = [p \in Procs |-> "idle"]
    /\ session = [p \in Procs |-> "none"]
    /\ staged = [p \in Procs |-> NothingStaged]
    /\ lock = [t \in Tables |-> Free]
    /\ settings \in [Tables -> VacuumSettings]
    /\ author = [t \in Tables |-> Other]
    /\ landed = {}

Goto(p, label) == pc' = [pc EXCEPT ![p] = label]

\* Fault: an end state of its own for failed runs, which the cleanup does not know.
FailToNowhere(p) ==
    /\ Goto(p, "failed")
    /\ told' = [told EXCEPT ![p] = "failed"]

\* The run ends with an error: the deferred cleanup closes the connection.
Fail(p) ==
    /\ Goto(p, "close")
    /\ told' = [told EXCEPT ![p] = "failed"]

-----------------------------------------------------------------------------
(* The reads: openPostgres, reportAll, LongTransactions.                   *)

NewCatalog(p) ==
    /\ pc[p] = "start"
    /\ Goto(p, "cluster")
    /\ conn' = [conn EXCEPT ![p] = "open"]
    /\ session' = [session EXCEPT ![p] = "idle"]
    /\ UNCHANGED <<mode, batch, executed, cur, told, wire, staged, lock, settings, author, landed>>

\* Configuration, connection or one of the reads fails: an error, a timeout, SIGINT.
FailBeforeApply(p) ==
    /\ pc[p] \in {"start", "cluster", "snaps", "xacts"}
    /\ Fail(p)
    /\ UNCHANGED <<mode, batch, executed, cur, conn, wire, server>>

ClusterSettings(p) ==
    /\ pc[p] = "cluster"
    /\ session[p] = "idle"
    /\ Goto(p, "snaps")
    /\ UNCHANGED <<mode, batch, executed, cur, told, conn, wire, server>>

\* TableSnapshots reads every table in one query; the batch is a function of it.
TableSnapshots(p) ==
    /\ pc[p] = "snaps"
    /\ session[p] = "idle"
    /\ Goto(p, "xacts")
    /\ \E b \in Recommendations(settings) : batch' = [batch EXCEPT ![p] = b]
    /\ UNCHANGED <<mode, executed, cur, told, conn, wire, server>>

WantsApply(p) == mode[p] /\ Targets(batch[p]) # {}

LongTransactions(p) ==
    /\ pc[p] = "xacts"
    /\ session[p] = "idle"
    /\ Goto(p, IF WantsApply(p) THEN "begin" ELSE "render")
    /\ UNCHANGED <<mode, batch, executed, cur, told, conn, wire, server>>

-----------------------------------------------------------------------------
(* Catalog.Apply: one request at a time, all under one query timeout.      *)

Send(p, request) == wire' = [wire EXCEPT ![p] = request]

\* conn.Begin, or tx.Commit once every statement has been answered.
SendBegin(p) ==
    /\ pc[p] = "begin" /\ wire[p] = "idle"
    /\ Send(p, "begin")
    /\ UNCHANGED <<client, conn, server>>

BeginOk(p) ==
    /\ pc[p] = "begin" /\ wire[p] = "ok"
    /\ Goto(p, "exec")
    /\ Send(p, "idle")
    /\ UNCHANGED <<mode, batch, executed, cur, told, conn, server>>

\* tx.Exec of the next statement. tableSQL has no ORDER BY: any table may be next.
SendExec(p) ==
    /\ pc[p] = "exec" /\ wire[p] = "idle"
    /\ \E t \in Targets(batch[p]) \ executed[p] : cur' = [cur EXCEPT ![p] = t]
    /\ Send(p, "exec")
    /\ UNCHANGED <<pc, mode, batch, executed, told, conn, server>>

ExecOk(p) ==
    /\ pc[p] = "exec" /\ wire[p] = "ok"
    /\ executed' = [executed EXCEPT ![p] = @ \cup {cur[p]}]
    /\ cur' = [cur EXCEPT ![p] = NoTable]
    /\ Send(p, "idle")
    /\ UNCHANGED <<pc, mode, batch, told, conn, server>>

\* The first statement that fails stops the loop; the rollback's own error is ignored.
ExecError(p) ==
    /\ pc[p] = "exec" /\ wire[p] = "error"
    /\ Goto(p, "rollback")
    /\ Send(p, "rollback")
    /\ UNCHANGED <<mode, batch, executed, cur, told, conn, server>>

RollbackDone(p) ==
    /\ pc[p] = "rollback" /\ wire[p] = "ok"
    /\ Fail(p)
    /\ Send(p, "idle")
    /\ UNCHANGED <<mode, batch, executed, cur, conn, server>>

\* Fault: commits whatever has been executed so far.
SendCommitEarly(p) ==
    /\ pc[p] = "exec" /\ wire[p] = "idle"
    /\ Goto(p, "commit")
    /\ Send(p, "commit")
    /\ UNCHANGED <<mode, batch, executed, cur, told, conn, server>>

SendCommit(p) ==
    /\ pc[p] = "exec" /\ wire[p] = "idle"
    /\ executed[p] = Targets(batch[p])
    /\ Goto(p, "commit")
    /\ Send(p, "commit")
    /\ UNCHANGED <<mode, batch, executed, cur, told, conn, server>>

CommitOk(p) ==
    /\ pc[p] = "commit" /\ wire[p] = "ok"
    /\ Goto(p, "render")
    /\ Send(p, "idle")
    /\ UNCHANGED <<mode, batch, executed, cur, told, conn, server>>

\* Fault: the error of tx.Commit is dropped.
CommitErrorIgnored(p) ==
    /\ pc[p] = "commit" /\ wire[p] = "error"
    /\ Goto(p, "render")
    /\ Send(p, "idle")
    /\ UNCHANGED <<mode, batch, executed, cur, told, conn, server>>

CommitError(p) ==
    /\ pc[p] = "commit" /\ wire[p] = "error"
    /\ Fail(p)
    /\ Send(p, "idle")
    /\ UNCHANGED <<mode, batch, executed, cur, conn, server>>

\* Fault: no query timeout, the run gives up only between two requests.
GiveUpUntimed(p) ==
    /\ pc[p] \in Applying /\ wire[p] \notin Applying
    /\ Fail(p)
    /\ conn' = [conn EXCEPT ![p] = "closed"]
    /\ UNCHANGED <<mode, batch, executed, cur, wire, server>>

\* Fault: the run leaves without closing its connection.
GiveUpLeaks(p) ==
    /\ pc[p] \in Applying
    /\ Goto(p, "done")
    /\ told' = [told EXCEPT ![p] = "failed"]
    /\ UNCHANGED <<mode, batch, executed, cur, conn, wire, server>>

\* The query timeout, SIGINT or a broken connection: pgx closes the connection and
\* Apply returns the error, whatever the server does with the request in flight.
GiveUp(p) ==
    /\ pc[p] \in Applying
    /\ Fail(p)
    /\ conn' = [conn EXCEPT ![p] = "closed"]
    /\ UNCHANGED <<mode, batch, executed, cur, wire, server>>

-----------------------------------------------------------------------------
(* The end of the command: writeTune, then the deferred cleanup.           *)

\* Fault: --apply is reported as applied although there was nothing to apply.
RenderMode(p) ==
    /\ pc[p] = "render"
    /\ Goto(p, "close")
    /\ told' = [told EXCEPT ![p] = IF mode[p] THEN "applied" ELSE "dry-run"]
    /\ UNCHANGED <<mode, batch, executed, cur, conn, wire, server>>

Render(p) ==
    /\ pc[p] = "render"
    /\ Goto(p, "close")
    /\ told' = [told EXCEPT ![p] = IF WantsApply(p) THEN "applied" ELSE "dry-run"]
    /\ UNCHANGED <<mode, batch, executed, cur, conn, wire, server>>

\* stdout cannot be written: the command fails although the batch may be in effect.
RenderFail(p) ==
    /\ pc[p] = "render"
    /\ Fail(p)
    /\ UNCHANGED <<mode, batch, executed, cur, conn, wire, server>>

Close(p) ==
    /\ pc[p] = "close"
    /\ Goto(p, "done")
    /\ conn' = [conn EXCEPT ![p] = "closed"]
    /\ UNCHANGED <<mode, batch, executed, cur, told, wire, server>>

\* SIGKILL at any point: the operating system closes the socket.
Kill(p) ==
    /\ pc[p] # "done"
    /\ Goto(p, "done")
    /\ conn' = [conn EXCEPT ![p] = "closed"]
    /\ told' = [told EXCEPT ![p] = IF @ = "nothing" THEN "failed" ELSE @]
    /\ UNCHANGED <<mode, batch, executed, cur, wire, server>>

-----------------------------------------------------------------------------
(* The server (external).  It serves a request it has received even when   *)
(* the run that sent it has given up.                                      *)

\* The transaction of p ends: its locks are released, what it staged is forgotten.
EndTransaction(p, next) ==
    /\ session' = [session EXCEPT ![p] = next]
    /\ staged' = [staged EXCEPT ![p] = NothingStaged]
    /\ lock' = [t \in Tables |-> IF lock[t] = p THEN Free ELSE lock[t]]

SrvBegin(p) ==
    /\ wire[p] = "begin" /\ session[p] = "idle"
    /\ session' = [session EXCEPT ![p] = "intx"]
    /\ Send(p, "ok")
    /\ UNCHANGED <<client, conn, staged, lock, settings, author, landed>>

\* ALTER TABLE waits for the table's lock, which conflicts with itself and with VACUUM.
SrvExec(p) ==
    /\ wire[p] = "exec" /\ session[p] = "intx"
    /\ lock[cur[p]] \in {Free, p}
    /\ lock' = [lock EXCEPT ![cur[p]] = p]
    /\ staged' = [staged EXCEPT ![p][cur[p]] = AlterSQL(settings[cur[p]], batch[p][cur[p]])]
    /\ Send(p, "ok")
    /\ UNCHANGED <<client, conn, session, settings, author, landed>>

\* A dropped table, a missing privilege, a lock timeout, the victim of a deadlock.
SrvExecFail(p) ==
    /\ wire[p] = "exec" /\ session[p] = "intx"
    /\ EndTransaction(p, "aborted")
    /\ Send(p, "error")
    /\ UNCHANGED <<client, conn, settings, author, landed>>

Altered(p) == {t \in Tables : staged[p][t] # Unstaged}

SrvCommit(p) ==
    /\ wire[p] = "commit" /\ session[p] = "intx"
    /\ settings' = [t \in Tables |-> IF t \in Altered(p) THEN staged[p][t] ELSE settings[t]]
    /\ author' = [t \in Tables |-> IF t \in Altered(p) THEN p ELSE author[t]]
    /\ landed' = landed \cup {p}
    /\ EndTransaction(p, "idle")
    /\ Send(p, "ok")
    /\ UNCHANGED <<client, conn>>

SrvCommitFail(p) ==
    /\ wire[p] = "commit" /\ session[p] = "intx"
    /\ EndTransaction(p, "idle")
    /\ Send(p, "error")
    /\ UNCHANGED <<client, conn, settings, author, landed>>

SrvRollback(p) ==
    /\ wire[p] = "rollback" /\ session[p] \in {"intx", "aborted"}
    /\ EndTransaction(p, "idle")
    /\ Send(p, "ok")
    /\ UNCHANGED <<client, conn, settings, author, landed>>

\* The session ends: the server notices the closed connection, terminates the
\* backend or crashes. What was committed stays.
EndSession(p) ==
    /\ session[p] # "none"
    /\ EndTransaction(p, "none")
    /\ UNCHANGED <<client, conn, wire, settings, author, landed>>

\* Another session, an autovacuum worker or a DBA, locks a table and may alter it.
OtherLocks(t) ==
    /\ lock[t] = Free
    /\ lock' = [lock EXCEPT ![t] = Other]
    /\ UNCHANGED <<client, conn, wire, session, staged, settings, author, landed>>

OtherUnlocks(t) ==
    /\ lock[t] = Other
    /\ lock' = [lock EXCEPT ![t] = Free]
    /\ UNCHANGED <<client, conn, wire, session, staged, settings, author, landed>>

OtherAlters(t) ==
    /\ lock[t] = Other
    /\ lock' = [lock EXCEPT ![t] = Free]
    /\ \E v \in VacuumSettings : settings' = [settings EXCEPT ![t] = v]
    /\ author' = [author EXCEPT ![t] = Other]
    /\ UNCHANGED <<client, conn, wire, session, staged, landed>>

-----------------------------------------------------------------------------

Apply(p) ==
    \/ SendBegin(p) \/ BeginOk(p)
    \/ SendExec(p) \/ ExecOk(p) \/ ExecError(p) \/ RollbackDone(p)
    \/ SendCommit(p) \/ CommitOk(p) \/ CommitError(p)
    \/ GiveUp(p)

\* The steps of one run, its timeouts included.
Tune(p) ==
    \/ NewCatalog(p) \/ ClusterSettings(p) \/ TableSnapshots(p) \/ LongTransactions(p)
    \/ FailBeforeApply(p)
    \/ Apply(p)
    \/ Render(p) \/ RenderFail(p) \/ Close(p)

Server(p) ==
    \/ SrvBegin(p) \/ SrvExec(p) \/ SrvExecFail(p) \/ SrvCommit(p) \/ SrvCommitFail(p)
    \/ SrvRollback(p) \/ EndSession(p)

Others(t) == OtherLocks(t) \/ OtherUnlocks(t) \/ OtherAlters(t)

\* Every run is over and no session is left: the system rests.
Finished ==
    /\ \A p \in Procs : pc[p] = "done" /\ session[p] = "none"
    /\ UNCHANGED vars

Next ==
    \/ \E p \in Procs : Tune(p) \/ Kill(p) \/ Server(p)
    \/ \E t \in OtherTables : Others(t)
    \/ Finished

Spec == Init /\ [][Next]_vars

\* A closed connection is noticed in the end.
NoticeClosed(p) == conn[p] = "closed" /\ EndSession(p)

\* A run that can take a step, if only its timeout, takes one in the end. Nothing
\* is assumed of the server but that it notices closed connections.
Fairness == \A p \in Procs : WF_vars(Tune(p)) /\ WF_vars(NoticeClosed(p))

FairSpec == Spec /\ Fairness

-----------------------------------------------------------------------------
(* Safety.                                                                 *)

\* A run that says "applied" has its whole batch committed, and one that says
\* "dry-run" has not and never will have: Tune sets applied only after Apply
\* returned nil, whatever errors, timeouts and lost sessions came before.
ToldTheTruth == \A p \in Procs :
    /\ told[p] = "applied" => p \in landed
    /\ told[p] = "dry-run" => p \notin landed /\ ~WantsApply(p) /\ wire[p] = "idle"

\* A batch is committed only when each of its statements was answered without an
\* error: a statement that fails or is given up on takes the whole batch with it,
\* even when the server goes on serving requests of a run that is gone.
LandedWhole == \A p \in landed :
    mode[p] /\ executed[p] = Targets(batch[p]) /\ executed[p] # {}

\* Catalog.Apply commits a batch at once, at most once, and only under --apply.
Promise == INSTANCE AtomicBatch WITH applied <- landed

Implements == Promise!ASpec

\* docs/race-model.md: `pgav tune` raises cost_limit. The statement was computed from
\* settings read before BEGIN, outside the transaction that executes it.
CommitRaisesCostLimit ==
    [][\A p \in landed' \ landed, t \in Tables :
           settings'[t][CostLimit] >= settings[t][CostLimit]]_vars

\* Only a table that was altered in between is exposed to that: of one that no other
\* session alters and no run has altered yet, the first commit never lowers cost_limit,
\* however long ago its run read the table and whatever happened to the others.
FirstCommitRaises ==
    [][\A p \in landed' \ landed, t \in Tables \ OtherTables :
           author[t] = Other => settings'[t][CostLimit] >= settings[t][CostLimit]]_vars

-----------------------------------------------------------------------------
(* Liveness.                                                               *)

\* Every run ends, blocked by a lock, deadlocked with another run or unanswered
\* by the server as it may be.
Terminates == \A p \in Procs : <>(pc[p] = "done")

\* The lock a run holds on a table is released.
LocksReleased == \A p \in Procs, t \in Tables : lock[t] = p ~> lock[t] # p

=============================================================================
