-------------------------- MODULE TuneApplyProofs --------------------------
(***************************************************************************)
(* Theorems about TuneApply for any number of runs, tables and options:    *)
(* its type invariant, its safety invariants, that it implements           *)
(* AtomicBatch, and what TuneReads says of its commits.  They rest on the  *)
(* inductive invariant IInv.                                               *)
(***************************************************************************)
EXTENDS TuneReads, FiniteSetTheorems, TLAPS

Reading == {"start", "cluster", "snaps", "xacts"}

\* What the run has told follows its program counter; it computes its batch once.
ClientInv(p) ==
    /\ told[p] = "nothing" <=> pc[p] \notin {"close", "done"}
    /\ pc[p] \in {"start", "cluster", "snaps"} => batch[p] = EmptyBatch
    /\ pc[p] \in Reading \cup {"begin"} => executed[p] = {}

\* Which requests and replies are in flight at which point of the run: one that is
\* left on the wire when the run is over is the request of a run that failed.
WireInv(p) ==
    /\ pc[p] \in Reading \cup {"render"} => wire[p] = "idle"
    /\ pc[p] = "begin" => wire[p] \in {"idle", "begin", "ok"}
    /\ pc[p] = "exec" => wire[p] \in {"idle", "exec", "ok", "error"}
    /\ pc[p] = "commit" => wire[p] \in {"commit", "ok", "error"}
    /\ pc[p] = "rollback" => wire[p] \in {"rollback", "ok"}
    /\ wire[p] = "exec" => cur[p] \in Targets(batch[p])
    /\ pc[p] = "exec" /\ wire[p] = "ok" => cur[p] \in Tables
    /\ wire[p] = "commit" => executed[p] = Targets(batch[p])
    /\ wire[p] # "idle" => told[p] \in {"nothing", "failed"}
    /\ pc[p] \in Applying \/ wire[p] # "idle" => WantsApply(p)

\* The transaction has altered the tables the run knows of, and the one of the reply
\* it has not read yet.
SessionInv(p) ==
    /\ pc[p] \in Reading \cup {"render"} => session[p] \in {"none", "idle"}
    /\ pc[p] \in {"commit", "rollback"} /\ wire[p] \in {"ok", "error"} => session[p] # "intx"
    /\ session[p] # "intx" => Altered(p) = {}
    /\ session[p] = "intx" /\ wire[p] \in {"idle", "exec", "commit"} => Altered(p) = executed[p]
    /\ session[p] = "intx" /\ pc[p] = "begin" /\ wire[p] = "ok" => Altered(p) = {}
    /\ session[p] = "intx" /\ pc[p] = "exec" /\ wire[p] = "ok" =>
           Altered(p) = executed[p] \cup {cur[p]}

\* A batch lands once, and the run that says so is one whose batch landed.
LandedInv(p) ==
    /\ p \in landed => /\ pc[p] \in {"commit", "render", "close", "done"}
                       /\ wire[p] \in {"idle", "ok"}
                       /\ session[p] \in {"none", "idle"}
                       /\ WantsApply(p)
                       /\ executed[p] = Targets(batch[p])
    /\ pc[p] = "commit" /\ wire[p] = "ok" => p \in landed
    /\ pc[p] = "render" => (WantsApply(p) <=> p \in landed)
    /\ told[p] = "applied" => p \in landed
    /\ told[p] = "dry-run" => p \notin landed /\ ~WantsApply(p)

RunInv(p) == ClientInv(p) /\ WireInv(p) /\ SessionInv(p) /\ LandedInv(p)

\* What a transaction has staged for a table is still what its ALTER makes of the
\* committed settings: between its ALTER and its COMMIT nobody else changes the table,
\* so that the commit overwrites no option the statement does not name.
StagedIsCurrent == \A p \in Procs, t \in Tables :
    staged[p][t] # Unstaged => staged[p][t] = AlterSQL(settings[t], batch[p][t])

\* Tables are locked by transactions that altered them and by nothing else: no lock
\* outlives the transaction of a run that failed, gave up or was killed.
LocksAreStaged == \A p \in Procs, t \in Tables :
    lock[t] = p <=> (session[p] = "intx" /\ staged[p][t] # Unstaged)

IInv ==
    /\ TypeOK
    /\ \A p \in Procs : RunInv(p)
    /\ LocksAreStaged
    /\ StagedIsCurrent

-----------------------------------------------------------------------------
(* Lemmas about the operators the model is built from.                     *)

\* An ALTER TABLE leaves a table with settings.
LEMMA AlterSQLType ==
  ASSUME NEW old \in VacuumSettings, NEW stmt \in Statement
  PROVE  AlterSQL(old, stmt) \in VacuumSettings
BY DEF AlterSQL, VacuumSettings, Statement

\* A table without a statement keeps its settings.
LEMMA AlterSQLNoChange ==
  ASSUME NEW old \in VacuumSettings
  PROVE  AlterSQL(old, NoChange) = old
BY DEF AlterSQL, NoChange, VacuumSettings

\* Before anything is computed the batch is one a run may hold.
LEMMA EmptyBatchType == EmptyBatch \in Batch
BY DEF EmptyBatch, NoChange, Batch, Statement

-----------------------------------------------------------------------------
(* IInv is an invariant.                                                   *)

LEMMA InitIInv == Init => IInv
<1> SUFFICES ASSUME Init PROVE IInv
  OBVIOUS
<1>1. batch \in [Procs -> Batch] /\ staged \in [Procs -> [Tables -> VacuumSettings \cup {Unstaged}]]
  BY EmptyBatchType DEF Init, NothingStaged
<1>2. TypeOK
  <2>1. pc \in [Procs -> {"start", "cluster", "snaps", "xacts", "render", "close", "done"} \cup Applying]
    BY DEF Init
  <2>2. /\ executed \in [Procs -> SUBSET Tables]
        /\ cur \in [Procs -> Tables \cup {NoTable}]
        /\ told \in [Procs -> {"nothing", "applied", "dry-run", "failed"}]
        /\ conn \in [Procs -> {"new", "open", "closed"}]
    BY DEF Init
  <2>3. /\ wire \in [Procs -> {"idle", "ok", "error"} \cup Applying]
        /\ session \in [Procs -> {"none", "idle", "intx", "aborted"}]
    BY DEF Init
  <2>4. /\ lock \in [Tables -> Procs \cup {Free, Other}]
        /\ author \in [Tables -> Procs \cup {Other}]
    BY DEF Init
  <2>5. mode \in [Procs -> BOOLEAN] /\ settings \in [Tables -> VacuumSettings] /\ landed \subseteq Procs
    BY DEF Init
  <2> QED
    BY <1>1, <2>1, <2>2, <2>3, <2>4, <2>5 DEF TypeOK
<1>3. ASSUME NEW p \in Procs PROVE RunInv(p)
  BY DEF Init, RunInv, ClientInv, WireInv, SessionInv, LandedInv, Reading, Applying, Altered, NothingStaged
<1>4. LocksAreStaged /\ StagedIsCurrent
  BY BatchAssumption DEF Init, LocksAreStaged, StagedIsCurrent, NothingStaged
<1> QED
  BY <1>2, <1>3, <1>4 DEF IInv

\* A step of one run leaves the control state of every run consistent.
LEMMA RunStep ==
  ASSUME IInv, [Next]_vars, NEW q \in Procs
  PROVE  RunInv(q)'
<1> USE DEF IInv, TypeOK, RunInv, ClientInv, WireInv, SessionInv, LandedInv, Reading, Applying,
            WantsApply, Altered
<1>1. ASSUME NEW p \in Procs, NewCatalog(p) PROVE RunInv(q)'
  BY <1>1 DEF NewCatalog, Goto
<1>2. ASSUME NEW p \in Procs, FailBeforeApply(p) PROVE RunInv(q)'
  BY <1>2 DEF FailBeforeApply, Fail, server, Goto
<1>3. ASSUME NEW p \in Procs, ClusterSettings(p) PROVE RunInv(q)'
  BY <1>3 DEF ClusterSettings, Goto, server
<1>4. ASSUME NEW p \in Procs, TableSnapshots(p) PROVE RunInv(q)'
  <2>1. PICK b \in Recommendations(settings) : batch' = [batch EXCEPT ![p] = b]
    BY <1>4 DEF TableSnapshots
  <2>2. CASE q = p
    <3>1. /\ pc[p] = "snaps" /\ pc'[p] = "xacts" /\ wire' = wire /\ told' = told
          /\ executed' = executed /\ session' = session /\ landed' = landed /\ staged' = staged
          /\ session[p] = "idle"
      BY <1>4 DEF TableSnapshots, Goto, server
    <3>2. /\ wire[p] = "idle" /\ told[p] = "nothing" /\ executed[p] = {} /\ p \notin landed
          /\ Altered(p) = {}
      BY <3>1
    <3>3. Altered(p)' = {}
      BY <3>1, <3>2
    <3> QED
      BY <2>2, <3>1, <3>2, <3>3
  <2>3. CASE q # p
    BY <1>4, <2>1, <2>3 DEF TableSnapshots, Goto, server
  <2> QED
    BY <2>2, <2>3
<1>5. ASSUME NEW p \in Procs, LongTransactions(p) PROVE RunInv(q)'
  BY <1>5 DEF LongTransactions, Goto, server
<1>6. ASSUME NEW p \in Procs, SendBegin(p) PROVE RunInv(q)'
  BY <1>6 DEF SendBegin, Send, client, server
<1>7. ASSUME NEW p \in Procs, BeginOk(p) PROVE RunInv(q)'
  BY <1>7 DEF BeginOk, Goto, Send, server
<1>8. ASSUME NEW p \in Procs, SendExec(p) PROVE RunInv(q)'
  BY <1>8 DEF SendExec, Send, server
<1>9. ASSUME NEW p \in Procs, ExecOk(p) PROVE RunInv(q)'
  BY <1>9 DEF ExecOk, Send, server
<1>10. ASSUME NEW p \in Procs, ExecError(p) PROVE RunInv(q)'
  BY <1>10 DEF ExecError, Goto, Send, server
<1>11. ASSUME NEW p \in Procs, RollbackDone(p) PROVE RunInv(q)'
  BY <1>11 DEF RollbackDone, Fail, Send, server, Goto
<1>12. ASSUME NEW p \in Procs, SendCommit(p) PROVE RunInv(q)'
  BY <1>12 DEF SendCommit, Goto, Send, server
<1>13. ASSUME NEW p \in Procs, CommitOk(p) PROVE RunInv(q)'
  BY <1>13 DEF CommitOk, Goto, Send, server
<1>14. ASSUME NEW p \in Procs, CommitError(p) PROVE RunInv(q)'
  BY <1>14 DEF CommitError, Fail, Send, server, Goto
<1>15. ASSUME NEW p \in Procs, GiveUp(p) PROVE RunInv(q)'
  BY <1>15 DEF GiveUp, Fail, server, Goto
<1>16. ASSUME NEW p \in Procs, Render(p) PROVE RunInv(q)'
  BY <1>16 DEF Render, Goto, server
<1>17. ASSUME NEW p \in Procs, RenderFail(p) PROVE RunInv(q)'
  BY <1>17 DEF RenderFail, Fail, server, Goto
<1>18. ASSUME NEW p \in Procs, Close(p) PROVE RunInv(q)'
  BY <1>18 DEF Close, Goto, server
<1>19. ASSUME NEW p \in Procs, Kill(p) PROVE RunInv(q)'
  BY <1>19 DEF Kill, Goto, server
<1>20. ASSUME NEW p \in Procs, SrvBegin(p) PROVE RunInv(q)'
  BY <1>20 DEF SrvBegin, Send, client
<1>21. ASSUME NEW p \in Procs, SrvExec(p) PROVE RunInv(q)'
  <2>1. cur[p] \in Tables /\ settings[cur[p]] \in VacuumSettings /\ batch[p][cur[p]] \in Statement
    BY <1>21 DEF SrvExec, Targets, Batch
  <2>2. AlterSQL(settings[cur[p]], batch[p][cur[p]]) # Unstaged
    BY <2>1, AlterSQLType, ApplyAssumption
  <2>3. Altered(p)' = Altered(p) \cup {cur[p]} /\ (q # p => Altered(q)' = Altered(q))
    BY <1>21, <2>1, <2>2 DEF SrvExec
  <2> QED
    BY <1>21, <2>1, <2>3 DEF SrvExec, Send, client
<1>22. ASSUME NEW p \in Procs, SrvExecFail(p) PROVE RunInv(q)'
  BY <1>22 DEF SrvExecFail, Send, EndTransaction, client, NothingStaged
<1>23. ASSUME NEW p \in Procs, SrvCommit(p) PROVE RunInv(q)'
  BY <1>23 DEF SrvCommit, Send, EndTransaction, client, NothingStaged
<1>24. ASSUME NEW p \in Procs, SrvCommitFail(p) PROVE RunInv(q)'
  BY <1>24 DEF SrvCommitFail, Send, EndTransaction, client, NothingStaged
<1>25. ASSUME NEW p \in Procs, SrvRollback(p) PROVE RunInv(q)'
  BY <1>25 DEF SrvRollback, Send, EndTransaction, client, NothingStaged
<1>26. ASSUME NEW p \in Procs, EndSession(p) PROVE RunInv(q)'
  BY <1>26 DEF EndSession, EndTransaction, client, NothingStaged
<1>27. ASSUME NEW t \in Tables, OtherLocks(t) PROVE RunInv(q)'
  BY <1>27 DEF OtherLocks, client
<1>28. ASSUME NEW t \in Tables, OtherUnlocks(t) PROVE RunInv(q)'
  BY <1>28 DEF OtherUnlocks, client
<1>29. ASSUME NEW t \in Tables, OtherAlters(t) PROVE RunInv(q)'
  BY <1>29 DEF OtherAlters, client
<1>30. CASE UNCHANGED vars
  BY <1>30 DEF vars, client, server
<1> QED
  BY <1>1, <1>2, <1>3, <1>4, <1>5, <1>6, <1>7, <1>8, <1>9, <1>10, <1>11, <1>12, <1>13, <1>14,
     <1>15, <1>16, <1>17, <1>18, <1>19, <1>20, <1>21, <1>22, <1>23, <1>24, <1>25, <1>26, <1>27,
     <1>28, <1>29, <1>30, ApplyAssumption
  DEF Next, Tune, Apply, Server, Others, Finished

\* Every step leaves the variables in their types.
LEMMA TypeStep ==
  ASSUME IInv, [Next]_vars
  PROVE  TypeOK'
<1> USE DEF IInv, TypeOK, Applying
<1>1. ASSUME NEW p \in Procs, NewCatalog(p) PROVE TypeOK'
  BY <1>1 DEF NewCatalog, Goto
<1>2. ASSUME NEW p \in Procs, FailBeforeApply(p) PROVE TypeOK'
  BY <1>2 DEF FailBeforeApply, Fail, server, Goto
<1>3. ASSUME NEW p \in Procs, ClusterSettings(p) PROVE TypeOK'
  BY <1>3 DEF ClusterSettings, Goto, server
<1>4. ASSUME NEW p \in Procs, TableSnapshots(p) PROVE TypeOK'
  BY <1>4 DEF TableSnapshots, Goto, server, Recommendations
<1>5. ASSUME NEW p \in Procs, LongTransactions(p) PROVE TypeOK'
  BY <1>5 DEF LongTransactions, Goto, server
<1>6. ASSUME NEW p \in Procs, SendBegin(p) PROVE TypeOK'
  BY <1>6 DEF SendBegin, Send, client, server
<1>7. ASSUME NEW p \in Procs, BeginOk(p) PROVE TypeOK'
  BY <1>7 DEF BeginOk, Goto, Send, server
<1>8. ASSUME NEW p \in Procs, SendExec(p) PROVE TypeOK'
  BY <1>8 DEF SendExec, Send, server, Targets
<1>9. ASSUME NEW p \in Procs, ExecOk(p) PROVE TypeOK'
  BY <1>9 DEF ExecOk, Send, server, RunInv, WireInv
<1>10. ASSUME NEW p \in Procs, ExecError(p) PROVE TypeOK'
  BY <1>10 DEF ExecError, Goto, Send, server
<1>11. ASSUME NEW p \in Procs, RollbackDone(p) PROVE TypeOK'
  BY <1>11 DEF RollbackDone, Fail, Send, server, Goto
<1>12. ASSUME NEW p \in Procs, SendCommit(p) PROVE TypeOK'
  BY <1>12 DEF SendCommit, Goto, Send, server
<1>13. ASSUME NEW p \in Procs, CommitOk(p) PROVE TypeOK'
  BY <1>13 DEF CommitOk, Goto, Send, server
<1>14. ASSUME NEW p \in Procs, CommitError(p) PROVE TypeOK'
  BY <1>14 DEF CommitError, Fail, Send, server, Goto
<1>15. ASSUME NEW p \in Procs, GiveUp(p) PROVE TypeOK'
  BY <1>15 DEF GiveUp, Fail, server, Goto
<1>16. ASSUME NEW p \in Procs, Render(p) PROVE TypeOK'
  BY <1>16 DEF Render, Goto, server
<1>17. ASSUME NEW p \in Procs, RenderFail(p) PROVE TypeOK'
  BY <1>17 DEF RenderFail, Fail, server, Goto
<1>18. ASSUME NEW p \in Procs, Close(p) PROVE TypeOK'
  BY <1>18 DEF Close, Goto, server
<1>19. ASSUME NEW p \in Procs, Kill(p) PROVE TypeOK'
  BY <1>19 DEF Kill, Goto, server
<1>20. ASSUME NEW p \in Procs, SrvBegin(p) PROVE TypeOK'
  BY <1>20 DEF SrvBegin, Send, client
<1>21. ASSUME NEW p \in Procs, SrvExec(p) PROVE TypeOK'
  <2>1. cur[p] \in Tables /\ settings[cur[p]] \in VacuumSettings /\ batch[p][cur[p]] \in Statement
    BY <1>21 DEF SrvExec, Targets, Batch, RunInv, WireInv
  <2>2. AlterSQL(settings[cur[p]], batch[p][cur[p]]) \in VacuumSettings
    BY <2>1, AlterSQLType
  <2> QED
    BY <1>21, <2>1, <2>2 DEF SrvExec, Send, client
<1>22. ASSUME NEW p \in Procs, SrvExecFail(p) PROVE TypeOK'
  BY <1>22 DEF SrvExecFail, Send, EndTransaction, client, NothingStaged
<1>23. ASSUME NEW p \in Procs, SrvCommit(p) PROVE TypeOK'
  BY <1>23 DEF SrvCommit, Altered, EndTransaction, NothingStaged, Send, client
<1>24. ASSUME NEW p \in Procs, SrvCommitFail(p) PROVE TypeOK'
  BY <1>24 DEF SrvCommitFail, Send, EndTransaction, client, NothingStaged
<1>25. ASSUME NEW p \in Procs, SrvRollback(p) PROVE TypeOK'
  BY <1>25 DEF SrvRollback, Send, EndTransaction, client, NothingStaged
<1>26. ASSUME NEW p \in Procs, EndSession(p) PROVE TypeOK'
  BY <1>26 DEF EndSession, EndTransaction, client, NothingStaged
<1>27. ASSUME NEW t \in Tables, OtherLocks(t) PROVE TypeOK'
  BY <1>27 DEF OtherLocks, client
<1>28. ASSUME NEW t \in Tables, OtherUnlocks(t) PROVE TypeOK'
  BY <1>28 DEF OtherUnlocks, client
<1>29. ASSUME NEW t \in Tables, OtherAlters(t) PROVE TypeOK'
  BY <1>29 DEF OtherAlters, client
<1>30. CASE UNCHANGED vars
  BY <1>30 DEF vars, client, server
<1> QED
  BY <1>1, <1>2, <1>3, <1>4, <1>5, <1>6, <1>7, <1>8, <1>9, <1>10, <1>11, <1>12, <1>13, <1>14,
     <1>15, <1>16, <1>17, <1>18, <1>19, <1>20, <1>21, <1>22, <1>23, <1>24, <1>25, <1>26, <1>27,
     <1>28, <1>29, <1>30, ApplyAssumption
  DEF Next, Tune, Apply, Server, Others, Finished

\* A lock is held by the transaction that altered its table and released with it.
LEMMA LockStep ==
  ASSUME IInv, [Next]_vars
  PROVE  LocksAreStaged'
<1> USE BatchAssumption DEF IInv, TypeOK, LocksAreStaged
<1>1. ASSUME NEW p \in Procs, NewCatalog(p) PROVE LocksAreStaged'
  BY <1>1 DEF NewCatalog, Goto, RunInv, SessionInv, Reading
<1>2. ASSUME NEW p \in Procs, FailBeforeApply(p) PROVE LocksAreStaged'
  BY <1>2 DEF FailBeforeApply, Fail, server, Goto
<1>3. ASSUME NEW p \in Procs, ClusterSettings(p) PROVE LocksAreStaged'
  BY <1>3 DEF ClusterSettings, Goto, server
<1>4. ASSUME NEW p \in Procs, TableSnapshots(p) PROVE LocksAreStaged'
  BY <1>4 DEF TableSnapshots, Goto, server
<1>5. ASSUME NEW p \in Procs, LongTransactions(p) PROVE LocksAreStaged'
  BY <1>5 DEF LongTransactions, Goto, server
<1>6. ASSUME NEW p \in Procs, SendBegin(p) PROVE LocksAreStaged'
  BY <1>6 DEF SendBegin, Send, client, server
<1>7. ASSUME NEW p \in Procs, BeginOk(p) PROVE LocksAreStaged'
  BY <1>7 DEF BeginOk, Goto, Send, server
<1>8. ASSUME NEW p \in Procs, SendExec(p) PROVE LocksAreStaged'
  BY <1>8 DEF SendExec, Send, server
<1>9. ASSUME NEW p \in Procs, ExecOk(p) PROVE LocksAreStaged'
  BY <1>9 DEF ExecOk, Send, server
<1>10. ASSUME NEW p \in Procs, ExecError(p) PROVE LocksAreStaged'
  BY <1>10 DEF ExecError, Goto, Send, server
<1>11. ASSUME NEW p \in Procs, RollbackDone(p) PROVE LocksAreStaged'
  BY <1>11 DEF RollbackDone, Fail, Send, server, Goto
<1>12. ASSUME NEW p \in Procs, SendCommit(p) PROVE LocksAreStaged'
  BY <1>12 DEF SendCommit, Goto, Send, server
<1>13. ASSUME NEW p \in Procs, CommitOk(p) PROVE LocksAreStaged'
  BY <1>13 DEF CommitOk, Goto, Send, server
<1>14. ASSUME NEW p \in Procs, CommitError(p) PROVE LocksAreStaged'
  BY <1>14 DEF CommitError, Fail, Send, server, Goto
<1>15. ASSUME NEW p \in Procs, GiveUp(p) PROVE LocksAreStaged'
  BY <1>15 DEF GiveUp, Fail, server, Goto
<1>16. ASSUME NEW p \in Procs, Render(p) PROVE LocksAreStaged'
  BY <1>16 DEF Render, Goto, server
<1>17. ASSUME NEW p \in Procs, RenderFail(p) PROVE LocksAreStaged'
  BY <1>17 DEF RenderFail, Fail, server, Goto
<1>18. ASSUME NEW p \in Procs, Close(p) PROVE LocksAreStaged'
  BY <1>18 DEF Close, Goto, server
<1>19. ASSUME NEW p \in Procs, Kill(p) PROVE LocksAreStaged'
  BY <1>19 DEF Kill, Goto, server
<1>20. ASSUME NEW p \in Procs, SrvBegin(p) PROVE LocksAreStaged'
  BY <1>20 DEF SrvBegin, Send, client, RunInv, SessionInv, Altered
<1>21. ASSUME NEW p \in Procs, SrvExec(p) PROVE LocksAreStaged'
  <2>1. cur[p] \in Tables /\ settings[cur[p]] \in VacuumSettings /\ batch[p][cur[p]] \in Statement
    BY <1>21 DEF SrvExec, Targets, Batch, RunInv, WireInv
  <2>2. AlterSQL(settings[cur[p]], batch[p][cur[p]]) \in VacuumSettings
    BY <2>1, AlterSQLType
  <2> QED
    BY <1>21, <2>1, <2>2, ApplyAssumption DEF SrvExec, Send, client
<1>22. ASSUME NEW p \in Procs, SrvExecFail(p) PROVE LocksAreStaged'
  BY <1>22 DEF SrvExecFail, Send, EndTransaction, client, NothingStaged
<1>23. ASSUME NEW p \in Procs, SrvCommit(p) PROVE LocksAreStaged'
  BY <1>23 DEF SrvCommit, Send, EndTransaction, client, NothingStaged
<1>24. ASSUME NEW p \in Procs, SrvCommitFail(p) PROVE LocksAreStaged'
  BY <1>24 DEF SrvCommitFail, Send, EndTransaction, client, NothingStaged
<1>25. ASSUME NEW p \in Procs, SrvRollback(p) PROVE LocksAreStaged'
  BY <1>25 DEF SrvRollback, Send, EndTransaction, client, NothingStaged
<1>26. ASSUME NEW p \in Procs, EndSession(p) PROVE LocksAreStaged'
  BY <1>26 DEF EndSession, EndTransaction, client, NothingStaged
<1>27. ASSUME NEW t \in Tables, OtherLocks(t) PROVE LocksAreStaged'
  BY <1>27 DEF OtherLocks, client
<1>28. ASSUME NEW t \in Tables, OtherUnlocks(t) PROVE LocksAreStaged'
  BY <1>28 DEF OtherUnlocks, client
<1>29. ASSUME NEW t \in Tables, OtherAlters(t) PROVE LocksAreStaged'
  BY <1>29 DEF OtherAlters, client
<1>30. CASE UNCHANGED vars
  BY <1>30 DEF vars, client, server
<1> QED
  BY <1>1, <1>2, <1>3, <1>4, <1>5, <1>6, <1>7, <1>8, <1>9, <1>10, <1>11, <1>12, <1>13, <1>14,
     <1>15, <1>16, <1>17, <1>18, <1>19, <1>20, <1>21, <1>22, <1>23, <1>24, <1>25, <1>26, <1>27,
     <1>28, <1>29, <1>30, ApplyAssumption
  DEF Next, Tune, Apply, Server, Others, Finished

\* What is staged stays current: only the holder of a table's lock changes the table,
\* and a run computes no batch while it has something staged.
LEMMA CurrentStep ==
  ASSUME IInv, [Next]_vars
  PROVE  StagedIsCurrent'
<1> USE BatchAssumption DEF IInv, TypeOK, StagedIsCurrent, LocksAreStaged
<1>a. \A p \in Procs, t \in Tables :
          staged[p][t] # Unstaged => session[p] = "intx" /\ lock[t] = p
  BY DEF RunInv, SessionInv, Altered
<1>1. ASSUME NEW p \in Procs, NewCatalog(p) PROVE StagedIsCurrent'
  BY <1>1 DEF NewCatalog, Goto
<1>2. ASSUME NEW p \in Procs, FailBeforeApply(p) PROVE StagedIsCurrent'
  BY <1>2 DEF FailBeforeApply, Fail, server, Goto
<1>3. ASSUME NEW p \in Procs, ClusterSettings(p) PROVE StagedIsCurrent'
  BY <1>3 DEF ClusterSettings, Goto, server
<1>4. ASSUME NEW p \in Procs, TableSnapshots(p) PROVE StagedIsCurrent'
  BY <1>4, <1>a DEF TableSnapshots, Goto, server
<1>5. ASSUME NEW p \in Procs, LongTransactions(p) PROVE StagedIsCurrent'
  BY <1>5 DEF LongTransactions, Goto, server
<1>6. ASSUME NEW p \in Procs, SendBegin(p) PROVE StagedIsCurrent'
  BY <1>6 DEF SendBegin, Send, client, server
<1>7. ASSUME NEW p \in Procs, BeginOk(p) PROVE StagedIsCurrent'
  BY <1>7 DEF BeginOk, Goto, Send, server
<1>8. ASSUME NEW p \in Procs, SendExec(p) PROVE StagedIsCurrent'
  BY <1>8 DEF SendExec, Send, server
<1>9. ASSUME NEW p \in Procs, ExecOk(p) PROVE StagedIsCurrent'
  BY <1>9 DEF ExecOk, Send, server
<1>10. ASSUME NEW p \in Procs, ExecError(p) PROVE StagedIsCurrent'
  BY <1>10 DEF ExecError, Goto, Send, server
<1>11. ASSUME NEW p \in Procs, RollbackDone(p) PROVE StagedIsCurrent'
  BY <1>11 DEF RollbackDone, Fail, Send, server, Goto
<1>12. ASSUME NEW p \in Procs, SendCommit(p) PROVE StagedIsCurrent'
  BY <1>12 DEF SendCommit, Goto, Send, server
<1>13. ASSUME NEW p \in Procs, CommitOk(p) PROVE StagedIsCurrent'
  BY <1>13 DEF CommitOk, Goto, Send, server
<1>14. ASSUME NEW p \in Procs, CommitError(p) PROVE StagedIsCurrent'
  BY <1>14 DEF CommitError, Fail, Send, server, Goto
<1>15. ASSUME NEW p \in Procs, GiveUp(p) PROVE StagedIsCurrent'
  BY <1>15 DEF GiveUp, Fail, server, Goto
<1>16. ASSUME NEW p \in Procs, Render(p) PROVE StagedIsCurrent'
  BY <1>16 DEF Render, Goto, server
<1>17. ASSUME NEW p \in Procs, RenderFail(p) PROVE StagedIsCurrent'
  BY <1>17 DEF RenderFail, Fail, server, Goto
<1>18. ASSUME NEW p \in Procs, Close(p) PROVE StagedIsCurrent'
  BY <1>18 DEF Close, Goto, server
<1>19. ASSUME NEW p \in Procs, Kill(p) PROVE StagedIsCurrent'
  BY <1>19 DEF Kill, Goto, server
<1>20. ASSUME NEW p \in Procs, SrvBegin(p) PROVE StagedIsCurrent'
  BY <1>20 DEF SrvBegin, Send, client
<1>21. ASSUME NEW p \in Procs, SrvExec(p) PROVE StagedIsCurrent'
  <2>1. cur[p] \in Tables /\ settings[cur[p]] \in VacuumSettings /\ batch[p][cur[p]] \in Statement
    BY <1>21 DEF SrvExec, Targets, Batch, RunInv, WireInv
  <2>2. AlterSQL(settings[cur[p]], batch[p][cur[p]]) \in VacuumSettings
    BY <2>1, AlterSQLType
  <2> QED
    BY <1>21, <2>1, <2>2 DEF SrvExec, Send, client
<1>22. ASSUME NEW p \in Procs, SrvExecFail(p) PROVE StagedIsCurrent'
  BY <1>22 DEF SrvExecFail, Send, EndTransaction, client, NothingStaged
<1>23. ASSUME NEW p \in Procs, SrvCommit(p) PROVE StagedIsCurrent'
  BY <1>23, <1>a DEF SrvCommit, Altered, EndTransaction, NothingStaged, Send, client
<1>24. ASSUME NEW p \in Procs, SrvCommitFail(p) PROVE StagedIsCurrent'
  BY <1>24 DEF SrvCommitFail, Send, EndTransaction, client, NothingStaged
<1>25. ASSUME NEW p \in Procs, SrvRollback(p) PROVE StagedIsCurrent'
  BY <1>25 DEF SrvRollback, Send, EndTransaction, client, NothingStaged
<1>26. ASSUME NEW p \in Procs, EndSession(p) PROVE StagedIsCurrent'
  BY <1>26 DEF EndSession, EndTransaction, client, NothingStaged
<1>27. ASSUME NEW t \in Tables, OtherLocks(t) PROVE StagedIsCurrent'
  BY <1>27 DEF OtherLocks, client
<1>28. ASSUME NEW t \in Tables, OtherUnlocks(t) PROVE StagedIsCurrent'
  BY <1>28 DEF OtherUnlocks, client
<1>29. ASSUME NEW t \in Tables, OtherAlters(t) PROVE StagedIsCurrent'
  BY <1>29, <1>a DEF OtherAlters, client
<1>30. CASE UNCHANGED vars
  BY <1>30 DEF vars, client, server
<1> QED
  BY <1>1, <1>2, <1>3, <1>4, <1>5, <1>6, <1>7, <1>8, <1>9, <1>10, <1>11, <1>12, <1>13, <1>14,
     <1>15, <1>16, <1>17, <1>18, <1>19, <1>20, <1>21, <1>22, <1>23, <1>24, <1>25, <1>26, <1>27,
     <1>28, <1>29, <1>30, ApplyAssumption
  DEF Next, Tune, Apply, Server, Others, Finished

\* IInv is an invariant of TuneApply.
THEOREM Invariance == Spec => []IInv
<1>1. IInv /\ [Next]_vars => IInv'
  BY RunStep, TypeStep, LockStep, CurrentStep DEF IInv
<1> QED
  BY InitIInv, <1>1, PTL DEF Spec

-----------------------------------------------------------------------------
(* What IInv implies.                                                      *)

\* The variables keep their types.
THEOREM TypeCorrect == Spec => []TypeOK
BY Invariance, PTL DEF IInv

\* A run that says "applied" has committed its whole batch; one that says "dry-run"
\* never will.
THEOREM ToldTheTruthHolds == Spec => []ToldTheTruth
<1>1. IInv => ToldTheTruth
  BY DEF IInv, RunInv, WireInv, LandedInv, ToldTheTruth, TypeOK, Applying
<1> QED
  BY <1>1, Invariance, PTL

\* Only batches of which every statement succeeded are committed.
THEOREM LandedWholeHolds == Spec => []LandedWhole
<1>1. IInv => LandedWhole
  BY DEF IInv, RunInv, LandedInv, LandedWhole, WantsApply, TypeOK
<1> QED
  BY <1>1, Invariance, PTL

\* No lock outlives the transaction of its run.
THEOREM LocksAreStagedHolds == Spec => []LocksAreStaged
BY Invariance, PTL DEF IInv

\* A batch lands by the COMMIT of its own session.
LEMMA LandsByCommit ==
  ASSUME IInv, [Next]_vars, NEW p \in landed' \ landed
  PROVE  p \in Procs /\ SrvCommit(p)
BY DEF Next, Finished, vars, client, server, Tune, Apply, Server, Others, Kill,
       NewCatalog, ClusterSettings, TableSnapshots, LongTransactions, FailBeforeApply,
       SendBegin, BeginOk, SendExec, ExecOk, ExecError, RollbackDone, SendCommit, CommitOk,
       CommitError, GiveUp, Render, RenderFail, Close, SrvBegin, SrvExec, SrvExecFail,
       SrvCommit, SrvCommitFail, SrvRollback, EndSession, OtherLocks, OtherUnlocks, OtherAlters

-----------------------------------------------------------------------------
(* What a plan is worth that was made before BEGIN.                        *)

\* The plan of a run still raises cost_limit of a table nobody has altered.
PlanRaises == \A p \in Procs, t \in Tables \ OtherTables :
    author[t] = Other /\ batch[p][t][CostLimit] # Keep
        => batch[p][t][CostLimit] > settings[t][CostLimit]

\* PlanRaises is inductive: who changes a table's settings becomes its author.
LEMMA PlanStep == IInv /\ PlanRaises /\ [Next]_vars => PlanRaises'
<1> SUFFICES ASSUME IInv, PlanRaises, [Next]_vars,
                    NEW p \in Procs, NEW t \in Tables \ OtherTables,
                    author'[t] = Other, batch'[p][t][CostLimit] # Keep
             PROVE  batch'[p][t][CostLimit] > settings'[t][CostLimit]
  BY DEF PlanRaises
<1> USE DEF IInv, TypeOK
<1>1. CASE batch' = batch /\ settings' = settings /\ author' = author
  BY <1>1 DEF PlanRaises
<1>2. ASSUME NEW q \in Procs, TableSnapshots(q)
      PROVE  batch'[p][t][CostLimit] > settings'[t][CostLimit]
  <2>1. PICK b \in Recommendations(settings) : batch' = [batch EXCEPT ![q] = b]
    BY <1>2 DEF TableSnapshots
  <2>2. settings' = settings /\ author' = author
    BY <1>2 DEF TableSnapshots, server
  <2>3. CASE q = p
    <3>1. batch'[p] = b /\ b[t] \in Recommend(settings[t])
      BY <2>1, <2>3 DEF Recommendations
    <3> QED
      BY <2>2, <3>1 DEF Recommend
  <2>4. CASE q # p
    <3>1. batch'[p] = batch[p]
      BY <2>1, <2>4
    <3> QED
      BY <2>2, <3>1 DEF PlanRaises
  <2> QED
    BY <2>3, <2>4
<1>3. ASSUME NEW q \in Procs, SrvCommit(q)
      PROVE  batch'[p][t][CostLimit] > settings'[t][CostLimit]
  <2>1. t \notin Altered(q)
    BY <1>3, BatchAssumption DEF SrvCommit
  <2>2. settings'[t] = settings[t] /\ author'[t] = author[t] /\ batch' = batch
    BY <1>3, <2>1 DEF SrvCommit, client
  <2> QED
    BY <2>2 DEF PlanRaises
<1>4. ASSUME NEW u \in OtherTables, OtherAlters(u)
      PROVE  batch'[p][t][CostLimit] > settings'[t][CostLimit]
  <2>1. settings'[t] = settings[t] /\ author'[t] = author[t] /\ batch' = batch
    BY <1>4, ApplyAssumption DEF OtherAlters, client
  <2> QED
    BY <2>1 DEF PlanRaises
<1>5. \/ batch' = batch /\ settings' = settings /\ author' = author
      \/ \E q \in Procs : TableSnapshots(q) \/ SrvCommit(q)
      \/ \E u \in OtherTables : OtherAlters(u)
  BY DEF Next, Finished, vars, client, server, Tune, Apply, Server, Others, Kill,
         NewCatalog, ClusterSettings, LongTransactions, FailBeforeApply, SendBegin, BeginOk,
         SendExec, ExecOk, ExecError, RollbackDone, SendCommit, CommitOk, CommitError, GiveUp,
         Render, RenderFail, Close, SrvBegin, SrvExec, SrvExecFail, SrvCommitFail, SrvRollback,
         EndSession, OtherLocks, OtherUnlocks
<1> QED
  BY <1>1, <1>2, <1>3, <1>4, <1>5

\* The first run to commit to a table never lowers its cost_limit: what CommitRaisesCostLimit
\* demands fails only where somebody altered the table between the read and the commit.
THEOREM FirstCommitRaisesHolds == Spec => FirstCommitRaises
<1> DEFINE Raises == \A p \in landed' \ landed, t \in Tables \ OtherTables :
               author[t] = Other => settings'[t][CostLimit] >= settings[t][CostLimit]
<1>1. Init => PlanRaises
  BY BatchAssumption DEF Init, PlanRaises, EmptyBatch, NoChange
<1>2. IInv /\ PlanRaises /\ [Next]_vars => [Raises]_vars
  <2> SUFFICES ASSUME IInv, PlanRaises, [Next]_vars,
                      NEW p \in landed' \ landed, NEW t \in Tables \ OtherTables,
                      author[t] = Other
               PROVE  settings'[t][CostLimit] >= settings[t][CostLimit]
    OBVIOUS
  <2> USE DEF IInv, TypeOK
  <2>1. p \in Procs /\ SrvCommit(p)
    BY LandsByCommit
  <2>2. settings[t][CostLimit] \in Nat
    <3>1. settings[t] \in VacuumSettings
      OBVIOUS
    <3> QED
      BY <3>1, BatchAssumption DEF VacuumSettings
  <2>3. CASE t \in Altered(p)
    <3>1. settings'[t] = AlterSQL(settings[t], batch[p][t])
      BY <2>1, <2>3 DEF SrvCommit, Altered, StagedIsCurrent
    <3>2. settings'[t][CostLimit] = IF batch[p][t][CostLimit] = Keep
                                   THEN settings[t][CostLimit] ELSE batch[p][t][CostLimit]
      BY <3>1, BatchAssumption DEF AlterSQL
    <3>3. batch[p][t][CostLimit] # Keep => batch[p][t][CostLimit] \in Nat
      <4>1. batch[p] \in Batch
        BY <2>1
      <4>2. batch[p][t] \in Statement
        BY <4>1 DEF Batch
      <4> QED
        BY <4>2, BatchAssumption DEF Statement
    <3>4. batch[p][t][CostLimit] # Keep => batch[p][t][CostLimit] > settings[t][CostLimit]
      BY <2>1 DEF PlanRaises
    <3> QED
      BY <2>2, <3>2, <3>3, <3>4
  <2>4. CASE t \notin Altered(p)
    <3>1. settings'[t] = settings[t]
      BY <2>1, <2>4 DEF SrvCommit
    <3> QED
      BY <2>2, <3>1, BatchAssumption
  <2> QED
    BY <2>3, <2>4
<1> QED
  BY <1>1, <1>2, PlanStep, Invariance, PTL DEF Spec, FirstCommitRaises

-----------------------------------------------------------------------------
(* Nobody's change is taken back.                                          *)

\* A statement names no option with the value its run has read.
StatementsDiffer == \A p \in Procs : MayCommit(p) =>
    /\ read[p] \in [Tables -> VacuumSettings]
    /\ \A t \in Tables, o \in Options : batch[p][t][o] # read[p][t][o]

\* A run has a batch to commit from the read of the tables on, and computes it once.
LEMMA BatchIsKept ==
  ASSUME IInv, [Next]_vars, NEW p \in Procs, MayCommit(p)'
  PROVE  \/ pc[p] = "snaps" /\ TableSnapshots(p)
         \/ pc[p] # "snaps" /\ MayCommit(p) /\ batch'[p] = batch[p]
<1> USE DEF MayCommit, Applying, Goto, Send, Fail, server, client, vars
<1> TypeOK /\ WireInv(p)
  BY DEF IInv, RunInv
<1>1. CASE pc'[p] = pc[p] /\ wire'[p] = wire[p] /\ batch'[p] = batch[p]
  BY <1>1 DEF WireInv, Reading
<1>2. ASSUME NEW q \in Procs, Tune(q) \/ Kill(q) \/ Server(q), q # p
      PROVE  pc'[p] = pc[p] /\ wire'[p] = wire[p] /\ batch'[p] = batch[p]
  BY <1>2 DEF TypeOK, Tune, Apply, Server, Kill, NewCatalog, ClusterSettings, TableSnapshots,
       LongTransactions, FailBeforeApply, SendBegin, BeginOk, SendExec, ExecOk, ExecError,
       RollbackDone, SendCommit, CommitOk, CommitError, GiveUp, Render, RenderFail, Close,
       SrvBegin, SrvExec, SrvExecFail, SrvCommit, SrvCommitFail, SrvRollback, EndSession
<1>3. ASSUME \/ NewCatalog(p) \/ ClusterSettings(p) \/ FailBeforeApply(p) \/ LongTransactions(p)
             \/ Render(p) \/ RenderFail(p) \/ Close(p) \/ Kill(p)
      PROVE  pc[p] # "snaps" /\ MayCommit(p) /\ batch'[p] = batch[p]
  BY <1>3 DEF TypeOK, WireInv, Reading, NewCatalog, ClusterSettings, FailBeforeApply,
       LongTransactions, Render, RenderFail, Close, Kill
<1>4. ASSUME Apply(p)
      PROVE  pc[p] # "snaps" /\ MayCommit(p) /\ batch'[p] = batch[p]
  BY <1>4 DEF Apply, SendBegin, BeginOk, SendExec, ExecOk, ExecError, RollbackDone, SendCommit,
       CommitOk, CommitError, GiveUp
<1>5. ASSUME Server(p)
      PROVE  pc[p] # "snaps" /\ MayCommit(p) /\ batch'[p] = batch[p]
  BY <1>5 DEF TypeOK, WireInv, Reading, Server, SrvBegin, SrvExec, SrvExecFail, SrvCommit,
       SrvCommitFail, SrvRollback, EndSession
<1>6. ASSUME NEW t \in OtherTables, Others(t)
      PROVE  pc'[p] = pc[p] /\ wire'[p] = wire[p] /\ batch'[p] = batch[p]
  BY <1>6 DEF Others, OtherLocks, OtherUnlocks, OtherAlters
<1>7. TableSnapshots(p) => pc[p] = "snaps"
  BY DEF TableSnapshots
<1> QED
  BY <1>1, <1>2, <1>3, <1>4, <1>5, <1>6, <1>7 DEF Next, Tune, Finished

\* StatementsDiffer is inductive: TableSnapshots computes the batch from what it returns.
LEMMA DifferStep ==
  ASSUME IInv, StatementsDiffer, [ReadNext]_readVars
  PROVE  StatementsDiffer'
<1>1. CASE UNCHANGED readVars
  BY <1>1 DEF readVars, vars, client, StatementsDiffer, MayCommit
<1>2. ASSUME ReadNext, NEW p \in Procs, MayCommit(p)'
      PROVE  /\ read'[p] \in [Tables -> VacuumSettings]
             /\ \A t \in Tables, o \in Options : batch'[p][t][o] # read'[p][t][o]
  <2>1. read'[p] = IF pc[p] = "snaps" THEN settings ELSE read[p]
    BY <1>2 DEF ReadNext
  <2>2. CASE pc[p] = "snaps" /\ TableSnapshots(p)
    <3>1. PICK b \in Recommendations(settings) : batch' = [batch EXCEPT ![p] = b]
      BY <2>2 DEF TableSnapshots
    <3>2. batch'[p] = b /\ settings \in [Tables -> VacuumSettings]
      BY <3>1 DEF IInv, TypeOK
    <3> QED
      BY <2>1, <2>2, <3>2 DEF Recommendations, Recommend
  <2>3. CASE pc[p] # "snaps" /\ MayCommit(p) /\ batch'[p] = batch[p]
    BY <2>1, <2>3 DEF StatementsDiffer
  <2> QED
    BY <1>2, <2>2, <2>3, BatchIsKept DEF ReadNext
<1> QED
  BY <1>1, <1>2 DEF StatementsDiffer

\* No commit takes back what somebody else has set since its run read the tables: an option
\* the commit changes is one its statement names, and with another value than was read.
THEOREM NothingPutBackHolds == ReadSpec => NothingPutBack
<1> DEFINE NotBack == \A p \in landed' \ landed, t \in Tables, o \in Options :
               settings'[t][o] # settings[t][o] => read[p][t][o] \in Levels \ {settings'[t][o]}
<1>1. ReadInit => Init /\ StatementsDiffer
  BY DEF ReadInit, Init, StatementsDiffer, MayCommit, Applying
<1>2. [ReadNext]_readVars => [Next]_vars
  BY DEF ReadNext, readVars
<1>3. IInv /\ StatementsDiffer /\ [ReadNext]_readVars => [NotBack]_readVars
  <2> SUFFICES ASSUME IInv, StatementsDiffer, [ReadNext]_readVars,
                      NEW p \in landed' \ landed, NEW t \in Tables, NEW o \in Options,
                      settings'[t][o] # settings[t][o]
               PROVE  read[p][t][o] \in Levels \ {settings'[t][o]}
    OBVIOUS
  <2>1. p \in Procs /\ SrvCommit(p)
    BY <1>2, LandsByCommit
  <2>2. read[p] \in [Tables -> VacuumSettings] /\ batch[p][t][o] # read[p][t][o]
    BY <2>1 DEF StatementsDiffer, MayCommit, SrvCommit
  <2>3. t \in Altered(p) /\ settings'[t] = AlterSQL(settings[t], batch[p][t])
    BY <2>1 DEF SrvCommit, Altered, IInv, StagedIsCurrent
  <2>4. settings'[t][o] = batch[p][t][o]
    BY <2>3 DEF AlterSQL
  <2> QED
    BY <2>2, <2>4 DEF VacuumSettings
<1>4. IInv /\ StatementsDiffer /\ [ReadNext]_readVars => StatementsDiffer'
  BY DifferStep
<1>5. ReadSpec => Spec
  BY <1>1, <1>2, PTL DEF ReadSpec, Spec
<1> QED
  BY <1>1, <1>3, <1>4, <1>5, Invariance, PTL DEF ReadSpec, NothingPutBack

-----------------------------------------------------------------------------
(* TuneApply implements AtomicBatch.                                       *)

\* The operators of AtomicBatch are those of ReloptionBatch.
LEMMA PromiseOperators ==
    /\ \A old, stmt : Promise!AlterSQL(old, stmt) = AlterSQL(old, stmt)
    /\ \A b : Promise!Targets(b) = Targets(b)
    /\ \A found : Promise!Recommendations(found) = Recommendations(found)
    /\ Promise!EmptyBatch = EmptyBatch
    /\ Promise!VacuumSettings = VacuumSettings
BY DEF AlterSQL, Promise!AlterSQL, Targets, Promise!Targets, Changed, Promise!Changed,
       NoChange, Promise!NoChange, EmptyBatch, Promise!EmptyBatch,
       VacuumSettings, Promise!VacuumSettings, Statement, Promise!Statement,
       Batch, Promise!Batch, Recommend, Promise!Recommend,
       Recommendations, Promise!Recommendations

\* A COMMIT the server executes is the whole batch taking effect.
LEMMA CommitAppliesBatch ==
  ASSUME IInv, NEW p \in Procs, SrvCommit(p)
  PROVE  Promise!ApplyBatch(p)
<1> USE DEF IInv, TypeOK, RunInv
<1>1. mode[p] /\ p \notin landed /\ told[p] \in {"nothing", "failed"}
  BY DEF SrvCommit, WireInv, LandedInv, WantsApply
<1>2. Altered(p) = Targets(batch[p])
  BY DEF SrvCommit, WireInv, SessionInv
<1>3. ASSUME NEW t \in Tables PROVE settings'[t] = AlterSQL(settings[t], batch[p][t])
  <2>1. CASE t \in Altered(p)
    BY <2>1 DEF SrvCommit, Altered, StagedIsCurrent
  <2>2. CASE t \notin Altered(p)
    <3>1. batch[p][t] = NoChange
      BY <1>2, <2>2 DEF Targets, Changed
    <3> QED
      BY <2>2, <3>1, AlterSQLNoChange DEF SrvCommit
  <2> QED
    BY <2>1, <2>2
<1>4. settings' = [t \in Tables |-> AlterSQL(settings[t], batch[p][t])]
  BY <1>3 DEF SrvCommit
<1>5. author' = [t \in Tables |-> IF t \in Targets(batch[p]) THEN p ELSE author[t]]
  BY <1>2 DEF SrvCommit
<1> QED
  BY <1>1, <1>4, <1>5, PromiseOperators DEF Promise!ApplyBatch, SrvCommit, client

\* What a run tells its user is what AtomicBatch lets it tell.
LEMMA AnswersAreTold ==
  ASSUME IInv, NEW p \in Procs, Render(p) \/ RenderFail(p)
  PROVE  Promise!Tell(p)
<1> USE DEF IInv, TypeOK, RunInv, ClientInv, LandedInv
<1>1. CASE Render(p)
  BY <1>1 DEF Render, Goto, server, Promise!Tell
<1>2. CASE RenderFail(p)
  BY <1>2 DEF RenderFail, Fail, Goto, server, Promise!Tell
<1> QED
  BY <1>1, <1>2

LEMMA FailuresAreTold ==
  ASSUME IInv, NEW p \in Procs,
         FailBeforeApply(p) \/ RollbackDone(p) \/ CommitError(p) \/ GiveUp(p) \/ Kill(p)
  PROVE  Promise!Tell(p) \/ UNCHANGED Promise!avars
<1> USE DEF IInv, TypeOK, RunInv, ClientInv, Applying, Fail, Goto, server, Promise!Tell, Promise!avars
<1>1. CASE FailBeforeApply(p)
  BY <1>1 DEF FailBeforeApply
<1>2. CASE RollbackDone(p)
  BY <1>2 DEF RollbackDone
<1>3. CASE CommitError(p)
  BY <1>3 DEF CommitError
<1>4. CASE GiveUp(p)
  BY <1>4 DEF GiveUp
<1>5. CASE Kill(p)
  BY <1>5 DEF Kill
<1> QED
  BY <1>1, <1>2, <1>3, <1>4, <1>5

\* Reading the tables computes the run's batch.
LEMMA SnapshotComputes ==
  ASSUME IInv, NEW p \in Procs, TableSnapshots(p)
  PROVE  Promise!Compute(p)
BY PromiseOperators DEF IInv, TypeOK, RunInv, ClientInv, TableSnapshots, server, Promise!Compute

\* Every other step of a run or of the server is invisible to its user.
LEMMA OtherStepsStutter ==
  ASSUME NEW p \in Procs,
         \/ NewCatalog(p) \/ ClusterSettings(p) \/ LongTransactions(p)
         \/ SendBegin(p) \/ BeginOk(p) \/ SendExec(p) \/ ExecOk(p) \/ ExecError(p)
         \/ SendCommit(p) \/ CommitOk(p) \/ Close(p)
         \/ SrvBegin(p) \/ SrvExec(p) \/ SrvExecFail(p) \/ SrvCommitFail(p) \/ SrvRollback(p)
         \/ EndSession(p)
  PROVE  UNCHANGED Promise!avars
BY DEF Promise!avars, client, server,
       NewCatalog, ClusterSettings, LongTransactions,
       SendBegin, BeginOk, SendExec, ExecOk, ExecError, SendCommit, CommitOk, Close,
       SrvBegin, SrvExec, SrvExecFail, SrvCommitFail, SrvRollback, EndSession

\* Other sessions alter one table, or only lock it.
LEMMA OthersAlter ==
  ASSUME NEW t \in Tables, Others(t)
  PROVE  Promise!AlterByOther(t) \/ UNCHANGED Promise!avars
BY PromiseOperators DEF Others, OtherLocks, OtherUnlocks, OtherAlters, client,
                        Promise!AlterByOther, Promise!avars

\* Catalog.Apply, with its sessions, locks, timeouts and lost connections, keeps the
\* promise of AtomicBatch: a batch takes effect at once or never, at most once, and
\* the run says what happened.
THEOREM ImplementsHolds == Spec => Implements
<1>1. Init => Promise!AInit
  BY PromiseOperators DEF Init, Promise!AInit
<1>2. IInv /\ [Next]_vars => [Promise!ANext]_(Promise!avars)
  <2> SUFFICES ASSUME IInv, [Next]_vars
               PROVE  Promise!ANext \/ UNCHANGED Promise!avars
    OBVIOUS
  <2>1. ASSUME NEW p \in Procs, Tune(p) \/ Kill(p) \/ Server(p)
        PROVE  Promise!ANext \/ UNCHANGED Promise!avars
    BY <2>1, CommitAppliesBatch, AnswersAreTold, FailuresAreTold, SnapshotComputes, OtherStepsStutter
       DEF Tune, Apply, Server, Promise!ANext
  <2>2. ASSUME NEW t \in OtherTables, Others(t)
        PROVE  Promise!ANext \/ UNCHANGED Promise!avars
    BY <2>2, OthersAlter, ApplyAssumption DEF Promise!ANext
  <2>3. CASE UNCHANGED vars
    BY <2>3 DEF vars, client, server, Promise!avars
  <2> QED
    BY <2>1, <2>2, <2>3 DEF Next, Finished
<1> QED
  BY <1>1, <1>2, Invariance, PTL DEF Spec, Implements, Promise!ASpec

-----------------------------------------------------------------------------
(* How long a run can be.                                                  *)

\* The run waits for the answer to a statement of its batch it has not executed yet.
CurIsOpen == \A p \in Procs :
    pc[p] = "exec" /\ wire[p] # "idle" => cur[p] \in Targets(batch[p]) \ executed[p]

NStatements(p) == Cardinality(Targets(batch[p]) \ executed[p])

Waits(p) == IF wire[p] = "idle" THEN 0 ELSE 1

\* The most steps of its own the run has left. Every statement takes two, the request and
\* its answer.
StepsLeft(p) ==
    CASE pc[p] = "start" -> 2 * Cardinality(Tables) + 10
      [] pc[p] = "cluster" -> 2 * Cardinality(Tables) + 9
      [] pc[p] = "snaps" -> 2 * Cardinality(Tables) + 8
      [] pc[p] = "xacts" -> 2 * Cardinality(Tables) + 7
      [] pc[p] = "begin" -> 2 * Cardinality(Tables) + 6 - Waits(p)
      [] pc[p] = "exec" -> 2 * NStatements(p) + 4 - Waits(p)
      [] pc[p] = "commit" -> 3
      [] pc[p] \in {"rollback", "render"} -> 2
      [] pc[p] = "close" -> 1
      [] pc[p] = "done" -> 0

LEMMA CurStep == IInv /\ CurIsOpen /\ [Next]_vars => CurIsOpen'
<1> SUFFICES ASSUME IInv, CurIsOpen, [Next]_vars, NEW q \in Procs,
                    pc'[q] = "exec", wire'[q] # "idle"
             PROVE  cur'[q] \in Targets(batch'[q]) \ executed'[q]
  BY DEF CurIsOpen, Targets
<1> USE DEF IInv, TypeOK, CurIsOpen, Applying, Goto, Send, Fail
<1>1. CASE UNCHANGED <<pc, cur, batch, executed>> /\ wire[q] # "idle"
  BY <1>1
<1>2. ASSUME NEW p \in Procs, SendExec(p)
      PROVE  cur'[q] \in Targets(batch'[q]) \ executed'[q]
  BY <1>2 DEF SendExec
<1>3. ASSUME NEW p \in Procs, ExecOk(p)
      PROVE  cur'[q] \in Targets(batch'[q]) \ executed'[q]
  BY <1>3 DEF ExecOk
<1>4. ASSUME NEW p \in Procs,
             \/ NewCatalog(p) \/ ClusterSettings(p) \/ TableSnapshots(p) \/ LongTransactions(p)
             \/ FailBeforeApply(p) \/ SendBegin(p) \/ BeginOk(p) \/ ExecError(p) \/ RollbackDone(p)
             \/ SendCommit(p) \/ CommitOk(p) \/ CommitError(p) \/ GiveUp(p)
             \/ Render(p) \/ RenderFail(p) \/ Close(p) \/ Kill(p)
      PROVE  cur'[q] \in Targets(batch'[q]) \ executed'[q]
  <2>1. q # p /\ UNCHANGED cur
    BY <1>4 DEF client, NewCatalog, ClusterSettings, TableSnapshots, LongTransactions,
       FailBeforeApply, SendBegin, BeginOk, ExecError, RollbackDone, SendCommit, CommitOk,
       CommitError, GiveUp, Render, RenderFail, Close, Kill
  <2>2. pc'[q] = pc[q] /\ wire'[q] = wire[q] /\ batch'[q] = batch[q] /\ executed'[q] = executed[q]
    BY <1>4, <2>1 DEF client, NewCatalog, ClusterSettings, TableSnapshots, LongTransactions,
       FailBeforeApply, SendBegin, BeginOk, ExecError, RollbackDone, SendCommit, CommitOk,
       CommitError, GiveUp, Render, RenderFail, Close, Kill
  <2> QED
    BY <2>1, <2>2
<1>5. ASSUME NEW p \in Procs, Server(p)
      PROVE  UNCHANGED <<pc, cur, batch, executed>> /\ wire[q] # "idle"
  BY <1>5 DEF Server, client, SrvBegin, SrvExec, SrvExecFail, SrvCommit, SrvCommitFail,
       SrvRollback, EndSession
<1>6. ASSUME NEW t \in OtherTables, Others(t)
      PROVE  UNCHANGED <<pc, cur, batch, executed>> /\ wire[q] # "idle"
  BY <1>6 DEF Others, client, OtherLocks, OtherUnlocks, OtherAlters
<1>7. CASE UNCHANGED vars
  BY <1>7 DEF vars, client
<1> QED
  BY <1>1, <1>2, <1>3, <1>4, <1>5, <1>6, <1>7 DEF Next, Finished, Tune, Apply

\* A batch has at most one statement per table.
LEMMA StatementsLeft ==
  ASSUME IsFiniteSet(Tables), TypeOK, NEW p \in Procs
  PROVE  /\ IsFiniteSet(Targets(batch[p]) \ executed[p])
         /\ NStatements(p) \in Nat /\ NStatements(p) <= Cardinality(Tables)
         /\ Cardinality(Tables) \in Nat
<1>1. Targets(batch[p]) \ executed[p] \subseteq Tables
  BY DEF Targets
<1> QED
  BY <1>1, FS_Subset, FS_CardinalityType DEF NStatements

LEMMA OwnStep ==
  ASSUME IsFiniteSet(Tables), IInv, CurIsOpen, TypeOK', NEW p \in Procs, Tune(p) \/ Kill(p)
  PROVE  StepsLeft(p)' < StepsLeft(p)
<1> DEFINE N == Cardinality(Tables)
           n == NStatements(p)
<1>1. /\ N \in Nat /\ n \in Nat
      /\ NStatements(p)' \in Nat /\ NStatements(p)' <= N
  <2>1. Targets(batch[p]) \ executed[p] \subseteq Tables /\ Targets(batch'[p]) \ executed'[p] \subseteq Tables
    BY DEF Targets
  <2> QED
    BY <2>1, FS_Subset, FS_CardinalityType DEF NStatements
<1> HIDE DEF N, n
<1> USE DEF Goto, Send, Fail, Waits, Applying
<1>2. pc \in [Procs -> {"start", "cluster", "snaps", "xacts", "render", "close", "done"} \cup Applying]
      /\ wire \in [Procs -> {"idle", "ok", "error"} \cup Applying]
  BY DEF IInv, TypeOK
<1>3. CASE NewCatalog(p) \/ ClusterSettings(p) \/ TableSnapshots(p)
  BY <1>1, <1>2, <1>3 DEF StepsLeft, NewCatalog, ClusterSettings, TableSnapshots, N
<1>4. CASE LongTransactions(p)
  BY <1>1, <1>2, <1>4 DEF StepsLeft, LongTransactions, N
<1>5. CASE FailBeforeApply(p)
  BY <1>1, <1>2, <1>5 DEF StepsLeft, FailBeforeApply, N
<1>6. CASE SendBegin(p)
  BY <1>1, <1>2, <1>6 DEF StepsLeft, SendBegin, client, N
<1>7. CASE BeginOk(p)
  BY <1>1, <1>2, <1>7 DEF StepsLeft, BeginOk, N
<1>8. CASE SendExec(p)
  <2>1. NStatements(p)' = n
    BY <1>8 DEF SendExec, NStatements, n
  <2> QED
    BY <1>1, <1>2, <1>8, <2>1 DEF StepsLeft, SendExec, n
<1>9. CASE ExecOk(p)
  <2> DEFINE S == Targets(batch[p]) \ executed[p]
  <2>1. cur[p] \in S
    BY <1>9 DEF ExecOk, CurIsOpen
  <2>2. executed'[p] = executed[p] \cup {cur[p]} /\ batch' = batch
    BY <1>9 DEF ExecOk, IInv, TypeOK
  <2>3. Targets(batch'[p]) \ executed'[p] = S \ {cur[p]}
    BY <2>2
  <2>4. IsFiniteSet(S)
    BY FS_Subset DEF Targets
  <2>5. NStatements(p)' = n - 1
    <3>1. n = Cardinality(S) /\ NStatements(p)' = Cardinality(S \ {cur[p]})
      BY <2>3 DEF NStatements, n
    <3> HIDE DEF S
    <3> QED
      BY <2>1, <2>4, <3>1, FS_RemoveElement
  <2> QED
    BY <1>1, <1>2, <1>9, <2>5 DEF StepsLeft, ExecOk, n
<1>10. CASE ExecError(p) \/ SendCommit(p)
  BY <1>1, <1>2, <1>10 DEF StepsLeft, ExecError, SendCommit, n
<1>11. CASE RollbackDone(p) \/ CommitOk(p) \/ CommitError(p)
  BY <1>2, <1>11 DEF StepsLeft, RollbackDone, CommitOk, CommitError
<1>12. CASE GiveUp(p)
  BY <1>1, <1>2, <1>12 DEF StepsLeft, GiveUp, n, N
<1>13. CASE Render(p) \/ RenderFail(p) \/ Close(p)
  BY <1>2, <1>13 DEF StepsLeft, Render, RenderFail, Close
<1>14. CASE Kill(p)
  BY <1>1, <1>2, <1>14 DEF StepsLeft, Kill, n, N
<1> QED
  BY <1>3, <1>4, <1>5, <1>6, <1>7, <1>8, <1>9, <1>10, <1>11, <1>12, <1>13, <1>14 DEF Tune, Apply

\* What the server, the other runs and other sessions do costs a run no step.
LEMMA ForeignStep ==
  ASSUME IInv, [Next]_vars, NEW p \in Procs, ~(Tune(p) \/ Kill(p))
  PROVE  StepsLeft(p)' = StepsLeft(p)
<1> SUFFICES /\ pc'[p] = pc[p] /\ batch'[p] = batch[p] /\ executed'[p] = executed[p]
             /\ wire'[p] = "idle" <=> wire[p] = "idle"
  BY DEF StepsLeft, NStatements, Waits
<1> USE DEF IInv, TypeOK, Send, Goto, Fail
<1>1. ASSUME NEW q \in Procs, q # p, Tune(q) \/ Kill(q)
      PROVE  /\ pc'[p] = pc[p] /\ batch'[p] = batch[p] /\ executed'[p] = executed[p]
             /\ wire'[p] = wire[p]
  BY <1>1 DEF Tune, Apply, Kill, client,
       NewCatalog, ClusterSettings, TableSnapshots, LongTransactions, FailBeforeApply,
       SendBegin, BeginOk, SendExec, ExecOk, ExecError, RollbackDone, SendCommit, CommitOk,
       CommitError, GiveUp, Render, RenderFail, Close
<1>2. ASSUME NEW q \in Procs, Server(q)
      PROVE  UNCHANGED client /\ (wire'[p] = "idle" <=> wire[p] = "idle")
  BY <1>2 DEF Server, client, SrvBegin, SrvExec, SrvExecFail, SrvCommit, SrvCommitFail,
       SrvRollback, EndSession
<1>3. ASSUME NEW t \in OtherTables, Others(t)
      PROVE  UNCHANGED <<client, wire>>
  BY <1>3 DEF Others, OtherLocks, OtherUnlocks, OtherAlters, client
<1>4. CASE UNCHANGED vars
  BY <1>4 DEF vars, client
<1> QED
  BY <1>1, <1>2, <1>3, <1>4 DEF Next, Finished, client

\* Every run has at most 2N + 10 steps for N tables, each of them brings it closer to its
\* end, and nothing the server, other runs or other sessions do adds to them: there is no
\* retry, and no statement is sent twice. With the fairness of FairSpec, this is why a run
\* terminates.
THEOREM RunsAreShort ==
  ASSUME IsFiniteSet(Tables)
  PROVE  Spec => [][\A p \in Procs :
                       /\ StepsLeft(p) \in 0 .. 2 * Cardinality(Tables) + 10
                       /\ (Tune(p) \/ Kill(p)) => StepsLeft(p)' < StepsLeft(p)
                       /\ ~(Tune(p) \/ Kill(p)) => StepsLeft(p)' = StepsLeft(p)]_vars
<1>1. Init => CurIsOpen
  BY DEF Init, CurIsOpen
<1>2. ASSUME TypeOK, NEW p \in Procs
      PROVE  StepsLeft(p) \in 0 .. 2 * Cardinality(Tables) + 10
  <2> DEFINE N == Cardinality(Tables)
  <2>1. NStatements(p) \in Nat /\ NStatements(p) <= N /\ N \in Nat
    BY <1>2, StatementsLeft
  <2>2. pc[p] \in {"start", "cluster", "snaps", "xacts", "begin", "exec", "commit", "rollback",
                  "render", "close", "done"}
    BY <1>2 DEF TypeOK, Applying
  <2>3. Waits(p) \in 0 .. 1
    BY DEF Waits
  <2>4. CASE pc[p] = "start"
    BY <2>1, <2>4 DEF StepsLeft
  <2>5. CASE pc[p] = "cluster"
    BY <2>1, <2>5 DEF StepsLeft
  <2>6. CASE pc[p] = "snaps"
    BY <2>1, <2>6 DEF StepsLeft
  <2>7. CASE pc[p] = "xacts"
    BY <2>1, <2>7 DEF StepsLeft
  <2>8. CASE pc[p] = "begin"
    BY <2>1, <2>3, <2>8 DEF StepsLeft
  <2>9. CASE pc[p] = "exec"
    BY <2>1, <2>3, <2>9 DEF StepsLeft
  <2>10. CASE pc[p] \in {"commit", "rollback", "render", "close", "done"}
    <3>1. StepsLeft(p) \in 0 .. 3
      BY <2>10 DEF StepsLeft
    <3> QED
      BY <2>1, <3>1
  <2> QED
    BY <2>2, <2>4, <2>5, <2>6, <2>7, <2>8, <2>9, <2>10
<1>3. IInv /\ CurIsOpen /\ IInv' /\ [Next]_vars
        => [\A p \in Procs :
               /\ StepsLeft(p) \in 0 .. 2 * Cardinality(Tables) + 10
               /\ (Tune(p) \/ Kill(p)) => StepsLeft(p)' < StepsLeft(p)
               /\ ~(Tune(p) \/ Kill(p)) => StepsLeft(p)' = StepsLeft(p)]_vars
  BY <1>2, OwnStep, ForeignStep DEF IInv
<1> QED
  BY <1>1, <1>3, CurStep, Invariance, PTL DEF Spec
=============================================================================
