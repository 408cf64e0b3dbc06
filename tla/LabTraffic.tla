----------------------------- MODULE LabTraffic -----------------------------
(***************************************************************************)
(* loadgen.generate: the updaters and the holder of the long transaction   *)
(* run as one errgroup until the process is interrupted or one of them     *)
(* fails, and the group waits for all of them.  Every call takes the       *)
(* group's context, but for Close (bounded by connect_timeout) and the     *)
(* rollback of the long transaction (bounded by nothing).  Close does not  *)
(* wait for the server: the transaction of a connection closed in the      *)
(* middle of it stays open until the server notices.                       *)
(***************************************************************************)
CONSTANTS
    Updaters,          \* orders, sessions, and events when it has traffic
    Blocker,           \* holdLongTransaction
    LongXactEnabled,
    NoError

ASSUME TrafficAssumption ==
    /\ Blocker \notin Updaters
    /\ LongXactEnabled \in BOOLEAN
    /\ NoError \notin Updaters \cup {Blocker}

Members == Updaters \cup (IF LongXactEnabled THEN {Blocker} ELSE {})

VARIABLES
    interrupted,  \* SIGINT or SIGTERM: the context of Run is cancelled
    err,          \* the member whose error the group keeps
    pc,           \* the call a member is in
    returns,      \* what it will return: "none" yet, "nil" or "error"
    conn,         \* its connection: "none", "open", "closed"
    held,         \* the server has the blocker's transaction open
    result,       \* what generate returned, or "running"
    failed        \* history: members with a failure before any cancellation

vars == <<interrupted, err, pc, returns, conn, held, result, failed>>

TypeOK ==
    /\ interrupted \in BOOLEAN
    /\ err \in Members \cup {NoError}
    /\ pc \in [Members -> {"connect", "exec", "tick", "begin", "lock", "hold", "rollback",
                           "close", "done"}]
    /\ returns \in [Members -> {"none", "nil", "error"}]
    /\ conn \in [Members -> {"none", "open", "closed"}]
    /\ held \in BOOLEAN
    /\ result \in {"running", "nil", "error"}
    /\ failed \subseteq Members

Init ==
    /\ interrupted = FALSE
    /\ err = NoError
    /\ pc = [m \in Members |-> "connect"]
    /\ returns = [m \in Members |-> "none"]
    /\ conn = [m \in Members |-> "none"]
    /\ held = FALSE
    /\ result = "running"
    /\ failed = {}

\* ctx.Err() # nil, for the context errgroup.WithContext derives
CtxDone == interrupted \/ err # NoError

Goto(m, label) == pc' = [pc EXCEPT ![m] = label]

Return(m, value) == returns' = [returns EXCEPT ![m] = value]

\* A call of m fails: because of the server or the network, or because it was cancelled.
CallFails(m) == failed' = IF CtxDone THEN failed ELSE failed \cup {m}

\* Fault: the group keeps the last error.
ReportLast(m, value) == err' = IF value = "error" THEN m ELSE err

\* A member returns: the group keeps the first error, and cancels its context with it.
Report(m, value) == err' = IF value = "error" /\ err = NoError THEN m ELSE err

-----------------------------------------------------------------------------
(* connect, for both kinds of members                                      *)

Connect(m) ==
    /\ pc[m] = "connect"
    /\ conn' = [conn EXCEPT ![m] = "open"]
    /\ Goto(m, IF m = Blocker THEN "begin" ELSE "exec")
    /\ UNCHANGED <<interrupted, err, returns, held, result, failed>>

\* Nothing to close: the error is returned at once.
ConnectFails(m) ==
    /\ pc[m] = "connect"
    /\ CallFails(m)
    /\ Return(m, "error")
    /\ Goto(m, "done")
    /\ Report(m, "error")
    /\ UNCHANGED <<interrupted, conn, held, result>>

-----------------------------------------------------------------------------
(* updateLoop *)

Exec(m) ==
    /\ pc[m] = "exec"
    /\ Goto(m, "tick")
    /\ UNCHANGED <<interrupted, err, returns, conn, held, result, failed>>

\* Fault: every error of the UPDATE is taken for a cancellation.
ExecFailsSilently(m) ==
    /\ pc[m] = "exec"
    /\ CallFails(m)
    /\ Return(m, "nil")
    /\ Goto(m, "close")
    /\ UNCHANGED <<interrupted, err, conn, held, result>>

\* An UPDATE that fails once the context is done is not an error.
ExecFails(m) ==
    /\ pc[m] = "exec"
    /\ CallFails(m)
    /\ Return(m, IF CtxDone THEN "nil" ELSE "error")
    /\ Goto(m, "close")
    /\ UNCHANGED <<interrupted, err, conn, held, result>>

\* select: either branch may be taken when both are ready.
Tick(m) ==
    /\ pc[m] = "tick"
    /\ Goto(m, "exec")
    /\ UNCHANGED <<interrupted, err, returns, conn, held, result, failed>>

\* Fault: the cancellation is handed on as a third kind of result.
TickReturnsCause(m) ==
    /\ pc[m] = "tick"
    /\ CtxDone
    /\ Return(m, "cancelled")
    /\ Goto(m, "close")
    /\ UNCHANGED <<interrupted, err, conn, held, result, failed>>

\* select takes ctx.Done.
TickCancelled(m) ==
    /\ pc[m] = "tick"
    /\ CtxDone
    /\ Return(m, "nil")
    /\ Goto(m, "close")
    /\ UNCHANGED <<interrupted, err, conn, held, result, failed>>

-----------------------------------------------------------------------------
(* holdLongTransaction *)

Begin ==
    /\ pc[Blocker] = "begin"
    /\ Goto(Blocker, "lock")
    /\ held' = TRUE
    /\ UNCHANGED <<interrupted, err, returns, conn, result, failed>>

Lock ==
    /\ pc[Blocker] = "lock" /\ held
    /\ Goto(Blocker, "hold")
    /\ UNCHANGED <<interrupted, err, returns, conn, held, result, failed>>

\* BEGIN or SELECT ... FOR UPDATE fails or is cancelled.  The rollback with the same
\* context may not reach the server, and a BEGIN whose answer is lost has begun.
BeginOrLockFails ==
    /\ pc[Blocker] \in {"begin", "lock"}
    /\ CallFails(Blocker)
    /\ Return(Blocker, "error")
    /\ Goto(Blocker, "close")
    /\ held' \in BOOLEAN /\ (held' => held \/ pc[Blocker] = "begin")
    /\ UNCHANGED <<interrupted, err, conn, result>>

\* Fault: waits for the context of Run, not for the group's.
HoldEndsOnInterrupt ==
    /\ pc[Blocker] = "hold"
    /\ interrupted
    /\ Goto(Blocker, "rollback")
    /\ UNCHANGED <<interrupted, err, returns, conn, held, result, failed>>

\* The open transaction needs no statement, and the blocker does not look at its
\* connection, until the context is done.
HoldEnds ==
    /\ pc[Blocker] = "hold"
    /\ CtxDone
    /\ Goto(Blocker, "rollback")
    /\ UNCHANGED <<interrupted, err, returns, conn, held, result, failed>>

Rollback ==
    /\ pc[Blocker] = "rollback" /\ held
    /\ held' = FALSE
    /\ Return(Blocker, "nil")
    /\ Goto(Blocker, "close")
    /\ UNCHANGED <<interrupted, err, conn, result, failed>>

\* Fault: the error of the rollback is dropped, as that of Close is.
RollbackErrorIgnored ==
    /\ pc[Blocker] = "rollback"
    /\ CallFails(Blocker)
    /\ Return(Blocker, "nil")
    /\ Goto(Blocker, "close")
    /\ UNCHANGED <<interrupted, err, conn, held, result>>

\* The connection is gone; whether the server has rolled back or not.
RollbackFails ==
    /\ pc[Blocker] = "rollback"
    /\ CallFails(Blocker)
    /\ Return(Blocker, "error")
    /\ Goto(Blocker, "close")
    /\ UNCHANGED <<interrupted, err, conn, held, result>>

\* The blocker's backend ends and rolls back: terminated by another session, in a crash
\* of the server, or because it notices that the connection is closed (external).
EndSession ==
    /\ held
    /\ held' = FALSE
    /\ UNCHANGED <<interrupted, err, pc, returns, conn, result, failed>>

-----------------------------------------------------------------------------
(* The deferred Close, and the group.                                      *)

\* Fault: no Close is deferred.
CloseForgotten(m) ==
    /\ pc[m] = "close"
    /\ Goto(m, "done")
    /\ Report(m, returns[m])
    /\ UNCHANGED <<interrupted, returns, conn, held, result, failed>>

\* Its error is dropped, and it does not wait for the backend: what the connection leaves
\* open is the server's to roll back.
Close(m) ==
    /\ pc[m] = "close"
    /\ conn' = [conn EXCEPT ![m] = "closed"]
    /\ Goto(m, "done")
    /\ Report(m, returns[m])
    /\ UNCHANGED <<interrupted, returns, held, result, failed>>

\* g.Wait
Wait ==
    /\ result = "running"
    /\ \A m \in Members : pc[m] = "done"
    /\ result' = IF err = NoError THEN "nil" ELSE "error"
    /\ UNCHANGED <<interrupted, err, pc, returns, conn, held, failed>>

Interrupt ==
    /\ ~interrupted /\ result = "running"
    /\ interrupted' = TRUE
    /\ UNCHANGED <<err, pc, returns, conn, held, result, failed>>

-----------------------------------------------------------------------------

UpdateLoop(m) == Exec(m) \/ ExecFails(m) \/ Tick(m) \/ TickCancelled(m)

HoldLongTransaction ==
    \/ Begin \/ Lock \/ BeginOrLockFails \/ HoldEnds \/ Rollback \/ RollbackFails

Returned == result # "running" /\ UNCHANGED vars

Next ==
    \/ \E m \in Members : Connect(m) \/ ConnectFails(m) \/ Close(m)
    \/ \E m \in Updaters : UpdateLoop(m)
    \/ LongXactEnabled /\ (HoldLongTransaction \/ EndSession)
    \/ Wait \/ Interrupt \/ Returned

Spec == Init /\ [][Next]_vars

\* A call that takes the group's context returns once it is done, whether the server
\* answers or not; Close has a timeout.
Cancelled ==
    /\ CtxDone
    /\ \/ \E m \in Members : ConnectFails(m)
       \/ \E m \in Updaters : ExecFails(m) \/ TickCancelled(m)
       \/ LongXactEnabled /\ (BeginOrLockFails \/ HoldEnds)

\* A closed connection is noticed in the end.
NoticeClosed == LongXactEnabled /\ conn[Blocker] = "closed" /\ EndSession

Fairness ==
    /\ WF_vars(Cancelled)
    /\ WF_vars(\E m \in Members : Close(m))
    /\ WF_vars(Wait)
    /\ WF_vars(NoticeClosed)

FairSpec == Spec /\ Fairness

\* The server answers the ROLLBACK, or the connection breaks.
Answered == LongXactEnabled /\ (Rollback \/ RollbackFails)

AnsweredSpec == FairSpec /\ WF_vars(Answered)

-----------------------------------------------------------------------------
\* No member stops on its own and leaves the lab running with less load than configured:
\* when one has returned, with or without an error, the context is done and all will.
\* updateLoop swallows the error of its UPDATE only when the context is done.
NoQuietStop == \A m \in Members : pc[m] = "done" => CtxDone

\* Without an interrupt the error generate returns is a failure no cancellation caused:
\* the errors that follow from the group's own cancellation, of a connect, a lock or the
\* final rollback, never take its place.
ErrorIsCause == err # NoError /\ ~interrupted => err \in failed

\* When generate has returned no connection is left open, at whichever call the members
\* were when they had to stop; and when it returned without an error the server has
\* confirmed that the row lock which blocks cleanup is gone. With an error it may still
\* be held: BlockerLetsGo.
NothingLeft ==
    result # "running" =>
        /\ \A m \in Members : conn[m] # "open"
        /\ result = "nil" => ~held

\* However generate ends, the row lock does not outlive it for good, although a rollback
\* that fails, or a lock cancelled on its way, leaves it to the server: Close is deferred
\* on every way out of holdLongTransaction.
BlockerLetsGo == result # "running" ~> ~held

\* loadgen/run.go: traffic is generated until ctx is cancelled. Once it is, or a member
\* has failed, all members return and generate does.
GenerateReturns == CtxDone ~> result # "running"
=============================================================================
