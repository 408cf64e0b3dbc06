-------------------------- MODULE LabTrafficProofs --------------------------
(***************************************************************************)
(* Theorems about LabTraffic for any set of updaters, with or without the  *)
(* blocker: its type invariant and its safety invariants.  They rest on    *)
(* the inductive invariant IInv.                                           *)
(***************************************************************************)
EXTENDS LabTraffic, Integers, TLAPS

\* A member that closes its connection knows what it will return, and returns nil only
\* when the context is done; an error of a member no cancellation explains is its own.
ReturnInv == \A m \in Members :
    /\ pc[m] = "close" => returns[m] \in {"nil", "error"}
    /\ pc[m] = "close" /\ returns[m] = "nil" => CtxDone
    /\ pc[m] = "close" /\ m \notin failed => CtxDone
    /\ pc[m] = "rollback" => CtxDone

\* A connection is opened by the first call of a member and closed by the last.
ConnInv == \A m \in Members :
    /\ pc[m] = "connect" => conn[m] = "none"
    /\ pc[m] = "done" => conn[m] # "open"

\* A blocker that leaves the transaction to the server returns an error, which makes the
\* group fail.
HeldInv == held =>
    /\ LongXactEnabled
    /\ pc[Blocker] # "connect"
    /\ pc[Blocker] = "close" => returns[Blocker] = "error"
    /\ pc[Blocker] = "done" => err # NoError

WaitInv == result # "running" =>
    /\ \A m \in Members : pc[m] = "done"
    /\ result = "nil" => err = NoError

IInv == TypeOK /\ ReturnInv /\ ConnInv /\ HeldInv /\ WaitInv /\ NoQuietStop /\ ErrorIsCause

-----------------------------------------------------------------------------

LEMMA MembersFacts ==
  /\ Updaters \subseteq Members
  /\ LongXactEnabled => Blocker \in Members
  /\ NoError \notin Members
BY TrafficAssumption DEF Members

LEMMA InitIInv == Init => IInv
BY MembersFacts DEF Init, IInv, TypeOK, ReturnInv, ConnInv, HeldInv, WaitInv, NoQuietStop,
     ErrorIsCause

\* The parts of IInv, expanded, for the steps of a member.
LEMMA MemberStep ==
  ASSUME IInv, NEW m \in Members,
         Connect(m) \/ ConnectFails(m) \/ Close(m)
  PROVE  IInv'
<1> USE MembersFacts DEF IInv
<1>1. CASE Connect(m)
  <2>1. pc[m] = "connect" /\ ~(m = Blocker /\ held)
    BY <1>1 DEF Connect, HeldInv
  <2> QED
    BY <1>1, <2>1 DEF Connect, Goto, TypeOK, ReturnInv, ConnInv, HeldInv, WaitInv, NoQuietStop,
         ErrorIsCause, CtxDone
<1>2. CASE ConnectFails(m)
  <2>1. TypeOK'
    BY <1>2 DEF ConnectFails, Goto, Return, CallFails, Report, TypeOK
  <2>2. CtxDone'
    BY <1>2 DEF ConnectFails, Report, CtxDone
  <2>3. ErrorIsCause'
    BY <1>2 DEF ConnectFails, CallFails, Report, ErrorIsCause, CtxDone, TypeOK
  <2>4. ConnInv'
    BY <1>2 DEF ConnectFails, Goto, ConnInv, TypeOK
  <2>7. HeldInv'
    BY <1>2, <2>2 DEF ConnectFails, Goto, Return, Report, HeldInv, TypeOK
  <2>5. WaitInv'
    BY <1>2 DEF ConnectFails, Goto, WaitInv, TypeOK
  <2>6. ReturnInv'
    BY <1>2, <2>2 DEF ConnectFails, Goto, Return, ReturnInv, TypeOK
  <2> QED
    BY <2>1, <2>2, <2>3, <2>4, <2>5, <2>6, <2>7 DEF NoQuietStop
<1>3. CASE Close(m)
  <2>1. TypeOK'
    BY <1>3 DEF Close, Goto, Report, TypeOK
  <2>2. CtxDone'
    BY <1>3 DEF Close, Report, CtxDone, ReturnInv
  <2>3. ErrorIsCause'
    BY <1>3 DEF Close, Report, ErrorIsCause, CtxDone, ReturnInv, TypeOK
  <2>4. ConnInv'
    BY <1>3 DEF Close, Goto, ConnInv, TypeOK
  <2>7. HeldInv'
    BY <1>3 DEF Close, Goto, Report, HeldInv, TypeOK
  <2>5. WaitInv'
    BY <1>3 DEF Close, Goto, WaitInv, TypeOK
  <2>6. ReturnInv'
    BY <1>3, <2>2 DEF Close, Goto, ReturnInv, TypeOK
  <2> QED
    BY <2>1, <2>2, <2>3, <2>4, <2>5, <2>6, <2>7 DEF NoQuietStop
<1> QED
  BY <1>1, <1>2, <1>3

LEMMA UpdateLoopStep ==
  ASSUME IInv, NEW m \in Updaters, UpdateLoop(m)
  PROVE  IInv'
<1> USE MembersFacts, TrafficAssumption DEF IInv
<1>1. m \in Members /\ m # Blocker
  OBVIOUS
<1>2. CASE Exec(m)
  BY <1>1, <1>2 DEF Exec, Goto, TypeOK, ReturnInv, ConnInv, HeldInv, WaitInv, NoQuietStop,
       ErrorIsCause, CtxDone
<1>3. CASE ExecFails(m)
  BY <1>1, <1>3 DEF ExecFails, Goto, Return, CallFails, TypeOK, ReturnInv, ConnInv, HeldInv,
       WaitInv, NoQuietStop, ErrorIsCause, CtxDone
<1>4. CASE Tick(m)
  BY <1>1, <1>4 DEF Tick, Goto, TypeOK, ReturnInv, ConnInv, HeldInv, WaitInv, NoQuietStop,
       ErrorIsCause, CtxDone
<1>5. CASE TickCancelled(m)
  BY <1>1, <1>5 DEF TickCancelled, Goto, Return, TypeOK, ReturnInv, ConnInv, HeldInv, WaitInv,
       NoQuietStop, ErrorIsCause, CtxDone
<1> QED
  BY <1>2, <1>3, <1>4, <1>5 DEF UpdateLoop

LEMMA BlockerStep ==
  ASSUME IInv, LongXactEnabled, HoldLongTransaction \/ EndSession
  PROVE  IInv'
<1> USE MembersFacts DEF IInv
<1>1. Blocker \in Members
  OBVIOUS
<1>2. CASE Begin
  BY <1>1, <1>2 DEF Begin, Goto, TypeOK, ReturnInv, ConnInv, HeldInv, WaitInv, NoQuietStop,
       ErrorIsCause, CtxDone
<1>3. CASE Lock
  BY <1>1, <1>3 DEF Lock, Goto, TypeOK, ReturnInv, ConnInv, HeldInv, WaitInv, NoQuietStop,
       ErrorIsCause, CtxDone
<1>4. CASE BeginOrLockFails
  BY <1>1, <1>4 DEF BeginOrLockFails, Goto, Return, CallFails, TypeOK, ReturnInv, ConnInv,
       HeldInv, WaitInv, NoQuietStop, ErrorIsCause, CtxDone
<1>5. CASE HoldEnds
  BY <1>1, <1>5 DEF HoldEnds, Goto, TypeOK, ReturnInv, ConnInv, HeldInv, WaitInv, NoQuietStop,
       ErrorIsCause, CtxDone
<1>6. CASE Rollback
  BY <1>1, <1>6 DEF Rollback, Goto, Return, TypeOK, ReturnInv, ConnInv, HeldInv, WaitInv,
       NoQuietStop, ErrorIsCause, CtxDone
<1>7. CASE RollbackFails
  BY <1>1, <1>7 DEF RollbackFails, Goto, Return, CallFails, TypeOK, ReturnInv, ConnInv, HeldInv,
       WaitInv, NoQuietStop, ErrorIsCause, CtxDone
<1>8. CASE EndSession
  BY <1>8 DEF EndSession, TypeOK, ReturnInv, ConnInv, HeldInv, WaitInv, NoQuietStop,
       ErrorIsCause, CtxDone
<1> QED
  BY <1>2, <1>3, <1>4, <1>5, <1>6, <1>7, <1>8 DEF HoldLongTransaction

LEMMA GroupStep ==
  ASSUME IInv, Wait \/ Interrupt \/ UNCHANGED vars
  PROVE  IInv'
<1> USE DEF IInv
<1>1. CASE Wait
  BY <1>1 DEF Wait, TypeOK, ReturnInv, ConnInv, HeldInv, WaitInv, NoQuietStop, ErrorIsCause,
       CtxDone
<1>2. CASE Interrupt
  BY <1>2 DEF Interrupt, TypeOK, ReturnInv, ConnInv, HeldInv, WaitInv, NoQuietStop,
       ErrorIsCause, CtxDone
<1>3. CASE UNCHANGED vars
  BY <1>3 DEF vars, TypeOK, ReturnInv, ConnInv, HeldInv, WaitInv, NoQuietStop, ErrorIsCause,
       CtxDone
<1> QED
  BY <1>1, <1>2, <1>3

-----------------------------------------------------------------------------
\* IInv holds in every state of generate, whichever members fail, whenever the process is
\* interrupted.
THEOREM Invariance == Spec => []IInv
<1>1. ASSUME IInv, [Next]_vars PROVE IInv'
  BY <1>1, MemberStep, UpdateLoopStep, BlockerStep, GroupStep DEF Next, Returned
<1> QED
  BY InitIInv, <1>1, PTL DEF Spec

\* Every variable keeps its type: updateLoop and holdLongTransaction return nil or an error,
\* and the group keeps the error of one of its members.
THEOREM TypeCorrect == Spec => []TypeOK
<1>1. IInv => TypeOK
  BY DEF IInv
<1> QED
  BY <1>1, Invariance, PTL

\* No member stops while the others go on: an updater swallows an error only when the
\* context is done, and every other end of a member cancels it.
THEOREM NoQuietStopHolds == Spec => []NoQuietStop
<1>1. IInv => NoQuietStop
  BY DEF IInv
<1> QED
  BY <1>1, Invariance, PTL

\* Without an interrupt the error generate returns is one no cancellation caused.
THEOREM ErrorIsCauseHolds == Spec => []ErrorIsCause
<1>1. IInv => ErrorIsCause
  BY DEF IInv
<1> QED
  BY <1>1, Invariance, PTL

\* When g.Wait has returned no connection is open, and when it returned nil the rollback
\* has released the blocker's lock.
THEOREM NothingLeftHolds == Spec => []NothingLeft
<1>1. IInv => NothingLeft
  <2> SUFFICES ASSUME IInv, result # "running"
               PROVE  (\A m \in Members : conn[m] # "open") /\ (result = "nil" => ~held)
    BY DEF NothingLeft
  <2>1. \A m \in Members : pc[m] = "done"
    BY DEF IInv, WaitInv
  <2>2. ASSUME result = "nil" PROVE ~held
    BY <2>1, <2>2, MembersFacts DEF IInv, WaitInv, HeldInv
  <2> QED
    BY <2>1, <2>2 DEF IInv, ConnInv
<1> QED
  BY <1>1, Invariance, PTL

-----------------------------------------------------------------------------
(* Coming to an end: what GenerateReturns rests on besides fairness.       *)

\* A member is in one of its own calls.
PlaceInv == \A m \in Members :
    /\ pc[m] \in {"exec", "tick"} => m \in Updaters
    /\ pc[m] \in {"begin", "lock", "hold", "rollback"} => m = Blocker

\* The calls a member has left, where the updates of one connection count as one.
CallsLeft(label) ==
    CASE label = "connect" -> 6
      [] label = "begin" -> 5
      [] label = "lock" -> 4
      [] label = "hold" -> 3
      [] label \in {"exec", "tick", "rollback"} -> 2
      [] label = "close" -> 1
      [] label = "done" -> 0

Updating(label) == label \in {"exec", "tick"}

\* A step of a member takes it further, or is one more round of updates; nobody else's
\* step moves it.
Onward ==
    \A m \in Members : pc'[m] # pc[m] =>
        \/ CallsLeft(pc'[m]) < CallsLeft(pc[m])
        \/ Updating(pc[m]) /\ Updating(pc'[m]) /\ m \in Updaters

LEMMA Moves ==
  ASSUME TypeOK, PlaceInv, [Next]_vars
  PROVE  PlaceInv' /\ Onward
<1> USE MembersFacts, TrafficAssumption DEF TypeOK
<1>1. ASSUME NEW m \in Members, Connect(m) \/ ConnectFails(m) \/ Close(m)
      PROVE  PlaceInv' /\ Onward
  BY <1>1 DEF Connect, ConnectFails, Close, Goto, PlaceInv, Onward, CallsLeft, Members
<1>2. ASSUME NEW m \in Updaters, UpdateLoop(m)
      PROVE  PlaceInv' /\ Onward
  BY <1>2 DEF UpdateLoop, Exec, ExecFails, Tick, TickCancelled, Goto, PlaceInv, Onward, CallsLeft,
       Updating
<1>3. ASSUME LongXactEnabled, HoldLongTransaction
      PROVE  PlaceInv' /\ Onward
  BY <1>3 DEF HoldLongTransaction, Begin, Lock, BeginOrLockFails, HoldEnds, Rollback, RollbackFails,
       Goto, PlaceInv, Onward, CallsLeft
<1>4. ASSUME pc' = pc
      PROVE  PlaceInv' /\ Onward
  BY <1>4 DEF PlaceInv, Onward
<1> QED
  BY <1>1, <1>2, <1>3, <1>4 DEF Next, EndSession, Wait, Interrupt, Returned, vars

LEMMA PlaceHolds == Spec => []PlaceInv
<1>1. Init => PlaceInv
  BY DEF Init, PlaceInv
<1>2. TypeOK /\ PlaceInv /\ [Next]_vars => PlaceInv'
  BY Moves
<1> QED
  BY <1>1, <1>2, TypeCorrect, PTL DEF Spec

\* A context that is done stays done, every call takes its member nearer to its end, and
\* only updates, which Tick's select may choose as long as they succeed, come again.
THEOREM GroupWindsUp ==
  Spec => [][Onward /\ (CtxDone => CtxDone') /\ \A m \in Members : CallsLeft(pc[m]) \in 0 .. 6]_vars
<1>1. TypeOK => \A m \in Members : CallsLeft(pc[m]) \in 0 .. 6
  BY DEF TypeOK, CallsLeft
<1>2. ASSUME TypeOK, [Next]_vars, CtxDone PROVE CtxDone'
  <2>1. interrupted => interrupted'
    BY <1>2 DEF Next, UpdateLoop, HoldLongTransaction, Connect, ConnectFails, Close, Exec, ExecFails,
         Tick, TickCancelled, Begin, Lock, BeginOrLockFails, HoldEnds, Rollback, RollbackFails,
         EndSession, Wait, Interrupt, Returned, vars
  <2>2. err # NoError => err' = err
    BY <1>2 DEF Next, UpdateLoop, HoldLongTransaction, Connect, ConnectFails, Close, Exec, ExecFails,
         Tick, TickCancelled, Begin, Lock, BeginOrLockFails, HoldEnds, Rollback, RollbackFails,
         EndSession, Wait, Interrupt, Returned, Report, vars
  <2> QED
    BY <1>2, <2>1, <2>2 DEF CtxDone
<1>3. TypeOK /\ PlaceInv /\ [Next]_vars
        => [Onward /\ (CtxDone => CtxDone') /\ \A m \in Members : CallsLeft(pc[m]) \in 0 .. 6]_vars
  BY <1>1, <1>2, Moves
<1> QED
  BY <1>3, TypeCorrect, PlaceHolds, PTL DEF Spec
=============================================================================
