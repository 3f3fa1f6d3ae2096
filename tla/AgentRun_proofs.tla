--------------------------- MODULE AgentRun_proofs ---------------------------
(***************************************************************************)
(* Proofs about AgentRun, for any number of callers and events.            *)
(*                                                                         *)
(* The inductive invariant Driving says who may be where in a call while   *)
(* the worker is where it is.  Its parts: nextMu admits one caller; a      *)
(* worker that runs has a caller who waits for it; one that waits for an   *)
(* advance is owed it; an error that was handed over means that there is   *)
(* no result; and what the worker knows of the cancellation.               *)
(***************************************************************************)
EXTENDS AgentRun, TLAPS

Critical == {"locked", "advance", "receive", "mark", "drain"}
Closing  == {"close", "stopping", "closed"}
Ending   == {"closing", "finish", "closeEvents", "closeDone", "over"}
Ended    == {"closeEvents", "closeDone", "over"}
Paused   == {"unstarted", "await", "closeDone", "over"}

\* One caller at a time is between Lock and the return of Next.
Mutex == \A c \in Callers : pc[c] \in Critical <=> nextMu = c

\* Until the worker starts nobody waits for it, and the run is as it was.
Fresh ==
    worker = "unstarted" =>
        /\ \A c \in Callers : pc[c] \in {"idle", "lock"}
        /\ stopOnce = "fresh" /\ item = "none" /\ ~result /\ ~left

\* Whoever has stopped the run waits for its end.
Stopper ==
    /\ stopOnce = "fresh" => \A c \in Callers : pc[c] \notin {"stopping", "closed"}
    /\ stopOnce = "running" => \E c \in Callers : pc[c] = "stopping"
    /\ stopOnce = "done" /\ worker # "over" => \E c \in Callers : pc[c] = "closed"
    /\ stopOnce # "fresh" /\ active => cause # "none"

\* A worker that runs has somebody who waits for it.
Driven == worker \notin Paused => \E c \in Callers : pc[c] \in Critical \cup Closing

\* An event that Next has taken leaves the worker waiting, unless Close came.
Marked == \A c \in Callers : pc[c] = "mark" => worker = "await" \/ stopOnce = "done"

\* The two ends of the handshake.
Handshake ==
    worker = "await" =>
        /\ \A c \in Callers : pc[c] # "receive"
        /\ pendingAdvance \/ \E c \in Callers : pc[c] \in {"mark", "advance"}

\* The outcome is published when the channels are being closed, and a result
\* excludes an error.
Outcome ==
    /\ ended <=> worker \in Ended
    /\ active <=> worker \notin (Ending \ {"closing"}) /\ ~(worker = "send" /\ item = "close")
    /\ result => worker \in Ending /\ runErr = {}
    /\ worker = "send" => item # "none"
    /\ queued <= sent
    /\ phase = "early" \/ worker \notin {"early", "unstarted"}

\* A Next that has taken an error finds a worker on its way to its end.
Drained ==
    \A c \in Callers : pc[c] = "drain" =>
        /\ worker \in Ending \cup {"detach", "unwind"} \/ (worker = "send" /\ item = "close")
        /\ ~result /\ taken \in Errors

\* Once Next has said that the run is over, there is nothing left to return.
Told ==
    told # "open" =>
        worker \in {"closeDone", "over"} /\ \A c \in Callers : pc[c] \notin {"mark", "drain"}

\* A worker whose event Close interrupted knows that the run is cancelled.
Interrupted ==
    /\ worker = "unwind" => cause # "none"
    /\ left => stopOnce = "done"
    /\ left => worker \in Ending \cup {"detach", "unwind"} \/ (worker = "send" /\ item = "close")
    /\ cause = "detached" =>
           worker \in Ending \cup {"unwind"} \/ (worker = "send" /\ item = "close")
    /\ left /\ worker \in {"detach", "unwind"} => cause \in {"cancelled", "context"}
    /\ left /\ worker \notin {"detach", "unwind"} /\ phase = "loop" =>
           runErr \cap {"cancelled", "context"} # {}

Parts ==
    /\ Mutex /\ Fresh /\ Stopper /\ Driven /\ Marked /\ Handshake /\ Outcome /\ Drained
    /\ Told /\ Interrupted

Driving == TypeOK /\ Parts

-----------------------------------------------------------------------------
(* Types *)

\* Every step keeps the types; Unwind needs to know that the run is cancelled.
LEMMA TypeInductive == Driving /\ [Next]_vars => TypeOK'
<1> SUFFICES ASSUME Driving, [Next]_vars PROVE TypeOK'
  OBVIOUS
<1> USE CallersAssumption DEF WorkerLabels, CallerLabels, work, control, shared, history
<1>0. /\ TypeOK
      /\ worker = "unwind" => cause # "none"
      /\ \A c \in Callers : pc[c] = "drain" => taken \in Errors
      /\ queued <= sent
  BY DEF Driving, Parts, Interrupted, Drained, Outcome
<1>1. CASE EarlyYield
  BY <1>0, <1>1 DEF TypeOK, EarlyYield, Backlog, Errors
<1>2. CASE EarlyDone
  BY <1>0, <1>2 DEF TypeOK, EarlyDone
<1>3. CASE LoopYield
  BY <1>0, <1>3 DEF TypeOK, LoopYield, Errors
<1>4. CASE LoopReturns
  BY <1>0, <1>4 DEF TypeOK, LoopReturns, Errors, Causes
<1>5. CASE SendStopped
  BY <1>0, <1>5 DEF TypeOK, SendStopped, AfterStop, AfterError, StopClosed
<1>6. CASE AwaitStopped
  BY <1>0, <1>6 DEF TypeOK, AwaitStopped, StopClosed
<1>7. CASE Detach
  BY <1>0, <1>7 DEF TypeOK, Detach, Cancelling, Causes
<1>8. CASE Unwind
  BY <1>0, <1>8 DEF TypeOK, Unwind, Errors
<1>9. CASE CloseResources
  <2>1. active' \in BOOLEAN /\ result' \in BOOLEAN
    BY <1>9 DEF CloseResources
  <2>2. runErr' \subseteq Errors /\ closeErr' \subseteq {"close"}
    BY <1>0, <1>9 DEF TypeOK, CloseResources, Errors
  <2>3. worker' \in WorkerLabels /\ item' \in {"none", "event"} \cup Errors
    BY <1>0, <1>9 DEF TypeOK, CloseResources, Errors
  <2> QED
    BY <1>0, <1>9, <2>1, <2>2, <2>3 DEF TypeOK, CloseResources
<1>10. CASE Finish
  <2>1. ended' \in BOOLEAN /\ pendingAdvance' \in BOOLEAN
    BY <1>10 DEF Finish
  <2> QED
    BY <1>0, <1>10, <2>1 DEF TypeOK, Finish
<1>11. CASE CloseChannels
  BY <1>0, <1>11 DEF TypeOK, CloseChannels, EventsClosed
<1>12. CASE Cancel
  BY <1>0, <1>12 DEF TypeOK, Cancel, Cancelling, Causes
<1>13. CASE Emit
  BY <1>0, <1>13 DEF TypeOK, Emit
<1>14. ASSUME NEW c \in Callers, Send(c) PROVE TypeOK'
  BY <1>0, <1>14 DEF TypeOK, Send, Goto, AfterSend, AfterError
<1>15. ASSUME NEW c \in Callers, Advance(c) PROVE TypeOK'
  BY <1>0, <1>15 DEF TypeOK, Advance, Goto, Resumed
<1>16. ASSUME NEW c \in Callers, CallNext(c) PROVE TypeOK'
  BY <1>0, <1>16 DEF TypeOK, CallNext, Goto
<1>17. ASSUME NEW c \in Callers, CallClose(c) PROVE TypeOK'
  BY <1>0, <1>17 DEF TypeOK, CallClose, Goto, StartWorker
<1>18. ASSUME NEW c \in Callers, Lock(c) PROVE TypeOK'
  BY <1>0, <1>18 DEF TypeOK, Lock, Goto, StartWorker
<1>19. ASSUME NEW c \in Callers, TakeAdvance(c) PROVE TypeOK'
  <2>1. pendingAdvance' \in BOOLEAN
    BY <1>19 DEF TakeAdvance
  <2>2. pc' \in [Callers -> CallerLabels]
    BY <1>0, <1>19 DEF TypeOK, TakeAdvance, Goto
  <2> QED
    BY <1>0, <1>19, <2>1, <2>2 DEF TypeOK, TakeAdvance
<1>20. ASSUME NEW c \in Callers, AdvanceDone(c) PROVE TypeOK'
  BY <1>0, <1>20 DEF TypeOK, AdvanceDone, Goto, DoneClosed
<1>21. ASSUME NEW c \in Callers, ReturnOver(c) PROVE TypeOK'
  BY <1>0, <1>21 DEF TypeOK, ReturnOver, Return, Goto, EventsClosed
<1>22. ASSUME NEW c \in Callers, ReturnEvent(c) PROVE TypeOK'
  BY <1>0, <1>22 DEF TypeOK, ReturnEvent, Return, Goto
<1>23. ASSUME NEW c \in Callers, ReturnError(c) PROVE TypeOK'
  BY <1>0, <1>23 DEF TypeOK, ReturnError, Return, Goto, DoneClosed, Errors
<1>24. ASSUME NEW c \in Callers, StopCancel(c) PROVE TypeOK'
  BY <1>0, <1>24 DEF TypeOK, StopCancel, Goto, Cancelling, Causes
<1>25. ASSUME NEW c \in Callers, StopClose(c) PROVE TypeOK'
  BY <1>0, <1>25 DEF TypeOK, StopClose, Goto
<1>26. ASSUME NEW c \in Callers, StopAgain(c) PROVE TypeOK'
  BY <1>0, <1>26 DEF TypeOK, StopAgain, Goto, StopClosed
<1>27. ASSUME NEW c \in Callers, ReturnClose(c) PROVE TypeOK'
  BY <1>0, <1>27 DEF TypeOK, ReturnClose, Goto, DoneClosed
<1>28. CASE UNCHANGED vars
  BY <1>0, <1>28 DEF TypeOK, vars
<1> QED
  BY <1>1, <1>2, <1>3, <1>4, <1>5, <1>6, <1>7, <1>8, <1>9, <1>10, <1>11, <1>12, <1>13, <1>14,
     <1>15, <1>16, <1>17, <1>18, <1>19, <1>20, <1>21, <1>22, <1>23, <1>24, <1>25, <1>26, <1>27,
     <1>28 DEF Next, Worker, Caller

-----------------------------------------------------------------------------
(* The inductive invariant *)

\* Every step keeps the whole invariant.
LEMMA DrivingInductive == Driving /\ [Next]_vars => Driving'
<1> SUFFICES ASSUME Driving, [Next]_vars PROVE Driving'
  OBVIOUS
<1> USE CallersAssumption
    DEF work, control, shared, history, Parts, Mutex, Fresh, Stopper, Driven, Marked, Handshake,
        Outcome, Drained, Told, Interrupted, Critical, Closing, Ending, Ended, Paused
<1>0. TypeOK /\ TypeOK' /\ Parts
  BY TypeInductive DEF Driving
<1> SUFFICES Parts'
  BY <1>0 DEF Driving
<1>1. CASE EarlyYield
  BY <1>0, <1>1 DEF TypeOK, EarlyYield, Backlog, Errors
<1>2. CASE EarlyDone
  BY <1>0, <1>2 DEF TypeOK, EarlyDone
<1>3. CASE LoopYield
  BY <1>0, <1>3 DEF TypeOK, LoopYield, Errors
<1>4. CASE LoopReturns
  BY <1>0, <1>4 DEF TypeOK, LoopReturns, Errors, Causes
<1>5. CASE SendStopped
  BY <1>0, <1>5 DEF TypeOK, SendStopped, AfterStop, AfterError, StopClosed, Causes
<1>6. CASE AwaitStopped
  BY <1>0, <1>6 DEF TypeOK, AwaitStopped, StopClosed, Causes
<1>7. CASE Detach
  BY <1>0, <1>7 DEF TypeOK, Detach, Cancelling, Causes
<1>8. CASE Unwind
  BY <1>0, <1>8 DEF TypeOK, Unwind, Errors
<1>9. CASE CloseResources
  BY <1>0, <1>9 DEF TypeOK, CloseResources, Errors
<1>10. CASE Finish
  BY <1>0, <1>10 DEF TypeOK, Finish
<1>11. CASE CloseChannels
  BY <1>0, <1>11 DEF TypeOK, CloseChannels, EventsClosed
<1>12. CASE Cancel
  BY <1>0, <1>12 DEF TypeOK, Cancel, Cancelling, Causes
<1>13. CASE Emit
  BY <1>0, <1>13 DEF TypeOK, Emit
<1>14. ASSUME NEW c \in Callers, Send(c) PROVE Parts'
  BY <1>0, <1>14 DEF TypeOK, Send, Goto, AfterSend, AfterError
<1>15. ASSUME NEW c \in Callers, Advance(c) PROVE Parts'
  BY <1>0, <1>15 DEF TypeOK, Advance, Goto, Resumed
<1>16. ASSUME NEW c \in Callers, CallNext(c) PROVE Parts'
  BY <1>0, <1>16 DEF TypeOK, CallNext, Goto
<1>17. ASSUME NEW c \in Callers, CallClose(c) PROVE Parts'
  BY <1>0, <1>17 DEF TypeOK, CallClose, Goto, StartWorker
<1>18. ASSUME NEW c \in Callers, Lock(c) PROVE Parts'
  BY <1>0, <1>18 DEF TypeOK, Lock, Goto, StartWorker
<1>19. ASSUME NEW c \in Callers, TakeAdvance(c) PROVE Parts'
  BY <1>0, <1>19 DEF TypeOK, TakeAdvance, Goto
<1>20. ASSUME NEW c \in Callers, AdvanceDone(c) PROVE Parts'
  BY <1>0, <1>20 DEF TypeOK, AdvanceDone, Goto, DoneClosed
<1>21. ASSUME NEW c \in Callers, ReturnOver(c) PROVE Parts'
  BY <1>0, <1>21 DEF TypeOK, ReturnOver, Return, Goto, EventsClosed
<1>22. ASSUME NEW c \in Callers, ReturnEvent(c) PROVE Parts'
  BY <1>0, <1>22 DEF TypeOK, ReturnEvent, Return, Goto
<1>23. ASSUME NEW c \in Callers, ReturnError(c) PROVE Parts'
  BY <1>0, <1>23 DEF TypeOK, ReturnError, Return, Goto, DoneClosed, Errors
<1>24. ASSUME NEW c \in Callers, StopCancel(c) PROVE Parts'
  BY <1>0, <1>24 DEF TypeOK, StopCancel, Goto, Cancelling, Causes
<1>25. ASSUME NEW c \in Callers, StopClose(c) PROVE Parts'
  BY <1>0, <1>25 DEF TypeOK, StopClose, Goto
<1>26. ASSUME NEW c \in Callers, StopAgain(c) PROVE Parts'
  BY <1>0, <1>26 DEF TypeOK, StopAgain, Goto, StopClosed
<1>27. ASSUME NEW c \in Callers, ReturnClose(c) PROVE Parts'
  BY <1>0, <1>27 DEF TypeOK, ReturnClose, Goto, DoneClosed
<1>28. CASE UNCHANGED vars
  BY <1>0, <1>28 DEF vars
<1> QED
  BY <1>1, <1>2, <1>3, <1>4, <1>5, <1>6, <1>7, <1>8, <1>9, <1>10, <1>11, <1>12, <1>13, <1>14,
     <1>15, <1>16, <1>17, <1>18, <1>19, <1>20, <1>21, <1>22, <1>23, <1>24, <1>25, <1>26, <1>27,
     <1>28 DEF Next, Worker, Caller

\* The initial states satisfy the invariant.
LEMMA DrivingInit == Init => Driving
<1> SUFFICES ASSUME Init PROVE Driving
  OBVIOUS
<1> USE CallersAssumption DEF Init
<1>1. TypeOK
  <2>1. queued \in 0..MaxEvents /\ sent \in 0..MaxEvents /\ delivered \in Nat
    OBVIOUS
  <2>2. /\ result \in BOOLEAN /\ left \in BOOLEAN /\ active \in BOOLEAN
        /\ ended \in BOOLEAN /\ pendingAdvance \in BOOLEAN
    OBVIOUS
  <2>3. pc \in [Callers -> CallerLabels]
    BY DEF CallerLabels
  <2> QED
    BY <2>1, <2>2, <2>3 DEF TypeOK, WorkerLabels
<1>2. Mutex /\ Fresh /\ Stopper /\ Driven /\ Marked /\ Handshake
  BY DEF Mutex, Fresh, Stopper, Driven, Marked, Handshake, Critical, Closing, Paused
<1>3. Outcome /\ Drained /\ Told /\ Interrupted
  BY DEF Outcome, Drained, Told, Interrupted, Ending, Ended
<1> QED
  BY <1>1, <1>2, <1>3 DEF Driving, Parts

\* The invariant holds in every reachable state.
THEOREM DrivingHolds == Spec => []Driving
<1>1. Init => Driving
  BY DrivingInit
<1>2. Driving /\ [Next]_vars => Driving'
  BY DrivingInductive
<1> QED
  BY <1>1, <1>2, PTL DEF Spec

-----------------------------------------------------------------------------
(* The properties *)

\* The variables keep their types.
THEOREM TypeCorrect == Spec => []TypeOK
<1>1. Driving => TypeOK
  BY DEF Driving
<1> QED
  BY <1>1, DrivingHolds, PTL

\* The run executes only while somebody is inside Next or Close.
THEOREM RunsInLockStep == Spec => []LockStep
<1>1. Driving => LockStep
  BY DEF Driving, Parts, Driven, LockStep, InNext, InClose, Critical, Closing, Paused
<1> QED
  BY <1>1, DrivingHolds, PTL

\* A worker that waits for an advance is owed one.
THEOREM HandshakeAgrees == Spec => []NoStandoff
<1>1. Driving => NoStandoff
  BY DEF Driving, Parts, Handshake, NoStandoff
<1> QED
  BY <1>1, DrivingHolds, PTL

\* A run whose event Close interrupted reports its cancellation.
THEOREM ClosedReportsCancellation == Spec => []ClosedIsCancelled
<1>1. Driving => ClosedIsCancelled
  BY DEF Driving, Parts, Interrupted, Outcome, Ended, ClosedIsCancelled
<1> QED
  BY <1>1, DrivingHolds, PTL

-----------------------------------------------------------------------------
(* Refinement *)

\* A step that leaves told, delivered and the outcome alone.
LEMMA Stutter ==
    UNCHANGED <<delivered, told>> /\ UNCHANGED <<ended, result, runErr>> =>
        UNCHANGED Iterator!vars
  BY DEF Iterator!vars, Verdict

\* Before the end is published the iterator has no verdict, whatever the worker does.
LEMMA Unsettled ==
    UNCHANGED <<delivered, told, ended>> /\ ~ended => UNCHANGED Iterator!vars
  BY DEF Iterator!vars, Verdict

\* Every step of the driver is a step of the iterator, or leaves it alone.
LEMMA StepRefines == Driving /\ [Next]_vars => [Iterator!Next]_(Iterator!vars)
<1> SUFFICES ASSUME Driving, [Next]_vars PROVE [Iterator!Next]_(Iterator!vars)
  OBVIOUS
<1> USE DEF work, control, shared, history
<1>0. TypeOK /\ Mutex /\ Outcome /\ Drained /\ Told
  BY DEF Driving, Parts
<1>1. CASE EarlyYield \/ EarlyDone \/ LoopYield \/ LoopReturns \/ Unwind \/ CloseResources
  <2>1. ~ended
    BY <1>0, <1>1 DEF Outcome, Ended, EarlyYield, EarlyDone, LoopYield, LoopReturns, Unwind,
          CloseResources
  <2>2. UNCHANGED <<delivered, told, ended>>
    BY <1>1 DEF EarlyYield, EarlyDone, LoopYield, LoopReturns, Unwind, CloseResources
  <2> QED
    BY <2>1, <2>2, Unsettled
<1>2. CASE \/ SendStopped \/ AwaitStopped \/ Detach \/ CloseChannels \/ Cancel \/ Emit
           \/ UNCHANGED vars
  <2>1. UNCHANGED <<delivered, told>> /\ UNCHANGED <<ended, result, runErr>>
    BY <1>2 DEF SendStopped, AwaitStopped, Detach, CloseChannels, Cancel, Emit, vars
  <2> QED
    BY <2>1, Stutter
<1>3. CASE Finish
  <2>1. UNCHANGED <<delivered, told>>
    BY <1>3 DEF Finish
  <2>2. Verdict = "none" /\ Verdict' \in {"result", "error", "nothing"}
    BY <1>0, <1>3 DEF Finish, Outcome, Ended, Verdict
  <2> QED
    BY <2>1, <2>2 DEF Iterator!Next, Iterator!Settle
<1>4. ASSUME NEW c \in Callers,
             \/ Send(c) \/ Advance(c) \/ CallNext(c) \/ CallClose(c) \/ Lock(c) \/ TakeAdvance(c)
             \/ AdvanceDone(c) \/ StopCancel(c) \/ StopClose(c) \/ StopAgain(c) \/ ReturnClose(c)
      PROVE  [Iterator!Next]_(Iterator!vars)
  <2>1. UNCHANGED <<delivered, told>> /\ UNCHANGED <<ended, result, runErr>>
    BY <1>4 DEF Send, Advance, CallNext, CallClose, Lock, TakeAdvance, AdvanceDone, StopCancel,
                StopClose, StopAgain, ReturnClose
  <2> QED
    BY <2>1, Stutter
<1>5. ASSUME NEW c \in Callers, ReturnOver(c) PROVE [Iterator!Next]_(Iterator!vars)
  <2>1. told' = "over" /\ delivered' = delivered /\ UNCHANGED <<ended, result, runErr>>
    BY <1>5 DEF ReturnOver
  <2>2. Verdict # "none" /\ Verdict' = Verdict
    BY <1>0, <1>5, <2>1 DEF ReturnOver, EventsClosed, Outcome, Ended, Verdict
  <2> QED
    BY <2>1, <2>2 DEF Iterator!Next, Iterator!Over
<1>6. ASSUME NEW c \in Callers, ReturnEvent(c) PROVE [Iterator!Next]_(Iterator!vars)
  <2>1. delivered' = delivered + 1 /\ told' = told /\ UNCHANGED <<ended, result, runErr>>
    BY <1>6 DEF ReturnEvent
  <2>2. told = "open" /\ Verdict' = Verdict
    BY <1>0, <1>6, <2>1 DEF ReturnEvent, Return, Goto, Told, Verdict
  <2> QED
    BY <2>1, <2>2 DEF Iterator!Next, Iterator!Deliver
<1>7. ASSUME NEW c \in Callers, ReturnError(c) PROVE [Iterator!Next]_(Iterator!vars)
  <2>1. told' = "failed" /\ delivered' = delivered /\ UNCHANGED <<ended, result, runErr>>
    BY <1>7 DEF ReturnError
  <2>2. told = "open" /\ ended /\ ~result
    BY <1>0, <1>7 DEF ReturnError, Return, Goto, DoneClosed, Told, Drained, Outcome, Ended
  <2>3. Verdict \notin {"none", "result"} /\ Verdict' = Verdict
    BY <2>1, <2>2 DEF Verdict
  <2> QED
    BY <2>1, <2>2, <2>3 DEF Iterator!Next, Iterator!Fail
<1> QED
  BY <1>1, <1>2, <1>3, <1>4, <1>5, <1>6, <1>7 DEF Next, Worker, Caller

\* The driver implements the iterator that RunIterator describes.
THEOREM DriverIsIterator == Spec => IsIterator
<1>1. Init => Iterator!Init
  BY DEF Init, Iterator!Init, Verdict
<1>2. Driving /\ [Next]_vars => [Iterator!Next]_(Iterator!vars)
  BY StepRefines
<1> QED
  BY <1>1, <1>2, DrivingHolds, PTL DEF Spec, IsIterator, Iterator!Spec
=============================================================================
