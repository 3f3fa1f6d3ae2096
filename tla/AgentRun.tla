------------------------------ MODULE AgentRun ------------------------------
(***************************************************************************)
(* The manually driven run of src/ai/agent_run.go: a worker goroutine that *)
(* executes the run, and goroutines that call Next, Close, Cancel and Emit *)
(* on it.                                                                  *)
(*                                                                         *)
(* The worker sends every event over the unbuffered channel `events' and   *)
(* then waits on the unbuffered channel `advance' until the following call *)
(* of Next lets it go on; both waits also end when Close has closed the    *)
(* channel `stop'.  A transfer over an unbuffered channel is one joint     *)
(* action of the two goroutines, and a select with several ready cases     *)
(* takes any of them.                                                      *)
(*                                                                         *)
(* The run itself is abstracted to the events it yields and the error it   *)
(* returns.  EventQueue models which goroutine yields them; here it is the *)
(* worker, or a goroutine the worker waits for.                            *)
(***************************************************************************)
EXTENDS Naturals, FiniteSets

CONSTANTS
    Callers,     \* goroutines holding the AgentRun
    MaxEvents,   \* bound: events of the run
    None

ASSUME CallersAssumption == None \notin Callers /\ MaxEvents \in Nat

VARIABLES
    worker,          \* where the worker goroutine is
    phase,           \* early: inside setEventEmitter; loop: inside wrappedLoop
    queued,          \* events emitted before the worker started and not yet yielded
    sent,            \* events emitted so far
    item,            \* what the worker is sending
    result,          \* the worker's result # nil
    runErr,          \* the worker's runErr: the errors joined in it
    closeErr,        \* the error of closeRunResources
    left,            \* Close interrupted the sending of an event
    cause,           \* the cause of the cancelled run context
    active,          \* runCancellation.active
    stopOnce,        \* stopOnce and the channel stop: fresh, running, done
    ended,           \* r.ended: result, runErr and closeErr are published
    pendingAdvance,  \* r.pendingAdvance
    nextMu,          \* the holder of nextMu
    pc,              \* where each caller is in a call
    taken,           \* the item the holder of nextMu has received
    delivered,       \* history: events Next has returned
    told,            \* history: what Next has said of the end of the run
    reported         \* history: the errors Next has returned

work    == <<worker, phase, queued, sent, item, result, runErr, closeErr, left>>
control == <<cause, active, stopOnce>>
shared  == <<ended, pendingAdvance, nextMu>>
history == <<delivered, told, reported>>
vars    == <<work, control, shared, pc, taken, history>>

Causes == {"cancelled", "detached", "context"}
Errors == Causes \cup {"run", "processor", "close"}

EventsClosed == worker \in {"closeDone", "over"}
DoneClosed   == worker = "over"
StopClosed   == stopOnce = "done"

Goto(c, from, to) == pc[c] = from /\ pc' = [pc EXCEPT ![c] = to]

Cancelling(why) == cause' = IF active /\ cause = "none" THEN why ELSE cause

-----------------------------------------------------------------------------
(* The worker *)

StartWorker == worker' = IF worker = "unstarted" THEN "early" ELSE worker

Resumed == IF phase = "early" THEN "early" ELSE "loop"

Backlog == queued > 0

\* An event emitted before the worker started is drained by setEventEmitter.  A
\* capability's stream processor may fail on it, or a listener.
EarlyYield ==
    /\ worker = "early" /\ Backlog
    /\ worker' = "send"
    /\ \/ item' = "event" /\ queued' = queued - 1 /\ UNCHANGED runErr
       \/ item' = "processor" /\ queued' = queued - 1 /\ runErr' = {"processor"}
       \/ item' = "run" /\ queued' = 0 /\ runErr' = {"run"}
    /\ UNCHANGED <<phase, sent, result, closeErr, left, control, shared, pc, taken, history>>

EarlyDone ==
    /\ worker = "early" /\ queued = 0
    /\ worker' = "loop" /\ phase' = "loop"
    /\ UNCHANGED <<queued, sent, item, result, runErr, closeErr, left, control, shared, pc, taken,
                   history>>

\* The run emits an event; the stream processor may fail on it.
LoopYield ==
    /\ worker = "loop" /\ sent < MaxEvents
    /\ sent' = sent + 1 /\ worker' = "send"
    /\ \/ item' = "event" /\ UNCHANGED runErr
       \/ item' = "processor" /\ runErr' = {"processor"}
    /\ UNCHANGED <<phase, queued, result, closeErr, left, control, shared, pc, taken, history>>

\* What wrappedLoop returns: the cause of a cancelled context prevails.
LoopReturns ==
    /\ worker = "loop"
    /\ \/ cause # "none" /\ item' = cause
       \/ cause = "none" /\ item' \in {"none", "run"}
    /\ result' = (item' = "none")
    /\ runErr' = IF item' = "none" THEN {} ELSE {item'}
    /\ worker' = IF item' = "none" THEN "closing" ELSE "send"
    /\ UNCHANGED <<phase, queued, sent, closeErr, left, control, shared, pc, taken, history>>

\* Where the worker goes on once an item has been handed over or given up: the
\* range loop goes on with the iteration it is in.
AfterError ==
    CASE item = "processor" -> "detach"
      [] item = "close" -> "finish"
      [] OTHER -> "closing"
AfterStop  == IF item = "event" THEN "detach" ELSE AfterError

\* Mutant: send does not wait for the caller to come back.
AfterSendHasty == IF item = "event" THEN Resumed ELSE AfterError

AfterSend == IF item = "event" THEN "await" ELSE AfterError

\* events <- item, received by Next.
Send(c) ==
    /\ worker = "send"
    /\ Goto(c, "receive", IF item = "event" THEN "mark" ELSE "drain")
    /\ taken' = item
    /\ worker' = AfterSend
    /\ UNCHANGED <<phase, queued, sent, item, result, runErr, closeErr, left, control, shared,
                   history>>

SendStopped ==
    /\ worker = "send" /\ StopClosed
    /\ worker' = AfterStop
    /\ left' = (left \/ item = "event")
    /\ UNCHANGED <<phase, queued, sent, item, result, runErr, closeErr, control, shared, pc, taken,
                   history>>

\* Mutant: send waits for an advance only.
AwaitStoppedNever == FALSE /\ UNCHANGED vars

AwaitStopped ==
    /\ worker = "await" /\ StopClosed
    /\ worker' = "detach" /\ left' = TRUE
    /\ UNCHANGED <<phase, queued, sent, item, result, runErr, closeErr, control, shared, pc, taken,
                   history>>

\* The function given to setEventEmitter learns that the loop body was left.
Detach ==
    /\ worker = "detach" /\ worker' = "unwind"
    /\ Cancelling("detached")
    /\ UNCHANGED <<phase, queued, sent, item, result, runErr, closeErr, left, active, stopOnce,
                   shared, pc, taken, history>>

\* Its emission fails: setEventEmitter drops its queue and returns false, or
\* wrappedLoop returns the cause.  Either way runErr is overwritten.
Unwind ==
    /\ worker = "unwind" /\ worker' = "closing"
    /\ queued' = 0
    /\ runErr' = IF phase = "early" THEN {} ELSE {cause}
    /\ UNCHANGED <<phase, sent, item, result, closeErr, left, control, shared, pc, taken, history>>

\* closeRunResources and cancellation.finish.
CloseResources ==
    /\ worker = "closing"
    /\ active' = FALSE
    /\ closeErr' \in {{}, {"close"}}
    /\ runErr' = runErr \cup closeErr'
    /\ result' = (result /\ runErr' = {})
    /\ IF closeErr' # {} /\ runErr = {}
       THEN worker' = "send" /\ item' = "close"
       ELSE worker' = "finish" /\ UNCHANGED item
    /\ UNCHANGED <<phase, queued, sent, left, cause, stopOnce, shared, pc, taken, history>>

\* finish: the outcome is published, then the channels are closed.
Finish ==
    /\ worker = "finish" /\ worker' = "closeEvents"
    /\ ended' = TRUE /\ pendingAdvance' = FALSE
    /\ UNCHANGED <<phase, queued, sent, item, result, runErr, closeErr, left, control, nextMu, pc,
                   taken, history>>

CloseChannels ==
    /\ \/ worker = "closeEvents" /\ worker' = "closeDone"
       \/ worker = "closeDone" /\ worker' = "over"
    /\ UNCHANGED <<phase, queued, sent, item, result, runErr, closeErr, left, control, shared, pc,
                   taken, history>>

-----------------------------------------------------------------------------
(* Next *)

CallNext(c) ==
    /\ Goto(c, "idle", "lock")
    /\ UNCHANGED <<work, control, shared, taken, history>>

Lock(c) ==
    /\ nextMu = None /\ nextMu' = c
    /\ Goto(c, "lock", "locked")
    /\ StartWorker
    /\ UNCHANGED <<phase, queued, sent, item, result, runErr, closeErr, left, control, ended,
                   pendingAdvance, taken, history>>

TakeAdvance(c) ==
    /\ Goto(c, "locked", IF pendingAdvance THEN "advance" ELSE "receive")
    /\ pendingAdvance' = FALSE
    /\ UNCHANGED <<work, control, ended, nextMu, taken, history>>

\* advance <- struct{}{}, received by the worker.
Advance(c) ==
    /\ worker = "await" /\ worker' = Resumed
    /\ Goto(c, "advance", "receive")
    /\ UNCHANGED <<phase, queued, sent, item, result, runErr, closeErr, left, control, shared,
                   taken, history>>

AdvanceDone(c) ==
    /\ DoneClosed /\ Goto(c, "advance", "receive")
    /\ UNCHANGED <<work, control, shared, taken, history>>

Return(c, from) == Goto(c, from, "idle") /\ nextMu' = None

\* The channel events is closed: ok is false, no error.
ReturnOver(c) ==
    /\ EventsClosed /\ Return(c, "receive")
    /\ told' = "over"
    /\ UNCHANGED <<work, control, ended, pendingAdvance, taken, delivered, reported>>

\* Mutant: the worker is not owed an advance.
ReturnEventForgetful(c) ==
    /\ Return(c, "mark")
    /\ delivered' = delivered + 1
    /\ UNCHANGED <<work, control, ended, pendingAdvance, taken, told, reported>>

ReturnEvent(c) ==
    /\ Return(c, "mark")
    /\ pendingAdvance' = TRUE /\ delivered' = delivered + 1
    /\ UNCHANGED <<work, control, ended, taken, told, reported>>

\* Mutant: the error is returned without waiting for the end of the worker.
ReturnErrorEarly(c) ==
    /\ Return(c, "drain")
    /\ told' = "failed" /\ reported' = reported \cup {taken}
    /\ UNCHANGED <<work, control, ended, pendingAdvance, taken, delivered>>

ReturnError(c) ==
    /\ DoneClosed /\ Return(c, "drain")
    /\ told' = "failed" /\ reported' = reported \cup {taken}
    /\ UNCHANGED <<work, control, ended, pendingAdvance, taken, delivered>>

-----------------------------------------------------------------------------
(* Close, Cancel, Emit *)

CallClose(c) ==
    /\ Goto(c, "idle", "close")
    /\ StartWorker
    /\ UNCHANGED <<phase, queued, sent, item, result, runErr, closeErr, left, control, shared,
                   taken, history>>

\* Mutant: Close does not cancel the run.
StopCancelForgetful(c) ==
    /\ stopOnce = "fresh" /\ stopOnce' = "running"
    /\ Goto(c, "close", "stopping")
    /\ UNCHANGED <<work, cause, active, shared, taken, history>>

\* stopOnce: the run is cancelled before stop is closed.
StopCancel(c) ==
    /\ stopOnce = "fresh" /\ stopOnce' = "running"
    /\ Goto(c, "close", "stopping")
    /\ Cancelling("cancelled")
    /\ UNCHANGED <<work, active, shared, taken, history>>

StopClose(c) ==
    /\ Goto(c, "stopping", "closed")
    /\ stopOnce' = "done"
    /\ UNCHANGED <<work, cause, active, shared, taken, history>>

StopAgain(c) ==
    /\ StopClosed /\ Goto(c, "close", "closed")
    /\ UNCHANGED <<work, control, shared, taken, history>>

ReturnClose(c) ==
    /\ DoneClosed /\ Goto(c, "closed", "idle")
    /\ UNCHANGED <<work, control, shared, taken, history>>

\* AgentRun.Cancel, RunContext.Cancel and a deadline; and the cancellation of
\* the context StartRun was given.
Cancel ==
    /\ cause = "none" /\ active
    /\ \/ Cancelling("cancelled")
       \/ Cancelling("context")
    /\ UNCHANGED <<work, active, stopOnce, shared, pc, taken, history>>

\* Emit before setEventEmitter has returned: the event joins the queue, unless a
\* listener has failed.  Afterwards an emission is one of LoopYield.
Emit ==
    /\ ~ended /\ active /\ phase = "early" /\ item # "run"
    /\ worker \in {"unstarted", "early", "send", "await", "detach"}
    /\ sent < MaxEvents
    /\ sent' = sent + 1 /\ queued' = queued + 1
    /\ UNCHANGED <<worker, phase, item, result, runErr, closeErr, left, control, shared, pc, taken,
                   history>>

-----------------------------------------------------------------------------
Init ==
    /\ worker = "unstarted" /\ phase = "early" /\ queued = 0 /\ sent = 0 /\ item = "none"
    /\ result = FALSE /\ runErr = {} /\ closeErr = {} /\ left = FALSE
    /\ cause = "none" /\ active = TRUE /\ stopOnce = "fresh"
    /\ ended = FALSE /\ pendingAdvance = FALSE /\ nextMu = None
    /\ pc = [c \in Callers |-> "idle"] /\ taken = "none"
    /\ delivered = 0 /\ told = "open" /\ reported = {}

Worker ==
    \/ EarlyYield \/ EarlyDone \/ LoopYield \/ LoopReturns \/ SendStopped \/ AwaitStopped
    \/ Detach \/ Unwind \/ CloseResources \/ Finish \/ CloseChannels
    \/ \E c \in Callers : Send(c) \/ Advance(c)

\* The steps of a call that has begun, but for the wait for nextMu.
Caller(c) ==
    \/ TakeAdvance(c) \/ AdvanceDone(c) \/ ReturnOver(c) \/ ReturnEvent(c) \/ ReturnError(c)
    \/ StopCancel(c) \/ StopClose(c) \/ StopAgain(c) \/ ReturnClose(c)

Next ==
    \/ Worker \/ Cancel \/ Emit
    \/ \E c \in Callers : CallNext(c) \/ CallClose(c) \/ Lock(c) \/ Caller(c)

Spec == Init /\ [][Next]_vars

\* The Go scheduler runs every goroutine that can run, and sync.Mutex does not
\* starve a waiting goroutine.  Nobody has to call Next again, and the worker
\* returns from the run because models and tools do.
Fairness ==
    /\ WF_vars(Worker)
    /\ \A c \in Callers : WF_vars(Caller(c)) /\ SF_vars(Lock(c))

FairSpec == Spec /\ Fairness

-----------------------------------------------------------------------------
(* Properties *)

InNext(c)  == pc[c] \in {"lock", "locked", "advance", "receive", "mark", "drain"}
InClose(c) == pc[c] \in {"close", "stopping", "closed"}

WorkerLabels == {"unstarted", "early", "loop", "send", "await", "detach", "unwind", "closing",
                 "finish", "closeEvents", "closeDone", "over"}
CallerLabels == {"idle", "lock", "locked", "advance", "receive", "mark", "drain", "close",
                 "stopping", "closed"}

\* Types, and the ranges of what the worker knows.
TypeOK ==
    /\ worker \in WorkerLabels /\ phase \in {"early", "loop"}
    /\ queued \in 0..MaxEvents /\ sent \in 0..MaxEvents
    /\ item \in {"none", "event"} \cup Errors
    /\ result \in BOOLEAN /\ runErr \subseteq Errors /\ closeErr \subseteq {"close"}
    /\ left \in BOOLEAN
    /\ cause \in {"none"} \cup Causes /\ active \in BOOLEAN
    /\ stopOnce \in {"fresh", "running", "done"}
    /\ ended \in BOOLEAN /\ pendingAdvance \in BOOLEAN
    /\ nextMu \in Callers \cup {None} /\ pc \in [Callers -> CallerLabels]
    /\ taken \in {"none", "event"} \cup Errors
    /\ delivered \in Nat /\ told \in {"open", "failed", "over"} /\ reported \subseteq Errors

\* The run executes only while a caller is inside Next or Close: between two
\* calls the worker has not started, waits for an advance or is over.
LockStep ==
    worker \notin {"unstarted", "await", "closeDone", "over"} =>
        \E c \in Callers : InNext(c) \/ InClose(c)

\* The two ends of the handshake agree: a worker that waits for an advance is
\* owed one, and no Next waits for an event at the same time.
NoStandoff ==
    worker = "await" =>
        /\ \A c \in Callers : pc[c] # "receive"
        /\ pendingAdvance \/ \E c \in Callers : pc[c] \in {"mark", "advance"}

\* A run whose event Close interrupted reports its cancellation, never the
\* internal error for a detached consumer.  A run closed while it drains the
\* events emitted before its start is the exception: it reports nothing.
ClosedIsCancelled ==
    ended /\ left /\ phase = "loop" => runErr \cap {"cancelled", "context"} # {}

\* What Err reports after the end covers every error Next has returned.  The
\* code overwrites the error of a stream processor with that of wrappedLoop.
ErrCoversNext == ended => reported \subseteq runErr

\* The driver implements the iterator it promises.
Verdict ==
    IF ~ended THEN "none"
    ELSE IF result THEN "result" ELSE IF runErr # {} THEN "error" ELSE "nothing"

Iterator == INSTANCE RunIterator WITH verdict <- Verdict

IsIterator == Iterator!Spec

\* Close always returns: the worker never waits for ever for a caller that has
\* closed the run, nor for one that has gone.
CloseReturns == \A c \in Callers : InClose(c) ~> pc[c] = "idle"

\* A Next that has taken an error waits for the worker, and the worker for a
\* Next that would take the error of closeRunResources.
Standoff == worker = "send" /\ item = "close" /\ \E c \in Callers : pc[c] = "drain"

\* Next always returns, but in one case: the stream processor failed on an
\* event emitted before the start, its error was handed over and forgotten, and
\* closing the resources failed too.
NextReturns == \A c \in Callers : InNext(c) ~> (pc[c] = "idle" \/ Standoff)
=============================================================================
