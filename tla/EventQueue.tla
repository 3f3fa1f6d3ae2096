----------------------------- MODULE EventQueue -----------------------------
(***************************************************************************)
(* The event queue of a run: emitStreamEvent, emitImmediateEvent,          *)
(* setEventEmitter and drainStreamEvents of src/ai/loop.go, and the range- *)
(* over-func iteration of src/ai/stream_run.go and src/ai/agent_run.go     *)
(* they call into.                                                         *)
(*                                                                         *)
(* Any goroutine may emit.  One of them at a time owns the queue (the flag *)
(* eventDispatching) and runs the listeners and the consumer's loop body   *)
(* for every queued event; the others only append.  The steps of an        *)
(* emission between two uses of eventMu are separate actions.              *)
(***************************************************************************)
EXTENDS Naturals, Sequences, FiniteSets

CONSTANTS
    Loop,        \* the goroutine of the run loop
    Tools,       \* goroutines of one group of parallel tool calls
    Outside,     \* other goroutines holding the AgentRun or a RunContext
    MaxEvents,   \* bound: events one goroutine emits
    MaxQueued,   \* bound: events of the run
    None

Actors == {Loop} \cup Tools \cup Outside

ASSUME ActorsAssumption ==
    /\ Loop \notin Tools \cup Outside /\ Tools \cap Outside = {}
    /\ MaxEvents \in Nat /\ MaxQueued \in Nat
    /\ None \notin Actors \X (1..MaxEvents)

VARIABLES
    mode,        \* the run: setup, running, batch, returned, finished
    consumer,    \* the consumer's range loop: waiting, ranging, stopped, exited
    emitter,     \* r.emit # nil
    queue,       \* r.eventQueue: the event, and whether its listeners ran
    dispatching, \* r.eventDispatching
    eventErr,    \* r.eventErr # nil
    pc,          \* where each goroutine is in an emission
    cur,         \* the event it handles
    was,         \* emitImmediateEvent's wasDispatching
    count,       \* events each goroutine has emitted
    refused,     \* goroutines whose last emission was refused
    panicked,    \* the Go runtime stopped the program
    emitted,     \* history: events in the order they entered the queue
    heard,       \* history: events in the order their listeners ran
    delivered    \* history: events in the order the loop body got them

vars == <<mode, consumer, emitter, queue, dispatching, eventErr, pc, cur, was, count, refused,
          panicked, emitted, heard, delivered>>

run     == <<mode, consumer, panicked>>
history == <<emitted, heard, delivered>>

Event(a) == <<a, count[a] + 1>>

Goto(a, label) == pc' = [pc EXCEPT ![a] = label]

\* emitEvent reports an error when the emission was refused or cut short.
Done(a, ok) ==
    /\ Goto(a, "idle")
    /\ refused' = IF ok THEN refused \ {a} ELSE refused \cup {a}

-----------------------------------------------------------------------------
(* Emitting *)

\* The loop stops emitting once refused; tools emit while their group runs;
\* emitEvent refuses everybody once the run is finished.
MayEmit(a) ==
    /\ pc[a] = "idle" /\ mode # "finished"
    /\ count[a] < MaxEvents /\ Len(emitted) < MaxQueued
    /\ a = Loop => mode \in {"setup", "running"} /\ a \notin refused
    /\ a \in Tools => mode = "batch"

Append1(a, ran) ==
    /\ queue' = Append(queue, [event |-> Event(a), ran |-> ran])
    /\ emitted' = Append(emitted, Event(a))
    /\ count' = [count EXCEPT ![a] = @ + 1]

Refuse(a) ==
    /\ count' = [count EXCEPT ![a] = @ + 1] /\ Done(a, FALSE)
    /\ UNCHANGED <<queue, emitted, dispatching>>

\* Mutant: the flag is set but not consulted.
EmitGreedy(a) ==
    /\ MayEmit(a)
    /\ \/ eventErr /\ Refuse(a)
       \/ /\ ~eventErr /\ Append1(a, FALSE)
          /\ IF ~emitter
             THEN Done(a, TRUE) /\ UNCHANGED dispatching
             ELSE Goto(a, "drain") /\ dispatching' = TRUE /\ UNCHANGED refused
    /\ UNCHANGED <<run, emitter, eventErr, cur, was, heard, delivered>>

\* emitStreamEvent
Emit(a) ==
    /\ MayEmit(a)
    /\ \/ eventErr /\ Refuse(a)
       \/ /\ ~eventErr /\ Append1(a, FALSE)
          /\ IF dispatching \/ ~emitter
             THEN Done(a, TRUE) /\ UNCHANGED dispatching
             ELSE Goto(a, "drain") /\ dispatching' = TRUE /\ UNCHANGED refused
    /\ UNCHANGED <<run, emitter, eventErr, cur, was, heard, delivered>>

\* emitImmediateEvent, used by capability callbacks: on the loop's goroutine
\* and on those of the tools.
EmitImmediate(a) ==
    /\ MayEmit(a) /\ a \notin Outside
    /\ \/ eventErr /\ Refuse(a) /\ UNCHANGED <<cur, was>>
       \/ /\ ~eventErr /\ Append1(a, TRUE)
          /\ cur' = [cur EXCEPT ![a] = Event(a)]
          /\ was' = [was EXCEPT ![a] = dispatching]
          /\ dispatching' = TRUE
          /\ Goto(a, "listeners") /\ UNCHANGED refused
    /\ UNCHANGED <<run, emitter, eventErr, heard, delivered>>

\* A listener failed: the queue is dropped, and later emissions are refused.
Break(a) ==
    /\ eventErr' = TRUE /\ queue' = <<>> /\ dispatching' = FALSE
    /\ Done(a, FALSE)

\* dispatchStreamEvent, outside the mutex.
Listen(a) ==
    /\ pc[a] \in {"listeners", "dispatch"}
    /\ heard' = Append(heard, cur[a])
    /\ \/ /\ Goto(a, IF pc[a] = "listeners" THEN "check" ELSE "yield")
          /\ UNCHANGED <<eventErr, queue, dispatching, refused>>
       \/ Break(a)
    /\ cur' = [cur EXCEPT ![a] = IF pc'[a] = "yield" THEN @ ELSE None]
    /\ UNCHANGED <<run, emitter, was, count, emitted, delivered>>

\* The unlocked test of r.emit after an immediate event.
Check(a) ==
    /\ pc[a] = "check"
    /\ IF was[a]
       THEN Done(a, TRUE)
       ELSE Goto(a, IF emitter THEN "drain" ELSE "release") /\ UNCHANGED refused
    /\ UNCHANGED <<run, emitter, queue, dispatching, eventErr, cur, was, count, history>>

Release(a) ==
    /\ pc[a] = "release"
    /\ dispatching' = FALSE /\ Done(a, TRUE)
    /\ UNCHANGED <<run, emitter, queue, eventErr, cur, was, count, history>>

-----------------------------------------------------------------------------
(* Draining: drainStreamEvents *)

Take == [event |-> Head(queue), rest |-> Tail(queue)]

\* Mutant: the listeners of an immediate event run again.
AfterPopAgain(item) == "dispatch"

AfterPop(item) == IF item.ran THEN "yield" ELSE "dispatch"

Pop(a) ==
    /\ pc[a] = "drain"
    /\ IF queue = <<>>
       THEN dispatching' = FALSE /\ Done(a, TRUE) /\ UNCHANGED <<queue, cur>>
       ELSE /\ queue' = Take.rest
            /\ cur' = [cur EXCEPT ![a] = Take.event.event]
            /\ Goto(a, AfterPop(Take.event))
            /\ UNCHANGED <<dispatching, refused>>
    /\ UNCHANGED <<run, emitter, eventErr, was, count, history>>

\* emit calls the body of the consumer's range loop.  The Go runtime stops the
\* program when that loop is already left.
EnterBody(a) ==
    /\ pc[a] = "yield"
    /\ \/ /\ consumer = "ranging"
          /\ Goto(a, "body") /\ cur' = [cur EXCEPT ![a] = None]
          /\ delivered' = Append(delivered, cur[a])
          /\ UNCHANGED panicked
       \/ /\ consumer # "ranging" /\ panicked' = TRUE
          /\ UNCHANGED <<pc, cur, delivered>>
    /\ UNCHANGED <<mode, consumer, emitter, queue, dispatching, eventErr, was, count, refused,
                   emitted, heard>>

\* The body goes on to the next event, or leaves the loop.
LeaveBody(a) ==
    /\ pc[a] = "body"
    /\ \/ Goto(a, "drain") /\ UNCHANGED consumer
       \/ Goto(a, "stop") /\ consumer' = "stopped"
    /\ UNCHANGED <<mode, panicked, emitter, queue, dispatching, eventErr, cur, was, count, refused,
                   history>>

\* Mutant: a goroutine whose consumer left keeps the queue.
StopForgetful(a) ==
    /\ pc[a] = "stop"
    /\ queue' = <<>> /\ Done(a, FALSE)
    /\ UNCHANGED <<run, emitter, dispatching, eventErr, cur, was, count, history>>

\* The end of drainStreamEvents for a consumer that left: nothing records it.
Stop(a) ==
    /\ pc[a] = "stop"
    /\ queue' = <<>> /\ dispatching' = FALSE /\ Done(a, FALSE)
    /\ UNCHANGED <<run, emitter, eventErr, cur, was, count, history>>

-----------------------------------------------------------------------------
(* The run *)

\* Mutant: events queued before the consumer came wait for the next emission.
OpenLazy ==
    /\ mode = "setup" /\ pc[Loop] = "idle"
    /\ mode' = "running" /\ consumer' = "ranging" /\ emitter' = TRUE
    /\ UNCHANGED <<panicked, queue, dispatching, eventErr, pc, cur, was, count, refused, history>>

\* setEventEmitter, when the consumer starts to range.
Open ==
    /\ mode = "setup" /\ pc[Loop] = "idle"
    /\ mode' = "running" /\ consumer' = "ranging" /\ emitter' = TRUE
    /\ IF dispatching \/ queue = <<>>
       THEN UNCHANGED <<dispatching, pc>>
       ELSE dispatching' = TRUE /\ Goto(Loop, "drain")
    /\ UNCHANGED <<panicked, queue, eventErr, cur, was, count, refused, history>>

\* executeIndexBatch starts the goroutines of a group and waits for them.
StartBatch ==
    /\ mode = "running" /\ pc[Loop] = "idle" /\ Loop \notin refused
    /\ mode' = "batch"
    /\ UNCHANGED <<consumer, panicked, emitter, queue, dispatching, eventErr, pc, cur, was, count,
                   refused, history>>

JoinBatch ==
    /\ mode = "batch" /\ \A t \in Tools : pc[t] = "idle"
    /\ mode' = "running"
    /\ UNCHANGED <<consumer, panicked, emitter, queue, dispatching, eventErr, pc, cur, was, count,
                   refused, history>>

\* wrappedLoop has returned and the iterator function returns with it.  The Go
\* runtime stops the program when the loop body is still being executed.
LoopReturns ==
    /\ mode = "running" /\ pc[Loop] = "idle"
    /\ mode' = "returned"
    /\ consumer' = IF consumer = "ranging" THEN "exited" ELSE consumer
    /\ panicked' = \E a \in Actors : pc[a] = "body"
    /\ UNCHANGED <<emitter, queue, dispatching, eventErr, pc, cur, was, count, refused, history>>

\* closeRunResources is over and cancellation.finish ends the run.
FinishRun ==
    /\ mode = "returned" /\ mode' = "finished"
    /\ UNCHANGED <<consumer, panicked, emitter, queue, dispatching, eventErr, pc, cur, was, count,
                   refused, history>>

Init ==
    /\ mode = "setup" /\ consumer = "waiting" /\ emitter = FALSE
    /\ queue = <<>> /\ dispatching = FALSE /\ eventErr = FALSE
    /\ pc = [a \in Actors |-> "idle"] /\ cur = [a \in Actors |-> None]
    /\ was = [a \in Actors |-> FALSE] /\ count = [a \in Actors |-> 0]
    /\ refused = {} /\ panicked = FALSE /\ emitted = <<>> /\ heard = <<>> /\ delivered = <<>>

Step(a) ==
    \/ Emit(a) \/ EmitImmediate(a) \/ Listen(a) \/ Check(a) \/ Release(a)
    \/ Pop(a) \/ EnterBody(a) \/ LeaveBody(a) \/ Stop(a)

Next ==
    /\ ~panicked
    /\ Open \/ StartBatch \/ JoinBatch \/ LoopReturns \/ FinishRun \/ \E a \in Actors : Step(a)

Spec == Init /\ [][Next]_vars

-----------------------------------------------------------------------------
(* Properties *)

Labels == {"idle", "listeners", "check", "release", "drain", "dispatch", "yield", "body",
           "stop"}
Events == Actors \X (1..MaxEvents)
Items == [event : Events, ran : BOOLEAN]

TypeOK ==
    /\ mode \in {"setup", "running", "batch", "returned", "finished"}
    /\ consumer \in {"waiting", "ranging", "stopped", "exited"}
    /\ emitter \in BOOLEAN /\ dispatching \in BOOLEAN /\ eventErr \in BOOLEAN
    /\ queue \in Seq(Items)
    /\ pc \in [Actors -> Labels]
    /\ cur \in [Actors -> Events \cup {None}]
    /\ was \in [Actors -> BOOLEAN] /\ count \in [Actors -> 0..MaxEvents]
    /\ refused \subseteq Actors /\ panicked \in BOOLEAN
    /\ emitted \in Seq(Events) /\ heard \in Seq(Events) /\ delivered \in Seq(Events)

\* The goroutines that own the queue.
Owns(a) ==
    \/ pc[a] \in {"drain", "dispatch", "yield", "body", "stop", "release"}
    \/ pc[a] \in {"listeners", "check"} /\ ~was[a]

\* At most one goroutine at a time runs the consumer's loop body or takes
\* events from the queue, however emissions, listener errors and the end of
\* the consumer interleave.
AtMostOneOwner == \A a, b \in Actors : Owns(a) /\ Owns(b) => a = b

\* eventDispatching is set exactly while a goroutine owns the queue, so that no
\* emission waits for an owner that is gone; a listener error clears it for good.
FlagTellsOwner ==
    /\ ~eventErr => (dispatching <=> \E a \in Actors : Owns(a))
    /\ eventErr => ~dispatching /\ queue = <<>>

SingleOwner == AtMostOneOwner /\ FlagTellsOwner

\* The events an owner has taken from the queue and not yet handed over.
InHand == {a \in Actors : pc[a] \in {"dispatch", "yield"}}

EventsOf(q) == [i \in DOMAIN q |-> q[i].event]
QueuedEvents == EventsOf(queue)

\* The consumer gets every event once, in the order the emissions took eventMu,
\* whichever goroutine delivers it; events are dropped only when a listener
\* failed or the consumer left.
InOrder ==
    \/ eventErr \/ consumer = "stopped"
    \/ InHand = {} /\ emitted = delivered \o QueuedEvents
    \/ \E a \in InHand : emitted = Append(delivered, cur[a]) \o QueuedEvents

\* The listeners see an event at most once, and never later than the consumer,
\* except that the consumer may get an immediate event whose listeners are
\* still running on the goroutine that emitted it.
ListenersOnce ==
    /\ \A i, j \in DOMAIN heard : heard[i] = heard[j] => i = j
    /\ \A i \in DOMAIN delivered :
           \/ \E j \in DOMAIN heard : heard[j] = delivered[i]
           \/ \E a \in Actors : pc[a] = "listeners" /\ cur[a] = delivered[i]

\* Once there is a consumer, no event stays in the queue without a goroutine
\* that will deliver or drop it.
NoStrand == emitter /\ queue # <<>> => \E a \in Actors : Owns(a) /\ pc[a] # "release"

\* An emission after the consumer left its loop reports an error.  The code
\* calls the body of the loop again, which the Go runtime answers by stopping
\* the program.
DetachmentObserved == consumer = "stopped" => ~panicked
=============================================================================
