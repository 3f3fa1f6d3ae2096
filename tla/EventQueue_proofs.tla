-------------------------- MODULE EventQueue_proofs --------------------------
(***************************************************************************)
(* Proofs about EventQueue, for any number of goroutines and events: its   *)
(* types, the ownership of the queue, that no event is stranded, and the   *)
(* order of delivery.                                                      *)
(***************************************************************************)
EXTENDS EventQueue, TLAPS, SequenceTheorems

\* A goroutine that runs listeners or is about to call the loop body holds an
\* event.
Holding == \A a \in Actors : pc[a] \in {"listeners", "dispatch", "yield"} => cur[a] \in Events

Typed == TypeOK /\ Holding

\* The initial state has the types.
LEMMA InitTyped == Init => Typed
<1> SUFFICES ASSUME Init PROVE Typed
  OBVIOUS
<1>1. /\ pc \in [Actors -> Labels] /\ was \in [Actors -> BOOLEAN]
  BY DEF Init, Labels
<1>2. cur \in [Actors -> Events \cup {None}]
  BY DEF Init
<1>3. count \in [Actors -> 0..MaxEvents]
  BY ActorsAssumption DEF Init
<1>4. queue \in Seq(Items)
  BY DEF Init
<1>5. emitted \in Seq(Events) /\ heard \in Seq(Events) /\ delivered \in Seq(Events)
  BY DEF Init
<1>6. Holding
  BY DEF Init, Holding
<1>7. /\ mode \in {"setup", "running", "batch", "returned", "finished"}
    /\ consumer \in {"waiting", "ranging", "stopped", "exited"}
    /\ emitter \in BOOLEAN /\ dispatching \in BOOLEAN /\ eventErr \in BOOLEAN
    /\ refused \subseteq Actors /\ panicked \in BOOLEAN
  BY DEF Init
<1> QED
  BY <1>1, <1>2, <1>3, <1>4, <1>5, <1>6, <1>7 DEF Typed, TypeOK

\* What moving to a label of Labels leaves of the types.
LEMMA GotoTyped ==
  ASSUME pc \in [Actors -> Labels], NEW a \in Actors, NEW label \in Labels, Goto(a, label)
  PROVE  pc' \in [Actors -> Labels] /\ pc'[a] = label /\ \A b \in Actors \ {a} : pc'[b] = pc[b]
  BY DEF Goto

\* What the end of an emission leaves of the types.
LEMMA DoneTyped ==
  ASSUME pc \in [Actors -> Labels], refused \subseteq Actors, NEW a \in Actors, NEW ok,
         Done(a, ok)
  PROVE  /\ pc' \in [Actors -> Labels] /\ pc'[a] = "idle"
         /\ \A b \in Actors \ {a} : pc'[b] = pc[b]
         /\ refused' \subseteq Actors
  BY DEF Done, Goto, Labels

\* Every step keeps the types of the variables.
LEMMA StepTyped == Typed /\ [Next]_vars => Typed'
<1> SUFFICES ASSUME Typed, [Next]_vars PROVE Typed'
  OBVIOUS
<1>0. TypeOK /\ Holding
  BY DEF Typed
<1>a. {"idle", "listeners", "check", "release", "drain", "dispatch", "yield", "body", "stop"}
        \subseteq Labels
  BY DEF Labels
<1>b. ASSUME NEW a \in Actors, NEW ran \in BOOLEAN, MayEmit(a), Append1(a, ran)
      PROVE  /\ Event(a) \in Events /\ queue' \in Seq(Items) /\ emitted' \in Seq(Events)
             /\ count' \in [Actors -> 0..MaxEvents]
  <2>1. count \in [Actors -> 0..MaxEvents] /\ count[a] < MaxEvents
    BY <1>0, <1>b DEF TypeOK, MayEmit
  <2>2. Event(a) \in Events
    BY <2>1, ActorsAssumption DEF Event, Events
  <2>3. [event |-> Event(a), ran |-> ran] \in Items
    BY <2>2 DEF Items
  <2>4. queue' \in Seq(Items)
    BY <2>3, <1>0, <1>b DEF TypeOK, Append1
  <2>5. emitted' \in Seq(Events)
    BY <2>2, <1>0, <1>b DEF TypeOK, Append1
  <2>6. count' \in [Actors -> 0..MaxEvents]
    BY <2>1, <1>b, ActorsAssumption DEF Append1
  <2> QED BY <2>2, <2>4, <2>5, <2>6
<1>c. ASSUME NEW a \in Actors, MayEmit(a), Refuse(a)
      PROVE  /\ pc' \in [Actors -> Labels] /\ pc'[a] = "idle"
             /\ \A b \in Actors \ {a} : pc'[b] = pc[b]
             /\ refused' \subseteq Actors /\ count' \in [Actors -> 0..MaxEvents]
             /\ UNCHANGED <<queue, emitted, dispatching>>
  <2>1. count \in [Actors -> 0..MaxEvents] /\ count[a] < MaxEvents
    BY <1>0, <1>c DEF TypeOK, MayEmit
  <2>2. count' \in [Actors -> 0..MaxEvents]
    BY <2>1, <1>c, ActorsAssumption DEF Refuse
  <2> QED BY <1>0, <1>c, <2>2, DoneTyped DEF Refuse, TypeOK
<1>1. ASSUME NEW a \in Actors, Emit(a) PROVE Typed'
  <2>1. UNCHANGED <<mode, consumer, panicked, emitter, eventErr, cur, was, heard, delivered>>
    BY <1>1 DEF Emit, run
  <2>2. CASE eventErr /\ Refuse(a)
    <3>1. MayEmit(a)
      BY <1>1 DEF Emit
    <3> QED BY <1>0, <1>c, <2>1, <2>2, <3>1 DEF TypeOK, Holding, Typed
  <2>3. CASE Append1(a, FALSE) /\ Done(a, TRUE) /\ UNCHANGED dispatching
    <3>1. MayEmit(a)
      BY <1>1 DEF Emit
    <3>2. /\ pc' \in [Actors -> Labels] /\ pc'[a] = "idle"
          /\ \A b \in Actors \ {a} : pc'[b] = pc[b]
          /\ refused' \subseteq Actors
      BY <1>0, <2>3, DoneTyped DEF TypeOK
    <3> QED BY <1>0, <1>b, <2>1, <2>3, <3>1, <3>2 DEF TypeOK, Holding, Typed
  <2>4. CASE Append1(a, FALSE) /\ Goto(a, "drain") /\ dispatching' = TRUE /\ UNCHANGED refused
    <3>1. MayEmit(a)
      BY <1>1 DEF Emit
    <3>2. /\ pc' \in [Actors -> Labels] /\ pc'[a] = "drain"
          /\ \A b \in Actors \ {a} : pc'[b] = pc[b]
      BY <1>0, <1>a, <2>4, GotoTyped DEF TypeOK
    <3> QED BY <1>0, <1>b, <2>1, <2>4, <3>1, <3>2 DEF TypeOK, Holding, Typed
  <2> QED BY <1>1, <2>2, <2>3, <2>4 DEF Emit
<1>2. ASSUME NEW a \in Actors, EmitImmediate(a) PROVE Typed'
  <2>1. UNCHANGED <<mode, consumer, panicked, emitter, eventErr, heard, delivered>> /\ MayEmit(a)
    BY <1>2 DEF EmitImmediate, run
  <2>2. CASE eventErr /\ Refuse(a) /\ UNCHANGED <<cur, was>>
    BY <1>0, <1>c, <2>1, <2>2 DEF TypeOK, Holding, Typed
  <2>3. CASE ~eventErr /\ Append1(a, TRUE)
    <3>1. /\ cur' = [cur EXCEPT ![a] = Event(a)] /\ was' = [was EXCEPT ![a] = dispatching]
          /\ dispatching' = TRUE /\ Goto(a, "listeners") /\ UNCHANGED refused
      BY <1>2, <2>3 DEF EmitImmediate
    <3>2. /\ pc' \in [Actors -> Labels] /\ pc'[a] = "listeners"
          /\ \A b \in Actors \ {a} : pc'[b] = pc[b]
      BY <1>0, <1>a, <3>1, GotoTyped DEF TypeOK
    <3>3. Event(a) \in Events
      BY <1>b, <2>1, <2>3
    <3>4. cur' \in [Actors -> Events \cup {None}] /\ cur'[a] = Event(a)
          /\ \A b \in Actors \ {a} : cur'[b] = cur[b]
      BY <1>0, <3>1, <3>3 DEF TypeOK
    <3>5. was' \in [Actors -> BOOLEAN]
      BY <1>0, <3>1 DEF TypeOK
    <3>6. Holding'
      BY <1>0, <3>2, <3>3, <3>4 DEF Holding
    <3> QED BY <1>0, <1>b, <2>1, <2>3, <3>1, <3>2, <3>4, <3>5, <3>6 DEF TypeOK, Typed
  <2> QED BY <1>2, <2>2, <2>3 DEF EmitImmediate
<1>3. ASSUME NEW a \in Actors, Listen(a) PROVE Typed'
  <2>1. UNCHANGED <<mode, consumer, panicked, emitter, was, count, emitted, delivered>>
    BY <1>3 DEF Listen, run
  <2>2. pc[a] \in {"listeners", "dispatch"} /\ cur[a] \in Events
    BY <1>0, <1>3 DEF Listen, Holding
  <2>3. heard' \in Seq(Events)
    BY <1>0, <1>3, <2>2 DEF Listen, TypeOK
  <2>4. /\ eventErr' \in BOOLEAN /\ queue' \in Seq(Items) /\ dispatching' \in BOOLEAN
        /\ refused' \subseteq Actors
        /\ pc' \in [Actors -> Labels] /\ \A b \in Actors \ {a} : pc'[b] = pc[b]
        /\ pc'[a] \in {"idle", "check", "yield"}
    <3>1. CASE Break(a)
      <4>1. eventErr' = TRUE /\ queue' = <<>> /\ dispatching' = FALSE /\ Done(a, FALSE)
        BY <3>1 DEF Break
      <4>2. queue' \in Seq(Items)
        BY <4>1, EmptySeq
      <4> QED BY <1>0, <4>1, <4>2, DoneTyped DEF TypeOK
    <3>2. CASE /\ Goto(a, IF pc[a] = "listeners" THEN "check" ELSE "yield")
               /\ UNCHANGED <<eventErr, queue, dispatching, refused>>
      BY <1>0, <1>a, <3>2, GotoTyped DEF TypeOK
    <3> QED BY <1>3, <3>1, <3>2 DEF Listen
  <2>5. /\ cur' \in [Actors -> Events \cup {None}]
        /\ \A b \in Actors \ {a} : cur'[b] = cur[b]
        /\ pc'[a] = "yield" => cur'[a] = cur[a]
    BY <1>0, <1>3 DEF Listen, TypeOK
  <2>6. Holding'
    BY <1>0, <2>2, <2>4, <2>5 DEF Holding
  <2> QED BY <1>0, <2>1, <2>3, <2>4, <2>5, <2>6 DEF TypeOK, Typed
<1>4. ASSUME NEW a \in Actors, Check(a) \/ Release(a) PROVE Typed'
  <2>1. /\ UNCHANGED <<mode, consumer, panicked, emitter, queue, eventErr, cur, was, count>>
        /\ UNCHANGED <<emitted, heard, delivered>>
    BY <1>4 DEF Check, Release, run, history
  <2>2. dispatching' \in BOOLEAN
    BY <1>0, <1>4 DEF Check, Release, TypeOK
  <2>3. /\ refused' \subseteq Actors
        /\ pc' \in [Actors -> Labels] /\ \A b \in Actors \ {a} : pc'[b] = pc[b]
        /\ pc'[a] \in {"idle", "drain", "release"}
    <3>1. CASE Done(a, TRUE)
      BY <1>0, <3>1, DoneTyped DEF TypeOK
    <3>2. CASE Goto(a, IF emitter THEN "drain" ELSE "release") /\ UNCHANGED refused
      BY <1>0, <1>a, <3>2, GotoTyped DEF TypeOK
    <3> QED BY <1>4, <3>1, <3>2 DEF Check, Release
  <2> QED BY <1>0, <2>1, <2>2, <2>3 DEF TypeOK, Holding, Typed
<1>5. ASSUME NEW a \in Actors, Pop(a) PROVE Typed'
  <2>1. /\ UNCHANGED <<mode, consumer, panicked, emitter, eventErr, was, count>>
        /\ UNCHANGED <<emitted, heard, delivered>>
    BY <1>5 DEF Pop, run, history
  <2>2. CASE queue = <<>>
    <3>1. dispatching' = FALSE /\ Done(a, TRUE) /\ UNCHANGED <<queue, cur>>
      BY <1>5, <2>2 DEF Pop
    <3> QED BY <1>0, <2>1, <3>1, DoneTyped DEF TypeOK, Holding, Typed
  <2>3. CASE queue # <<>>
    <3>1. /\ queue' = Take.rest /\ cur' = [cur EXCEPT ![a] = Take.event.event]
          /\ Goto(a, AfterPop(Take.event)) /\ UNCHANGED <<dispatching, refused>>
      BY <1>5, <2>3 DEF Pop
    <3>2. queue \in Seq(Items)
      BY <1>0 DEF TypeOK
    <3>3. Head(queue) \in Items /\ Tail(queue) \in Seq(Items)
      BY <2>3, <3>2, HeadTailProperties
    <3>4. Take.event = Head(queue) /\ Take.rest = Tail(queue)
      BY DEF Take
    <3>5. Take.event.event \in Events
      BY <3>3, <3>4 DEF Items
    <3>6. /\ cur' \in [Actors -> Events \cup {None}] /\ cur'[a] \in Events
          /\ \A b \in Actors \ {a} : cur'[b] = cur[b]
      BY <1>0, <3>1, <3>5 DEF TypeOK
    <3>7. AfterPop(Take.event) \in Labels
      BY <1>a DEF AfterPop
    <3>8. pc' \in [Actors -> Labels] /\ \A b \in Actors \ {a} : pc'[b] = pc[b]
      BY <1>0, <3>1, <3>7, GotoTyped DEF TypeOK
    <3>9. Holding'
      BY <1>0, <3>6, <3>8 DEF Holding
    <3> QED BY <1>0, <2>1, <3>1, <3>3, <3>4, <3>6, <3>8, <3>9 DEF TypeOK, Typed
  <2> QED BY <2>2, <2>3
<1>6. ASSUME NEW a \in Actors, EnterBody(a) PROVE Typed'
  <2>1. /\ UNCHANGED <<mode, consumer, emitter, queue, dispatching, eventErr, was, count>>
        /\ UNCHANGED <<refused, emitted, heard>>
    BY <1>6 DEF EnterBody
  <2>2. CASE /\ Goto(a, "body") /\ cur' = [cur EXCEPT ![a] = None]
             /\ delivered' = Append(delivered, cur[a]) /\ UNCHANGED panicked
    <3>1. cur[a] \in Events
      BY <1>0, <1>6 DEF EnterBody, Holding
    <3>2. delivered' \in Seq(Events)
      BY <1>0, <2>2, <3>1 DEF TypeOK
    <3>3. /\ pc' \in [Actors -> Labels] /\ pc'[a] = "body"
          /\ \A b \in Actors \ {a} : pc'[b] = pc[b]
      BY <1>0, <1>a, <2>2, GotoTyped DEF TypeOK
    <3>4. cur' \in [Actors -> Events \cup {None}] /\ \A b \in Actors \ {a} : cur'[b] = cur[b]
      BY <1>0, <2>2 DEF TypeOK
    <3> QED BY <1>0, <2>1, <2>2, <3>2, <3>3, <3>4 DEF TypeOK, Holding, Typed
  <2>3. CASE panicked' = TRUE /\ UNCHANGED <<pc, cur, delivered>>
    BY <1>0, <2>1, <2>3 DEF TypeOK, Holding, Typed
  <2> QED BY <1>6, <2>2, <2>3 DEF EnterBody
<1>7. ASSUME NEW a \in Actors, LeaveBody(a) \/ Stop(a) PROVE Typed'
  <2>1. /\ UNCHANGED <<mode, panicked, emitter, eventErr, cur, was, count>>
        /\ UNCHANGED <<emitted, heard, delivered>>
    BY <1>7 DEF LeaveBody, Stop, run, history
  <2>2. /\ consumer' \in {"waiting", "ranging", "stopped", "exited"}
        /\ dispatching' \in BOOLEAN /\ (queue' = queue \/ queue' = <<>>)
    BY <1>0, <1>7 DEF LeaveBody, Stop, TypeOK, run
  <2>4. queue' \in Seq(Items)
    BY <1>0, <2>2, EmptySeq DEF TypeOK
  <2>3. /\ refused' \subseteq Actors
        /\ pc' \in [Actors -> Labels] /\ \A b \in Actors \ {a} : pc'[b] = pc[b]
        /\ pc'[a] \in {"idle", "drain", "stop"}
    <3>1. CASE Done(a, FALSE)
      BY <1>0, <3>1, DoneTyped DEF TypeOK
    <3>2. CASE (Goto(a, "drain") \/ Goto(a, "stop")) /\ UNCHANGED refused
      BY <1>0, <1>a, <3>2, GotoTyped DEF TypeOK
    <3> QED BY <1>7, <3>1, <3>2 DEF LeaveBody, Stop
  <2> QED BY <1>0, <2>1, <2>2, <2>3, <2>4 DEF TypeOK, Holding, Typed
<1>8. CASE Open
  <2>1. /\ UNCHANGED <<panicked, queue, eventErr, cur, was, count, refused>>
        /\ UNCHANGED <<emitted, heard, delivered>>
        /\ mode' = "running" /\ consumer' = "ranging" /\ emitter' = TRUE
    BY <1>8 DEF Open, history
  <2>2. Loop \in Actors
    BY DEF Actors
  <2>3. CASE UNCHANGED <<dispatching, pc>>
    BY <1>0, <2>1, <2>3 DEF TypeOK, Holding, Typed
  <2>4. CASE dispatching' = TRUE /\ Goto(Loop, "drain")
    <3>1. /\ pc' \in [Actors -> Labels] /\ pc'[Loop] = "drain"
          /\ \A b \in Actors \ {Loop} : pc'[b] = pc[b]
      BY <1>0, <1>a, <2>2, <2>4, GotoTyped DEF TypeOK
    <3> QED BY <1>0, <2>1, <2>4, <3>1 DEF TypeOK, Holding, Typed
  <2> QED BY <1>8, <2>3, <2>4 DEF Open
<1>9. CASE StartBatch \/ JoinBatch \/ LoopReturns \/ FinishRun
  <2>1. /\ UNCHANGED <<emitter, queue, dispatching, eventErr, pc, cur, was, count, refused>>
        /\ UNCHANGED <<emitted, heard, delivered>>
    BY <1>9 DEF StartBatch, JoinBatch, LoopReturns, FinishRun, history
  <2>2. /\ mode' \in {"running", "batch", "returned", "finished"} /\ panicked' \in BOOLEAN
        /\ consumer' \in {"waiting", "ranging", "stopped", "exited"}
    BY <1>0, <1>9 DEF StartBatch, JoinBatch, LoopReturns, FinishRun, TypeOK
  <2> QED BY <1>0, <2>1, <2>2 DEF TypeOK, Holding, Typed
<1>10. CASE UNCHANGED vars
  BY <1>0, <1>10 DEF vars, TypeOK, Holding, Typed
<1> QED
  BY <1>1, <1>2, <1>3, <1>4, <1>5, <1>6, <1>7, <1>8, <1>9, <1>10 DEF Next, Step

\* The variables keep their types, for any number of goroutines and events.
THEOREM TypeCorrect == Spec => []TypeOK
<1>1. Typed => TypeOK
  BY DEF Typed
<1> QED
  BY InitTyped, StepTyped, <1>1, PTL DEF Spec

-----------------------------------------------------------------------------
(* Ownership of the queue *)

\* A step of a that moves no other goroutine.
Alone(a) == \A b \in Actors \ {a} : pc'[b] = pc[b] /\ was'[b] = was[b]

\* Only the goroutine that moves can change whether it owns the queue.
LEMMA AloneOwns ==
  ASSUME NEW a \in Actors, Alone(a)
  PROVE  \A b \in Actors \ {a} : Owns(b)' <=> Owns(b)
  BY DEF Alone, Owns

\* A goroutine that neither takes nor gives up the queue.
LEMMA OwnerKept ==
  ASSUME SingleOwner, NEW a \in Actors, Alone(a), Owns(a)' <=> Owns(a),
         UNCHANGED <<dispatching, eventErr>>, eventErr => queue' = <<>>
  PROVE  SingleOwner'
<1>1. \A b \in Actors : Owns(b)' <=> Owns(b)
  BY AloneOwns
<1> QED
  BY <1>1 DEF SingleOwner, AtMostOneOwner, FlagTellsOwner

\* An owner that gives the queue up, and a listener error on any goroutine.
LEMMA OwnerLeft ==
  ASSUME SingleOwner, NEW a \in Actors, Alone(a), ~Owns(a)', Owns(a) \/ eventErr',
         dispatching' = FALSE, eventErr' => queue' = <<>>
  PROVE  SingleOwner'
<1>1. \A b \in Actors \ {a} : Owns(b)' <=> Owns(b)
  BY AloneOwns
<1> QED
  BY <1>1 DEF SingleOwner, AtMostOneOwner, FlagTellsOwner

\* A goroutine that takes the queue when the flag is clear.
LEMMA OwnerTook ==
  ASSUME SingleOwner, NEW a \in Actors, Alone(a), Owns(a)', ~dispatching, ~eventErr,
         dispatching' = TRUE, UNCHANGED eventErr
  PROVE  SingleOwner'
<1>1. \A b \in Actors \ {a} : ~Owns(b)'
  BY AloneOwns DEF SingleOwner, FlagTellsOwner
<1> QED
  BY <1>1 DEF SingleOwner, AtMostOneOwner, FlagTellsOwner

\* Moving the program counter of one goroutine.
LEMMA GotoAlone ==
  ASSUME Typed, NEW a \in Actors, NEW label, Goto(a, label), UNCHANGED was
  PROVE  Alone(a) /\ pc'[a] = label
  BY DEF Typed, TypeOK, Goto, Alone

\* Ending an emission moves one goroutine.
LEMMA DoneAlone ==
  ASSUME Typed, NEW a \in Actors, NEW ok, Done(a, ok), UNCHANGED was
  PROVE  Alone(a) /\ pc'[a] = "idle"
  BY GotoAlone DEF Done

\* In the initial state nobody owns the queue.
LEMMA InitOwner == Init => SingleOwner
  BY DEF Init, SingleOwner, AtMostOneOwner, FlagTellsOwner, Owns

\* A step keeps the queue with at most one owner, and the flag telling of it.
LEMMA StepOwner == Typed /\ SingleOwner /\ [Next]_vars => SingleOwner'
<1> SUFFICES ASSUME Typed, SingleOwner, [Next]_vars PROVE SingleOwner'
  OBVIOUS
<1>0. (eventErr => ~dispatching /\ queue = <<>>) /\ dispatching \in BOOLEAN
  BY DEF SingleOwner, FlagTellsOwner, Typed, TypeOK
<1>1. ASSUME NEW a \in Actors, Emit(a) PROVE SingleOwner'
  <2>1. pc[a] = "idle" /\ UNCHANGED <<was, eventErr>>
    BY <1>1 DEF Emit, MayEmit
  <2>2. CASE eventErr /\ Refuse(a)
    <3>1. Alone(a) /\ pc'[a] = "idle"
      BY <2>1, <2>2, DoneAlone DEF Refuse
    <3>2. ~Owns(a) /\ ~Owns(a)'
      BY <2>1, <3>1 DEF Owns
    <3> QED BY <1>0, <2>1, <2>2, <3>1, <3>2, OwnerKept DEF Refuse
  <2>3. CASE ~eventErr /\ Done(a, TRUE) /\ UNCHANGED dispatching
    <3>1. Alone(a) /\ pc'[a] = "idle"
      BY <2>1, <2>3, DoneAlone
    <3>2. ~Owns(a) /\ ~Owns(a)'
      BY <2>1, <3>1 DEF Owns
    <3> QED BY <2>1, <2>3, <3>1, <3>2, OwnerKept
  <2>4. CASE ~eventErr /\ ~dispatching /\ Goto(a, "drain") /\ dispatching' = TRUE
    <3>1. Alone(a) /\ pc'[a] = "drain"
      BY <2>1, <2>4, GotoAlone
    <3>2. Owns(a)'
      BY <3>1 DEF Owns
    <3> QED BY <2>1, <2>4, <3>1, <3>2, OwnerTook
  <2> QED BY <1>1, <2>2, <2>3, <2>4 DEF Emit
<1>2. ASSUME NEW a \in Actors, EmitImmediate(a) PROVE SingleOwner'
  <2>1. pc[a] = "idle" /\ UNCHANGED eventErr
    BY <1>2 DEF EmitImmediate, MayEmit
  <2>2. CASE eventErr /\ Refuse(a) /\ UNCHANGED <<cur, was>>
    <3>1. Alone(a) /\ pc'[a] = "idle"
      BY <2>2, DoneAlone DEF Refuse
    <3>2. ~Owns(a) /\ ~Owns(a)'
      BY <2>1, <3>1 DEF Owns
    <3> QED BY <1>0, <2>1, <2>2, <3>1, <3>2, OwnerKept DEF Refuse
  <2>3. CASE ~eventErr /\ Append1(a, TRUE)
    <3>1. /\ pc' = [pc EXCEPT ![a] = "listeners"] /\ was' = [was EXCEPT ![a] = dispatching]
          /\ dispatching' = TRUE
      BY <1>2, <2>3 DEF EmitImmediate, Goto
    <3>2. Alone(a) /\ pc'[a] = "listeners" /\ was'[a] = dispatching
      BY <3>1 DEF Typed, TypeOK, Alone
    <3>3. CASE dispatching
      <4>1. ~Owns(a) /\ ~Owns(a)'
        BY <2>1, <3>2, <3>3 DEF Owns
      <4> QED BY <1>0, <2>1, <2>3, <3>1, <3>2, <3>3, <4>1, OwnerKept
    <3>4. CASE ~dispatching
      <4>1. Owns(a)'
        BY <3>2, <3>4 DEF Owns
      <4> QED BY <2>1, <2>3, <3>1, <3>2, <3>4, <4>1, OwnerTook
    <3> QED BY <3>3, <3>4
  <2> QED BY <1>2, <2>2, <2>3 DEF EmitImmediate
<1>3. ASSUME NEW a \in Actors, Listen(a) PROVE SingleOwner'
  <2>1. pc[a] \in {"listeners", "dispatch"} /\ UNCHANGED was
    BY <1>3 DEF Listen
  <2>2. CASE Break(a)
    <3>1. Alone(a) /\ pc'[a] = "idle"
      BY <2>1, <2>2, DoneAlone DEF Break
    <3>2. ~Owns(a)'
      BY <3>1 DEF Owns
    <3> QED BY <2>2, <3>1, <3>2, OwnerLeft DEF Break
  <2>3. CASE /\ Goto(a, IF pc[a] = "listeners" THEN "check" ELSE "yield")
             /\ UNCHANGED <<eventErr, queue, dispatching, refused>>
    <3>1. Alone(a) /\ pc'[a] = IF pc[a] = "listeners" THEN "check" ELSE "yield"
      BY <2>1, <2>3, GotoAlone
    <3>2. Owns(a)' <=> Owns(a)
      BY <2>1, <3>1 DEF Owns
    <3> QED BY <1>0, <2>3, <3>1, <3>2, OwnerKept
  <2> QED BY <1>3, <2>2, <2>3 DEF Listen
<1>4. ASSUME NEW a \in Actors, Check(a) PROVE SingleOwner'
  <2>1. pc[a] = "check" /\ UNCHANGED <<queue, dispatching, eventErr, was>>
    BY <1>4 DEF Check
  <2>2. CASE was[a] /\ Done(a, TRUE)
    <3>1. Alone(a) /\ pc'[a] = "idle"
      BY <2>1, <2>2, DoneAlone
    <3>2. ~Owns(a) /\ ~Owns(a)'
      BY <2>1, <2>2, <3>1 DEF Owns
    <3> QED BY <1>0, <2>1, <3>1, <3>2, OwnerKept
  <2>3. CASE ~was[a] /\ Goto(a, IF emitter THEN "drain" ELSE "release")
    <3>1. Alone(a) /\ pc'[a] = IF emitter THEN "drain" ELSE "release"
      BY <2>1, <2>3, GotoAlone
    <3>2. Owns(a) /\ Owns(a)'
      BY <2>1, <2>3, <3>1 DEF Owns
    <3> QED BY <1>0, <2>1, <3>1, <3>2, OwnerKept
  <2> QED BY <1>4, <2>2, <2>3 DEF Check
<1>5. ASSUME NEW a \in Actors, Release(a) \/ Stop(a) PROVE SingleOwner'
  <2>1. /\ pc[a] \in {"release", "stop"} /\ dispatching' = FALSE
        /\ UNCHANGED <<eventErr, was>> /\ (queue' = queue \/ queue' = <<>>)
    BY <1>5 DEF Release, Stop
  <2>2. Alone(a) /\ pc'[a] = "idle"
    BY <1>5, <2>1, DoneAlone DEF Release, Stop
  <2>3. Owns(a) /\ ~Owns(a)'
    BY <2>1, <2>2 DEF Owns
  <2> QED BY <1>0, <2>1, <2>2, <2>3, OwnerLeft
<1>6. ASSUME NEW a \in Actors, Pop(a) PROVE SingleOwner'
  <2>1. pc[a] = "drain" /\ UNCHANGED <<eventErr, was>>
    BY <1>6 DEF Pop
  <2>2. CASE queue = <<>>
    <3>1. dispatching' = FALSE /\ Done(a, TRUE) /\ queue' = queue
      BY <1>6, <2>2 DEF Pop
    <3>2. Alone(a) /\ pc'[a] = "idle"
      BY <2>1, <3>1, DoneAlone
    <3>3. Owns(a) /\ ~Owns(a)'
      BY <2>1, <3>2 DEF Owns
    <3> QED BY <2>1, <2>2, <3>1, <3>2, <3>3, OwnerLeft
  <2>3. CASE queue # <<>>
    <3>1. Goto(a, AfterPop(Take.event)) /\ UNCHANGED dispatching
      BY <1>6, <2>3 DEF Pop
    <3>2. Alone(a) /\ pc'[a] = AfterPop(Take.event)
      BY <2>1, <3>1, GotoAlone
    <3>3. Owns(a) /\ Owns(a)'
      BY <2>1, <3>2 DEF Owns, AfterPop
    <3> QED BY <1>0, <2>1, <2>3, <3>1, <3>2, <3>3, OwnerKept
  <2> QED BY <2>2, <2>3
<1>7. ASSUME NEW a \in Actors, EnterBody(a) \/ LeaveBody(a) PROVE SingleOwner'
  <2>1. pc[a] \in {"yield", "body"} /\ UNCHANGED <<queue, dispatching, eventErr, was>>
    BY <1>7 DEF EnterBody, LeaveBody
  <2>2. Alone(a) /\ pc'[a] \in {"yield", "body", "drain", "stop"}
    <3>1. CASE pc' = pc
      BY <1>7, <2>1, <3>1 DEF Alone
    <3>2. CASE Goto(a, "body") \/ Goto(a, "drain") \/ Goto(a, "stop")
      BY <2>1, <3>2, GotoAlone
    <3> QED BY <1>7, <3>1, <3>2 DEF EnterBody, LeaveBody
  <2>3. Owns(a) /\ Owns(a)'
    BY <2>1, <2>2 DEF Owns
  <2> QED BY <1>0, <2>1, <2>2, <2>3, OwnerKept
<1>8. CASE Open
  <2>1. Loop \in Actors /\ pc[Loop] = "idle" /\ UNCHANGED <<queue, eventErr, was>>
    BY <1>8 DEF Open, Actors
  <2>2. CASE UNCHANGED <<dispatching, pc>>
    <3>1. Alone(Loop) /\ (Owns(Loop)' <=> Owns(Loop))
      BY <2>1, <2>2 DEF Alone, Owns
    <3> QED BY <1>0, <2>1, <2>2, <3>1, OwnerKept
  <2>3. CASE ~dispatching /\ queue # <<>> /\ dispatching' = TRUE /\ Goto(Loop, "drain")
    <3>1. Alone(Loop) /\ pc'[Loop] = "drain"
      BY <2>1, <2>3, GotoAlone
    <3>2. Owns(Loop)'
      BY <3>1 DEF Owns
    <3> QED BY <1>0, <2>1, <2>3, <3>1, <3>2, OwnerTook
  <2> QED BY <1>8, <2>2, <2>3 DEF Open
<1>9. CASE StartBatch \/ JoinBatch \/ LoopReturns \/ FinishRun \/ UNCHANGED vars
  <2>1. UNCHANGED <<queue, dispatching, eventErr, pc, was>>
    BY <1>9 DEF StartBatch, JoinBatch, LoopReturns, FinishRun, vars
  <2>2. Loop \in Actors /\ Alone(Loop) /\ (Owns(Loop)' <=> Owns(Loop))
    BY <2>1 DEF Alone, Owns, Actors
  <2> QED BY <1>0, <2>1, <2>2, OwnerKept
<1> QED
  BY <1>1, <1>2, <1>3, <1>4, <1>5, <1>6, <1>7, <1>8, <1>9 DEF Next, Step

\* At most one goroutine owns the event queue and eventDispatching tells of it,
\* for any number of goroutines and events: emissions of the loop, of parallel
\* tools and of other goroutines never run the consumer's loop body at the same
\* time, and no owner disappears with the flag set.
THEOREM Ownership == Spec => []SingleOwner
  BY InitTyped, StepTyped, InitOwner, StepOwner, PTL DEF Spec

-----------------------------------------------------------------------------
(* Nothing is stranded *)

\* What the phases of the run say of the goroutines.
Phases ==
  /\ mode = "setup" => consumer = "waiting" /\ \A a \in Actors : pc[a] # "body"
  /\ emitter <=> mode # "setup"
  /\ mode # "batch" => \A t \in Tools : pc[t] = "idle"
  /\ \A o \in Outside : pc[o] \notin {"listeners", "check", "release"}
  /\ \A a \in Actors : pc[a] = "release" => mode = "setup"
  /\ \A a \in Actors : pc[a] = "stop" => consumer = "stopped"

\* The initial state is in the setup phase.
LEMMA InitPhases == Init => Phases
  BY DEF Init, Phases, Actors

\* A step of one goroutine, seen by its program counter only.
PcAlone(a) == \A b \in Actors \ {a} : pc'[b] = pc[b]

\* Moving one program counter leaves the others.
LEMMA GotoPc ==
  ASSUME Typed, NEW a \in Actors, NEW label, Goto(a, label)
  PROVE  PcAlone(a) /\ pc'[a] = label
  BY DEF Typed, TypeOK, Goto, PcAlone

\* Ending an emission leaves the other program counters.
LEMMA DonePc ==
  ASSUME Typed, NEW a \in Actors, NEW ok, Done(a, ok)
  PROVE  PcAlone(a) /\ pc'[a] = "idle"
  BY GotoPc DEF Done

\* A step of a goroutine that is not outside, and keeps away from the labels
\* that the phases speak of.
LEMMA PhasesKept ==
  ASSUME Phases, NEW a \in Actors, PcAlone(a), UNCHANGED <<mode, emitter>>,
         consumer' = consumer \/ (mode # "setup" /\ consumer' = "stopped"),
         pc'[a] # "idle" => (a \in Tools => mode = "batch"),
         pc'[a] \in {"listeners", "check", "release"} => a \notin Outside,
         pc'[a] = "body" => mode # "setup",
         pc'[a] = "release" => mode = "setup",
         pc'[a] = "stop" => consumer' = "stopped"
  PROVE  Phases'
  BY DEF Phases, PcAlone, Actors

\* Every step keeps what the phases say.
LEMMA StepPhases == Typed /\ Phases /\ [Next]_vars => Phases'
<1> SUFFICES ASSUME Typed, Phases, [Next]_vars PROVE Phases'
  OBVIOUS
<1>0. \A a \in Actors : pc[a] # "idle" => (a \in Tools => mode = "batch")
  BY DEF Phases
<1>1. ASSUME NEW a \in Actors, Emit(a) PROVE Phases'
  <2>1. MayEmit(a) /\ UNCHANGED <<mode, consumer, emitter>>
    BY <1>1 DEF Emit, run
  <2>2. PcAlone(a) /\ pc'[a] \in {"idle", "drain"}
    BY <1>1, GotoPc, DonePc DEF Emit, Refuse
  <2> QED BY <2>1, <2>2, PhasesKept DEF MayEmit
<1>2. ASSUME NEW a \in Actors, EmitImmediate(a) PROVE Phases'
  <2>1. MayEmit(a) /\ a \notin Outside /\ UNCHANGED <<mode, consumer, emitter>>
    BY <1>2 DEF EmitImmediate, run
  <2>2. PcAlone(a) /\ pc'[a] \in {"idle", "listeners"}
    BY <1>2, GotoPc, DonePc DEF EmitImmediate, Refuse
  <2> QED BY <2>1, <2>2, PhasesKept DEF MayEmit
<1>3. ASSUME NEW a \in Actors, Listen(a) PROVE Phases'
  <2>1. UNCHANGED <<mode, consumer, emitter>> /\ pc[a] \in {"listeners", "dispatch"}
    BY <1>3 DEF Listen, run
  <2>2. /\ PcAlone(a) /\ pc'[a] \in {"idle", "yield", "check"}
        /\ pc'[a] = "check" => pc[a] = "listeners"
    <3>1. CASE Break(a)
      BY <3>1, DonePc DEF Break
    <3>2. CASE Goto(a, IF pc[a] = "listeners" THEN "check" ELSE "yield")
      BY <3>2, GotoPc
    <3> QED BY <1>3, <3>1, <3>2 DEF Listen
  <2>3. pc'[a] = "check" => a \notin Outside
    BY <2>2 DEF Phases
  <2> QED BY <1>0, <2>1, <2>2, <2>3, PhasesKept
<1>4. ASSUME NEW a \in Actors, Check(a) PROVE Phases'
  <2>1. UNCHANGED <<mode, consumer, emitter>> /\ pc[a] = "check"
    BY <1>4 DEF Check, run
  <2>2. /\ PcAlone(a) /\ pc'[a] \in {"idle", "drain", "release"}
        /\ pc'[a] = "release" => ~emitter
    <3>1. CASE Done(a, TRUE)
      BY <3>1, DonePc
    <3>2. CASE Goto(a, IF emitter THEN "drain" ELSE "release")
      BY <3>2, GotoPc
    <3> QED BY <1>4, <3>1, <3>2 DEF Check
  <2>3. a \notin Outside /\ (pc'[a] = "release" => mode = "setup")
    BY <2>1, <2>2 DEF Phases
  <2> QED BY <1>0, <2>1, <2>2, <2>3, PhasesKept
<1>5. ASSUME NEW a \in Actors, Release(a) \/ Stop(a) PROVE Phases'
  <2>1. UNCHANGED <<mode, consumer, emitter>>
    BY <1>5 DEF Release, Stop, run
  <2>2. PcAlone(a) /\ pc'[a] = "idle"
    BY <1>5, DonePc DEF Release, Stop
  <2> QED BY <2>1, <2>2, PhasesKept
<1>6. ASSUME NEW a \in Actors, Pop(a) PROVE Phases'
  <2>1. UNCHANGED <<mode, consumer, emitter>> /\ pc[a] = "drain"
    BY <1>6 DEF Pop, run
  <2>2. PcAlone(a) /\ pc'[a] \in {"idle", "yield", "dispatch"}
    <3>1. CASE Done(a, TRUE)
      BY <3>1, DonePc
    <3>2. CASE Goto(a, AfterPop(Take.event))
      BY <3>2, GotoPc DEF AfterPop
    <3> QED BY <1>6, <3>1, <3>2 DEF Pop
  <2> QED BY <1>0, <2>1, <2>2, PhasesKept
<1>7. ASSUME NEW a \in Actors, EnterBody(a) PROVE Phases'
  <2>1. UNCHANGED <<mode, consumer, emitter>> /\ pc[a] = "yield"
    BY <1>7 DEF EnterBody
  <2>2. CASE consumer = "ranging" /\ Goto(a, "body")
    <3>1. PcAlone(a) /\ pc'[a] = "body"
      BY <2>2, GotoPc
    <3>2. mode # "setup"
      BY <2>2 DEF Phases
    <3> QED BY <1>0, <2>1, <3>1, <3>2, PhasesKept
  <2>3. CASE UNCHANGED pc
    BY <2>1, <2>3 DEF Phases
  <2> QED BY <1>7, <2>2, <2>3 DEF EnterBody
<1>8. ASSUME NEW a \in Actors, LeaveBody(a) PROVE Phases'
  <2>1. UNCHANGED <<mode, emitter>> /\ pc[a] = "body" /\ mode # "setup"
    BY <1>8 DEF LeaveBody, Phases
  <2>2. PcAlone(a) /\ \/ pc'[a] = "drain" /\ UNCHANGED consumer
                      \/ pc'[a] = "stop" /\ consumer' = "stopped"
    BY <1>8, GotoPc DEF LeaveBody
  <2> QED BY <1>0, <2>1, <2>2, PhasesKept
<1>9. CASE Open
  <2>1. /\ mode = "setup" /\ mode' = "running" /\ consumer' = "ranging" /\ emitter' = TRUE
        /\ pc[Loop] = "idle" /\ Loop \in Actors
    BY <1>9 DEF Open, Actors
  <2>2. \A a \in Actors : pc[a] \notin {"release", "stop"}
    BY <2>1 DEF Phases, Actors
  <2>3. PcAlone(Loop) /\ pc'[Loop] \in {"idle", "drain"}
    <3>1. CASE UNCHANGED pc
      BY <2>1, <3>1 DEF PcAlone
    <3>2. CASE Goto(Loop, "drain")
      BY <2>1, <3>2, GotoPc
    <3> QED BY <1>9, <3>1, <3>2 DEF Open
  <2>4. Loop \notin Tools \cup Outside
    BY ActorsAssumption
  <2> QED BY <2>1, <2>2, <2>3, <2>4 DEF Phases, PcAlone, Actors
<1>10. CASE StartBatch \/ JoinBatch \/ LoopReturns \/ FinishRun
  <2>1. UNCHANGED <<emitter, pc>> /\ mode # "setup" /\ mode' # "setup"
    BY <1>10 DEF StartBatch, JoinBatch, LoopReturns, FinishRun
  <2>2. mode' # "batch" => \A t \in Tools : pc[t] = "idle"
    BY <1>10 DEF StartBatch, JoinBatch, LoopReturns, FinishRun, Phases
  <2>3. consumer = "stopped" => consumer' = "stopped"
    BY <1>10 DEF StartBatch, JoinBatch, LoopReturns, FinishRun
  <2> QED BY <2>1, <2>2, <2>3 DEF Phases
<1>11. CASE UNCHANGED vars
  BY <1>11 DEF vars, Phases
<1> QED
  BY <1>1, <1>2, <1>3, <1>4, <1>5, <1>6, <1>7, <1>8, <1>9, <1>10, <1>11 DEF Next, Step

\* A step that leaves nothing new in the queue, or leaves an owner.
LEMMA StrandKept ==
  ASSUME NoStrand, NEW a \in Actors, PcAlone(a), UNCHANGED <<queue, emitter, was>>,
         Owns(a) /\ pc[a] # "release" => Owns(a)' /\ pc'[a] # "release"
  PROVE  NoStrand'
<1>1. \A b \in Actors : Owns(b) /\ pc[b] # "release" => Owns(b)' /\ pc'[b] # "release"
  BY DEF PcAlone, Owns
<1> QED BY <1>1 DEF NoStrand

\* An owner outside the release step answers for the whole queue.
LEMMA OwnerSettles == ASSUME NEW a \in Actors, Owns(a)', pc'[a] # "release" PROVE NoStrand'
  BY DEF NoStrand

\* No step strands an event.
LEMMA StepStrand == Typed /\ SingleOwner /\ Phases /\ NoStrand /\ [Next]_vars => NoStrand'
<1> SUFFICES ASSUME Typed, SingleOwner, Phases, NoStrand, [Next]_vars PROVE NoStrand'
  OBVIOUS
<1>0. \A a \in Actors : pc[a] = "release" => ~emitter
  BY DEF Phases
<1>a. ~eventErr /\ dispatching => \E a \in Actors : Owns(a)
  BY DEF SingleOwner, FlagTellsOwner
<1>1. ASSUME NEW a \in Actors, Emit(a) PROVE NoStrand'
  <2>1. pc[a] = "idle" /\ UNCHANGED <<emitter, was>>
    BY <1>1 DEF Emit, MayEmit
  <2>2. CASE Refuse(a)
    <3>1. PcAlone(a) /\ ~Owns(a) /\ queue' = queue
      BY <2>1, <2>2, DonePc DEF Refuse, Owns
    <3> QED BY <2>1, <3>1, StrandKept
  <2>3. CASE ~emitter
    BY <2>1, <2>3 DEF NoStrand
  <2>4. CASE ~eventErr /\ emitter /\ dispatching /\ Done(a, TRUE)
    <3>1. PcAlone(a) /\ ~Owns(a)
      BY <2>1, <2>4, DonePc DEF Owns
    <3>2. PICK b \in Actors : Owns(b)
      BY <1>a, <2>4
    <3>3. b # a /\ pc[b] # "release" /\ Owns(b)' /\ pc'[b] # "release"
      BY <1>0, <2>1, <2>4, <3>1, <3>2 DEF PcAlone, Owns
    <3> QED BY <3>3, OwnerSettles
  <2>5. CASE Goto(a, "drain")
    <3>1. pc'[a] = "drain"
      BY <2>5, GotoPc
    <3> QED BY <3>1, OwnerSettles DEF Owns
  <2> QED BY <1>1, <2>2, <2>3, <2>4, <2>5 DEF Emit
<1>2. ASSUME NEW a \in Actors, EmitImmediate(a) PROVE NoStrand'
  <2>1. pc[a] = "idle" /\ UNCHANGED emitter
    BY <1>2 DEF EmitImmediate, MayEmit
  <2>2. CASE Refuse(a) /\ UNCHANGED <<cur, was>>
    <3>1. PcAlone(a) /\ ~Owns(a) /\ queue' = queue
      BY <2>1, <2>2, DonePc DEF Refuse, Owns
    <3> QED BY <2>1, <2>2, <3>1, StrandKept
  <2>3. CASE ~eventErr /\ Append1(a, TRUE)
    <3>1. /\ pc' = [pc EXCEPT ![a] = "listeners"] /\ was' = [was EXCEPT ![a] = dispatching]
      BY <1>2, <2>3 DEF EmitImmediate, Goto
    <3>2. Alone(a) /\ pc'[a] = "listeners" /\ was'[a] = dispatching
      BY <3>1 DEF Typed, TypeOK, Alone
    <3>3. CASE ~dispatching
      BY <3>2, <3>3, OwnerSettles DEF Owns
    <3>4. CASE dispatching /\ emitter
      <4>1. PICK b \in Actors : Owns(b)
        BY <1>a, <2>3, <3>4
      <4>2. b # a /\ Owns(b)' /\ pc'[b] # "release"
        BY <1>0, <2>1, <3>2, <3>4, <4>1 DEF Alone, Owns
      <4> QED BY <4>2, OwnerSettles
    <3>5. CASE ~emitter
      BY <2>1, <3>5 DEF NoStrand
    <3> QED BY <3>3, <3>4, <3>5
  <2> QED BY <1>2, <2>2, <2>3 DEF EmitImmediate
<1>3. ASSUME NEW a \in Actors, Listen(a) PROVE NoStrand'
  <2>1. pc[a] \in {"listeners", "dispatch"} /\ UNCHANGED <<emitter, was>>
    BY <1>3 DEF Listen
  <2>2. CASE Break(a)
    BY <2>2 DEF Break, NoStrand
  <2>3. CASE /\ Goto(a, IF pc[a] = "listeners" THEN "check" ELSE "yield")
             /\ UNCHANGED <<eventErr, queue, dispatching, refused>>
    <3>1. PcAlone(a) /\ pc'[a] = IF pc[a] = "listeners" THEN "check" ELSE "yield"
      BY <2>3, GotoPc
    <3>2. Owns(a) => Owns(a)' /\ pc'[a] # "release"
      BY <2>1, <3>1 DEF Owns
    <3> QED BY <2>1, <2>3, <3>1, <3>2, StrandKept
  <2> QED BY <1>3, <2>2, <2>3 DEF Listen
<1>4. ASSUME NEW a \in Actors, Check(a) PROVE NoStrand'
  <2>1. pc[a] = "check" /\ UNCHANGED <<queue, emitter, was>>
    BY <1>4 DEF Check
  <2>2. CASE was[a] /\ Done(a, TRUE)
    <3>1. PcAlone(a) /\ ~Owns(a)
      BY <2>1, <2>2, DonePc DEF Owns
    <3> QED BY <2>1, <3>1, StrandKept
  <2>3. CASE emitter /\ Goto(a, "drain")
    <3>1. pc'[a] = "drain"
      BY <2>3, GotoPc
    <3> QED BY <3>1, OwnerSettles DEF Owns
  <2>4. CASE ~emitter
    BY <2>1, <2>4 DEF NoStrand
  <2> QED BY <1>4, <2>2, <2>3, <2>4 DEF Check
<1>5. ASSUME NEW a \in Actors, Release(a) PROVE NoStrand'
  BY <1>0, <1>5 DEF Release, NoStrand
<1>6. ASSUME NEW a \in Actors, Stop(a) PROVE NoStrand'
  BY <1>6 DEF Stop, NoStrand
<1>7. ASSUME NEW a \in Actors, Pop(a) PROVE NoStrand'
  <2>1. CASE queue = <<>>
    BY <1>7, <2>1 DEF Pop, NoStrand
  <2>2. CASE Goto(a, AfterPop(Take.event))
    <3>1. pc'[a] \in {"yield", "dispatch"}
      BY <2>2, GotoPc DEF AfterPop
    <3> QED BY <3>1, OwnerSettles DEF Owns
  <2> QED BY <1>7, <2>1, <2>2 DEF Pop
<1>8. ASSUME NEW a \in Actors, EnterBody(a) \/ LeaveBody(a) PROVE NoStrand'
  <2>1. CASE UNCHANGED pc
    <3>1. PcAlone(a) /\ UNCHANGED <<queue, emitter, was, pc>>
      BY <1>8, <2>1 DEF EnterBody, LeaveBody, PcAlone
    <3>2. Owns(a) /\ pc[a] # "release" => Owns(a)' /\ pc'[a] # "release"
      BY <3>1 DEF Owns
    <3> QED BY <3>1, <3>2, StrandKept
  <2>2. CASE Goto(a, "body") \/ Goto(a, "drain") \/ Goto(a, "stop")
    <3>1. pc'[a] \in {"body", "drain", "stop"}
      BY <2>2, GotoPc
    <3> QED BY <3>1, OwnerSettles DEF Owns
  <2> QED BY <1>8, <2>1, <2>2 DEF EnterBody, LeaveBody
<1>9. CASE Open
  <2>1. Loop \in Actors /\ ~emitter /\ UNCHANGED <<queue, eventErr, was>>
    BY <1>9 DEF Open, Actors, Phases
  <2>2. CASE queue = <<>>
    BY <2>1, <2>2 DEF NoStrand
  <2>3. CASE queue # <<>> /\ dispatching /\ UNCHANGED pc
    <3>1. PICK b \in Actors : Owns(b)
      BY <1>a, <2>3 DEF SingleOwner, FlagTellsOwner
    <3>2. pc[b] # "release"
      <4>1. pc[Loop] = "idle" /\ mode = "setup"
        BY <1>9 DEF Open
      <4> QED BY <4>1 DEF Phases, Actors
    <3>3. Owns(b)' /\ pc'[b] # "release"
      BY <2>1, <2>3, <3>1, <3>2 DEF Owns
    <3> QED BY <3>3, OwnerSettles
  <2>4. CASE Goto(Loop, "drain")
    <3>1. pc'[Loop] = "drain"
      BY <2>1, <2>4, GotoPc
    <3> QED BY <2>1, <3>1, OwnerSettles DEF Owns
  <2> QED BY <1>9, <2>2, <2>3, <2>4 DEF Open
<1>10. CASE StartBatch \/ JoinBatch \/ LoopReturns \/ FinishRun \/ UNCHANGED vars
  <2>1. UNCHANGED <<queue, emitter, pc, was>>
    BY <1>10 DEF StartBatch, JoinBatch, LoopReturns, FinishRun, vars
  <2>2. Loop \in Actors /\ PcAlone(Loop)
    BY <2>1 DEF PcAlone, Actors
  <2>3. Owns(Loop) /\ pc[Loop] # "release" => Owns(Loop)' /\ pc'[Loop] # "release"
    BY <2>1 DEF Owns
  <2> QED BY <2>1, <2>2, <2>3, StrandKept
<1> QED
  BY <1>1, <1>2, <1>3, <1>4, <1>5, <1>6, <1>7, <1>8, <1>9, <1>10 DEF Next, Step

\* Once there is a consumer, every queued event has a goroutine that will
\* deliver or drop it, for any number of goroutines and events.
THEOREM NothingStranded == Spec => []NoStrand
<1>1. Init => NoStrand
  BY DEF Init, NoStrand
<1> QED
  BY <1>1, InitTyped, StepTyped, InitOwner, StepOwner, InitPhases, StepPhases, StepStrand,
     PTL DEF Spec

-----------------------------------------------------------------------------
(* Order of delivery *)

\* The events of a sequence of items.
LEMMA EventsOfTyped ==
  ASSUME NEW q \in Seq(Items)
  PROVE  /\ EventsOf(q) \in Seq(Events) /\ Len(EventsOf(q)) = Len(q)
         /\ \A i \in 1..Len(q) : EventsOf(q)[i] = q[i].event
<1>1. /\ Len(q) \in Nat /\ DOMAIN q = 1..Len(q)
      /\ \A i \in 1..Len(q) : q[i] \in Items
  BY ElementOfSeq, LenProperties
<1>2. \A i \in 1..Len(q) : q[i].event \in Events
  BY <1>1 DEF Items
<1>3. EventsOf(q) \in [1..Len(q) -> Events]
  BY <1>1, <1>2 DEF EventsOf
<1>4. EventsOf(q) \in Seq(Events)
  BY <1>1, <1>3, SeqDef
<1> QED
  BY <1>1, <1>3, <1>4, LenProperties DEF EventsOf

\* The empty queue holds no event.
LEMMA EventsOfEmpty == EventsOf(<<>>) = <<>>
<1>1. <<>> \in Seq(Items)
  BY EmptySeq
<1>2. EventsOf(<<>>) \in Seq(Events) /\ Len(EventsOf(<<>>)) = 0
  BY <1>1, EventsOfTyped
<1> QED BY <1>2, EmptySeq

\* Appending an item appends its event.
LEMMA EventsOfAppend ==
  ASSUME NEW q \in Seq(Items), NEW item \in Items
  PROVE  EventsOf(Append(q, item)) = Append(EventsOf(q), item.event)
<1> DEFINE r == Append(q, item)
           s == EventsOf(q)
           t == Append(s, item.event)
<1>1. item.event \in Events
  BY DEF Items
<1>2. r \in Seq(Items) /\ Len(r) = Len(q) + 1 /\ Len(q) \in Nat
      /\ \A i \in 1..Len(r) : r[i] = IF i = Len(q) + 1 THEN item ELSE q[i]
  BY LenProperties
<1>3. /\ s \in Seq(Events) /\ Len(s) = Len(q)
      /\ \A i \in 1..Len(q) : s[i] = q[i].event
  BY EventsOfTyped
<1>4. /\ t \in Seq(Events) /\ Len(t) = Len(q) + 1
      /\ \A i \in 1..Len(t) : t[i] = IF i = Len(q) + 1 THEN item.event ELSE s[i]
  BY <1>1, <1>3
<1>5. /\ EventsOf(r) \in Seq(Events) /\ Len(EventsOf(r)) = Len(r)
      /\ \A i \in 1..Len(r) : EventsOf(r)[i] = r[i].event
  BY <1>2, EventsOfTyped
<1> HIDE DEF r, s, t
<1>6. \A i \in 1..Len(r) : EventsOf(r)[i] = t[i]
  BY <1>2, <1>3, <1>4, <1>5
<1>7. EventsOf(r) = t
  BY <1>2, <1>4, <1>5, <1>6, SeqEqual
<1> QED BY <1>7 DEF r, s, t

\* Taking the first item takes the first event.
LEMMA EventsOfHead ==
  ASSUME NEW q \in Seq(Items), q # <<>>
  PROVE  /\ Head(q).event \in Events /\ Tail(q) \in Seq(Items)
         /\ EventsOf(q) = <<Head(q).event>> \o EventsOf(Tail(q))
<1> DEFINE u == EventsOf(Tail(q))
           e == Head(q).event
<1>1. /\ Head(q) \in Items /\ Tail(q) \in Seq(Items) /\ Len(Tail(q)) = Len(q) - 1
      /\ \A i \in 1..Len(Tail(q)) : Tail(q)[i] = q[i + 1]
  BY HeadTailProperties
<1>2. Len(q) \in Nat \ {0} /\ Head(q) = q[1]
  BY EmptySeq
<1>3. e \in Events /\ <<e>> \in Seq(Events) /\ Len(<<e>>) = 1 /\ <<e>>[1] = e
  BY <1>1 DEF Items
<1>4. /\ u \in Seq(Events) /\ Len(u) = Len(q) - 1
      /\ \A i \in 1..Len(q) - 1 : u[i] = Tail(q)[i].event
  BY <1>1, EventsOfTyped
<1>5. /\ EventsOf(q) \in Seq(Events) /\ Len(EventsOf(q)) = Len(q)
      /\ \A i \in 1..Len(q) : EventsOf(q)[i] = q[i].event
  BY EventsOfTyped
<1> DEFINE w == <<e>> \o u
<1>6. /\ w \in Seq(Events) /\ Len(w) = 1 + Len(u)
      /\ \A i \in 1..1 + Len(u) : w[i] = IF i <= 1 THEN <<e>>[i] ELSE u[i - 1]
  BY <1>3, <1>4, ConcatProperties
<1> HIDE DEF u, w
<1>7. ASSUME NEW i \in 1..Len(q) PROVE EventsOf(q)[i] = w[i]
  <2>1. CASE i = 1
    BY <1>2, <1>3, <1>4, <1>5, <1>6, <2>1
  <2>2. CASE i # 1
    <3>1. i - 1 \in 1..Len(q) - 1
      BY <1>2, <2>2
    <3>2. w[i] = u[i - 1]
      BY <1>2, <1>4, <1>6, <2>2
    <3>3. u[i - 1] = Tail(q)[i - 1].event
      BY <1>4, <3>1
    <3>4. Tail(q)[i - 1] = q[i]
      BY <1>1, <1>2, <3>1
    <3> QED BY <1>5, <3>2, <3>3, <3>4
  <2> QED BY <2>1, <2>2
<1>8. EventsOf(q) = w
  BY <1>2, <1>4, <1>5, <1>6, <1>7, SeqEqual
<1> QED BY <1>1, <1>3, <1>8 DEF u, w

\* Appending to the right part of a concatenation.
LEMMA AppendRight ==
  \A d, q \in Seq(Events), e \in Events : Append(d \o q, e) = d \o Append(q, e)
<1> TAKE d, q \in Seq(Events), e \in Events
<1>1. <<e>> \in Seq(Events) /\ d \o q \in Seq(Events)
  BY ConcatProperties
<1>2. Append(d \o q, e) = (d \o q) \o <<e>> /\ Append(q, e) = q \o <<e>>
  BY <1>1, AppendIsConcat
<1> QED BY <1>1, <1>2, ConcatAssociative

\* Moving the first element of the right part to the left part.
LEMMA AppendLeft ==
  ASSUME NEW S, NEW d \in Seq(S), NEW q \in Seq(S), NEW e \in S
  PROVE  Append(d, e) \o q = d \o (<<e>> \o q)
<1>1. <<e>> \in Seq(S)
  OBVIOUS
<1>2. Append(d, e) = d \o <<e>>
  BY <1>1, AppendIsConcat
<1> QED BY <1>1, <1>2, ConcatAssociative

\* Steps of goroutines that hold no popped event before or after them.
Aside(a) ==
  /\ \A b \in Actors \ {a} : pc'[b] = pc[b] /\ cur'[b] = cur[b]
  /\ pc[a] \notin {"dispatch", "yield"} /\ pc'[a] \notin {"dispatch", "yield"}
  /\ eventErr' = eventErr \/ eventErr'
  /\ consumer' = consumer \/ consumer # "stopped"

\* Such a step leaves the popped events alone.
LEMMA AsideHands ==
  ASSUME NEW a \in Actors, Aside(a)
  PROVE  InHand' = InHand /\ \A b \in InHand : cur'[b] = cur[b]
<1>1. \A b \in Actors : b \in InHand' <=> b \in InHand
  BY DEF InHand, Aside
<1>2. InHand' = InHand
  BY <1>1 DEF InHand
<1> QED BY <1>2 DEF InHand, Aside

\* A step aside that leaves queue and histories keeps the order.
LEMMA OrderKept ==
  ASSUME InOrder, NEW a \in Actors, Aside(a), UNCHANGED <<queue, emitted, delivered>>
  PROVE  InOrder'
<1>1. CASE eventErr \/ consumer = "stopped"
  BY <1>1 DEF InOrder, Aside
<1>2. CASE InHand = {} /\ emitted = delivered \o QueuedEvents
  BY <1>2, AsideHands DEF InOrder, QueuedEvents
<1>3. CASE \E b \in InHand : emitted = Append(delivered, cur[b]) \o QueuedEvents
  BY <1>3, AsideHands DEF InOrder, QueuedEvents
<1> QED BY <1>1, <1>2, <1>3 DEF InOrder

\* An emission appends to the queue and to what was emitted.
LEMMA OrderAppended ==
  ASSUME Typed, InOrder, NEW a \in Actors, Aside(a), MayEmit(a), NEW ran \in BOOLEAN,
         Append1(a, ran), UNCHANGED <<delivered, eventErr, consumer>>
  PROVE  InOrder'
<1> DEFINE e == Event(a)
           item == [event |-> e, ran |-> ran]
<1>1. /\ queue \in Seq(Items) /\ emitted \in Seq(Events) /\ delivered \in Seq(Events)
      /\ count \in [Actors -> 0..MaxEvents] /\ cur \in [Actors -> Events \cup {None}]
  BY DEF Typed, TypeOK
<1>2. e \in Events
  BY <1>1, ActorsAssumption DEF Event, Events, MayEmit
<1>3. item \in Items /\ item.event = e
  BY <1>2 DEF Items
<1>4. queue' = Append(queue, item) /\ emitted' = Append(emitted, e)
  BY DEF Append1
<1> HIDE DEF e, item
<1>5. QueuedEvents \in Seq(Events) /\ QueuedEvents' = Append(QueuedEvents, e)
  BY <1>1, <1>3, <1>4, EventsOfTyped, EventsOfAppend DEF QueuedEvents
<1>a. ASSUME NEW d \in Seq(Events), emitted = d \o QueuedEvents
      PROVE  emitted' = d \o QueuedEvents'
  <2>1. Append(d \o QueuedEvents, e) = d \o Append(QueuedEvents, e)
    BY <1>2, <1>5, AppendRight
  <2> QED BY <1>4, <1>5, <1>a, <2>1
<1>6. CASE eventErr \/ consumer = "stopped"
  BY <1>6 DEF InOrder
<1>7. CASE InHand = {} /\ emitted = delivered \o QueuedEvents
  <2>1. emitted' = delivered \o QueuedEvents'
    BY <1>1, <1>7, <1>a
  <2> QED BY <1>7, <2>1, AsideHands DEF InOrder
<1>8. ASSUME NEW b \in InHand, emitted = Append(delivered, cur[b]) \o QueuedEvents
      PROVE  InOrder'
  <2>1. cur[b] \in Events /\ b \in Actors
    BY DEF InHand, Typed, Holding
  <2>2. Append(delivered, cur[b]) \in Seq(Events)
    BY <1>1, <2>1, AppendProperties
  <2>3. emitted' = Append(delivered, cur[b]) \o QueuedEvents'
    BY <1>8, <1>a, <2>2
  <2>4. b \in InHand' /\ cur'[b] = cur[b]
    BY AsideHands
  <2>5. emitted' = Append(delivered', cur'[b]) \o QueuedEvents'
    BY <2>3, <2>4
  <2> QED BY <2>4, <2>5 DEF InOrder
<1> QED BY <1>6, <1>7, <1>8 DEF InOrder

\* A goroutine that takes an event from the queue.
LEMMA OrderPopped ==
  ASSUME Typed, SingleOwner, InOrder, NEW a \in Actors, Pop(a), queue # <<>>
  PROVE  InOrder'
<1>1. /\ queue \in Seq(Items) /\ delivered \in Seq(Events)
      /\ pc \in [Actors -> Labels] /\ cur \in [Actors -> Events \cup {None}]
  BY DEF Typed, TypeOK
<1>2. /\ pc[a] = "drain" /\ queue' = Take.rest /\ cur' = [cur EXCEPT ![a] = Take.event.event]
      /\ Goto(a, AfterPop(Take.event)) /\ UNCHANGED <<consumer, eventErr, emitted, delivered>>
  BY DEF Pop, run, history
<1>3. queue' = Tail(queue) /\ cur'[a] = Head(queue).event
  BY <1>1, <1>2 DEF Take
<1>4. pc'[a] \in {"dispatch", "yield"}
  BY <1>2, GotoPc DEF AfterPop
<1>5. InHand = {}
  BY <1>2 DEF InHand, SingleOwner, AtMostOneOwner, Owns
<1>6. CASE eventErr \/ consumer = "stopped"
  BY <1>2, <1>6 DEF InOrder
<1>7. CASE emitted = delivered \o QueuedEvents
  <2>1. /\ Head(queue).event \in Events /\ Tail(queue) \in Seq(Items)
        /\ QueuedEvents = <<Head(queue).event>> \o EventsOf(Tail(queue))
    BY <1>1, EventsOfHead DEF QueuedEvents
  <2>2. EventsOf(Tail(queue)) \in Seq(Events)
    BY <2>1, EventsOfTyped
  <2>3. emitted = Append(delivered, Head(queue).event) \o EventsOf(Tail(queue))
    BY <1>1, <1>7, <2>1, <2>2, AppendLeft, SMTT(30)
  <2>4. emitted' = Append(delivered', cur'[a]) \o QueuedEvents'
    BY <1>2, <1>3, <2>3 DEF QueuedEvents
  <2>5. a \in InHand'
    BY <1>4 DEF InHand
  <2> QED BY <2>4, <2>5 DEF InOrder
<1> QED BY <1>5, <1>6, <1>7 DEF InOrder

\* The loop body gets the event in hand.
LEMMA OrderDelivered ==
  ASSUME Typed, SingleOwner, InOrder, NEW a \in Actors, pc[a] = "yield", Goto(a, "body"),
         delivered' = Append(delivered, cur[a]),
         UNCHANGED <<consumer, eventErr, queue, emitted>>
  PROVE  InOrder'
<1>1. InHand = {a}
  BY DEF InHand, SingleOwner, AtMostOneOwner, Owns
<1>2. PcAlone(a) /\ pc'[a] = "body"
  BY GotoPc
<1>3. InHand' = {}
  BY <1>1, <1>2 DEF InHand, PcAlone
<1>4. CASE eventErr \/ consumer = "stopped"
  BY <1>4 DEF InOrder
<1>5. CASE emitted = Append(delivered, cur[a]) \o QueuedEvents
  BY <1>3, <1>5 DEF InOrder, QueuedEvents
<1> QED BY <1>1, <1>4, <1>5 DEF InOrder

\* Every step keeps the order of delivery.
LEMMA StepOrder == Typed /\ SingleOwner /\ Phases /\ InOrder /\ [Next]_vars => InOrder'
<1> SUFFICES ASSUME Typed, SingleOwner, Phases, InOrder, [Next]_vars PROVE InOrder'
  OBVIOUS
<1>0. cur \in [Actors -> Events \cup {None}]
  BY DEF Typed, TypeOK
<1>1. ASSUME NEW a \in Actors, Emit(a) PROVE InOrder'
  <2>1. /\ MayEmit(a) /\ pc[a] = "idle"
        /\ UNCHANGED <<cur, consumer, eventErr, delivered>>
    BY <1>1 DEF Emit, MayEmit, run
  <2>2. PcAlone(a) /\ pc'[a] \in {"idle", "drain"}
    BY <1>1, GotoPc, DonePc DEF Emit, Refuse
  <2>3. Aside(a)
    BY <2>1, <2>2 DEF Aside, PcAlone
  <2>4. CASE Refuse(a)
    BY <2>1, <2>3, <2>4, OrderKept DEF Refuse
  <2>5. CASE Append1(a, FALSE)
    BY <2>1, <2>3, <2>5, OrderAppended
  <2> QED BY <1>1, <2>4, <2>5 DEF Emit
<1>2. ASSUME NEW a \in Actors, EmitImmediate(a) PROVE InOrder'
  <2>1. /\ MayEmit(a) /\ pc[a] = "idle"
        /\ UNCHANGED <<consumer, eventErr, delivered>>
    BY <1>2 DEF EmitImmediate, MayEmit, run
  <2>2. PcAlone(a) /\ pc'[a] \in {"idle", "listeners"}
    BY <1>2, GotoPc, DonePc DEF EmitImmediate, Refuse
  <2>3. \A b \in Actors \ {a} : cur'[b] = cur[b]
    BY <1>0, <1>2 DEF EmitImmediate
  <2>4. Aside(a)
    BY <2>1, <2>2, <2>3 DEF Aside, PcAlone
  <2>5. CASE Refuse(a)
    BY <2>1, <2>4, <2>5, OrderKept DEF Refuse
  <2>6. CASE Append1(a, TRUE)
    BY <2>1, <2>4, <2>6, OrderAppended
  <2> QED BY <1>2, <2>5, <2>6 DEF EmitImmediate
<1>3. ASSUME NEW a \in Actors, Listen(a) PROVE InOrder'
  <2>1. /\ pc[a] \in {"listeners", "dispatch"} /\ UNCHANGED <<consumer, emitted, delivered>>
        /\ cur' = [cur EXCEPT ![a] = IF pc'[a] = "yield" THEN @ ELSE None]
    BY <1>3 DEF Listen, run
  <2>2. CASE Break(a)
    BY <2>2 DEF Break, InOrder
  <2>3. CASE /\ Goto(a, IF pc[a] = "listeners" THEN "check" ELSE "yield")
             /\ UNCHANGED <<eventErr, queue, dispatching, refused>>
    <3>1. PcAlone(a) /\ pc'[a] = IF pc[a] = "listeners" THEN "check" ELSE "yield"
      BY <2>3, GotoPc
    <3>2. CASE pc[a] = "listeners"
      <4>1. Aside(a)
        BY <1>0, <2>1, <2>3, <3>1, <3>2 DEF Aside, PcAlone
      <4> QED BY <2>1, <2>3, <4>1, OrderKept
    <3>3. CASE pc[a] = "dispatch"
      <4>1. cur' = cur
        BY <1>0, <2>1, <3>1, <3>3
      <4>2. \A b \in Actors : b \in InHand' <=> b \in InHand
        BY <3>1, <3>3 DEF InHand, PcAlone
      <4>3. InHand' = InHand
        BY <4>2 DEF InHand
      <4> QED BY <2>1, <2>3, <4>1, <4>3 DEF InOrder, QueuedEvents
    <3> QED BY <2>1, <3>2, <3>3
  <2> QED BY <1>3, <2>2, <2>3 DEF Listen
<1>4. ASSUME NEW a \in Actors, Check(a) \/ Release(a) PROVE InOrder'
  <2>1. /\ pc[a] \in {"check", "release"}
        /\ UNCHANGED <<consumer, cur, eventErr, queue, emitted, delivered>>
    BY <1>4 DEF Check, Release, run, history
  <2>2. PcAlone(a) /\ pc'[a] \in {"idle", "drain", "release"}
    <3>1. CASE Done(a, TRUE)
      BY <3>1, DonePc
    <3>2. CASE Goto(a, IF emitter THEN "drain" ELSE "release")
      BY <3>2, GotoPc
    <3> QED BY <1>4, <3>1, <3>2 DEF Check, Release
  <2>3. Aside(a)
    BY <2>1, <2>2 DEF Aside, PcAlone
  <2> QED BY <2>1, <2>3, OrderKept
<1>5. ASSUME NEW a \in Actors, Pop(a) PROVE InOrder'
  <2>1. CASE queue # <<>>
    BY <1>5, <2>1, OrderPopped
  <2>2. CASE queue = <<>>
    <3>1. /\ pc[a] = "drain" /\ Done(a, TRUE)
          /\ UNCHANGED <<consumer, cur, eventErr, queue, emitted, delivered>>
      BY <1>5, <2>2 DEF Pop, run, history
    <3>2. PcAlone(a) /\ pc'[a] = "idle"
      BY <3>1, DonePc
    <3>3. Aside(a)
      BY <3>1, <3>2 DEF Aside, PcAlone
    <3> QED BY <3>1, <3>3, OrderKept
  <2> QED BY <2>1, <2>2
<1>6. ASSUME NEW a \in Actors, EnterBody(a) PROVE InOrder'
  <2>1. pc[a] = "yield" /\ UNCHANGED <<consumer, eventErr, queue, emitted>>
    BY <1>6 DEF EnterBody
  <2>2. CASE Goto(a, "body") /\ delivered' = Append(delivered, cur[a])
    BY <2>1, <2>2, OrderDelivered
  <2>3. CASE UNCHANGED <<pc, cur, delivered>>
    BY <2>1, <2>3 DEF InOrder, InHand, QueuedEvents
  <2> QED BY <1>6, <2>2, <2>3 DEF EnterBody
<1>7. ASSUME NEW a \in Actors, LeaveBody(a) PROVE InOrder'
  <2>1. pc[a] = "body" /\ UNCHANGED <<cur, eventErr, queue, emitted, delivered>>
    BY <1>7 DEF LeaveBody, history
  <2>2. CASE consumer' = "stopped"
    BY <2>2 DEF InOrder
  <2>3. CASE Goto(a, "drain") /\ UNCHANGED consumer
    <3>1. PcAlone(a) /\ pc'[a] = "drain"
      BY <2>3, GotoPc
    <3>2. Aside(a)
      BY <2>1, <2>3, <3>1 DEF Aside, PcAlone
    <3> QED BY <2>1, <3>2, OrderKept
  <2> QED BY <1>7, <2>2, <2>3 DEF LeaveBody
<1>8. ASSUME NEW a \in Actors, Stop(a) PROVE InOrder'
  <2>1. pc[a] = "stop" /\ UNCHANGED consumer
    BY <1>8 DEF Stop, run
  <2> QED BY <2>1 DEF InOrder, Phases
<1>9. CASE Open
  <2>1. /\ Loop \in Actors /\ pc[Loop] = "idle" /\ consumer = "waiting"
        /\ UNCHANGED <<cur, eventErr, queue, emitted, delivered>>
    BY <1>9 DEF Open, Actors, Phases, history
  <2>2. PcAlone(Loop) /\ pc'[Loop] \in {"idle", "drain"}
    <3>1. CASE UNCHANGED pc
      BY <2>1, <3>1 DEF PcAlone
    <3>2. CASE Goto(Loop, "drain")
      BY <2>1, <3>2, GotoPc
    <3> QED BY <1>9, <3>1, <3>2 DEF Open
  <2>3. Aside(Loop)
    BY <2>1, <2>2 DEF Aside, PcAlone
  <2> QED BY <2>1, <2>3, OrderKept
<1>10. CASE StartBatch \/ JoinBatch \/ LoopReturns \/ FinishRun \/ UNCHANGED vars
  <2>1. UNCHANGED <<pc, cur, eventErr, queue, emitted, delivered>>
    BY <1>10 DEF StartBatch, JoinBatch, LoopReturns, FinishRun, vars, history
  <2>2. consumer = "stopped" => consumer' = "stopped"
    BY <1>10 DEF StartBatch, JoinBatch, LoopReturns, FinishRun, vars
  <2> QED BY <2>1, <2>2 DEF InOrder, InHand, QueuedEvents
<1> QED
  BY <1>1, <1>2, <1>3, <1>4, <1>5, <1>6, <1>7, <1>8, <1>9, <1>10 DEF Next, Step

\* The consumer gets every event once, in the order the emissions took the
\* queue's mutex, until a listener fails or the consumer leaves, for any number
\* of goroutines and events.
THEOREM DeliveryInOrder == Spec => []InOrder
<1>1. Init => InOrder
  BY EventsOfEmpty DEF Init, InOrder, InHand, QueuedEvents, Actors
<1> QED
  BY <1>1, InitTyped, StepTyped, InitOwner, StepOwner, InitPhases, StepPhases, StepOrder,
     PTL DEF Spec

-----------------------------------------------------------------------------
(* Listeners *)

\* The goroutines that run listeners, and the queued events whose listeners
\* have not run.
Speaking == {a \in Actors : pc[a] \in {"listeners", "dispatch"}}
Silent   == {i \in DOMAIN queue : ~queue[i].ran}

Heard(e, h) == \E i \in DOMAIN h : h[i] = e

\* An event that has been emitted.
Past(e, n) == e[2] <= n[e[1]]

\* Its listeners ran, or are running where it was emitted.
Reached(e, h, p, c) == Heard(e, h) \/ \E a \in Actors : p[a] = "listeners" /\ c[a] = e

AllPast ==
  /\ \A i \in DOMAIN queue : Past(queue[i].event, count)
  /\ \A a \in Actors : pc[a] \in {"listeners", "dispatch", "yield"} => Past(cur[a], count)
  /\ \A i \in DOMAIN heard : Past(heard[i], count)

\* Listeners that are still to run belong to different events, none of them
\* heard before.
Unheard ==
  /\ \A i \in Silent : ~Heard(queue[i].event, heard)
  /\ \A i, j \in Silent : queue[i].event = queue[j].event => i = j
  /\ \A a \in Speaking : ~Heard(cur[a], heard)
  /\ \A a, b \in Speaking : cur[a] = cur[b] => a = b
  /\ \A a \in Speaking : \A i \in Silent : cur[a] # queue[i].event

HeardOnce == \A i, j \in DOMAIN heard : heard[i] = heard[j] => i = j

\* What passes the listeners by has been seen by them.
Followed ==
  /\ \A i \in DOMAIN queue : queue[i].ran => Reached(queue[i].event, heard, pc, cur)
  /\ \A a \in Actors : pc[a] = "yield" => Reached(cur[a], heard, pc, cur)
  /\ \A i \in DOMAIN delivered : Reached(delivered[i], heard, pc, cur)

Told == AllPast /\ Unheard /\ HeardOnce /\ Followed

\* A run starts with no events.
LEMMA InitTold == Init => Told
<1> SUFFICES ASSUME Init PROVE Told
  OBVIOUS
<1>1. /\ queue = <<>> /\ heard = <<>> /\ delivered = <<>>
      /\ \A a \in Actors : pc[a] = "idle"
  BY DEF Init
<1>2. DOMAIN queue = {} /\ DOMAIN heard = {} /\ DOMAIN delivered = {}
  BY <1>1
<1>3. Silent = {} /\ Speaking = {}
  BY <1>1, <1>2 DEF Silent, Speaking
<1> QED BY <1>1, <1>2, <1>3 DEF Told, AllPast, Unheard, HeardOnce, Followed

\* What was emitted stays emitted.
LEMMA PastKept ==
  ASSUME Typed, count' \in [Actors -> Nat], \A b \in Actors : count[b] <= count'[b],
         NEW e \in Events, Past(e, count)
  PROVE  Past(e, count')
<1>1. e[1] \in Actors /\ e[2] \in Nat
  BY DEF Events
<1>2. count[e[1]] \in Nat /\ count'[e[1]] \in Nat /\ count[e[1]] <= count'[e[1]]
  BY <1>1 DEF Typed, TypeOK
<1> QED BY <1>1, <1>2 DEF Past

\* The types that the steps below rest on.
LEMMA ToldTypes ==
  ASSUME Typed
  PROVE  /\ queue \in Seq(Items) /\ heard \in Seq(Events) /\ delivered \in Seq(Events)
         /\ \A i \in DOMAIN queue : queue[i].event \in Events /\ queue[i].ran \in BOOLEAN
         /\ \A i \in DOMAIN heard : heard[i] \in Events
         /\ \A i \in DOMAIN delivered : delivered[i] \in Events
         /\ \A a \in Actors : pc[a] \in {"listeners", "dispatch", "yield"} => cur[a] \in Events
<1>1. queue \in Seq(Items) /\ heard \in Seq(Events) /\ delivered \in Seq(Events)
  BY DEF Typed, TypeOK
<1>2. /\ \A i \in DOMAIN queue : queue[i] \in Items
      /\ \A i \in DOMAIN heard : heard[i] \in Events
      /\ \A i \in DOMAIN delivered : delivered[i] \in Events
  BY <1>1
<1> QED BY <1>1, <1>2 DEF Items, Typed, Holding

\* A step that neither starts nor ends listeners, and at most drops the queue.
LEMMA ToldKept ==
  ASSUME Typed, Told, UNCHANGED <<heard, delivered>>, queue' \in {queue, <<>>},
         count' \in [Actors -> Nat], \A b \in Actors : count[b] <= count'[b],
         \A b \in Actors : \/ pc'[b] = pc[b] /\ cur'[b] = cur[b]
                           \/ /\ pc[b] \notin {"listeners", "dispatch", "yield"}
                              /\ pc'[b] \notin {"listeners", "dispatch", "yield"}
  PROVE  Told'
<1>1. \A b \in Actors :
         /\ pc'[b] \in {"listeners", "dispatch", "yield"} <=>
            pc[b] \in {"listeners", "dispatch", "yield"}
         /\ pc[b] \in {"listeners", "dispatch", "yield"} =>
            pc'[b] = pc[b] /\ cur'[b] = cur[b]
  OBVIOUS
<1>2. \A i \in DOMAIN queue' : i \in DOMAIN queue /\ queue'[i] = queue[i]
  OBVIOUS
<1>3. Silent' \subseteq Silent /\ Speaking' = Speaking
  BY <1>1, <1>2 DEF Silent, Speaking
<1>4. /\ \A e : Heard(e, heard') <=> Heard(e, heard)
      /\ \A e : Reached(e, heard, pc, cur) => Reached(e, heard', pc', cur')
  BY <1>1 DEF Heard, Reached
<1>5. AllPast'
  BY <1>1, <1>2, ToldTypes, PastKept DEF Told, AllPast
<1>6. Unheard'
  <2>1. \A i \in Silent' : i \in Silent /\ queue'[i] = queue[i]
    BY <1>2, <1>3 DEF Silent
  <2>2. \A a \in Speaking' : a \in Speaking /\ cur'[a] = cur[a]
    BY <1>1, <1>3 DEF Speaking
  <2> QED BY <1>4, <2>1, <2>2 DEF Told, Unheard
<1>7. HeardOnce' /\ Followed'
  BY <1>1, <1>2, <1>4 DEF Told, HeardOnce, Followed
<1> QED BY <1>5, <1>6, <1>7 DEF Told

\* An emission brings an event that nobody has heard of.
LEMMA ToldAppended ==
  ASSUME Typed, Told, NEW a \in Actors, MayEmit(a), NEW ran \in BOOLEAN, Append1(a, ran),
         UNCHANGED <<heard, delivered>>, PcAlone(a),
         \A b \in Actors \ {a} : cur'[b] = cur[b],
         IF ran THEN pc'[a] = "listeners" /\ cur'[a] = Event(a) ELSE pc'[a] \in {"idle", "drain"}
  PROVE  Told'
<1> DEFINE e == Event(a)
           item == [event |-> e, ran |-> ran]
<1>1. count \in [Actors -> 0..MaxEvents] /\ count[a] < MaxEvents /\ pc[a] = "idle"
  BY DEF Typed, TypeOK, MayEmit
<1>2. e \in Events /\ ~Past(e, count)
  BY <1>1, ActorsAssumption DEF Event, Events, Past
<1>3. /\ count' \in [Actors -> Nat] /\ \A b \in Actors : count[b] <= count'[b]
      /\ count'[a] = count[a] + 1
  BY <1>1 DEF Append1
<1>4. Past(e, count')
  BY <1>1, <1>3 DEF Past, Event
<1>5. /\ DOMAIN queue' = DOMAIN queue \cup {Len(queue) + 1}
      /\ Len(queue) + 1 \notin DOMAIN queue
      /\ queue'[Len(queue) + 1] = item
      /\ \A i \in DOMAIN queue : queue'[i] = queue[i]
  <2>1. item \in Items
    BY <1>2 DEF Items
  <2>2. queue' = Append(queue, item)
    BY DEF Append1
  <2> HIDE DEF item
  <2> QED BY <2>1, <2>2, ToldTypes
<1>6. item.event = e /\ item.ran = ran
  OBVIOUS
<1> HIDE DEF e, item
<1>7. \A b \in Actors \ {a} : pc'[b] = pc[b] /\ cur'[b] = cur[b]
  BY DEF PcAlone
<1>8. ran => Reached(e, heard', pc', cur')
  BY DEF Reached, e
<1>9. /\ \A x : Heard(x, heard') <=> Heard(x, heard)
      /\ \A x : Reached(x, heard, pc, cur) => Reached(x, heard', pc', cur')
  <2>1. \A x : Heard(x, heard') <=> Heard(x, heard)
    BY DEF Heard
  <2>2. ASSUME NEW x, NEW b \in Actors, pc[b] = "listeners", cur[b] = x
        PROVE  Reached(x, heard', pc', cur')
    <3>1. b # a
      BY <1>1, <2>2
    <3> QED BY <1>7, <2>2, <3>1 DEF Reached
  <2> QED BY <2>1, <2>2 DEF Reached
<1>10. AllPast'
  <2>1. \A i \in DOMAIN queue' : Past(queue'[i].event, count')
    BY <1>3, <1>4, <1>5, <1>6, ToldTypes, PastKept DEF Told, AllPast
  <2>2. \A b \in Actors : pc'[b] \in {"listeners", "dispatch", "yield"} => Past(cur'[b], count')
    <3>1. ASSUME NEW b \in Actors \ {a}, pc'[b] \in {"listeners", "dispatch", "yield"}
          PROVE  Past(cur[b], count')
      BY <1>3, <1>7, <3>1, ToldTypes, PastKept DEF Told, AllPast
    <3>2. pc'[a] \in {"listeners", "dispatch", "yield"} => cur'[a] = e
      BY DEF e
    <3> QED BY <1>4, <1>7, <3>1, <3>2
  <2>3. \A i \in DOMAIN heard' : Past(heard'[i], count')
    BY <1>3, ToldTypes, PastKept DEF Told, AllPast
  <2> QED BY <2>1, <2>2, <2>3 DEF AllPast
<1>11. Unheard'
  <2>1. /\ ~Heard(e, heard) /\ \A i \in DOMAIN queue : queue[i].event # e
        /\ \A b \in Speaking : cur[b] # e
    BY <1>2 DEF Told, AllPast, Heard, Speaking
  <2>2. CASE ran
    <3>1. Silent' = Silent
      BY <1>5, <1>6, <2>2 DEF Silent
    <3>2. Speaking' = Speaking \cup {a} /\ a \notin Speaking /\ cur'[a] = e
      BY <1>1, <1>7, <2>2 DEF Speaking, e
    <3>3. \A i \in Silent : queue'[i].event = queue[i].event /\ queue[i].event # e
      BY <1>5, <2>1 DEF Silent
    <3>4. \A b \in Speaking : cur'[b] = cur[b] /\ cur[b] # e
      BY <1>7, <2>1, <3>2 DEF Speaking
    <3> QED BY <1>9, <2>1, <3>1, <3>2, <3>3, <3>4 DEF Told, Unheard
  <2>3. CASE ~ran
    <3>1. Silent' = Silent \cup {Len(queue) + 1}
      BY <1>5, <1>6, <2>3 DEF Silent
    <3>2. Speaking' = Speaking /\ \A b \in Speaking : cur'[b] = cur[b]
      BY <1>1, <1>7, <2>3 DEF Speaking
    <3>3. queue'[Len(queue) + 1].event = e
      BY <1>5, <1>6
    <3>4. \A i \in Silent : queue'[i].event = queue[i].event /\ queue[i].event # e
      BY <1>5, <2>1 DEF Silent
    <3>5. \A b \in Speaking : cur[b] # e
      BY <2>1
    <3> QED BY <1>9, <2>1, <3>1, <3>2, <3>3, <3>4, <3>5 DEF Told, Unheard
  <2> QED BY <2>2, <2>3
<1>12. HeardOnce'
  BY DEF Told, HeardOnce
<1>13. Followed'
  <2>1. \A i \in DOMAIN queue' : queue'[i].ran => Reached(queue'[i].event, heard', pc', cur')
    BY <1>5, <1>6, <1>8, <1>9 DEF Told, Followed
  <2>2. \A b \in Actors : pc'[b] = "yield" => b # a
    OBVIOUS
  <2>3. \A b \in Actors : pc'[b] = "yield" => Reached(cur'[b], heard', pc', cur')
    BY <1>7, <1>9, <2>2 DEF Told, Followed
  <2> QED BY <1>9, <2>1, <2>3 DEF Told, Followed
<1> QED BY <1>10, <1>11, <1>12, <1>13 DEF Told

\* Listeners that run hear their event for the first time.
LEMMA ToldHeard ==
  ASSUME Typed, Told, NEW a \in Actors, Listen(a)
  PROVE  Told'
<1> DEFINE e == cur[a]
<1>1. /\ a \in Speaking /\ e \in Events /\ heard \in Seq(Events)
      /\ cur \in [Actors -> Events \cup {None}]
      /\ heard' = Append(heard, e) /\ UNCHANGED <<count, delivered>>
  BY ToldTypes DEF Listen, Speaking, Typed, TypeOK
<1>2. /\ PcAlone(a) /\ pc'[a] \in {"idle", "check", "yield"}
      /\ pc'[a] = "yield" => cur'[a] = e
      /\ \A b \in Actors \ {a} : cur'[b] = cur[b]
      /\ queue' \in {queue, <<>>}
  <2>1. CASE Break(a)
    BY <1>1, <2>1, DonePc DEF Break, Listen
  <2>2. CASE Goto(a, IF pc[a] = "listeners" THEN "check" ELSE "yield") /\ UNCHANGED queue
    BY <1>1, <2>2, GotoPc DEF Listen
  <2> QED BY <2>1, <2>2 DEF Listen
<1> HIDE DEF e
<1>3. \A x : Heard(x, heard') <=> Heard(x, heard) \/ x = e
  <2>1. /\ DOMAIN heard' = DOMAIN heard \cup {Len(heard) + 1} /\ heard'[Len(heard) + 1] = e
        /\ \A i \in DOMAIN heard : heard'[i] = heard[i]
    BY <1>1
  <2> QED BY <2>1 DEF Heard
<1>4. \A x : Reached(x, heard, pc, cur) => Reached(x, heard', pc', cur')
  <2>1. ASSUME NEW x, NEW b \in Actors, pc[b] = "listeners", cur[b] = x
        PROVE  Reached(x, heard', pc', cur')
    <3>1. CASE b = a
      BY <1>3, <2>1, <3>1 DEF Reached, e
    <3>2. CASE b # a
      BY <1>2, <2>1, <3>2 DEF Reached, PcAlone
    <3> QED BY <3>1, <3>2
  <2> QED BY <1>3, <2>1 DEF Reached
<1>5. Reached(e, heard', pc', cur') /\ ~Heard(e, heard) /\ Past(e, count)
  BY <1>1, <1>3 DEF Reached, Told, Unheard, AllPast, Speaking, e
<1>6. \A i \in DOMAIN queue' : i \in DOMAIN queue /\ queue'[i] = queue[i]
  BY <1>2
<1>7. \A b \in Speaking' : b \in Speaking /\ b # a /\ cur'[b] = cur[b]
  BY <1>2 DEF Speaking, PcAlone
<1>8. AllPast'
  <2>1. \A x : Past(x, count') <=> Past(x, count)
    BY <1>1 DEF Past
  <2>2. \A i \in DOMAIN heard' : Past(heard'[i], count)
    BY <1>1, <1>5 DEF Told, AllPast
  <2>3. ASSUME NEW b \in Actors, pc'[b] \in {"listeners", "dispatch", "yield"}
        PROVE  Past(cur'[b], count)
    <3>1. CASE b = a
      BY <1>2, <1>5, <2>3, <3>1
    <3>2. CASE b # a
      BY <1>2, <2>3, <3>2 DEF PcAlone, Told, AllPast
    <3> QED BY <3>1, <3>2
  <2>4. \A i \in DOMAIN queue' : Past(queue'[i].event, count)
    BY <1>6 DEF Told, AllPast
  <2> QED BY <2>1, <2>2, <2>3, <2>4 DEF AllPast
<1>9. Unheard'
  <2>1. \A i \in Silent' : i \in Silent /\ queue'[i] = queue[i]
    BY <1>6 DEF Silent
  <2>2. /\ \A i \in Silent : queue[i].event # e
        /\ \A b \in Speaking : b # a => cur[b] # e
    BY <1>1 DEF Told, Unheard, e
  <2> QED BY <1>3, <1>7, <2>1, <2>2 DEF Told, Unheard
<1>10. HeardOnce'
  <2>1. \A i \in DOMAIN heard : heard[i] # e
    BY <1>5 DEF Heard
  <2> QED BY <1>1, <2>1 DEF Told, HeardOnce
<1>11. Followed'
  <2>1. \A i \in DOMAIN queue' : queue'[i].ran => Reached(queue'[i].event, heard', pc', cur')
    BY <1>4, <1>6 DEF Told, Followed
  <2>2. ASSUME NEW b \in Actors, pc'[b] = "yield" PROVE Reached(cur'[b], heard', pc', cur')
    <3>1. CASE b = a
      BY <1>2, <1>5, <2>2, <3>1
    <3>2. CASE b # a
      BY <1>2, <1>4, <2>2, <3>2 DEF PcAlone, Told, Followed
    <3> QED BY <3>1, <3>2
  <2> QED BY <1>1, <1>4, <2>1, <2>2 DEF Told, Followed
<1> QED BY <1>8, <1>9, <1>10, <1>11 DEF Told

\* An owner takes an event whose listeners ran, or runs them now.
LEMMA ToldPopped ==
  ASSUME Typed, Told, NEW a \in Actors, Pop(a), queue # <<>>
  PROVE  Told'
<1> DEFINE e == Head(queue).event
<1>1. /\ pc[a] = "drain" /\ queue \in Seq(Items) /\ UNCHANGED <<count, heard, delivered>>
      /\ cur \in [Actors -> Events \cup {None}]
  BY DEF Typed, TypeOK, Pop, history
<1>2. /\ PcAlone(a) /\ cur'[a] = e /\ \A b \in Actors \ {a} : cur'[b] = cur[b]
      /\ pc'[a] = IF Head(queue).ran THEN "yield" ELSE "dispatch"
  BY <1>1, GotoPc DEF Pop, AfterPop, Take
<1>3. /\ 1 \in DOMAIN queue /\ e = queue[1].event /\ Head(queue) = queue[1]
      /\ \A i \in DOMAIN queue' :
            i \in Nat /\ i + 1 \in DOMAIN queue /\ i + 1 # 1 /\ queue'[i] = queue[i + 1]
  <2>1. queue' = Tail(queue)
    BY DEF Pop, Take
  <2> QED BY <1>1, <2>1
<1> HIDE DEF e
<1>4. (\A x : Heard(x, heard') <=> Heard(x, heard)) /\ (\A x : Past(x, count') <=> Past(x, count))
  BY <1>1 DEF Heard, Past
<1>5. \A x : Reached(x, heard, pc, cur) => Reached(x, heard', pc', cur')
  <2>1. ASSUME NEW x, NEW b \in Actors, pc[b] = "listeners", cur[b] = x
        PROVE  Reached(x, heard', pc', cur')
    <3>1. b # a
      BY <1>1, <2>1
    <3> QED BY <1>2, <2>1, <3>1 DEF Reached, PcAlone
  <2> QED BY <1>4, <2>1 DEF Reached
<1>6. AllPast'
  <2>1. \A i \in DOMAIN queue' : Past(queue'[i].event, count)
    BY <1>3 DEF Told, AllPast
  <2>2. ASSUME NEW b \in Actors, pc'[b] \in {"listeners", "dispatch", "yield"}
        PROVE  Past(cur'[b], count)
    BY <1>2, <1>3, <2>2 DEF PcAlone, Told, AllPast
  <2> QED BY <1>1, <1>4, <2>1, <2>2 DEF Told, AllPast
<1>7. Unheard'
  <2>1. \A i \in Silent' : i \in Nat /\ i + 1 \in Silent /\ i + 1 # 1 /\ queue'[i] = queue[i + 1]
    BY <1>3 DEF Silent
  <2>2. \A i, j \in Silent' : i + 1 = j + 1 => i = j
    BY <2>1
  <2>3. \A b \in Speaking' : b # a => b \in Speaking /\ cur'[b] = cur[b]
    BY <1>2 DEF Speaking, PcAlone
  <2>4. a \in Speaking' => 1 \in Silent
    BY <1>2, <1>3 DEF Speaking, Silent
  <2>5. /\ \A i \in Silent' : ~Heard(queue'[i].event, heard)
        /\ \A i, j \in Silent' : queue'[i].event = queue'[j].event => i = j
    BY <2>1, <2>2 DEF Told, Unheard
  <2>6. a \in Speaking' =>
          /\ ~Heard(e, heard) /\ \A i \in Silent' : queue'[i].event # e
          /\ \A b \in Speaking : cur[b] # e
    BY <1>3, <2>1, <2>4 DEF Told, Unheard
  <2>7. \A b \in Speaking' : ~Heard(cur'[b], heard) /\ \A i \in Silent' : cur'[b] # queue'[i].event
    BY <1>2, <2>1, <2>3, <2>6 DEF Told, Unheard
  <2>8. \A b, c \in Speaking' : cur'[b] = cur'[c] => b = c
    BY <1>2, <2>3, <2>6 DEF Told, Unheard
  <2> QED BY <1>4, <2>5, <2>7, <2>8 DEF Unheard
<1>8. HeardOnce'
  BY <1>1 DEF Told, HeardOnce
<1>9. Followed'
  <2>1. \A i \in DOMAIN queue' : queue'[i].ran => Reached(queue'[i].event, heard', pc', cur')
    BY <1>3, <1>5 DEF Told, Followed
  <2>2. ASSUME NEW b \in Actors, pc'[b] = "yield" PROVE Reached(cur'[b], heard', pc', cur')
    <3>1. CASE b = a
      BY <1>2, <1>3, <1>5, <2>2, <3>1 DEF Told, Followed
    <3>2. CASE b # a
      BY <1>2, <1>5, <2>2, <3>2 DEF PcAlone, Told, Followed
    <3> QED BY <3>1, <3>2
  <2> QED BY <1>1, <1>5, <2>1, <2>2 DEF Told, Followed
<1> QED BY <1>6, <1>7, <1>8, <1>9 DEF Told

\* The loop body gets an event that the listeners have seen.
LEMMA ToldDelivered ==
  ASSUME Typed, Told, NEW a \in Actors, EnterBody(a)
  PROVE  Told'
<1>1. /\ pc[a] = "yield" /\ UNCHANGED <<queue, count, heard>>
      /\ cur \in [Actors -> Events \cup {None}] /\ delivered \in Seq(Events)
  BY DEF EnterBody, Typed, TypeOK
<1>2. CASE UNCHANGED <<pc, cur, delivered>>
  BY <1>1, <1>2
  DEF Told, AllPast, Unheard, HeardOnce, Followed, Past, Heard, Reached, Silent, Speaking
<1>3. CASE /\ Goto(a, "body") /\ cur' = [cur EXCEPT ![a] = None]
           /\ delivered' = Append(delivered, cur[a])
  <2>1. PcAlone(a) /\ pc'[a] = "body" /\ \A b \in Actors \ {a} : cur'[b] = cur[b]
    BY <1>1, <1>3, GotoPc
  <2>2. \A b \in Actors : pc'[b] \in {"listeners", "dispatch", "yield"} =>
                             b # a /\ pc[b] = pc'[b] /\ cur[b] = cur'[b]
    BY <2>1 DEF PcAlone
  <2>3. Speaking' = Speaking /\ \A b \in Speaking : cur'[b] = cur[b]
    BY <1>1, <2>1, <2>2 DEF Speaking, PcAlone
  <2>4. /\ \A x : Heard(x, heard') <=> Heard(x, heard)
        /\ \A x : Past(x, count') <=> Past(x, count)
        /\ \A x : Reached(x, heard, pc, cur) => Reached(x, heard', pc', cur')
    <3>1. ASSUME NEW x, NEW b \in Actors, pc[b] = "listeners", cur[b] = x
          PROVE  Reached(x, heard', pc', cur')
      <4>1. b # a
        BY <1>1, <3>1
      <4> QED BY <2>1, <3>1, <4>1 DEF Reached, PcAlone
    <3> QED BY <1>1, <3>1 DEF Heard, Past, Reached
  <2>5. AllPast' /\ HeardOnce'
    BY <1>1, <2>2, <2>4 DEF Told, AllPast, HeardOnce
  <2>6. Unheard'
    BY <1>1, <2>3, <2>4 DEF Told, Unheard, Silent
  <2>7. Followed'
    <3>1. \A i \in DOMAIN delivered' : Reached(delivered'[i], heard, pc, cur)
      <4>1. Reached(cur[a], heard, pc, cur) /\ cur[a] \in Events
        BY <1>1, ToldTypes DEF Told, Followed
      <4> QED BY <1>1, <1>3, <4>1 DEF Told, Followed
    <3> QED BY <1>1, <2>2, <2>4, <3>1 DEF Told, Followed
  <2> QED BY <2>5, <2>6, <2>7 DEF Told
<1> QED BY <1>2, <1>3 DEF EnterBody

\* Every step keeps what the listeners know.
LEMMA StepTold == Typed /\ Phases /\ Told /\ [Next]_vars => Told'
<1> SUFFICES ASSUME Typed, Phases, Told, [Next]_vars PROVE Told'
  OBVIOUS
<1>0. /\ cur \in [Actors -> Events \cup {None}] /\ count \in [Actors -> Nat]
      /\ \A b \in Actors : count[b] <= count[b]
  BY DEF Typed, TypeOK
<1>1. ASSUME NEW a \in Actors, Emit(a) \/ EmitImmediate(a) PROVE Told'
  <2>1. /\ MayEmit(a) /\ pc[a] = "idle" /\ UNCHANGED <<heard, delivered>>
        /\ \A b \in Actors \ {a} : cur'[b] = cur[b]
    BY <1>0, <1>1 DEF Emit, EmitImmediate, MayEmit
  <2>2. PcAlone(a)
    BY <1>1, GotoPc, DonePc DEF Emit, EmitImmediate, Refuse
  <2>3. CASE Refuse(a)
    <3>1. count' \in [Actors -> Nat] /\ \A b \in Actors : count[b] <= count'[b]
      BY <1>0, <2>3 DEF Refuse
    <3>2. pc'[a] = "idle" /\ queue' = queue /\ \A b \in Actors \ {a} : pc'[b] = pc[b]
      BY <2>2, <2>3, DonePc DEF Refuse, PcAlone
    <3>3. \A b \in Actors :
             \/ pc'[b] = pc[b] /\ cur'[b] = cur[b]
             \/ /\ pc[b] \notin {"listeners", "dispatch", "yield"}
                /\ pc'[b] \notin {"listeners", "dispatch", "yield"}
      BY <2>1, <3>1, <3>2
    <3> QED BY <2>1, <3>1, <3>2, <3>3, ToldKept
  <2>4. CASE Emit(a) /\ Append1(a, FALSE)
    <3>1. pc'[a] \in {"idle", "drain"}
      BY <2>4, GotoPc, DonePc, <2>1 DEF Emit, Refuse
    <3> QED BY <2>1, <2>2, <2>4, <3>1, ToldAppended
  <2>5. CASE /\ Append1(a, TRUE) /\ Goto(a, "listeners")
             /\ cur' = [cur EXCEPT ![a] = Event(a)]
    <3>1. pc'[a] = "listeners" /\ cur'[a] = Event(a)
      BY <1>0, <2>5, GotoPc
    <3> QED BY <2>1, <2>2, <2>5, <3>1, ToldAppended
  <2> QED BY <1>1, <2>3, <2>4, <2>5 DEF Emit, EmitImmediate
<1>2. ASSUME NEW a \in Actors, Check(a) \/ Release(a) \/ LeaveBody(a) \/ Stop(a) PROVE Told'
  <2>1. /\ pc[a] \in {"check", "release", "body", "stop"}
        /\ UNCHANGED <<cur, count, heard, delivered>> /\ queue' \in {queue, <<>>}
    BY <1>2 DEF Check, Release, LeaveBody, Stop, history
  <2>2. PcAlone(a) /\ pc'[a] \in {"idle", "drain", "release", "stop"}
    <3>1. CASE \E ok : Done(a, ok)
      BY <3>1, DonePc
    <3>2. CASE \E label \in {"drain", "release", "stop"} : Goto(a, label)
      BY <3>2, GotoPc
    <3> QED BY <1>2, <3>1, <3>2 DEF Check, Release, LeaveBody, Stop
  <2> QED BY <1>0, <2>1, <2>2, ToldKept DEF PcAlone
<1>3. ASSUME NEW a \in Actors, Pop(a) PROVE Told'
  <2>1. CASE queue = <<>>
    <3>1. pc[a] = "drain" /\ UNCHANGED <<queue, cur, count, heard, delivered>> /\ Done(a, TRUE)
      BY <1>3, <2>1 DEF Pop, history
    <3>2. PcAlone(a) /\ pc'[a] = "idle"
      BY <3>1, DonePc
    <3> QED BY <1>0, <3>1, <3>2, ToldKept DEF PcAlone
  <2> QED BY <1>3, <2>1, ToldPopped
<1>4. CASE Open
  <2>1. /\ Loop \in Actors /\ pc[Loop] = "idle"
        /\ UNCHANGED <<queue, cur, count, heard, delivered>>
    BY <1>4 DEF Open, Actors, history
  <2>2. PcAlone(Loop) /\ pc'[Loop] \in {"idle", "drain"}
    <3>1. CASE UNCHANGED pc
      BY <2>1, <3>1 DEF PcAlone
    <3>2. CASE Goto(Loop, "drain")
      BY <2>1, <3>2, GotoPc
    <3> QED BY <1>4, <3>1, <3>2 DEF Open
  <2> QED BY <1>0, <2>1, <2>2, ToldKept DEF PcAlone
<1>5. CASE StartBatch \/ JoinBatch \/ LoopReturns \/ FinishRun \/ UNCHANGED vars
  <2>1. UNCHANGED <<pc, cur, count, queue, heard, delivered>>
    BY <1>5 DEF StartBatch, JoinBatch, LoopReturns, FinishRun, vars, history
  <2> QED BY <1>0, <2>1, ToldKept
<1> QED
  BY <1>1, <1>2, <1>3, <1>4, <1>5, ToldHeard, ToldDelivered DEF Next, Step

\* The listeners see every event at most once, and not later than the consumer,
\* save for an immediate event whose listeners are still running: for any
\* number of goroutines and events, also when listeners fail or the consumer
\* leaves.
THEOREM ListenedOnce == Spec => []ListenersOnce
<1>1. Told => ListenersOnce
  BY DEF Told, HeardOnce, Followed, Reached, Heard, ListenersOnce
<1> QED
  BY <1>1, InitTyped, StepTyped, InitPhases, StepPhases, InitTold, StepTold, PTL DEF Spec
=============================================================================
