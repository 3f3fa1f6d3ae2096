------------------------- MODULE ConcurrencyLimiter -------------------------
(***************************************************************************)
(* The in-process concurrency gate of src/ai/concurrency.go.               *)
(*                                                                         *)
(* A limiter is a buffered channel of capacity MaxRunning (one element per *)
(* held slot) and a counter of waiting operations, bounded by MaxQueued    *)
(* and protected by a mutex.  The two are NOT updated together: an         *)
(* operation tries the channel, then takes the mutex, then blocks on the   *)
(* channel, and corrects the counter once it has stopped waiting.          *)
(*                                                                         *)
(* The Go runtime hands a received slot to the operation that has been     *)
(* blocked longest on the send, so `sendq' is the channel's queue of       *)
(* blocked senders and a slot released while somebody is blocked never     *)
(* becomes free.  A select whose two cases are ready picks either.         *)
(***************************************************************************)
EXTENDS Naturals, Sequences, FiniteSets, SequencesExt

CONSTANTS
    Ops,          \* operations: agent runs and model requests sharing the gate
    Streams,      \* the operations that are streamed model requests
    MaxRunning,   \* capacity of the slots channel
    MaxQueued,    \* bound on waiting operations, or NoLimit for a nil pointer
    NoLimit,
    Watched       \* bound: the operations AcquireReturns is about

ASSUME OpsAssumption        == IsFiniteSet(Ops) /\ Streams \subseteq Ops
ASSUME MaxRunningAssumption == MaxRunning \in Nat \ {0}
ASSUME MaxQueuedAssumption  == MaxQueued \in Nat \cup {NoLimit} /\ NoLimit \notin Nat

VARIABLES
    slots,      \* len(limiter.slots)
    sendq,      \* operations blocked in the send, longest first
    waiting,    \* limiter.waiting
    pc,         \* where each operation is
    cancelled   \* the operation's context is cancelled

vars == <<slots, sendq, waiting, pc, cancelled>>

Labels == {"idle", "trying", "contended", "joined", "blocked", "granted", "withdrawn",
           "holding", "ranging", "done", "refused", "rejected"}

Init ==
    /\ slots = 0
    /\ sendq = <<>>
    /\ waiting = 0
    /\ pc = [o \in Ops |-> "idle"]
    /\ cancelled = [o \in Ops |-> FALSE]

Goto(o, from, to) == pc[o] = from /\ pc' = [pc EXCEPT ![o] = to]

-----------------------------------------------------------------------------
(* Acquire *)

\* The context check on entry.
Begin(o) ==
    /\ Goto(o, "idle", IF cancelled[o] THEN "refused" ELSE "trying")
    /\ UNCHANGED <<slots, sendq, waiting, cancelled>>

\* The non-blocking send.
TryFast(o) ==
    /\ Goto(o, "trying", IF slots < MaxRunning THEN "holding" ELSE "contended")
    /\ slots' = IF slots < MaxRunning THEN slots + 1 ELSE slots
    /\ UNCHANGED <<sendq, waiting, cancelled>>

QueueFull == MaxQueued # NoLimit /\ waiting >= MaxQueued

\* The critical section: reject, or count the operation as waiting.
Join(o) ==
    /\ ~QueueFull
    /\ Goto(o, "contended", "joined")
    /\ waiting' = waiting + 1
    /\ UNCHANGED <<slots, sendq, cancelled>>

Reject(o) ==
    /\ QueueFull
    /\ Goto(o, "contended", "rejected")
    /\ UNCHANGED <<slots, sendq, waiting, cancelled>>

\* Mutant: the channel send is not bounded by the capacity.
SelectSlotUnbounded(o) ==
    /\ Goto(o, "joined", "granted")
    /\ slots' = slots + 1
    /\ UNCHANGED <<sendq, waiting, cancelled>>

\* Mutant: waits without looking whether a slot was freed meanwhile.
SelectBlockBlind(o) ==
    /\ ~cancelled[o]
    /\ Goto(o, "joined", "blocked")
    /\ sendq' = Append(sendq, o)
    /\ UNCHANGED <<slots, waiting, cancelled>>

\* Mutant: the decrement is skipped when the context ends the wait.
LeaveForgetful(o) ==
    /\ \/ Goto(o, "granted", "holding") /\ waiting' = waiting - 1
       \/ Goto(o, "withdrawn", "refused") /\ UNCHANGED waiting
    /\ UNCHANGED <<slots, sendq, cancelled>>

\* The select: a free slot, a finished context, or both ready, or block.
SelectSlot(o) ==
    /\ slots < MaxRunning
    /\ Goto(o, "joined", "granted")
    /\ slots' = slots + 1
    /\ UNCHANGED <<sendq, waiting, cancelled>>

SelectDone(o) ==
    /\ cancelled[o]
    /\ Goto(o, "joined", "withdrawn")
    /\ UNCHANGED <<slots, sendq, waiting, cancelled>>

SelectBlock(o) ==
    /\ slots = MaxRunning /\ ~cancelled[o]
    /\ Goto(o, "joined", "blocked")
    /\ sendq' = Append(sendq, o)
    /\ UNCHANGED <<slots, waiting, cancelled>>

\* The deferred decrement, on the way out of Acquire.
Leave(o) ==
    /\ \/ Goto(o, "granted", "holding")
       \/ Goto(o, "withdrawn", "refused")
    /\ waiting' = waiting - 1
    /\ UNCHANGED <<slots, sendq, cancelled>>

-----------------------------------------------------------------------------
(* Release *)

\* Receive from the channel: the slot goes to the longest blocked sender.
ReleaseSlot(o, from) ==
    /\ pc[o] = from /\ slots > 0
    /\ IF sendq = <<>>
       THEN /\ pc' = [pc EXCEPT ![o] = "done"]
            /\ slots' = slots - 1
            /\ UNCHANGED sendq
       ELSE /\ pc' = [pc EXCEPT ![o] = "done", ![Head(sendq)] = "granted"]
            /\ sendq' = Tail(sendq)
            /\ UNCHANGED slots
    /\ UNCHANGED <<waiting, cancelled>>

\* Request, CountTokens, CompactMessages and WrapRun release when they return.
Finish(o) == o \notin Streams /\ ReleaseSlot(o, "holding")

\* Mutant: a request that returned no stream keeps its slot.
OpenFailsLeak(o) ==
    /\ o \in Streams /\ Goto(o, "holding", "done")
    /\ UNCHANGED <<slots, sendq, waiting, cancelled>>

\* StreamRequest releases at once when the wrapped model returns no stream ...
OpenFails(o) == o \in Streams /\ ReleaseSlot(o, "holding")

\* ... and otherwise when the returned sequence ends, is broken from or fails.
OpenStream(o) ==
    /\ o \in Streams /\ Goto(o, "holding", "ranging")
    /\ UNCHANGED <<slots, sendq, waiting, cancelled>>

EndStream(o) == o \in Streams /\ ReleaseSlot(o, "ranging")

-----------------------------------------------------------------------------
(* The environment *)

\* A context may be cancelled at any time; it wakes a blocked operation.
Cancel(o) ==
    /\ ~cancelled[o] /\ pc[o] \notin {"done", "refused", "rejected"}
    /\ cancelled' = [cancelled EXCEPT ![o] = TRUE]
    /\ IF pc[o] = "blocked"
       THEN /\ pc' = [pc EXCEPT ![o] = "withdrawn"]
            /\ \E i \in 1..Len(sendq) : sendq[i] = o /\ sendq' = RemoveAt(sendq, i)
       ELSE UNCHANGED <<pc, sendq>>
    /\ UNCHANGED <<slots, waiting>>

\* The caller tries again with a fresh context.
Again(o) ==
    /\ \E end \in {"done", "refused", "rejected"} : Goto(o, end, "idle")
    /\ cancelled' = [cancelled EXCEPT ![o] = FALSE]
    /\ UNCHANGED <<slots, sendq, waiting>>

Run(o) ==
    \/ TryFast(o) \/ Join(o) \/ Reject(o)
    \/ SelectSlot(o) \/ SelectDone(o) \/ SelectBlock(o) \/ Leave(o)
    \/ Finish(o) \/ OpenFails(o) \/ OpenStream(o) \/ EndStream(o)

Next == \E o \in Ops : Begin(o) \/ Run(o) \/ Cancel(o) \/ Again(o)

Spec == Init /\ [][Next]_vars

\* A goroutine that can run does, and every operation that holds a slot ends.
FairSpec == Spec /\ \A o \in Ops : WF_vars(Run(o))

-----------------------------------------------------------------------------
(* Properties *)

TypeOK ==
    /\ slots \in 0..MaxRunning
    /\ sendq \in Seq(Ops)
    /\ waiting \in Nat
    /\ pc \in [Ops -> Labels]
    /\ cancelled \in [Ops -> BOOLEAN]

At(at, labels) == {o \in Ops : at[o] \in labels}

HolderLabels == {"granted", "holding", "ranging"}
WaiterLabels == {"joined", "blocked", "granted", "withdrawn"}

Holders == At(pc, HolderLabels)
Waiters == At(pc, WaiterLabels)

\* The channel holds one element for every operation admitted and not yet
\* released, so MaxRunning bounds the operations running and Release never
\* finds the channel empty (concurrency.go:121-127 panics when it does).
SlotAccounting == slots = Cardinality(Holders)

\* The counter is right in every interleaving of the mutex and the channel,
\* and never exceeds the bound (concurrency.go:94-111).
WaitAccounting ==
    /\ waiting = Cardinality(Waiters)
    /\ MaxQueued # NoLimit => waiting <= MaxQueued

\* Channel and counter change in separate steps, and both are right between
\* any two of them.
CountsExact == SlotAccounting /\ WaitAccounting

\* No slot idles while an operation is blocked on one, whatever the order of
\* releases and cancellations.
WorkConserving == sendq # <<>> => slots = MaxRunning

\* Every call of Acquire returns, even when others keep arriving: a waiting
\* operation is not overtaken for ever (concurrency.go:85-118).
Acquiring(o) == pc[o] \in {"trying", "contended", "joined", "blocked", "granted", "withdrawn"}
AcquireReturns == \A o \in Watched : Acquiring(o) ~> ~Acquiring(o)
=============================================================================
