---------------------------- MODULE Remote_proofs ----------------------------
(***************************************************************************)
(* Proofs about what a run waits for when it asks a model: a slot of the   *)
(* limiter (ConcurrencyLimiter) and the response, however often it has to  *)
(* be resumed (SuspendedResponses).                                        *)
(*                                                                         *)
(* The limiter counts its slots and its waiting operations exactly, for    *)
(* every number of operations, capacity and queue bound.  SlotAccounting   *)
(* alone is not inductive: a release hands its slot to the head of         *)
(* `sendq', which must be a blocked operation, and no other entry may be   *)
(* the same operation.  QueueOfBlocked states that.                        *)
(*                                                                         *)
(* A request leaves no job running and counts no usage twice, for every    *)
(* chain of candidates, every set of those that run jobs, every limit and  *)
(* every number of runs.  What is billed is a sum over the provider        *)
(* responses, which only grows; its lemmas come first.  The invariant says *)
(* that the suspended response in hand is pinned to the one job that runs  *)
(* for it, and that what the conversation has counted is covered by the    *)
(* bills even after the poll of that job is lost with its consumer.        *)
(***************************************************************************)
EXTENDS ConcurrencyLimiter, SuspendedResponses, FiniteSetTheorems, SequenceTheorems,
        WellFoundedInduction, TLAPS

-----------------------------------------------------------------------------
(* The limiter *)

\* The channel's queue holds every blocked operation, once.
QueueOfBlocked ==
    /\ \A i \in 1..Len(sendq) : pc[sendq[i]] = "blocked"
    /\ \A i, j \in 1..Len(sendq) : sendq[i] = sendq[j] => i = j
    /\ \A o \in Ops : pc[o] = "blocked" => \E i \in 1..Len(sendq) : sendq[i] = o

IInv == TypeOK /\ SlotAccounting /\ WaitAccounting /\ WorkConserving /\ QueueOfBlocked

-----------------------------------------------------------------------------

\* How a count changes in a step that moves o from label `from' to label `to'.
Change(n, m, from, to, L) ==
    /\ n \in Nat
    /\ from \in L => n > 0
    /\ (from \in L <=> to \in L) => m = n
    /\ from \notin L /\ to \in L => m = n + 1
    /\ from \in L /\ to \notin L => m = n - 1

\* How many operations are at one of some labels after one of them moved.
LEMMA CountMove ==
    ASSUME NEW f \in [Ops -> Labels], NEW o \in Ops, NEW to \in Labels,
           NEW L \in SUBSET Labels, NEW g \in [Ops -> Labels],
           g[o] = to, \A x \in Ops \ {o} : g[x] = f[x]
    PROVE  Change(Cardinality(At(f, L)), Cardinality(At(g, L)), f[o], to, L)
<1>1. IsFiniteSet(At(f, L)) /\ Cardinality(At(f, L)) \in Nat
  BY OpsAssumption, FS_Subset, FS_CardinalityType DEF At
<1>2. f[o] \in L => Cardinality(At(f, L)) > 0
  BY <1>1, FS_EmptySet DEF At
<1>3. CASE to \in L
  <2>1. At(g, L) = At(f, L) \cup {o}
    BY <1>3 DEF At
  <2>2. o \in At(f, L) <=> f[o] \in L
    BY DEF At
  <2>3. Cardinality(At(f, L) \cup {o}) =
          IF o \in At(f, L) THEN Cardinality(At(f, L)) ELSE Cardinality(At(f, L)) + 1
    BY <1>1, FS_AddElement, Zenon
  <2> QED BY <1>1, <1>2, <1>3, <2>1, <2>2, <2>3 DEF Change
<1>4. CASE to \notin L
  <2>1. At(g, L) = At(f, L) \ {o}
    BY <1>4 DEF At
  <2>2. o \in At(f, L) <=> f[o] \in L
    BY DEF At
  <2>3. Cardinality(At(f, L) \ {o}) =
          IF o \in At(f, L) THEN Cardinality(At(f, L)) - 1 ELSE Cardinality(At(f, L))
    BY <1>1, FS_RemoveElement, Zenon
  <2> QED BY <1>1, <1>2, <1>4, <2>1, <2>2, <2>3 DEF Change
<1> QED BY <1>1, <1>2, <1>3, <1>4

\* Removing an entry of a sequence keeps the others, in order.
LEMMA RemoveAtEntries ==
    ASSUME NEW S, NEW s \in Seq(S), NEW k \in 1..Len(s)
    PROVE  /\ RemoveAt(s, k) \in Seq(S)
           /\ Len(RemoveAt(s, k)) = Len(s) - 1
           /\ \A i \in 1..(Len(s) - 1) :
                 RemoveAt(s, k)[i] = IF i < k THEN s[i] ELSE s[i + 1]
<1> DEFINE front == SubSeq(s, 1, k - 1)
          back == SubSeq(s, k + 1, Len(s))
<1>1. /\ front \in Seq(S) /\ Len(front) = k - 1
      /\ \A i \in 1..(k - 1) : front[i] = s[i]
  BY SubSeqProperties
<1>2. /\ back \in Seq(S) /\ Len(back) = Len(s) - k
      /\ \A i \in 1..(Len(s) - k) : back[i] = s[k + i]
  BY SubSeqProperties
<1>3. RemoveAt(s, k) = front \o back
  BY DEF RemoveAt
<1> HIDE DEF front, back
<1>4. /\ front \o back \in Seq(S)
      /\ Len(front \o back) = Len(s) - 1
  BY <1>1, <1>2
<1>5. ASSUME NEW i \in 1..(Len(s) - 1)
      PROVE  (front \o back)[i] = IF i < k THEN s[i] ELSE s[i + 1]
  <2>1. (front \o back)[i] = IF i <= Len(front) THEN front[i] ELSE back[i - Len(front)]
    BY <1>1, <1>2
  <2>2. CASE i < k
    BY <2>1, <2>2, <1>1
  <2>3. CASE i >= k
    <3>1. i - Len(front) \in 1..(Len(s) - k) /\ k + (i - Len(front)) = i + 1
      BY <2>3, <1>1
    <3> QED BY <2>1, <2>3, <3>1, <1>1, <1>2
  <2>4. i < k \/ i >= k
    OBVIOUS
  <2> QED BY <2>2, <2>3, <2>4
<1> QED BY <1>3, <1>4, <1>5

-----------------------------------------------------------------------------

LEMMA TypeInit == Init => IInv
<1> SUFFICES ASSUME Init PROVE IInv
  OBVIOUS
<1>1. Holders = {} /\ Waiters = {}
  BY DEF Init, Holders, Waiters, At, HolderLabels, WaiterLabels
<1>2. SlotAccounting /\ WaitAccounting
  BY <1>1, FS_EmptySet, MaxQueuedAssumption DEF Init, SlotAccounting, WaitAccounting
<1>3. TypeOK /\ WorkConserving /\ QueueOfBlocked
  BY MaxRunningAssumption DEF Init, TypeOK, WorkConserving, QueueOfBlocked, Labels
<1> QED BY <1>2, <1>3 DEF IInv

\* A step of o that neither blocks it nor finds it blocked keeps the queue.
LEMMA QueueKept ==
    ASSUME TypeOK, QueueOfBlocked, NEW o \in Ops, NEW to \in Labels,
           pc[o] # "blocked", to # "blocked",
           pc' = [pc EXCEPT ![o] = to], sendq' = sendq
    PROVE  QueueOfBlocked'
BY DEF QueueOfBlocked, TypeOK

\* A step of one operation changes the two counts accordingly.
LEMMA Counts ==
    ASSUME TypeOK, NEW o \in Ops, NEW to \in Labels, pc' = [pc EXCEPT ![o] = to]
    PROVE  /\ Change(Cardinality(Holders), Cardinality(Holders'), pc[o], to, HolderLabels)
           /\ Change(Cardinality(Waiters), Cardinality(Waiters'), pc[o], to, WaiterLabels)
<1>1. HolderLabels \in SUBSET Labels /\ WaiterLabels \in SUBSET Labels
  BY DEF HolderLabels, WaiterLabels, Labels
<1>2. pc \in [Ops -> Labels]
  BY DEF TypeOK
<1>3. Holders' = At(pc', HolderLabels) /\ Waiters' = At(pc', WaiterLabels)
  BY DEF Holders, Waiters, At, HolderLabels, WaiterLabels
<1>4. ASSUME NEW L \in SUBSET Labels
      PROVE  Change(Cardinality(At(pc, L)), Cardinality(At(pc', L)), pc[o], to, L)
  <2> DEFINE q == pc'
  <2>1. q \in [Ops -> Labels] /\ q[o] = to /\ \A x \in Ops \ {o} : q[x] = pc[x]
    BY <1>2
  <2> HIDE DEF q
  <2>2. Change(Cardinality(At(pc, L)), Cardinality(At(q, L)), pc[o], to, L)
    BY <1>2, <2>1, CountMove
  <2> QED BY <2>2, Zenon DEF q
<1> QED BY <1>1, <1>3, <1>4, Zenon DEF Holders, Waiters

\* The steps of o that leave the channel's queue alone: what is left to show
\* is how slots and waiting follow the two counts.
LEMMA QuietStep ==
    ASSUME IInv, NEW o \in Ops, NEW to \in Labels,
           pc[o] # "blocked", to # "blocked",
           pc' = [pc EXCEPT ![o] = to], sendq' = sendq,
           cancelled' \in [Ops -> BOOLEAN],
           \/ slots' = slots /\ (pc[o] \in HolderLabels <=> to \in HolderLabels)
           \/ slots' = slots + 1 /\ slots < MaxRunning
              /\ pc[o] \notin HolderLabels /\ to \in HolderLabels
           \/ slots' = slots - 1 /\ sendq = <<>>
              /\ pc[o] \in HolderLabels /\ to \notin HolderLabels,
           \/ waiting' = waiting /\ (pc[o] \in WaiterLabels <=> to \in WaiterLabels)
           \/ waiting' = waiting + 1 /\ ~QueueFull
              /\ pc[o] \notin WaiterLabels /\ to \in WaiterLabels
           \/ waiting' = waiting - 1
              /\ pc[o] \in WaiterLabels /\ to \notin WaiterLabels
    PROVE  IInv'
<1>1. Change(Cardinality(Holders), Cardinality(Holders'), pc[o], to, HolderLabels)
      /\ Change(Cardinality(Waiters), Cardinality(Waiters'), pc[o], to, WaiterLabels)
  BY Counts DEF IInv
<1>2. SlotAccounting'
  BY <1>1 DEF IInv, SlotAccounting, Change
<1>3. slots' \in 0..MaxRunning
  BY <1>1, MaxRunningAssumption DEF IInv, TypeOK, SlotAccounting, Change
<1>4. waiting' \in Nat /\ WaitAccounting'
  BY <1>1, MaxQueuedAssumption DEF IInv, TypeOK, WaitAccounting, Change, QueueFull
<1>5. WorkConserving'
  BY MaxRunningAssumption DEF IInv, TypeOK, WorkConserving
<1>6. QueueOfBlocked'
  BY QueueKept DEF IInv
<1>7. TypeOK'
  BY <1>3, <1>4 DEF IInv, TypeOK
<1> QED BY <1>2, <1>4, <1>5, <1>6, <1>7 DEF IInv

LEMMA AcquireSteps ==
    ASSUME IInv, NEW o \in Ops,
           \/ Begin(o) \/ TryFast(o) \/ Join(o) \/ Reject(o)
           \/ SelectSlot(o) \/ SelectDone(o) \/ Leave(o)
    PROVE  IInv'
<1> USE DEF Goto, HolderLabels, WaiterLabels, Labels
<1> TypeOK
  BY DEF IInv
<1>1. CASE Begin(o)
  BY <1>1, QuietStep DEF Begin, TypeOK
<1>2. CASE TryFast(o)
  <2>1. CASE slots < MaxRunning
    <3>1. pc' = [pc EXCEPT ![o] = "holding"] /\ pc[o] = "trying"
      BY <1>2, <2>1 DEF TryFast
    <3> QED BY <1>2, <2>1, <3>1, QuietStep DEF TryFast, TypeOK
  <2>2. CASE ~(slots < MaxRunning)
    <3>1. pc' = [pc EXCEPT ![o] = "contended"] /\ pc[o] = "trying"
      BY <1>2, <2>2 DEF TryFast
    <3> QED BY <1>2, <2>2, <3>1, QuietStep DEF TryFast, TypeOK
  <2> QED BY <2>1, <2>2
<1>3. CASE Join(o)
  BY <1>3, QuietStep DEF Join, TypeOK
<1>4. CASE Reject(o)
  <2>1. cancelled' \in [Ops -> BOOLEAN]
    BY <1>4 DEF Reject, TypeOK
  <2>2. pc[o] = "contended" /\ pc' = [pc EXCEPT ![o] = "rejected"]
        /\ UNCHANGED <<slots, sendq, waiting>>
    BY <1>4 DEF Reject
  <2> QED BY <2>1, <2>2, QuietStep
<1>5. CASE SelectSlot(o)
  BY <1>5, QuietStep DEF SelectSlot, TypeOK
<1>6. CASE SelectDone(o)
  BY <1>6, QuietStep DEF SelectDone, TypeOK
<1>7. CASE Leave(o)
  <2>1. CASE Goto(o, "granted", "holding")
    BY <1>7, <2>1, QuietStep DEF Leave, TypeOK
  <2>2. CASE Goto(o, "withdrawn", "refused")
    BY <1>7, <2>2, QuietStep DEF Leave, TypeOK
  <2> QED BY <1>7, <2>1, <2>2 DEF Leave
<1> QED BY <1>1, <1>2, <1>3, <1>4, <1>5, <1>6, <1>7

\* An operation that blocks joins the end of the queue.
LEMMA BlockStep ==
    ASSUME IInv, NEW o \in Ops, SelectBlock(o)
    PROVE  IInv'
<1> USE DEF SelectBlock, Goto
<1>1. TypeOK /\ TypeOK'
  BY DEF IInv, TypeOK, Labels
<1>2. Change(Cardinality(Holders), Cardinality(Holders'), pc[o], "blocked", HolderLabels)
      /\ Change(Cardinality(Waiters), Cardinality(Waiters'), pc[o], "blocked", WaiterLabels)
  BY <1>1, Counts DEF Labels
<1>3. SlotAccounting' /\ WaitAccounting'
  BY <1>2 DEF IInv, SlotAccounting, WaitAccounting, Change, HolderLabels, WaiterLabels
<1>4. WorkConserving'
  BY DEF WorkConserving
<1>5. QueueOfBlocked'
  <2>1. /\ Len(sendq') = Len(sendq) + 1 /\ sendq'[Len(sendq) + 1] = o
        /\ \A i \in 1..Len(sendq) : sendq'[i] = sendq[i]
    BY <1>1 DEF TypeOK
  <2>2. \A i \in 1..Len(sendq) : sendq[i] \in Ops /\ sendq[i] # o
    BY <1>1 DEF IInv, QueueOfBlocked, TypeOK
  <2> QED BY <1>1, <2>1, <2>2 DEF IInv, QueueOfBlocked, TypeOK
<1> QED BY <1>1, <1>3, <1>4, <1>5 DEF IInv

\* A released slot is handed to the head of the queue, or becomes free.
LEMMA ReleaseStep ==
    ASSUME IInv, NEW o \in Ops, NEW from \in {"holding", "ranging"}, ReleaseSlot(o, from)
    PROVE  IInv'
<1> USE DEF ReleaseSlot
<1>1. CASE sendq = <<>>
  BY <1>1, QuietStep DEF IInv, TypeOK, HolderLabels, WaiterLabels, Labels
<1>2. CASE sendq # <<>>
  <2> DEFINE h == Head(sendq)
             mid == [pc EXCEPT ![o] = "done"]
  <2>1. TypeOK /\ h \in Ops /\ pc[h] = "blocked" /\ h # o /\ h = sendq[1]
    BY <1>2 DEF IInv, TypeOK, QueueOfBlocked
  <2>2. /\ Tail(sendq) \in Seq(Ops) /\ Len(Tail(sendq)) = Len(sendq) - 1
        /\ \A i \in 1..(Len(sendq) - 1) : Tail(sendq)[i] = sendq[i + 1]
    BY <1>2, <2>1, HeadTailProperties DEF TypeOK
  <2>3. mid \in [Ops -> Labels] /\ pc' = [mid EXCEPT ![h] = "granted"] /\ pc' \in [Ops -> Labels]
        /\ sendq' = Tail(sendq)
    BY <1>2, <2>1 DEF TypeOK, Labels
  <2>4. TypeOK'
    BY <2>1, <2>2, <2>3, <1>2 DEF TypeOK
  <2>5. ASSUME NEW L \in SUBSET Labels
        PROVE  /\ Change(Cardinality(At(pc, L)), Cardinality(At(mid, L)), from, "done", L)
               /\ Change(Cardinality(At(mid, L)), Cardinality(At(pc', L)), "blocked", "granted", L)
    <3> DEFINE q == pc'
    <3>1. /\ mid[o] = "done" /\ pc[o] = from /\ mid[h] = "blocked" /\ q[h] = "granted"
          /\ \A x \in Ops \ {o} : mid[x] = pc[x]
          /\ \A x \in Ops \ {h} : q[x] = mid[x]
          /\ q \in [Ops -> Labels] /\ pc \in [Ops -> Labels]
          /\ "done" \in Labels /\ "granted" \in Labels
      BY <2>1, <2>3 DEF TypeOK, Labels
    <3> HIDE DEF mid, q, h
    <3>2. Change(Cardinality(At(pc, L)), Cardinality(At(mid, L)), pc[o], "done", L)
      BY <2>3, <3>1, CountMove
    <3>3. Change(Cardinality(At(mid, L)), Cardinality(At(q, L)), mid[h], "granted", L)
      BY <2>1, <2>3, <3>1, CountMove
    <3> QED BY <3>1, <3>2, <3>3, Zenon DEF q
  <2>6. HolderLabels \in SUBSET Labels /\ WaiterLabels \in SUBSET Labels
        /\ Holders' = At(pc', HolderLabels) /\ Waiters' = At(pc', WaiterLabels)
    BY DEF HolderLabels, WaiterLabels, Labels, Holders, Waiters, At
  <2> HIDE DEF mid
  <2>7. Cardinality(Holders') = Cardinality(Holders)
    <3>1. /\ from \in HolderLabels /\ "done" \notin HolderLabels
          /\ "blocked" \notin HolderLabels /\ "granted" \in HolderLabels
      BY DEF HolderLabels
    <3> QED BY <2>5, <2>6, <3>1 DEF Change, Holders
  <2>8. Cardinality(Waiters') = Cardinality(Waiters)
    <3>1. /\ from \notin WaiterLabels /\ "done" \notin WaiterLabels
          /\ "blocked" \in WaiterLabels /\ "granted" \in WaiterLabels
      BY DEF WaiterLabels
    <3> QED BY <2>5, <2>6, <3>1 DEF Change, Waiters
  <2>9. SlotAccounting' /\ WaitAccounting' /\ WorkConserving'
    BY <1>2, <2>7, <2>8 DEF IInv, SlotAccounting, WaitAccounting, WorkConserving
  <2>10. QueueOfBlocked'
    <3>1. \A x \in Ops : pc'[x] = IF x = h THEN "granted" ELSE IF x = o THEN "done" ELSE pc[x]
      BY <1>2, <2>1 DEF TypeOK
    <3>2. Len(sendq) \in Nat /\ \A i \in 1..Len(sendq) : sendq[i] \in Ops
      BY <2>1 DEF TypeOK
    <3>3. pc[o] # "blocked"
      OBVIOUS
    <3> HIDE DEF h
    <3>4. ASSUME NEW i \in 1..Len(sendq') PROVE pc'[sendq'[i]] = "blocked"
      BY <2>1, <2>2, <2>3, <3>1, <3>2, <3>3 DEF IInv, QueueOfBlocked
    <3>5. ASSUME NEW i \in 1..Len(sendq'), NEW j \in 1..Len(sendq'), sendq'[i] = sendq'[j]
          PROVE  i = j
      BY <2>2, <2>3, <3>2, <3>5 DEF IInv, QueueOfBlocked
    <3>6. ASSUME NEW x \in Ops, pc'[x] = "blocked"
          PROVE  \E i \in 1..Len(sendq') : sendq'[i] = x
      <4>1. x # h /\ pc[x] = "blocked"
        BY <3>1, <3>6, <2>1
      <4>2. PICK i \in 1..Len(sendq) : sendq[i] = x
        BY <4>1 DEF IInv, QueueOfBlocked
      <4>3. i # 1
        BY <4>1, <4>2, <2>1
      <4>4. i - 1 \in 1..Len(sendq') /\ sendq'[i - 1] = x
        BY <2>2, <2>3, <3>2, <4>2, <4>3
      <4> QED BY <4>4
    <3> QED BY <3>4, <3>5, <3>6 DEF QueueOfBlocked
  <2> QED BY <2>4, <2>9, <2>10 DEF IInv
<1> QED BY <1>1, <1>2

\* A cancelled context takes its operation out of the queue, wherever it is.
LEMMA CancelStep ==
    ASSUME IInv, NEW o \in Ops, Cancel(o)
    PROVE  IInv'
<1>1. CASE pc[o] # "blocked"
  <2>1. pc' = [pc EXCEPT ![o] = pc[o]] /\ pc[o] \in Labels
    BY <1>1 DEF Cancel, IInv, TypeOK
  <2> QED BY <1>1, <2>1, QuietStep DEF Cancel, IInv, TypeOK
<1>2. CASE pc[o] = "blocked"
  <2>1. TypeOK /\ pc' = [pc EXCEPT ![o] = "withdrawn"]
        /\ UNCHANGED <<slots, waiting>>
    BY <1>2 DEF Cancel, IInv
  <2>2. PICK k \in 1..Len(sendq) : sendq[k] = o /\ sendq' = RemoveAt(sendq, k)
    BY <1>2 DEF Cancel
  <2>3. /\ sendq' \in Seq(Ops) /\ Len(sendq') = Len(sendq) - 1
        /\ \A i \in 1..(Len(sendq) - 1) : sendq'[i] = IF i < k THEN sendq[i] ELSE sendq[i + 1]
    BY <2>1, <2>2, RemoveAtEntries DEF TypeOK
  <2>4. TypeOK'
    BY <1>2, <2>1, <2>3 DEF Cancel, TypeOK, Labels
  <2>5. Change(Cardinality(Holders), Cardinality(Holders'), pc[o], "withdrawn", HolderLabels)
        /\ Change(Cardinality(Waiters), Cardinality(Waiters'), pc[o], "withdrawn", WaiterLabels)
    BY <2>1, Counts DEF Labels
  <2>6. SlotAccounting' /\ WaitAccounting'
    BY <1>2, <2>1, <2>5 DEF IInv, SlotAccounting, WaitAccounting, Change, HolderLabels, WaiterLabels
  <2>7. WorkConserving'
    BY <2>1, <2>2 DEF IInv, WorkConserving
  <2>8. QueueOfBlocked'
    <3>1. \A x \in Ops : pc'[x] = IF x = o THEN "withdrawn" ELSE pc[x]
      BY <2>1 DEF TypeOK
    <3>2. Len(sendq) \in Nat /\ \A i \in 1..Len(sendq) : sendq[i] \in Ops
      BY <2>1 DEF TypeOK
    <3>3. ASSUME NEW i \in 1..Len(sendq'), NEW j \in 1..Len(sendq'), sendq'[i] = sendq'[j]
          PROVE  i = j
      BY <2>2, <2>3, <3>2, <3>3 DEF IInv, QueueOfBlocked
    <3>4. ASSUME NEW i \in 1..Len(sendq') PROVE pc'[sendq'[i]] = "blocked"
      BY <2>2, <2>3, <3>1, <3>2 DEF IInv, QueueOfBlocked
    <3>5. ASSUME NEW x \in Ops, pc'[x] = "blocked"
          PROVE  \E i \in 1..Len(sendq') : sendq'[i] = x
      <4>1. x # o /\ pc[x] = "blocked"
        BY <3>1, <3>5
      <4>2. PICK i \in 1..Len(sendq) : sendq[i] = x
        BY <4>1 DEF IInv, QueueOfBlocked
      <4>3. CASE i < k
        BY <2>2, <2>3, <3>2, <4>2, <4>3
      <4>4. CASE i > k
        <5>1. i - 1 \in 1..Len(sendq') /\ sendq'[i - 1] = x
          BY <2>3, <3>2, <4>2, <4>4
        <5> QED BY <5>1
      <4> QED BY <2>2, <3>2, <4>1, <4>2, <4>3, <4>4
    <3> QED BY <3>3, <3>4, <3>5 DEF QueueOfBlocked
  <2> QED BY <2>4, <2>6, <2>7, <2>8 DEF IInv
<1> QED BY <1>1, <1>2

LEMMA OtherSteps ==
    ASSUME IInv, NEW o \in Ops, OpenStream(o) \/ Again(o)
    PROVE  IInv'
<1> USE DEF Goto, HolderLabels, WaiterLabels, Labels
<1>1. CASE OpenStream(o)
  BY <1>1, QuietStep DEF OpenStream, IInv, TypeOK
<1>2. CASE Again(o)
  <2>1. PICK end \in {"done", "refused", "rejected"} : Goto(o, end, "idle")
    BY <1>2 DEF Again
  <2> QED BY <1>2, <2>1, QuietStep DEF Again, IInv, TypeOK
<1> QED BY <1>1, <1>2

LEMMA Inductive == IInv /\ [Next]_vars => IInv'
<1> SUFFICES ASSUME IInv, [Next]_vars PROVE IInv'
  OBVIOUS
<1>1. ASSUME NEW o \in Ops, Begin(o) \/ Run(o) \/ Cancel(o) \/ Again(o)
      PROVE  IInv'
  <2>1. CASE Begin(o) \/ TryFast(o) \/ Join(o) \/ Reject(o) \/ SelectSlot(o)
             \/ SelectDone(o) \/ Leave(o)
    BY <2>1, AcquireSteps
  <2>2. CASE SelectBlock(o)
    BY <2>2, BlockStep
  <2>3. CASE Finish(o) \/ OpenFails(o) \/ EndStream(o)
    BY <2>3, ReleaseStep DEF Finish, OpenFails, EndStream
  <2>4. CASE Cancel(o)
    BY <2>4, CancelStep
  <2>5. CASE OpenStream(o) \/ Again(o)
    BY <2>5, OtherSteps
  <2> QED BY <1>1, <2>1, <2>2, <2>3, <2>4, <2>5 DEF Run
<1>2. CASE UNCHANGED vars
  BY <1>2 DEF vars, IInv, TypeOK, SlotAccounting, WaitAccounting, WorkConserving,
              QueueOfBlocked, Holders, Waiters, At
<1> QED BY <1>1, <1>2 DEF Next

\* The limiter counts its slots and its waiting operations exactly, never
\* exceeds either bound, never panics in Release and never lets a slot idle
\* while an operation is blocked, in every interleaving of any number of
\* operations (Acquire and Release, concurrency.go:85-127).
THEOREM LimiterInvariant == Spec => []IInv
<1>1. Init => IInv
  BY TypeInit
<1>2. IInv /\ [Next]_vars => IInv'
  BY Inductive
<1> QED BY <1>1, <1>2, PTL DEF Spec

\* Slots are held by exactly the operations admitted, and the waiting counter is
\* exact and bounded (concurrency.go:85-127).
THEOREM CountsHold == Spec => []CountsExact
<1>1. IInv => CountsExact
  BY DEF IInv, CountsExact
<1> QED BY <1>1, LimiterInvariant, PTL

\* No slot idles while an operation is blocked (concurrency.go:112-127).
THEOREM NoIdleSlot == Spec => []WorkConserving
<1>1. IInv => WorkConserving
  BY DEF IInv
<1> QED BY <1>1, LimiterInvariant, PTL

\* The variables keep their types; slots stays within the channel's capacity.
THEOREM TypeCorrect == Spec => []TypeOK
<1>1. IInv => TypeOK
  BY DEF IInv
<1> QED BY <1>1, LimiterInvariant, PTL

-----------------------------------------------------------------------------
(* The request: its invariant *)

Models == Candidates \cup Background

Job == [model : Models, usage : 1..2, state : {"running", "pause", "done", "cancelled"}]

Reply == [state : {"suspended", "complete"}, id : Nat \ {0}, usage : Nat, failed : Nat,
          model : Models, pin : Models \cup {NoPin}, replace : BOOLEAN]

RequestTyped ==
    /\ run \in Nat \ {0} /\ place \in {"top", "send", "ended"}
    /\ outcome \in {"none", "result", "error", "suspended"}
    /\ place = "ended" <=> outcome # "none"
    /\ jobs \in Seq(Job)
    /\ resumed \in Reply \cup {None} /\ response \in Reply \cup {None}
    /\ detached \in Reply \cup {None}
    /\ asking \in DOMAIN Chain /\ pinned \in BOOLEAN /\ rewound \in BOOLEAN
    /\ attempts \in Nat /\ usage \in Int /\ counted \in Int /\ replaced \in BOOLEAN
    /\ response = None => resumed = None
    /\ place # "ended" => detached = None
    /\ place = "send" => response = None \/ Held(response)

\* A response names a job and its model, and a suspended one is pinned to it.
Tied(r, js) ==
    r # None =>
        /\ r.id \in DOMAIN js /\ r.model = js[r.id].model
        /\ Held(r) => r.id \in foreign \/ (r.pin = r.model /\ r.pin \in Candidates)

\* A job nobody has to account for.
Exempt(j) == j \in rejected \/ j \in foreign

\* While a request is made, only the job of its response runs: the pinned candidate
\* is asked for it, and a chain that starts over has cancelled it.
Followed(js) ==
    \A j \in DOMAIN js : js[j].state = "running" => Exempt(j) \/ (Held(response) /\ j = response.id)

Accounted ==
    /\ \A j \in DOMAIN jobs : jobs[j].state = "pause" => jobs[j].model \notin Background
    /\ Tied(response, jobs) /\ Tied(detached, jobs)
    /\ outcome = "suspended" => Held(detached)
    /\ place = "send" =>
         /\ pinned => Held(response) /\ ~rewound /\ Chain[asking] = response.pin
         /\ rewound => Held(response) /\ jobs[response.id].state # "running"
         /\ ~pinned /\ Held(response) => rewound \/ response.id \in foreign
    /\ place # "ended" => Followed(jobs)
    /\ JobsAccountedFor

\* What the conversation has counted, with a response and with failed attempts.
Debt(r, spent) == counted + usage + spent + (IF r = None THEN 0 ELSE BilledBeyond(r, resumed))

\* It is no more than was billed, also once the job of the response has been polled.
Covered(r, spent, js) ==
    /\ Debt(r, spent) <= Billed(js)
    /\ Held(r) => Debt(r, spent) + (js[r.id].usage - r.usage) <= Billed(js)

\* It is all of it, and a job in hand is billed with what it has cost so far.
Complete(r, spent, js) ==
    /\ Debt(r, spent) = Billed(js)
    /\ Held(r) /\ js[r.id].state # "pause" => r.usage = js[r.id].usage

Spent == IF place = "send" THEN attempts ELSE 0

Undisturbed == run = 1 /\ ~replaced

Books ==
    rejected \cap foreign = {} =>
        /\ place # "ended" => /\ Covered(response, Spent, jobs)
                              /\ Undisturbed => Complete(response, Spent, jobs)
        /\ outcome = "suspended" => Covered(detached, 0, jobs)
        /\ outcome = "result" => /\ counted + usage <= Billed(jobs)
                                 /\ Undisturbed => counted + usage = Billed(jobs)

RInv == RequestTyped /\ Accounted /\ Books

-----------------------------------------------------------------------------
(* What was billed *)

\* A nonempty set of natural numbers has a least one.
LEMMA Least ==
    ASSUME NEW S, S \subseteq Nat, S # {}
    PROVE  \E x \in S : \A y \in S : x <= y
  <1> DEFINE R == {p \in Nat \X Nat : p[1] < p[2]}
  <1>1. IsWellFoundedOn(R, Nat)
    BY NatLessThanWellFounded, Zenon DEF OpToRel
  <1> HIDE DEF R
  <1>2. PICK x \in S : \A y \in S : ~(<<y, x>> \in R)
    BY <1>1, WFMin
  <1>3. ASSUME NEW y \in S, y < x PROVE <<y, x>> \in R
    BY <1>3 DEF R
  <1>4. ASSUME NEW y \in S PROVE ~(y < x)
    BY <1>2, <1>3
  <1>5. x \in Nat /\ \A y \in S : y \in Nat
    BY <1>2
  <1> QED
    BY <1>4, <1>5

\* f sums the usage of the first n responses.
Sums(f, js, n) ==
    /\ f \in [0..n -> Int] /\ f[0] = 0
    /\ \A i \in 1..n : f[i] = js[i].usage + f[i - 1]

\* There are such sums.
LEMMA SumsExist ==
    ASSUME NEW js \in Seq(Job), NEW n \in 0..Len(js)
    PROVE  \E f : Sums(f, js, n)
  <1> DEFINE S == {m \in 0..Len(js) : ~\E f : Sums(f, js, m)}
  <1>1. SUFFICES ASSUME S # {} PROVE FALSE
    OBVIOUS
  <1>2. S \subseteq Nat
    OBVIOUS
  <1>3. PICK m \in S : \A y \in S : m <= y
    <2> HIDE DEF S
    <2> QED
      BY <1>1, <1>2, Least
  <1>4. m \in 0..Len(js) /\ ~\E f : Sums(f, js, m)
    OBVIOUS
  <1>5. m # 0
    <2>1. SUFFICES ASSUME m = 0 PROVE FALSE
      OBVIOUS
    <2>2. Sums([i \in 0..0 |-> 0], js, 0)
      BY DEF Sums
    <2> QED
      BY <1>4, <2>1, <2>2
  <1>6. m - 1 \in 0..Len(js) /\ m - 1 \notin S
    BY <1>3, <1>4, <1>5
  <1>7. PICK f : Sums(f, js, m - 1)
    BY <1>6
  <1> DEFINE g == [i \in 0..m |-> IF i = m THEN js[m].usage + f[m - 1] ELSE f[i]]
  <1>8. js[m] \in Job /\ js[m].usage \in Int
    <2>1. js[m] \in Job
      BY <1>4, <1>5, ElementOfSeq
    <2> QED
      BY <2>1 DEF Job
  <1>9. f \in [0..(m - 1) -> Int] /\ f[0] = 0 /\ f[m - 1] \in Int
    BY <1>4, <1>5, <1>7 DEF Sums
  <1>10. g \in [0..m -> Int] /\ g[0] = 0
    BY <1>4, <1>5, <1>8, <1>9
  <1>11. ASSUME NEW i \in 1..m PROVE g[i] = js[i].usage + g[i - 1]
    <2>1. CASE i = m
      BY <1>4, <1>5, <2>1
    <2>2. CASE i # m
      <3>1. i \in 1..(m - 1) /\ i - 1 \in 0..m /\ i - 1 # m
        BY <1>4, <2>2
      <3>2. f[i] = js[i].usage + f[i - 1]
        BY <1>7, <3>1 DEF Sums
      <3> QED
        BY <2>2, <3>1, <3>2
    <2> QED
      BY <2>1, <2>2
  <1>12. Sums(g, js, m)
    <2> HIDE DEF g
    <2> QED
      BY <1>10, <1>11 DEF Sums
  <1> QED
    BY <1>4, <1>12

\* Two conversations bill the same, but d more for the response i.
Shifts(ks, js, n, i, d) ==
    \A m \in 1..n : ks[m].usage = js[m].usage + (IF m = i THEN d ELSE 0)

Totals(g, ks, n) ==
    DOMAIN g = 0..n /\ g[0] = 0 /\ \A m \in 1..n : g[m] = ks[m].usage + g[m - 1]

Shifted(g, f, n, i, d) == \A m \in 0..n : g[m] = f[m] + (IF i \in 1..m THEN d ELSE 0)

\* Then their sums differ from that response on.
LEMMA SumsDiffer ==
    ASSUME NEW js \in Seq(Job), NEW ks, NEW n \in 0..Len(js), NEW f, NEW g,
           Sums(f, js, n), Totals(g, ks, n), NEW i, NEW d \in Int, Shifts(ks, js, n, i, d)
    PROVE  Shifted(g, f, n, i, d)
  <1> DEFINE Differs(m) == g[m] # f[m] + (IF i \in 1..m THEN d ELSE 0)
             S == {m \in 0..n : Differs(m)}
  <1>1. SUFFICES ASSUME S # {} PROVE FALSE
    BY DEF Shifted
  <1>2. S \subseteq Nat /\ n \in Nat
    OBVIOUS
  <1>3. PICK m \in S : \A y \in S : m <= y
    <2> HIDE DEF S
    <2> QED
      BY <1>1, <1>2, Least
  <1>4. m \in 0..n /\ Differs(m)
    OBVIOUS
  <1>5. m # 0
    BY <1>4 DEF Sums, Totals
  <1>6. m \in 1..n /\ m - 1 \in 0..n /\ ~Differs(m - 1)
    BY <1>3, <1>4, <1>5
  <1>7. f[m] = js[m].usage + f[m - 1] /\ f[m - 1] \in Int
    BY <1>6 DEF Sums
  <1>8. js[m].usage \in Int
    <2>1. js[m] \in Job
      BY <1>6, ElementOfSeq
    <2> QED
      BY <2>1 DEF Job
  <1>9. g[m] = js[m].usage + (IF m = i THEN d ELSE 0) + g[m - 1]
    BY <1>6 DEF Totals, Shifts
  <1>10. g[m - 1] = f[m - 1] + (IF i \in 1..(m - 1) THEN d ELSE 0)
    BY <1>6
  <1>11. i \in 1..m <=> i \in 1..(m - 1) \/ i = m
    BY <1>6
  <1>12. ~(m \in 1..(m - 1))
    BY <1>6
  <1>13. g[m] = f[m] + (IF i \in 1..m THEN d ELSE 0)
    <2>1. CASE i = m
      BY <1>7, <1>8, <1>9, <1>10, <1>11, <1>12, <2>1
    <2>2. CASE i # m /\ i \in 1..(m - 1)
      BY <1>7, <1>8, <1>9, <1>10, <1>11, <2>2
    <2>3. CASE i # m /\ i \notin 1..(m - 1)
      BY <1>7, <1>8, <1>9, <1>10, <1>11, <2>3
    <2> QED
      BY <2>1, <2>2, <2>3
  <1> QED
    BY <1>4, <1>13

\* What was billed is the last of the sums.
LEMMA BilledSums ==
    ASSUME NEW js \in Seq(Job)
    PROVE  \E f : Sums(f, js, Len(js)) /\ Billed(js) = f[Len(js)]
  <1> DEFINE Adds(f) ==
               f = [n \in 0..Len(js) |-> IF n = 0 THEN 0 ELSE js[n].usage + f[n - 1]]
             sum == CHOOSE f : Adds(f)
  <1>1. PICK g : Sums(g, js, Len(js))
    BY SumsExist
  <1>2. Adds(g)
    <2>1. /\ g \in [0..Len(js) -> Int] /\ g[0] = 0
          /\ \A i \in 1..Len(js) : g[i] = js[i].usage + g[i - 1]
      BY <1>1 DEF Sums
    <2>2. \A n \in 0..Len(js) : g[n] = IF n = 0 THEN 0 ELSE js[n].usage + g[n - 1]
      BY <2>1
    <2>3. g = [n \in 0..Len(js) |-> g[n]]
      BY <2>1
    <2> QED
      BY <2>2, <2>3, Zenon
  <1>3. Adds(sum)
    <2> HIDE DEF Adds
    <2> QED
      BY <1>2
  <1>4. Billed(js) = sum[Len(js)]
    BY DEF Billed
  <1> HIDE DEF sum
  <1>5. Totals(sum, js, Len(js))
    <2>1. DOMAIN sum = 0..Len(js)
      BY <1>3
    <2>2. \A n \in 0..Len(js) : sum[n] = IF n = 0 THEN 0 ELSE js[n].usage + sum[n - 1]
      BY <1>3, Zenon
    <2> QED
      BY <2>1, <2>2 DEF Totals
  <1>6. Shifts(js, js, Len(js), 0, 0)
    <2>1. ASSUME NEW m \in 1..Len(js) PROVE js[m].usage = js[m].usage + 0
      <3>1. js[m] \in Job
        BY ElementOfSeq
      <3> QED
        BY <3>1 DEF Job
    <2> QED
      BY <2>1 DEF Shifts
  <1>7. g \in [0..Len(js) -> Int] /\ Len(js) \in 0..Len(js)
    BY <1>1 DEF Sums
  <1>8. Shifted(sum, g, Len(js), 0, 0)
    BY <1>1, <1>5, <1>6, <1>7, SumsDiffer
  <1>9. sum[Len(js)] = g[Len(js)]
    <2>1. sum[Len(js)] = g[Len(js)] + 0
      BY <1>7, <1>8 DEF Shifted
    <2> QED
      BY <1>7, <2>1
  <1> QED
    BY <1>1, <1>4, <1>9

\* The sum of integers is one, and of nothing it is 0.
LEMMA BilledInteger == ASSUME NEW js \in Seq(Job) PROVE Billed(js) \in Int
  <1>1. PICK f : Sums(f, js, Len(js)) /\ Billed(js) = f[Len(js)]
    BY BilledSums
  <1>2. f \in [0..Len(js) -> Int] /\ Len(js) \in 0..Len(js)
    BY <1>1 DEF Sums
  <1> QED
    BY <1>1, <1>2

LEMMA BilledNothing == Billed(<<>>) = 0
  <1>1. <<>> \in Seq(Job) /\ Len(<<>>) = 0
    OBVIOUS
  <1>2. PICK f : Sums(f, <<>>, Len(<<>>)) /\ Billed(<<>>) = f[Len(<<>>)]
    BY <1>1, BilledSums
  <1> QED
    BY <1>1, <1>2 DEF Sums

\* Sums of all are totals.
LEMMA SumsTotal == ASSUME NEW f, NEW js, NEW n, Sums(f, js, n) PROVE Totals(f, js, n)
  BY DEF Sums, Totals

\* A new response adds its usage.
LEMMA BilledAppend ==
    ASSUME NEW js \in Seq(Job), NEW job \in Job
    PROVE  Billed(Append(js, job)) = Billed(js) + job.usage
  <1> DEFINE ks == Append(js, job)
             n == Len(js)
  <1>1. /\ ks \in Seq(Job) /\ Len(ks) = n + 1 /\ ks[n + 1] = job /\ n \in Nat
        /\ \A i \in 1..n : ks[i] = js[i]
    BY AppendProperties
  <1> HIDE DEF ks
  <1>2. PICK f : Sums(f, js, n) /\ Billed(js) = f[n]
    BY BilledSums
  <1>3. PICK g : Sums(g, ks, Len(ks)) /\ Billed(ks) = g[Len(ks)]
    BY <1>1, BilledSums
  <1> HIDE DEF n
  <1>4. g \in [0..(n + 1) -> Int] /\ g[n + 1] = job.usage + g[n]
    BY <1>1, <1>3 DEF Sums
  <1> DEFINE h == [i \in 0..n |-> g[i]]
  <1>5. Totals(h, ks, n)
    <2>1. h[0] = 0
      BY <1>1, <1>3 DEF Sums
    <2>2. ASSUME NEW m \in 1..n PROVE h[m] = ks[m].usage + h[m - 1]
      <3>1. m \in 1..Len(ks) /\ m \in 0..n /\ m - 1 \in 0..n
        BY <1>1
      <3>2. g[m] = ks[m].usage + g[m - 1]
        BY <1>3, <3>1 DEF Sums
      <3> QED
        BY <3>1, <3>2
    <2> HIDE DEF h
    <2>3. DOMAIN h = 0..n
      BY DEF h
    <2> QED
      BY <2>1, <2>2, <2>3 DEF Totals
  <1>6. Shifts(ks, js, n, 0, 0)
    <2>1. ASSUME NEW m \in 1..n PROVE ks[m].usage = js[m].usage + 0
      <3>1. js[m] \in Job
        BY ElementOfSeq DEF n
      <3> QED
        BY <1>1, <3>1 DEF Job
    <2> QED
      BY <1>1, <2>1 DEF Shifts
  <1>7. n \in 0..Len(js) /\ n \in 0..n
    BY <1>1 DEF n
  <1>8. h[n] = f[n] + 0
    <2> HIDE DEF h
    <2>1. Shifted(h, f, n, 0, 0)
      BY <1>2, <1>5, <1>6, <1>7, SumsDiffer
    <2> QED
      BY <1>7, <2>1 DEF Shifted
  <1>9. h[n] = g[n] /\ f[n] \in Int /\ job.usage \in Int
    BY <1>2, <1>7 DEF Sums, Job
  <1>10. g[n] = f[n]
    <2> HIDE DEF h
    <2> QED
      BY <1>8, <1>9
  <1>11. Billed(ks) = job.usage + f[n]
    BY <1>1, <1>3, <1>4, <1>10
  <1> QED
    BY <1>2, <1>9, <1>11 DEF ks

\* A response that is polled adds the difference.
LEMMA BilledPolled ==
    ASSUME NEW js \in Seq(Job), NEW i \in 1..Len(js), NEW job \in Job
    PROVE  Billed([js EXCEPT ![i] = job]) = Billed(js) + (job.usage - js[i].usage)
  <1> DEFINE ks == [js EXCEPT ![i] = job]
             n == Len(js)
             d == job.usage - js[i].usage
  <1>1. /\ ks \in Seq(Job) /\ Len(ks) = n /\ n \in Nat
        /\ \A m \in 1..n : ks[m] = IF m = i THEN job ELSE js[m]
    BY ExceptSeq
  <1>2. d \in Int /\ \A m \in 1..n : js[m].usage \in Int
    <2>1. \A m \in 1..n : js[m] \in Job
      BY ElementOfSeq
    <2> QED
      BY <2>1 DEF Job
  <1>3. Shifts(ks, js, n, i, d)
    <2>1. ASSUME NEW m \in 1..n, m # i PROVE ks[m].usage = js[m].usage + 0
      BY <1>1, <1>2, <2>1
    <2>2. ks[i].usage = js[i].usage + d
      BY <1>1, <1>2 DEF Job
    <2> HIDE DEF ks, n, d
    <2> QED
      BY <2>1, <2>2 DEF Shifts
  <1> HIDE DEF ks, d
  <1>4. PICK f : Sums(f, js, n) /\ Billed(js) = f[n]
    BY BilledSums
  <1>5. PICK g : Sums(g, ks, n) /\ Billed(ks) = g[n]
    BY <1>1, BilledSums
  <1>6. n \in 0..Len(js) /\ n \in 0..n /\ i \in 1..n
    BY <1>1
  <1> HIDE DEF n
  <1>7. Shifted(g, f, n, i, d)
    BY <1>2, <1>3, <1>4, <1>5, <1>6, SumsTotal, SumsDiffer
  <1>8. Billed(ks) = Billed(js) + d
    BY <1>4, <1>5, <1>6, <1>7 DEF Shifted
  <1> QED
    BY <1>8 DEF ks, d

-----------------------------------------------------------------------------
(* The answer of a candidate *)

\* The candidate that is asked has a name.
LEMMA CandidateNamed ==
    ASSUME RequestTyped
    PROVE  Chain[asking] \in Candidates /\ Chain[asking] \in Models
  <1>1. asking \in DOMAIN Chain
    BY DEF RequestTyped
  <1> QED
    BY <1>1 DEF Candidates, Models

\* A model has a name.
LEMMA ModelsNamed == ASSUME NEW m \in Models PROVE m # NoPin
  BY ChainAssumption DEF Models

\* Responses have the fields of a reply.
LEMMA ReplyFields ==
    ASSUME NEW r \in Reply
    PROVE  /\ r.state \in {"suspended", "complete"} /\ r.id \in Nat /\ r.usage \in Nat
           /\ r.failed \in Nat /\ r.model \in Models /\ r.pin \in Models \cup {NoPin} /\ r # None
  <1>1. r.state \in {"suspended", "complete"} /\ r.id \in Nat /\ r.usage \in Nat
    BY DEF Reply
  <1>2. r.failed \in Nat /\ r.model \in Models /\ r.pin \in Models \cup {NoPin}
    BY DEF Reply
  <1>3. r.state # None.state
    BY <1>1 DEF None
  <1> QED
    BY <1>1, <1>2, <1>3

\* Provider responses have the fields of a job.
LEMMA JobFields ==
    ASSUME NEW js \in Seq(Job), NEW j \in DOMAIN js
    PROVE  /\ j \in 1..Len(js) /\ js[j] \in Job /\ js[j].model \in Models /\ js[j].usage \in 1..2
           /\ js[j].state \in {"running", "pause", "done", "cancelled"}
  <1>1. j \in 1..Len(js)
    OBVIOUS
  <1>2. js[j] \in Job
    BY <1>1, ElementOfSeq
  <1> QED
    BY <1>1, <1>2 DEF Job

\* A poll: the job of the response has a new state and a new usage.
Polled(js, answer, m, state) ==
    /\ Held(response) /\ ~rewound /\ answer.id = response.id
    /\ jobs[response.id].model = m /\ jobs[response.id].state # "pause"
    /\ Billed(js) = Billed(jobs) + (answer.usage - jobs[response.id].usage)
    /\ jobs[response.id].usage <= answer.usage

\* A new response, which bills one unit.
Fresh(js, answer, m, state) ==
    /\ answer.id = Len(jobs) + 1 /\ answer.usage = 1
    /\ Billed(js) = Billed(jobs) + 1
    /\ js[answer.id].state = JobState(m, state)
    /\ Held(response) => \/ rewound \/ jobs[response.id].model # m
                         \/ jobs[response.id].state = "pause"

\* The responses after an answer: only the one it names has changed.
Answering(js, answer, m, state) ==
    /\ js \in Seq(Job) /\ answer.usage \in 1..2
    /\ answer.id \in DOMAIN js /\ answer.id \in Nat \ {0}
    /\ js[answer.id].usage = answer.usage /\ js[answer.id].model = m
    /\ js[answer.id].state = "running" => state = "suspended"
    /\ js[answer.id].state = "pause" => m \notin Background
    /\ DOMAIN jobs \subseteq DOMAIN js
    /\ \A j \in DOMAIN js : j # answer.id => j \in DOMAIN jobs /\ js[j] = jobs[j]
    /\ Fresh(js, answer, m, state) \/ Polled(js, answer, m, state)

\* Every answer is one or the other.
LEMMA AnswerShape ==
    ASSUME RequestTyped, Accounted, NEW m \in Models, NEW state \in {"suspended", "complete"},
           NEW answer \in Answers(m, state)
    PROVE  Answering(answer.jobs, answer, m, state)
  <1> DEFINE i == response.id
             js == answer.jobs
  <1>0. jobs \in Seq(Job) /\ Len(jobs) \in Nat /\ DOMAIN jobs = 1..Len(jobs)
    BY DEF RequestTyped
  <1>1. JobState(m, state) \in {"done", "running", "pause"}
        /\ (JobState(m, state) = "running" => state = "suspended")
        /\ (JobState(m, state) = "pause" => m \notin Background)
    BY DEF JobState
  <1>2. CASE Polls(m)
    <2>1. Held(response) /\ ~rewound /\ jobs[i].model = m /\ jobs[i].state # "pause"
      BY <1>2 DEF Polls
    <2>2. response # None
      BY <2>1 DEF Held, None
    <2>3. i \in 1..Len(jobs)
      BY <1>0, <2>2 DEF Accounted, Tied
    <2>4. jobs[i] \in Job /\ jobs[i].usage \in 1..2
      BY <1>0, <2>3, JobFields
    <2>5. PICK u \in {jobs[i].usage, 2} :
             answer = [id |-> response.id, usage |-> u,
                       jobs |-> [jobs EXCEPT ![response.id].usage = u, ![response.id].state =
                            IF @ = "cancelled" THEN @ ELSE JobState(m, state)]]
      BY <1>2 DEF Answers
    <2>6. u \in 1..2 /\ jobs[i].usage <= u
      BY <2>4
    <2> DEFINE job == [jobs[i] EXCEPT !.usage = u,
                          !.state = IF @ = "cancelled" THEN @ ELSE JobState(m, state)]
    <2>7. job \in Job /\ job.usage = u /\ job.model = m
      BY <1>1, <2>1, <2>4, <2>6 DEF Job
    <2>8. job.state = "running" => state = "suspended"
      BY <1>1, <2>1, <2>4 DEF Job
    <2>9. job.state = "pause" => m \notin Background
      BY <1>1, <2>1, <2>4 DEF Job
    <2>10. answer.id = i /\ answer.usage = u /\ js = [jobs EXCEPT ![i] = job]
      BY <2>5
    <2> HIDE DEF job, js
    <2>11. /\ js \in Seq(Job) /\ Len(js) = Len(jobs)
           /\ \A j \in 1..Len(jobs) : js[j] = IF j = i THEN job ELSE jobs[j]
      BY <1>0, <2>3, <2>7, <2>10, ExceptSeq
    <2>12. DOMAIN js = 1..Len(jobs)
      BY <2>11
    <2>13. Billed(js) = Billed(jobs) + (u - jobs[i].usage)
      BY <1>0, <2>3, <2>7, <2>10, BilledPolled
    <2>14. Polled(js, answer, m, state)
      BY <2>1, <2>6, <2>10, <2>13 DEF Polled
    <2>15. js[i] = job /\ i \in Nat \ {0}
      BY <2>3, <2>11
    <2>16. \A j \in DOMAIN js : j # i => j \in DOMAIN jobs /\ js[j] = jobs[j]
      BY <1>0, <2>11, <2>12
    <2>17. Answering(js, answer, m, state)
      BY <1>0, <2>3, <2>6, <2>7, <2>8, <2>9, <2>10, <2>11, <2>12, <2>14, <2>15, <2>16
         DEF Answering
    <2> QED
      BY <2>17 DEF js
  <1>3. CASE ~Polls(m)
    <2> DEFINE job == [model |-> m, usage |-> 1, state |-> JobState(m, state)]
               n == Len(jobs) + 1
    <2>1. answer.id = n /\ answer.usage = 1 /\ js = Append(jobs, job)
      BY <1>3 DEF Answers
    <2>2. job \in Job /\ job.usage = 1 /\ job.model = m /\ job.state = JobState(m, state)
      BY <1>1 DEF Job
    <2> HIDE DEF job, js
    <2>3. /\ js \in Seq(Job) /\ Len(js) = n /\ js[n] = job
          /\ \A j \in 1..Len(jobs) : js[j] = jobs[j]
      BY <1>0, <2>1, <2>2, AppendProperties
    <2>4. Billed(js) = Billed(jobs) + 1
      BY <1>0, <2>1, <2>2, BilledAppend
    <2>5. Held(response) => rewound \/ jobs[response.id].model # m
                             \/ jobs[response.id].state = "pause"
      BY <1>3 DEF Polls
    <2>6. Fresh(js, answer, m, state)
      BY <2>1, <2>2, <2>3, <2>4, <2>5 DEF Fresh
    <2>7. DOMAIN js = 1..n /\ n \in Nat \ {0} /\ n \in 1..n
      BY <1>0, <2>3
    <2>8. \A j \in DOMAIN js : j # n => j \in DOMAIN jobs /\ js[j] = jobs[j]
      BY <1>0, <2>3, <2>7
    <2>9. DOMAIN jobs \subseteq DOMAIN js
      BY <1>0, <2>7
    <2>10. Answering(js, answer, m, state)
      <3> HIDE DEF n
      <3> QED
        BY <1>1, <2>1, <2>2, <2>3, <2>6, <2>7, <2>8, <2>9 DEF Answering
    <2> QED
      BY <2>10 DEF js
  <1> QED
    BY <1>2, <1>3

-----------------------------------------------------------------------------
(* The answer merged with the response it continues *)

Whole(segment) == IF response = None THEN segment ELSE Merge(response, segment)

\* A reply, field by field.
ReplyOf(state, id, cost, failed, m, pin, replace) ==
    [state |-> state, id |-> id, usage |-> cost, failed |-> failed, model |-> m, pin |-> pin,
     replace |-> replace]

\* It has the fields it is made of.
LEMMA ReplyOfFields ==
    ASSUME NEW state \in {"suspended", "complete"}, NEW id \in Nat \ {0}, NEW cost \in Nat,
           NEW failed \in Nat, NEW m \in Models, NEW pin \in Models \cup {NoPin},
           NEW replace \in BOOLEAN,
           NEW r, r = ReplyOf(state, id, cost, failed, m, pin, replace)
    PROVE  /\ r \in Reply /\ r.state = state /\ r.id = id /\ r.usage = cost
           /\ r.failed = failed /\ r.model = m /\ r.pin = pin
  <1>1. r \in Reply
    BY Zenon DEF ReplyOf, Reply
  <1>2. /\ r.state = state /\ r.id = id /\ r.usage = cost
        /\ r.failed = failed /\ r.model = m /\ r.pin = pin
    BY DEF ReplyOf
  <1> QED
    BY <1>1, <1>2

\* What merging makes of an answer: it names the job of the answer and the
\* candidate, and costs what came before, unless it is a poll.
Merged(whole, answer, m, state) ==
    /\ whole \in Reply /\ whole.state = state /\ whole.id = answer.id /\ whole.model = m
    /\ state = "suspended" => whole.pin = m
    /\ whole.failed = attempts + (IF response = None THEN 0 ELSE response.failed)
    /\ whole.usage = answer.usage +
                       (IF response = None \/ response.id = answer.id THEN 0 ELSE response.usage)

\* Merging makes that of every answer, whatever mode it is merged in.
LEMMA MergeShape ==
    ASSUME RequestTyped, Accounted, NEW m \in Models, NEW state \in {"suspended", "complete"},
           NEW answer, NEW js, Answering(js, answer, m, state)
    PROVE  Merged(Whole(Segment(m, state, answer)), answer, m, state)
  <1> DEFINE segment == Segment(m, state, answer)
             whole == Whole(segment)
             pin == IF state = "suspended" THEN m ELSE NoPin
  <1>1. answer.id \in Nat \ {0} /\ answer.usage \in Nat /\ attempts \in Nat
    BY DEF Answering, RequestTyped
  <1>0. rewound \in BOOLEAN
    BY DEF RequestTyped
  <1>2. pin \in Models \cup {NoPin} /\ (state = "suspended" => pin = m /\ pin # NoPin)
    BY ModelsNamed
  <1>3. segment = ReplyOf(state, answer.id, answer.usage, attempts, m, pin, rewound)
    BY DEF Segment, ReplyOf
  <1> HIDE DEF segment, pin
  <1>4. CASE response = None
    <2>1. whole = segment
      BY <1>4 DEF Whole
    <2> HIDE DEF whole
    <2>2. /\ whole \in Reply /\ whole.state = state /\ whole.id = answer.id
          /\ whole.usage = answer.usage /\ whole.failed = attempts
          /\ whole.model = m /\ whole.pin = pin
      BY <1>0, <1>1, <1>2, <1>3, <2>1, ReplyOfFields
    <2>3. Merged(whole, answer, m, state)
      BY <1>1, <1>2, <1>4, <2>2 DEF Merged
    <2> QED
      BY <2>3 DEF whole, segment
  <1>5. CASE response # None
    <2>1. response \in Reply
      BY <1>5 DEF RequestTyped
    <2>2. /\ response.usage \in Nat /\ response.failed \in Nat /\ response.id \in DOMAIN jobs
          /\ response.pin \in Models \cup {NoPin}
      BY <1>5, <2>1, ReplyFields DEF Accounted, Tied
    <2>3. answer.id = response.id => ~rewound
      <3>1. CASE Fresh(js, answer, m, state)
        <4>1. response.id \in 1..Len(jobs) /\ answer.id = Len(jobs) + 1 /\ Len(jobs) \in Nat
          BY <2>2, <3>1, LenProperties DEF Fresh, RequestTyped
        <4> QED
          BY <4>1
      <3>2. CASE Polled(js, answer, m, state)
        BY <3>2 DEF Polled
      <3> QED
        BY <3>1, <3>2 DEF Answering
    <2>4. MergeMode(response, segment) = "sameID" <=> answer.id = response.id
      <3>1. segment.id = answer.id /\ segment.replace = rewound
        BY <1>3 DEF ReplyOf
      <3>2. CASE rewound
        BY <2>3, <3>1, <3>2, Zenon DEF MergeMode
      <3>3. CASE ~rewound
        BY <3>1, <3>3 DEF MergeMode
      <3> QED
        BY <3>2, <3>3
    <2> DEFINE cost == IF answer.id = response.id THEN answer.usage
                       ELSE response.usage + answer.usage
               stays == IF pin = NoPin THEN response.pin ELSE pin
    <2>5. whole = ReplyOf(state, answer.id, cost, response.failed + attempts, m, stays, FALSE)
      <3>1. whole = [segment EXCEPT
                       !.usage = IF answer.id = response.id THEN @ ELSE response.usage + @,
                       !.failed = response.failed + @,
                       !.pin = IF @ = NoPin THEN response.pin ELSE @,
                       !.replace = FALSE]
        BY <1>5, <2>4 DEF Whole, Merge
      <3> HIDE DEF whole
      <3> QED
        BY <1>3, <3>1 DEF ReplyOf
    <2>6. cost \in Nat /\ response.failed + attempts \in Nat
      BY <1>1, <2>2
    <2>7. stays \in Models \cup {NoPin} /\ (state = "suspended" => stays = m)
      BY <1>2, <2>2
    <2> HIDE DEF whole, cost, stays
    <2>8. /\ whole \in Reply /\ whole.state = state /\ whole.id = answer.id
          /\ whole.usage = cost /\ whole.failed = response.failed + attempts
          /\ whole.model = m /\ whole.pin = stays
      <3> DEFINE failed == response.failed + attempts
                 marked == FALSE
      <3>1. failed \in Nat /\ marked \in BOOLEAN
        BY <2>6
      <3>2. whole = ReplyOf(state, answer.id, cost, failed, m, stays, marked)
        BY <2>5
      <3> HIDE DEF failed, marked
      <3>3. /\ whole \in Reply /\ whole.state = state /\ whole.id = answer.id
            /\ whole.usage = cost /\ whole.failed = failed /\ whole.model = m
            /\ whole.pin = stays
        <4>1. answer.id \in Nat \ {0}
          BY <1>1
        <4>2. stays \in Models \cup {NoPin} /\ cost \in Nat
          BY <2>6, <2>7
        <4> QED
          BY <4>1, <4>2, <3>1, <3>2, ReplyOfFields
      <3> QED
        BY <3>3 DEF failed
    <2>9. whole.usage = answer.usage + (IF response.id = answer.id THEN 0 ELSE response.usage)
      <3>1. CASE answer.id = response.id
        <4>1. cost = answer.usage
          BY <3>1 DEF cost
        <4> QED
          BY <1>1, <2>8, <3>1, <4>1
      <3>2. CASE answer.id # response.id
        <4>1. cost = response.usage + answer.usage
          BY <3>2 DEF cost
        <4> QED
          BY <1>1, <2>2, <2>8, <3>2, <4>1
      <3> QED
        BY <3>1, <3>2
    <2>10. whole.failed = attempts + response.failed
      BY <1>1, <2>2, <2>8
    <2>11. Merged(whole, answer, m, state)
      BY <1>5, <2>7, <2>8, <2>9, <2>10 DEF Merged
    <2> QED
      BY <2>11 DEF whole, segment
  <1> QED
    BY <1>4, <1>5

\* A response stays tied to its job when another answer arrives.
LEMMA TiedStays ==
    ASSUME NEW r, NEW js, NEW answer, NEW m, NEW state, Tied(r, jobs), RequestTyped,
           Answering(js, answer, m, state)
    PROVE  Tied(r, js)
  <1>1. ASSUME r # None PROVE r.id \in DOMAIN js /\ js[r.id].model = jobs[r.id].model
    <2>1. r.id \in DOMAIN jobs /\ DOMAIN jobs \subseteq DOMAIN js
      BY <1>1 DEF Tied, Answering
    <2>2. CASE r.id # answer.id
      BY <2>1, <2>2 DEF Answering
    <2>3. CASE r.id = answer.id
      <3>1. ~Fresh(js, answer, m, state)
        BY <2>1, <2>3 DEF Fresh, RequestTyped
      <3> QED
        BY <2>1, <2>3, <3>1 DEF Answering, Polled
    <2> QED
      BY <2>2, <2>3
  <1> QED
    BY <1>1 DEF Tied

\* And the merged one is tied to the job of the answer.
LEMMA MergedTied ==
    ASSUME NEW whole, NEW js, NEW answer, NEW m \in Candidates, NEW state,
           Answering(js, answer, m, state), Merged(whole, answer, m, state)
    PROVE  Tied(whole, js)
  BY DEF Answering, Merged, Tied, Held

\* No other job runs than the one of the answer, if that is suspended.
LEMMA AnswerFollowed ==
    ASSUME RequestTyped, Accounted, place = "send", NEW js, NEW answer, NEW state,
           Answering(js, answer, Chain[asking], state)
    PROVE  \A j \in DOMAIN js : js[j].state = "running" =>
               Exempt(j) \/ (j = answer.id /\ state = "suspended")
  <1> DEFINE m == Chain[asking]
  <1>1. SUFFICES ASSUME NEW j \in DOMAIN js, js[j].state = "running", j # answer.id, ~Exempt(j)
                 PROVE FALSE
    BY DEF Answering
  <1>2. j \in DOMAIN jobs /\ jobs[j].state = "running"
    BY <1>1 DEF Answering
  <1>3. Held(response) /\ j = response.id
    BY <1>1, <1>2 DEF Accounted, Followed
  <1>4. response # None /\ j \notin foreign
    BY <1>1, <1>3 DEF Held, None, Exempt
  <1>5. response.pin = response.model /\ response.model = jobs[j].model
    BY <1>3, <1>4 DEF Accounted, Tied
  <1>6. ~rewound /\ pinned
    BY <1>2, <1>3, <1>4 DEF Accounted, RequestTyped
  <1>7. jobs[j].model = m
    BY <1>5, <1>6 DEF Accounted
  <1>8. Polled(js, answer, m, state)
    BY <1>2, <1>3, <1>6, <1>7 DEF Answering, Fresh
  <1> QED
    BY <1>1, <1>3, <1>8 DEF Polled

\* What a segment cost, and what a response had cost when a run resumed it, are integers.
LEMMA DebtInteger ==
    ASSUME RequestTyped, NEW r \in Reply \cup {None}, NEW spent \in Int
    PROVE  /\ counted + usage \in Int /\ Debt(r, spent) \in Int
           /\ r # None => BilledBeyond(r, resumed) \in Int
           /\ resumed = None /\ r # None => BilledBeyond(r, resumed) = r.usage + r.failed
           /\ resumed # None /\ r # None =>
                BilledBeyond(r, resumed) = (r.usage - resumed.usage) + (r.failed - resumed.failed)
           /\ resumed # None => resumed.usage \in Int /\ resumed.failed \in Int
  <1>1. resumed # None => resumed.usage \in Nat /\ resumed.failed \in Nat
    BY ReplyFields DEF RequestTyped
  <1>2. r # None => r.usage \in Nat /\ r.failed \in Nat
    BY ReplyFields
  <1>3. counted \in Int /\ usage \in Int
    BY DEF RequestTyped
  <1>4. r # None => BilledBeyond(r, resumed) \in Int
    BY <1>1, <1>2 DEF BilledBeyond
  <1> QED
    BY <1>1, <1>2, <1>3, <1>4 DEF BilledBeyond, Debt

\* A response that costs more is billed with the difference.
LEMMA DebtGrows ==
    ASSUME RequestTyped, NEW r \in Reply, NEW q \in Reply \cup {None}, NEW spent \in Int,
           NEW d \in Int, q = None => resumed = None,
           r.usage + r.failed = (IF q = None THEN 0 ELSE q.usage + q.failed) + spent + d
    PROVE  Debt(r, 0) = Debt(q, spent) + d
  <1>1. r # None /\ r.usage \in Nat /\ r.failed \in Nat
    BY ReplyFields
  <1>2. q # None => q.usage \in Nat /\ q.failed \in Nat
    BY ReplyFields
  <1>3. counted \in Int /\ usage \in Int
    BY DEF RequestTyped
  <1>4. resumed # None => resumed.usage \in Int /\ resumed.failed \in Int
    BY DebtInteger
  <1>5. CASE q = None
    BY <1>1, <1>3, <1>5 DEF Debt, BilledBeyond
  <1>6. CASE q # None /\ resumed = None
    BY <1>1, <1>2, <1>3, <1>6 DEF Debt, BilledBeyond
  <1>7. CASE q # None /\ resumed # None
    BY <1>1, <1>2, <1>3, <1>4, <1>7 DEF Debt, BilledBeyond
  <1> QED
    BY <1>5, <1>6, <1>7

\* A response that costs as much leaves the debt as it is, and failed attempts are part of it.
LEMMA DebtSpent ==
    ASSUME RequestTyped, NEW r \in Reply \cup {None}, NEW spent \in Int, NEW more \in Int
    PROVE  Debt(r, spent + more) = Debt(r, spent) + more
  <1>1. r # None => BilledBeyond(r, resumed) \in Int
    BY DebtInteger
  <1>2. counted \in Int /\ usage \in Int
    BY DEF RequestTyped
  <1> QED
    BY <1>1, <1>2 DEF Debt

\* What a poll and a new response add.
LEMMA AnswerDebt ==
    ASSUME RequestTyped, Accounted, place = "send", NEW js, NEW answer, NEW m, NEW state,
           NEW whole, Answering(js, answer, m, state), Merged(whole, answer, m, state)
    PROVE  /\ Fresh(js, answer, m, state) =>
                /\ Debt(whole, 0) = Debt(response, attempts) + 1
                /\ response # None => whole.usage = response.usage + 1 /\ response.usage \in Nat
                /\ response = None => whole.usage = 1
           /\ Polled(js, answer, m, state) =>
                /\ Debt(whole, 0) = Debt(response, attempts) + (answer.usage - response.usage)
                /\ whole.usage = answer.usage /\ response # None /\ response.usage \in Nat
  <1>1. /\ whole \in Reply /\ answer.usage \in 1..2 /\ attempts \in Nat
        /\ response \in Reply \cup {None} /\ (response = None => resumed = None)
    BY DEF Merged, Answering, RequestTyped
  <1>2. response # None => response.usage \in Nat /\ response.failed \in Nat
    BY <1>1, ReplyFields
  <1>3. response # None => response.id \in DOMAIN jobs
    BY DEF Accounted, Tied
  <1>4. ASSUME Fresh(js, answer, m, state), response = None
        PROVE  whole.usage = 1 /\ Debt(whole, 0) = Debt(response, attempts) + 1
    <2>1. answer.usage = 1
      BY <1>4 DEF Fresh
    <2>2. whole.usage = 1 /\ whole.failed = attempts
      BY <1>1, <1>4, <2>1 DEF Merged
    <2> QED
      BY <1>1, <1>4, <2>2, DebtGrows
  <1>5. ASSUME Fresh(js, answer, m, state), response # None
        PROVE  whole.usage = response.usage + 1 /\ Debt(whole, 0) = Debt(response, attempts) + 1
    <2>1. answer.usage = 1 /\ response.id # answer.id
      BY <1>3, <1>5, LenProperties DEF Fresh, RequestTyped
    <2>2. whole.usage = response.usage + 1 /\ whole.failed = attempts + response.failed
      BY <1>1, <1>2, <1>5, <2>1 DEF Merged
    <2> QED
      BY <1>1, <1>2, <1>5, <2>2, DebtGrows
  <1>6. ASSUME Polled(js, answer, m, state)
        PROVE  /\ whole.usage = answer.usage /\ response # None
               /\ Debt(whole, 0) = Debt(response, attempts) + (answer.usage - response.usage)
    <2>1. response # None /\ response.id = answer.id
      BY <1>6 DEF Polled, Held, None
    <2>2. whole.usage = answer.usage /\ whole.failed = attempts + response.failed
      BY <1>1, <1>2, <2>1 DEF Merged
    <2> QED
      BY <1>1, <1>2, <2>1, <2>2, DebtGrows
  <1> QED
    BY <1>2, <1>4, <1>5, <1>6

\* The polled job is billed with what the answer reports.
LEMMA PolledUsage ==
    ASSUME RequestTyped, Accounted, NEW js, NEW answer, NEW m, NEW state,
           Answering(js, answer, m, state), Polled(js, answer, m, state)
    PROVE  jobs[response.id].usage \in Nat /\ answer.usage \in Nat
  <1>1. response # None
    BY DEF Polled, Held, None
  <1>2. response.id \in DOMAIN jobs /\ jobs \in Seq(Job)
    BY <1>1 DEF Accounted, Tied, RequestTyped
  <1>3. jobs[response.id].usage \in 1..2
    BY <1>2, JobFields
  <1> QED
    BY <1>3 DEF Answering

\* An answer keeps the merged response covered.
LEMMA AnswerCovered ==
    ASSUME RequestTyped, Accounted, place = "send", NEW js, NEW answer, NEW m, NEW state,
           NEW whole, Answering(js, answer, m, state), Merged(whole, answer, m, state),
           Covered(response, attempts, jobs)
    PROVE  Covered(whole, 0, js)
  <1>1. Billed(jobs) \in Int /\ Billed(js) \in Int /\ Debt(response, attempts) \in Int
    <2>1. jobs \in Seq(Job) /\ response \in Reply \cup {None} /\ attempts \in Int
      BY DEF RequestTyped
    <2>2. js \in Seq(Job)
      BY DEF Answering
    <2> QED
      BY <2>1, <2>2, BilledInteger, DebtInteger
  <1>2. js[whole.id].usage = answer.usage /\ answer.usage \in Nat
    BY DEF Answering, Merged
  <1>3. CASE Fresh(js, answer, m, state)
    <2>1. Debt(whole, 0) <= Billed(js) /\ Debt(whole, 0) \in Int
      BY <1>1, <1>3, AnswerDebt DEF Covered, Fresh
    <2>2. js[whole.id].usage - whole.usage \in Int /\ js[whole.id].usage - whole.usage <= 0
      BY <1>2, <1>3, AnswerDebt DEF Fresh
    <2> QED
      BY <1>1, <2>1, <2>2 DEF Covered
  <1>4. CASE Polled(js, answer, m, state)
    <2>1. /\ Debt(whole, 0) = Debt(response, attempts) + (answer.usage - response.usage)
          /\ whole.usage = answer.usage /\ response.usage \in Nat
      BY <1>4, AnswerDebt
    <2>2. jobs[response.id].usage \in Nat
      BY <1>4, PolledUsage
    <2>3. Billed(js) = Billed(jobs) + (answer.usage - jobs[response.id].usage)
      BY <1>4 DEF Polled
    <2>4. Debt(response, attempts) + (jobs[response.id].usage - response.usage) <= Billed(jobs)
      BY <1>4 DEF Covered, Polled
    <2>5. Debt(whole, 0) <= Billed(js)
      BY <1>1, <1>2, <2>1, <2>2, <2>3, <2>4
    <2> QED
      BY <1>1, <1>2, <2>1, <2>5 DEF Covered
  <1> QED
    BY <1>3, <1>4 DEF Answering

\* And complete, unless it replaces the earlier ones.
LEMMA AnswerComplete ==
    ASSUME RequestTyped, Accounted, place = "send", NEW js, NEW answer, NEW m, NEW state,
           NEW whole, Answering(js, answer, m, state), Merged(whole, answer, m, state),
           Complete(response, attempts, jobs),
           response # None => ~rewound /\ (response.id = answer.id \/ response.model = m)
    PROVE  Complete(whole, 0, js)
  <1>1. Billed(jobs) \in Int /\ Billed(js) \in Int /\ Debt(response, attempts) \in Int
    <2>1. jobs \in Seq(Job) /\ response \in Reply \cup {None} /\ attempts \in Int
      BY DEF RequestTyped
    <2>2. js \in Seq(Job)
      BY DEF Answering
    <2> QED
      BY <2>1, <2>2, BilledInteger, DebtInteger
  <1>2. js[whole.id].usage = answer.usage /\ answer.usage \in Nat
    BY DEF Answering, Merged
  <1>3. CASE Fresh(js, answer, m, state)
    <2>1. Debt(whole, 0) = Billed(js)
      BY <1>1, <1>3, AnswerDebt DEF Complete, Fresh
    <2>2. CASE response = None
      <3>1. whole.usage = js[whole.id].usage
        BY <1>2, <1>3, <2>2, AnswerDebt DEF Fresh
      <3> QED
        BY <2>1, <3>1 DEF Complete
    <2>3. CASE response # None
      <3>1. /\ Held(response) /\ response.id \in DOMAIN jobs
            /\ response.model = jobs[response.id].model
        BY <2>3 DEF RequestTyped, Accounted, Tied
      <3>2. response.id # answer.id
        BY <1>3, <3>1, LenProperties DEF Fresh, RequestTyped
      <3>3. jobs[response.id].model = m /\ jobs[response.id].state = "pause"
        BY <1>3, <2>3, <3>1, <3>2 DEF Fresh
      <3>4. m \notin Background
        BY <3>1, <3>3 DEF Accounted
      <3>5. Held(whole) => js[whole.id].state = "pause"
        BY <1>3, <3>4 DEF Held, Merged, Fresh, JobState
      <3> QED
        BY <2>1, <3>5 DEF Complete
    <2> QED
      BY <2>2, <2>3
  <1>4. CASE Polled(js, answer, m, state)
    <2>1. /\ Debt(whole, 0) = Debt(response, attempts) + (answer.usage - response.usage)
          /\ whole.usage = answer.usage /\ response.usage \in Nat
      BY <1>4, AnswerDebt
    <2>2. jobs[response.id].usage \in Nat
      BY <1>4, PolledUsage
    <2>3. Billed(js) = Billed(jobs) + (answer.usage - jobs[response.id].usage)
      BY <1>4 DEF Polled
    <2>4. Debt(response, attempts) = Billed(jobs) /\ response.usage = jobs[response.id].usage
      BY <1>4 DEF Complete, Polled
    <2>5. Debt(whole, 0) = Billed(js)
      BY <1>1, <1>2, <2>1, <2>2, <2>3, <2>4
    <2> QED
      BY <1>2, <2>1, <2>5 DEF Complete
  <1> QED
    BY <1>3, <1>4 DEF Answering

\* What cancelling leaves alone.
Cancelling(ks, js, r) ==
    /\ ks \in Seq(Job) /\ DOMAIN ks = DOMAIN js /\ Billed(ks) = Billed(js)
    /\ \A j \in DOMAIN js :
         /\ ks[j].model = js[j].model /\ ks[j].usage = js[j].usage
         /\ ks[j].state = "pause" <=> js[j].state = "pause"
         /\ ks[j].state = "running" => js[j].state = "running" /\ ~(Held(r) /\ j = r.id)

\* A job is cancelled, or there is nothing to cancel.
LEMMA CancelShape ==
    ASSUME NEW js \in Seq(Job), NEW r, Held(r) => r.id \in DOMAIN js
    PROVE  Cancelling(Cancelled(js, r), js, r)
  <1> DEFINE ks == Cancelled(js, r)
             i == r.id
  <1>1. Len(js) \in Nat /\ DOMAIN js = 1..Len(js)
    OBVIOUS
  <1>2. CASE Held(r) /\ js[i].state = "running"
    <2> DEFINE job == [js[i] EXCEPT !.state = "cancelled"]
    <2>1. i \in 1..Len(js) /\ js[i] \in Job /\ js[i].usage \in 1..2
      BY <1>1, <1>2, JobFields
    <2>2. ks = [js EXCEPT ![i] = job]
      BY <1>2 DEF Cancelled
    <2>3. /\ job \in Job /\ job.usage = js[i].usage
          /\ job.model = js[i].model /\ job.state = "cancelled"
      BY <2>1 DEF Job
    <2> HIDE DEF ks, job
    <2>4. /\ ks \in Seq(Job) /\ Len(ks) = Len(js)
          /\ \A j \in 1..Len(js) : ks[j] = IF j = i THEN job ELSE js[j]
      BY <2>1, <2>2, <2>3, ExceptSeq
    <2>5. DOMAIN ks = DOMAIN js
      BY <1>1, <2>4
    <2>6. Billed(ks) = Billed(js)
      <3>1. Billed(ks) = Billed(js) + (job.usage - js[i].usage)
        BY <2>1, <2>2, <2>3, BilledPolled
      <3>2. Billed(js) \in Int /\ js[i].usage \in Int
        BY <2>1, BilledInteger
      <3> QED
        BY <2>3, <3>1, <3>2
    <2>7. ASSUME NEW j \in DOMAIN js
          PROVE  /\ ks[j].model = js[j].model /\ ks[j].usage = js[j].usage
                 /\ ks[j].state = "pause" <=> js[j].state = "pause"
                 /\ ks[j].state = "running" => js[j].state = "running" /\ ~(Held(r) /\ j = i)
      <3>1. CASE j = i
        <4>1. ks[j] = job
          BY <2>1, <2>4, <3>1
        <4> QED
          BY <1>2, <2>3, <3>1, <4>1
      <3>2. CASE j # i
        BY <1>1, <2>4, <3>2
      <3> QED
        BY <3>1, <3>2
    <2>8. Cancelling(ks, js, r)
      BY <2>4, <2>5, <2>6, <2>7 DEF Cancelling
    <2> QED
      BY <2>8 DEF ks
  <1>3. CASE ~(Held(r) /\ js[i].state = "running")
    BY <1>3 DEF Cancelled, Cancelling
  <1> QED
    BY <1>2, <1>3

\* Cancelling changes neither the job a response names nor what is covered.
LEMMA CancelKeeps ==
    ASSUME NEW ks, NEW js, NEW q, Cancelling(ks, js, q), NEW r, Tied(r, js)
    PROVE  /\ Tied(r, ks)
           /\ \A s : Held(r) /\ Covered(r, s, js) => Covered(r, s, ks)
           /\ \A s : Held(r) /\ Complete(r, s, js) => Complete(r, s, ks)
  <1>1. ASSUME r # None PROVE r.id \in DOMAIN js /\ r.id \in DOMAIN ks
    BY <1>1 DEF Tied, Cancelling
  <1>2. Held(r) => r # None
    BY DEF Held, None
  <1>3. Tied(r, ks)
    BY <1>1 DEF Tied, Cancelling
  <1>4. \A s : Held(r) /\ Covered(r, s, js) => Covered(r, s, ks)
    BY <1>1, <1>2 DEF Covered, Cancelling
  <1>5. \A s : Held(r) /\ Complete(r, s, js) => Complete(r, s, ks)
    BY <1>1, <1>2 DEF Complete, Cancelling
  <1> QED
    BY <1>3, <1>4, <1>5

-----------------------------------------------------------------------------
(* The steps of a request *)

\* The response is whole: what it billed is counted.
LEMMA Returns == ASSUME RInv, Return PROVE RInv'
  <1> USE DEF RInv
  <1>1. /\ place = "top" /\ response.state = "complete"
        /\ usage' = usage + BilledBeyond(response, resumed)
        /\ place' = "ended" /\ outcome' = "result"
        /\ UNCHANGED <<run, streamed, resumed, counted, foreign, cause, response, lastMode, counts,
                       replaced, asking, pinned, rewound, attempts, detached, jobs, rejected>>
    BY DEF Return, conversation, merging, chain
  <1>2. response # None /\ ~Held(response) /\ response \in Reply
    BY <1>1 DEF None, Held, RequestTyped
  <1>3. BilledBeyond(response, resumed) \in Int
    <2>1. 0 \in Int
      OBVIOUS
    <2> QED
      BY <1>2, <2>1, DebtInteger
  <1>4. RequestTyped'
    BY <1>1, <1>2, <1>3 DEF RequestTyped
  <1>5. Accounted'
    <2>1. Followed(jobs)
      BY <1>1 DEF Accounted
    <2>2. JobsAccountedFor'
      BY <1>1, <1>2, <2>1 DEF JobsAccountedFor, Followed, Exempt
    <2> QED
      BY <1>1, <2>2 DEF Accounted, Tied
  <1>6. Books'
    <2>1. SUFFICES ASSUME rejected \cap foreign = {}
                   PROVE  /\ counted' + usage' <= Billed(jobs)
                          /\ Undisturbed => counted' + usage' = Billed(jobs)
      BY <1>1 DEF Books, Undisturbed
    <2>2. Covered(response, 0, jobs) /\ (Undisturbed => Complete(response, 0, jobs))
      BY <1>1, <2>1 DEF Books, Spent
    <2>3. counted' + usage' = Debt(response, 0)
      BY <1>1, <1>2, <1>3 DEF Debt, RequestTyped
    <2> QED
      BY <2>2, <2>3 DEF Covered, Complete
  <1> QED
    BY <1>4, <1>5, <1>6

\* Giving up cancels the job that is waited for, and counts nothing.
LEMMA GivesUp ==
    ASSUME RInv, place = "top", Held(response), GiveUp(response),
           UNCHANGED <<response, lastMode, replaced, chain>>
    PROVE  RInv'
  <1> USE DEF RInv
  <1>1. /\ jobs' = Cancelled(jobs, response) /\ place' = "ended" /\ outcome' = "error"
        /\ UNCHANGED <<run, streamed, resumed, counted, foreign, cause, response, lastMode,
                       replaced, asking, pinned, rewound, attempts, usage, detached, rejected>>
    BY DEF GiveUp, conversation, chain
  <1>2. response # None /\ response.id \in DOMAIN jobs /\ Tied(response, jobs) /\ detached = None
    BY DEF Held, None, Accounted, Tied, RequestTyped
  <1>3. jobs \in Seq(Job)
    BY DEF RequestTyped
  <1>4. Cancelling(jobs', jobs, response)
    BY <1>1, <1>2, <1>3, CancelShape
  <1>5. RequestTyped'
    <2>1. jobs' \in Seq(Job)
      BY <1>4 DEF Cancelling
    <2> QED
      BY <1>1, <1>2, <2>1 DEF RequestTyped
  <1>6. Accounted'
    <2>1. Tied(response, jobs')
      BY <1>2, <1>4, CancelKeeps
    <2>2. \A j \in DOMAIN jobs' : jobs'[j].state = "pause" => jobs'[j].model \notin Background
      BY <1>4 DEF Cancelling, Accounted
    <2>3. \A j \in DOMAIN jobs' : jobs'[j].state = "running" => Exempt(j)
      BY <1>4 DEF Cancelling, Accounted, Followed
    <2> QED
      BY <1>1, <1>2, <2>1, <2>2, <2>3 DEF Accounted, Tied, JobsAccountedFor, Exempt
  <1>7. Books'
    BY <1>1 DEF Books
  <1> QED
    BY <1>5, <1>6, <1>7

\* Suspended once too often, or interrupted while waiting.
LEMMA Exceeds == ASSUME RInv, Exceed PROVE RInv'
  BY GivesUp DEF Exceed

LEMMA WaitsInterrupted == ASSUME RInv, WaitInterrupted PROVE RInv'
  BY GivesUp DEF WaitInterrupted

\* A candidate is asked: the one the response is pinned to, or the first.
LEMMA Asks == ASSUME RInv, Ask PROVE RInv'
  <1> USE DEF RInv
  <1>1. /\ place = "top" /\ response.state # "complete"
        /\ pinned' = (PinOf(response) # {})
        /\ asking' \in (IF pinned' THEN PinOf(response) ELSE {1})
        /\ rewound' = FALSE /\ attempts' = 0 /\ place' = "send"
        /\ UNCHANGED <<run, streamed, resumed, counted, foreign, cause, response, lastMode,
                       replaced, usage, outcome, detached, jobs, rejected>>
    BY DEF Ask, conversation
  <1>2. response = None \/ Held(response)
    <2>1. ASSUME response \in Reply PROVE Held(response)
      BY <1>1, <2>1, ReplyFields DEF Held
    <2> QED
      BY <2>1 DEF RequestTyped
  <1>3. 1 \in DOMAIN Chain /\ PinOf(response) \subseteq DOMAIN Chain
    <2>1. Chain \in Seq(Candidates) /\ Chain # <<>>
      BY ChainAssumption
    <2>2. Len(Chain) \in Nat /\ Len(Chain) # 0 /\ DOMAIN Chain = 1..Len(Chain)
      BY <2>1, EmptySeq
    <2> QED
      BY <2>2 DEF PinOf
  <1>4. RequestTyped'
    <2>1. asking' \in DOMAIN Chain
      BY <1>1, <1>3
    <2>2. pinned' \in BOOLEAN /\ rewound' \in BOOLEAN
      BY <1>1, Zenon
    <2> QED
      BY <1>1, <1>2, <2>1, <2>2 DEF RequestTyped
  <1>5. ASSUME pinned' PROVE Held(response) /\ Chain[asking'] = response.pin
    BY <1>1, <1>5 DEF PinOf
  <1>6. ASSUME ~pinned', Held(response) PROVE response.id \in foreign
    <2>1. response # None
      BY <1>6 DEF Held, None
    <2>2. CASE response.pin \in Candidates
      <3>1. PICK i \in DOMAIN Chain : Chain[i] = response.pin
        BY <2>2 DEF Candidates
      <3>2. i \in PinOf(response)
        BY <1>6, <3>1 DEF PinOf
      <3> QED
        BY <1>1, <1>6, <3>2
    <2> QED
      BY <1>6, <2>1, <2>2 DEF Accounted, Tied
  <1>7. Accounted'
    BY <1>1, <1>5, <1>6 DEF Accounted, Tied, Followed, Exempt, JobsAccountedFor, RequestTyped
  <1>8. Books'
    BY <1>1 DEF Books, Spent, Covered, Complete, Debt, Undisturbed
  <1> QED
    BY <1>4, <1>7, <1>8

\* The next candidate is asked, or none is left: the failed attempts stay what they cost,
\* and no job runs on that somebody has to account for.
LEMMA Moves ==
    ASSUME RInv, place = "send", ~pinned, NEW js, NEW spent \in Nat, NextCandidate(js, spent),
           UNCHANGED <<conversation, cause, merging, pinned, rewound>>,
           js \in Seq(Job), Tied(response, js),
           \A j \in DOMAIN js : js[j].state = "pause" => js[j].model \notin Background,
           \A j \in DOMAIN js : js[j].state = "running" => j \in rejected' \/ j \in foreign,
           Held(response) /\ rewound => js[response.id].state # "running",
           rejected' \cap foreign = {} => /\ Covered(response, spent, js)
                                          /\ Undisturbed => Complete(response, spent, js)
    PROVE  RInv'
  <1> USE DEF RInv
  <1>1. UNCHANGED <<run, streamed, resumed, counted, foreign, cause, response, lastMode, counts,
                    replaced, pinned, rewound>>
    BY DEF conversation, merging
  <1>2. detached = None /\ outcome = "none" /\ response \in Reply \cup {None}
    BY DEF RequestTyped
  <1>3. CASE asking < Len(Chain)
    <2>1. /\ asking' = asking + 1 /\ attempts' = spent /\ jobs' = js
          /\ UNCHANGED <<usage, place, outcome, detached>>
      BY <1>3 DEF NextCandidate
    <2>2. RequestTyped'
      <3>1. asking' \in DOMAIN Chain
        <4>1. Chain \in Seq(Candidates)
          BY ChainAssumption
        <4>2. Len(Chain) \in Nat /\ DOMAIN Chain = 1..Len(Chain)
          BY <4>1
        <4> QED
          BY <1>3, <2>1, <4>2 DEF RequestTyped
      <3> QED
        BY <1>1, <2>1, <3>1 DEF RequestTyped
    <2>3. Accounted'
      BY <1>1, <1>2, <2>1 DEF Accounted, Tied, Followed, Exempt, JobsAccountedFor
    <2>4. Books'
      BY <1>1, <1>2, <2>1 DEF Books, Spent, Covered, Complete, Debt, Undisturbed
    <2> QED
      BY <2>2, <2>3, <2>4
  <1>4. CASE ~(asking < Len(Chain))
    <2>1. /\ usage' = usage + spent /\ place' = "ended"
          /\ detached' = IF usage' <= UsageLimit /\ cause = "detached" /\ Held(response)
                         THEN response ELSE None
          /\ outcome' = IF detached' # None THEN "suspended" ELSE "error"
          /\ jobs' = IF usage' > UsageLimit \/ cause = "detached" THEN js
                     ELSE Cancelled(js, response)
          /\ UNCHANGED <<asking, attempts>>
      BY <1>4 DEF NextCandidate
    <2>2. Held(response) => response # None /\ response.id \in DOMAIN js
      BY DEF Held, None, Tied
    <2>3. Cancelling(Cancelled(js, response), js, response)
      BY <2>2, CancelShape
    <2>4. /\ jobs' \in Seq(Job) /\ Tied(response, jobs')
          /\ \A j \in DOMAIN jobs' : jobs'[j].state = "pause" => jobs'[j].model \notin Background
          /\ \A j \in DOMAIN jobs' : jobs'[j].state = "running" => j \in rejected' \/ j \in foreign
      <3>1. CASE jobs' = js
        BY <3>1
      <3>2. CASE jobs' = Cancelled(js, response)
        <4>1. Cancelling(jobs', js, response)
          BY <2>3, <3>2
        <4>2. Tied(response, jobs')
          BY <4>1, CancelKeeps
        <4> QED
          BY <4>1, <4>2 DEF Cancelling
      <3> QED
        BY <2>1, <3>1, <3>2
    <2>5. outcome' \in {"error", "suspended"} /\ detached' \in {None, response}
          /\ (outcome' = "suspended" => detached' = response /\ Held(response) /\ jobs' = js)
      <3>1. CASE usage' <= UsageLimit /\ cause = "detached" /\ Held(response)
        BY <2>1, <2>2, <3>1
      <3>2. CASE ~(usage' <= UsageLimit /\ cause = "detached" /\ Held(response))
        BY <2>1, <3>2
      <3> QED
        BY <3>1, <3>2
    <2>6. RequestTyped'
      <3>1. usage' \in Int
        BY <2>1 DEF RequestTyped
      <3> QED
        BY <1>1, <1>2, <2>1, <2>4, <2>5, <3>1 DEF RequestTyped
    <2>7. Accounted'
      BY <1>1, <2>1, <2>4, <2>5 DEF Accounted, Tied, JobsAccountedFor
    <2>8. Books'
      <3>1. SUFFICES ASSUME rejected' \cap foreign = {}, outcome' = "suspended"
                     PROVE  Covered(detached, 0, jobs)'
        BY <1>1, <2>1, <2>5 DEF Books
      <3>2. Covered(response, spent, js) /\ detached' = response /\ jobs' = js
        BY <2>5, <3>1
      <3>3. Debt(detached, 0)' = Debt(response, spent)
        <4>1. response # None => BilledBeyond(response, resumed) \in Int
          <5>1. 0 \in Int
            OBVIOUS
          <5> QED
            BY <1>2, <5>1, DebtInteger
        <4> QED
          BY <1>1, <2>1, <3>2, <4>1 DEF Debt, RequestTyped
      <3> QED
        BY <3>2, <3>3 DEF Covered
    <2> QED
      BY <2>6, <2>7, <2>8
  <1> QED
    BY <1>3, <1>4

\* A failed candidate costs nothing more.
LEMMA Fails == ASSUME RInv, CandidateFails PROVE RInv'
  <1> USE DEF RInv
  <1>1. /\ place = "send" /\ ~pinned /\ NextCandidate(jobs, attempts) /\ rejected' = rejected
        /\ UNCHANGED <<conversation, cause, merging, pinned, rewound>>
    BY DEF CandidateFails
  <1>2. jobs \in Seq(Job) /\ attempts \in Nat
    BY DEF RequestTyped
  <1>3. Held(response) => response.id \in DOMAIN jobs
    BY DEF Held, None, Accounted, Tied
  <1>4. \A j \in DOMAIN jobs : jobs[j].state = "running" => j \in rejected' \/ j \in foreign
    BY <1>1, <1>3 DEF Accounted, Followed, Exempt
  <1>5. rejected' \cap foreign = {} => /\ Covered(response, attempts, jobs)
                                       /\ Undisturbed => Complete(response, attempts, jobs)
    BY <1>1 DEF Books, Spent
  <1>6. Held(response) /\ rewound => jobs[response.id].state # "running"
    BY <1>1 DEF Accounted
  <1>7. /\ Tied(response, jobs)
        /\ \A j \in DOMAIN jobs : jobs[j].state = "pause" => jobs[j].model \notin Background
    BY DEF Accounted
  <1> QED
    BY <1>1, <1>2, <1>4, <1>5, <1>6, <1>7, Moves

\* What was polled or made for a response nobody wants costs the attempt.
LEMMA Rejects == ASSUME RInv, PredicateRejects PROVE RInv'
  <1> USE DEF RInv
  <1> DEFINE m == Chain[asking]
  <1>1. PICK state \in {"suspended", "complete"} : \E answer \in Answers(m, state) :
          /\ rejected' = rejected \union {answer.id}
          /\ NextCandidate(answer.jobs, attempts + answer.usage)
    BY DEF PredicateRejects
  <1>2. PICK answer \in Answers(m, state) :
          /\ rejected' = rejected \union {answer.id}
          /\ NextCandidate(answer.jobs, attempts + answer.usage)
    BY <1>1
  <1> DEFINE js == answer.jobs
             spent == attempts + answer.usage
  <1>3. /\ place = "send" /\ ~pinned
        /\ UNCHANGED <<conversation, cause, merging, pinned, rewound>>
    BY DEF PredicateRejects
  <1>4. m \in Models
    BY CandidateNamed
  <1>5. Answering(js, answer, m, state)
    BY <1>4, AnswerShape
  <1> HIDE DEF js
  <1>6. \A j \in DOMAIN js : js[j].state = "running" =>
            Exempt(j) \/ (j = answer.id /\ state = "suspended")
    BY <1>3, <1>5, AnswerFollowed
  <1>7. /\ js \in Seq(Job) /\ answer.usage \in 1..2 /\ attempts \in Nat /\ spent \in Nat
        /\ response \in Reply \cup {None}
    BY <1>5 DEF Answering, RequestTyped
  <1>8. Tied(response, js)
    <2>1. Tied(response, jobs)
      BY DEF Accounted
    <2> QED
      BY <1>5, <2>1, TiedStays
  <1>9. \A j \in DOMAIN js : js[j].state = "pause" => js[j].model \notin Background
    BY <1>5 DEF Answering, Accounted
  <1>10. \A j \in DOMAIN js : js[j].state = "running" => j \in rejected' \/ j \in foreign
    BY <1>2, <1>6 DEF Exempt
  <1>11. Fresh(js, answer, m, state) \/ (Polled(js, answer, m, state) /\ response.id \in foreign)
    BY <1>3, <1>5 DEF Answering, Polled, Accounted
  <1>12. ASSUME Held(response), Fresh(js, answer, m, state)
         PROVE  js[response.id] = jobs[response.id] /\ response.id \in DOMAIN jobs
    <2>1. response.id \in DOMAIN jobs
      BY <1>12 DEF Held, None, Accounted, Tied
    <2>2. response.id # answer.id
      BY <1>12, <2>1, LenProperties DEF Fresh, RequestTyped
    <2> QED
      BY <1>5, <2>1, <2>2 DEF Answering
  <1>13. Held(response) /\ rewound => js[response.id].state # "running"
    BY <1>3, <1>11, <1>12 DEF Accounted, Polled
  <1>14. ASSUME rejected' \cap foreign = {}
         PROVE  /\ Covered(response, spent, js)
                /\ Undisturbed => Complete(response, spent, js)
    <2>1. Fresh(js, answer, m, state) /\ rejected \cap foreign = {}
      BY <1>2, <1>11, <1>14 DEF Polled
    <2>2. Covered(response, attempts, jobs) /\ (Undisturbed => Complete(response, attempts, jobs))
      BY <1>3, <2>1 DEF Books, Spent
    <2>3. Debt(response, spent) = Debt(response, attempts) + 1 /\ Debt(response, attempts) \in Int
      <3>1. answer.usage = 1 /\ attempts \in Int /\ 1 \in Int
        BY <1>7, <2>1 DEF Fresh
      <3> HIDE DEF spent
      <3>2. spent = attempts + 1
        BY <3>1 DEF spent
      <3> QED
        BY <1>7, <3>1, <3>2, DebtSpent, DebtInteger
    <2>4. Billed(js) = Billed(jobs) + 1 /\ Billed(jobs) \in Int
      BY <2>1, BilledInteger DEF Fresh, RequestTyped
    <2>5. Held(response) => js[response.id].usage - response.usage \in Int
      <3>1. SUFFICES ASSUME Held(response) PROVE js[response.id].usage - response.usage \in Int
        OBVIOUS
      <3>2. response # None
        BY <3>1 DEF Held, None
      <3>3. response.usage \in Nat
        BY <1>7, <3>2, ReplyFields
      <3>4. js[response.id].usage \in 1..2
        BY <1>7, <1>8, <3>2, JobFields DEF Tied
      <3> QED
        BY <3>3, <3>4
    <2> HIDE DEF spent
    <2>6. Covered(response, spent, js)
      BY <1>12, <2>1, <2>2, <2>3, <2>4, <2>5 DEF Covered
    <2>7. Undisturbed => Complete(response, spent, js)
      BY <1>12, <2>1, <2>2, <2>3, <2>4 DEF Complete
    <2> QED
      BY <2>6, <2>7
  <1>15. NextCandidate(js, spent)
    BY <1>2 DEF js
  <1> HIDE DEF spent
  <1> QED
    BY <1>3, <1>7, <1>8, <1>9, <1>10, <1>13, <1>14, <1>15, Moves

\* The pinned candidate fails: its job is cancelled, and the chain starts over.
LEMMA PinsFail == ASSUME RInv, PinnedFails PROVE RInv'
  <1> USE DEF RInv
  <1>1. /\ place = "send" /\ pinned /\ jobs' = Cancelled(jobs, response)
        /\ pinned' = FALSE /\ rewound' = TRUE /\ asking' = 1
        /\ UNCHANGED <<run, streamed, resumed, counted, foreign, cause, response, lastMode, counts,
                       replaced, attempts, usage, place, outcome, detached, rejected>>
    BY DEF PinnedFails, conversation, merging
  <1>2. Held(response) /\ detached = None
    BY <1>1 DEF Accounted, RequestTyped
  <1>3. response # None /\ response.id \in DOMAIN jobs /\ jobs \in Seq(Job) /\ Tied(response, jobs)
    BY <1>2 DEF Held, None, Accounted, Tied, RequestTyped
  <1>4. Cancelling(jobs', jobs, response)
    BY <1>1, <1>3, CancelShape
  <1>5. RequestTyped'
    <2>1. jobs' \in Seq(Job)
      BY <1>4 DEF Cancelling
    <2>2. asking' \in DOMAIN Chain
      <3>1. asking \in 1..Len(Chain) /\ Len(Chain) \in Nat /\ DOMAIN Chain = 1..Len(Chain)
        BY ChainAssumption DEF RequestTyped
      <3> QED
        BY <1>1, <3>1
    <2>3. pinned' \in BOOLEAN /\ rewound' \in BOOLEAN
      BY <1>1, Zenon
    <2> QED
      BY <1>1, <2>1, <2>2, <2>3 DEF RequestTyped
  <1>6. Tied(response, jobs')
    BY <1>3, <1>4, CancelKeeps
  <1>7. Accounted'
    <2>1. \A j \in DOMAIN jobs' : jobs'[j].state = "pause" => jobs'[j].model \notin Background
      BY <1>4 DEF Cancelling, Accounted
    <2>2. \A j \in DOMAIN jobs' : jobs'[j].state = "running" => Exempt(j)
      BY <1>1, <1>4 DEF Cancelling, Accounted, Followed
    <2>3. jobs'[response.id].state # "running"
      BY <1>2, <1>3, <1>4 DEF Cancelling
    <2> QED
      BY <1>1, <1>2, <1>6, <2>1, <2>2, <2>3
         DEF Accounted, Tied, Followed, Exempt, JobsAccountedFor, RequestTyped
  <1>8. Books'
    <2>1. SUFFICES ASSUME rejected \cap foreign = {}
                   PROVE  /\ Covered(response, attempts, jobs')
                          /\ Undisturbed => Complete(response, attempts, jobs')
      BY <1>1 DEF Books, Spent, Covered, Complete, Debt, Undisturbed, RequestTyped
    <2>2. Covered(response, attempts, jobs) /\ (Undisturbed => Complete(response, attempts, jobs))
      BY <1>1, <2>1 DEF Books, Spent
    <2> QED
      BY <1>2, <1>3, <1>4, <2>2, CancelKeeps
  <1> QED
    BY <1>5, <1>7, <1>8

\* A failed attempt is not billed to anybody, and neither is a poll that was lost.
LEMMA LessSpent ==
    ASSUME RequestTyped, Held(response), Tied(response, jobs),
           Covered(response, attempts, jobs), NEW js \in Seq(Job),
           \/ js = jobs
           \/ \E answer, m, state : Answering(js, answer, m, state)
    PROVE  Covered(response, 0, js)
  <1>1. response # None /\ response \in Reply /\ response.id \in DOMAIN jobs /\ jobs \in Seq(Job)
    BY DEF Held, None, Tied, RequestTyped
  <1>2. /\ Debt(response, 0) \in Int /\ Debt(response, attempts) \in Int /\ attempts \in Nat
        /\ Debt(response, 0) <= Debt(response, attempts)
    <2>1. attempts \in Nat /\ 0 \in Int /\ attempts \in Int
      BY DEF RequestTyped
    <2>2. Debt(response, 0) \in Int /\ Debt(response, attempts) \in Int
      BY <1>1, <2>1, DebtInteger
    <2>3. BilledBeyond(response, resumed) \in Int
      BY <1>1, <2>1, DebtInteger
    <2> QED
      BY <1>1, <2>1, <2>2, <2>3 DEF Debt, RequestTyped
  <1>3. Billed(jobs) \in Int /\ Billed(js) \in Int
    BY <1>1, BilledInteger
  <1>4. response.usage \in Nat /\ jobs[response.id].usage \in Nat
    <2>1. jobs[response.id].usage \in 1..2
      BY <1>1, JobFields
    <2> QED
      BY <1>1, <2>1, ReplyFields
  <1> DEFINE due == jobs[response.id].usage - response.usage
  <1>5. /\ Debt(response, 0) <= Billed(jobs) /\ due \in Int
        /\ Debt(response, 0) + due <= Billed(jobs)
    <2>1. due \in Int
      BY <1>4
    <2>2. Debt(response, attempts) <= Billed(jobs) /\ Debt(response, attempts) + due <= Billed(jobs)
      BY DEF Covered
    <2> HIDE DEF due
    <2> QED
      BY <1>2, <1>3, <2>1, <2>2
  <1>6. CASE js = jobs
    BY <1>5, <1>6 DEF Covered
  <1>7. CASE \E answer, m, state : Answering(js, answer, m, state)
    <2>1. PICK answer, m, state : Answering(js, answer, m, state)
      BY <1>7
    <2>2. CASE Fresh(js, answer, m, state)
      <3>1. response.id # answer.id
        BY <1>1, <2>2, LenProperties DEF Fresh, RequestTyped
      <3>2. js[response.id] = jobs[response.id] /\ Billed(js) = Billed(jobs) + 1
        BY <1>1, <2>1, <2>2, <3>1 DEF Answering, Fresh
      <3> QED
        BY <1>2, <1>3, <1>5, <3>2 DEF Covered
    <2>3. CASE Polled(js, answer, m, state)
      <3>1. /\ js[response.id].usage = answer.usage /\ answer.usage \in 1..2
            /\ Billed(js) = Billed(jobs) + (answer.usage - jobs[response.id].usage)
            /\ jobs[response.id].usage <= answer.usage
        BY <2>1, <2>3 DEF Answering, Polled
      <3>2. Debt(response, 0) <= Billed(js)
        <4>1. Billed(jobs) <= Billed(js)
          BY <1>3, <1>4, <3>1
        <4>2. Debt(response, 0) <= Billed(jobs) /\ Debt(response, 0) \in Int
          BY <1>2, <1>5
        <4> QED
          BY <1>3, <4>1, <4>2
      <3>3. Debt(response, 0) + (js[response.id].usage - response.usage) <= Billed(js)
        <4> DEFINE more == answer.usage - jobs[response.id].usage
        <4>1. more \in Int /\ js[response.id].usage - response.usage = due + more
          BY <1>4, <3>1
        <4>2. Billed(js) = Billed(jobs) + more
          BY <3>1
        <4> HIDE DEF due, more
        <4> QED
          BY <1>2, <1>3, <1>5, <4>1, <4>2
      <3> QED
        BY <3>2, <3>3 DEF Covered
    <2> QED
      BY <2>1, <2>2, <2>3 DEF Answering
  <1> QED
    BY <1>6, <1>7

\* A segment that breaks off hands on what is left, or cancels it.
LEMMA Breaks ==
    ASSUME RInv, place = "send", NEW js, NEW left \in Reply \cup {None},
           js \in Seq(Job), Tied(left, js), Tied(response, js),
           \A j \in DOMAIN js : js[j].state = "pause" => js[j].model \notin Background,
           \A j \in DOMAIN js : js[j].state = "running" =>
               Exempt(j) \/ (Held(left) /\ j = left.id),
           rejected \cap foreign = {} /\ Held(left) => Covered(left, 0, js),
           place' = "ended", UNCHANGED <<conversation, merging, chain, usage, rejected>>,
           detached' = IF cause' = "detached" /\ Held(left) THEN left ELSE None,
           outcome' = IF detached' # None THEN "suspended" ELSE "error",
           jobs' = IF cause' = "detached" THEN js ELSE Cancelled(js, left)
    PROVE  RInv'
  <1> USE DEF RInv
  <1>1. UNCHANGED <<run, streamed, resumed, counted, foreign, response, lastMode, counts, replaced,
                    asking, pinned, rewound, attempts>>
    BY DEF conversation, merging, chain
  <1>2. Held(left) => left # None /\ left.id \in DOMAIN js
    BY DEF Held, None, Tied
  <1>3. CASE cause' = "detached" /\ Held(left)
    <2>1. detached' = left /\ outcome' = "suspended" /\ jobs' = js
      BY <1>2, <1>3
    <2>2. RequestTyped'
      BY <1>1, <1>2, <1>3, <2>1 DEF RequestTyped
    <2>3. Accounted'
      BY <1>1, <1>3, <2>1 DEF Accounted, Tied, Exempt, JobsAccountedFor
    <2>4. Books'
      BY <1>1, <1>3, <2>1 DEF Books, Covered, Debt
    <2> QED
      BY <2>2, <2>3, <2>4
  <1>4. CASE ~(cause' = "detached" /\ Held(left))
    <2>1. detached' = None /\ outcome' = "error" /\ jobs' \in {js, Cancelled(js, left)}
      BY <1>4
    <2>2. /\ jobs' \in Seq(Job) /\ DOMAIN jobs' = DOMAIN js
          /\ \A j \in DOMAIN jobs' : jobs'[j].model = js[j].model
          /\ \A j \in DOMAIN jobs' : jobs'[j].state = "pause" => jobs'[j].model \notin Background
          /\ \A j \in DOMAIN jobs' : jobs'[j].state = "running" => Exempt(j)
      <3>1. CASE cause' = "detached"
        BY <1>4, <3>1
      <3>2. CASE cause' # "detached"
        <4>1. Cancelling(jobs', js, left)
          BY <1>2, <3>2, CancelShape
        <4> QED
          BY <4>1 DEF Cancelling
      <3> QED
        BY <3>1, <3>2
    <2>3. RequestTyped'
      BY <1>1, <2>1, <2>2 DEF RequestTyped
    <2>4. Accounted'
      BY <1>1, <2>1, <2>2 DEF Accounted, Tied, Exempt, JobsAccountedFor
    <2>5. Books'
      BY <1>1, <2>1 DEF Books
    <2> QED
      BY <2>3, <2>4, <2>5
  <1> QED
    BY <1>3, <1>4

\* Nothing came before the error.
LEMMA SendsFail == ASSUME RInv, SendFails PROVE RInv'
  <1> USE DEF RInv
  <1>1. place = "send" /\ Fail(None, jobs)
    BY DEF SendFails
  <1>2. /\ place' = "ended" /\ UNCHANGED <<conversation, merging, chain, usage, rejected>>
        /\ detached' = IF cause' = "detached" /\ Held(response) THEN response ELSE None
        /\ outcome' = IF detached' # None THEN "suspended" ELSE "error"
        /\ jobs' = IF cause' = "detached" THEN jobs ELSE Cancelled(jobs, response)
    BY <1>1 DEF Fail
  <1>3. /\ response \in Reply \cup {None} /\ jobs \in Seq(Job) /\ Tied(response, jobs)
        /\ \A j \in DOMAIN jobs : jobs[j].state = "pause" => jobs[j].model \notin Background
    BY DEF RequestTyped, Accounted
  <1>4. \A j \in DOMAIN jobs : jobs[j].state = "running" =>
            Exempt(j) \/ (Held(response) /\ j = response.id)
    BY <1>1 DEF Accounted, Followed
  <1>5. rejected \cap foreign = {} /\ Held(response) => Covered(response, 0, jobs)
    BY <1>1, <1>3, LessSpent DEF Books, Spent
  <1> QED
    BY <1>1, <1>2, <1>3, <1>4, <1>5, Breaks

\* The answer a stream had begun with counts as far as it came.
LEMMA StreamsBreak == ASSUME RInv, StreamBreaks PROVE RInv'
  <1> USE DEF RInv
  <1> DEFINE m == Chain[asking]
  <1>0. PICK state \in {"suspended", "complete"} :
          \E answer \in Answers(m, state) : Fail(Segment(m, state, answer), answer.jobs)
    BY DEF StreamBreaks
  <1>1. PICK answer \in Answers(m, state) : Fail(Segment(m, state, answer), answer.jobs)
    BY <1>0
  <1> DEFINE js == answer.jobs
             segment == Segment(m, state, answer)
             whole == Whole(segment)
             left == IF Held(whole) THEN whole ELSE response
  <1>2. place = "send"
    BY DEF StreamBreaks
  <1>3. m \in Models /\ m \in Candidates
    BY CandidateNamed
  <1>4. Answering(js, answer, m, state)
    BY <1>3, AnswerShape
  <1>5. Merged(whole, answer, m, state)
    BY <1>3, <1>4, MergeShape
  <1>6. segment # None
    <2>1. segment.id = answer.id /\ segment.state = state
      BY DEF Segment
    <2>2. segment.state # None.state
      BY <2>1 DEF None
    <2> QED
      BY <2>2
  <1>7. /\ place' = "ended" /\ UNCHANGED <<conversation, merging, chain, usage, rejected>>
        /\ detached' = IF cause' = "detached" /\ Held(left) THEN left ELSE None
        /\ outcome' = IF detached' # None THEN "suspended" ELSE "error"
        /\ jobs' = IF cause' = "detached" THEN js ELSE Cancelled(js, left)
    BY <1>1, <1>6 DEF Fail, Whole
  <1> HIDE DEF js, segment, whole
  <1>8. \A j \in DOMAIN js : js[j].state = "running" =>
            Exempt(j) \/ (j = answer.id /\ state = "suspended")
    BY <1>2, <1>4, AnswerFollowed
  <1>9. /\ left \in Reply \cup {None} /\ js \in Seq(Job)
        /\ Tied(left, js) /\ Tied(response, js)
    <2>1. Tied(whole, js) /\ whole \in Reply
      BY <1>3, <1>4, <1>5, MergedTied DEF Merged
    <2>2. Tied(response, js)
      BY <1>4, TiedStays DEF Accounted
    <2> QED
      BY <1>4, <2>1, <2>2 DEF RequestTyped, Answering
  <1>10. \A j \in DOMAIN js : js[j].state = "pause" => js[j].model \notin Background
    BY <1>4 DEF Answering, Accounted
  <1>11. \A j \in DOMAIN js : js[j].state = "running" => Exempt(j) \/ (Held(left) /\ j = left.id)
    <2>1. CASE state = "suspended"
      <3>1. Held(whole) /\ whole.id = answer.id
        BY <1>5, <2>1 DEF Merged, Held
      <3> QED
        BY <1>8, <3>1
    <2>2. CASE state # "suspended"
      BY <1>8, <2>2
    <2> QED
      BY <2>1, <2>2
  <1>12. ASSUME rejected \cap foreign = {}, Held(left) PROVE Covered(left, 0, js)
    <2>1. Covered(response, attempts, jobs)
      BY <1>2, <1>12 DEF Books, Spent
    <2>2. CASE Held(whole)
      BY <1>2, <1>4, <1>5, <2>1, <2>2, AnswerCovered
    <2>3. CASE ~Held(whole)
      BY <1>4, <1>9, <1>12, <2>1, <2>3, LessSpent DEF Accounted
    <2> QED
      BY <2>2, <2>3
  <1> HIDE DEF left
  <1> QED
    BY <1>2, <1>7, <1>9, <1>10, <1>11, <1>12, Breaks

\* An answer is merged: it goes on, or is over the limit and cancelled.
LEMMA AnswersMerge == ASSUME RInv, Answer PROVE RInv'
  <1> USE DEF RInv
  <1> DEFINE m == Chain[asking]
  <1>1. PICK state \in {"suspended", "complete"} :
          \E answer \in Answers(m, state) : Accept(Segment(m, state, answer), answer)
    BY DEF Answer
  <1>2. PICK answer \in Answers(m, state) : Accept(Segment(m, state, answer), answer)
    BY <1>1
  <1> DEFINE js == answer.jobs
             segment == Segment(m, state, answer)
             whole == Whole(segment)
             over == Held(whole) /\ usage + BilledBeyond(whole, resumed) > UsageLimit
  <1>3. place = "send" /\ detached = None /\ outcome = "none"
    BY DEF Answer, RequestTyped
  <1>4. m \in Models /\ m \in Candidates
    BY CandidateNamed
  <1>5. Answering(js, answer, m, state)
    BY <1>4, AnswerShape
  <1>6. Merged(whole, answer, m, state)
    BY <1>4, <1>5, MergeShape
  <1>7. /\ response' = whole
        /\ replaced' = (replaced \/ (response # None /\ MergeMode(response, segment) = "replace"))
        /\ jobs' = IF over THEN Cancelled(js, whole) ELSE js
        /\ place' = IF over THEN "ended" ELSE "top"
        /\ outcome' = IF over THEN "error" ELSE outcome
        /\ UNCHANGED <<run, streamed, resumed, counted, foreign, cause, counts, asking, pinned,
                       rewound, attempts, usage, detached, rejected>>
    BY <1>2 DEF Accept, Whole, conversation, chain
  <1>8. ASSUME response # None, MergeMode(response, segment) # "replace"
        PROVE  ~rewound /\ (response.id = answer.id \/ response.model = m)
    <2>1. segment.id = answer.id /\ segment.replace = rewound /\ segment.model = m
      BY DEF Segment
    <2> HIDE DEF segment
    <2>2. CASE rewound
      <3>1. MergeMode(response, segment) = "replace"
        BY <2>1, <2>2, Zenon DEF MergeMode
      <3> QED
        BY <1>8, <3>1
    <2>3. CASE ~rewound
      BY <1>8, <2>1, <2>3 DEF MergeMode
    <2> QED
      BY <2>2, <2>3
  <1> HIDE DEF js, segment, whole, over
  <1>9. \A j \in DOMAIN js : js[j].state = "running" =>
            Exempt(j) \/ (Held(whole) /\ j = whole.id)
    <2>1. \A j \in DOMAIN js : js[j].state = "running" =>
              Exempt(j) \/ (j = answer.id /\ state = "suspended")
      BY <1>3, <1>5, AnswerFollowed
    <2>2. state = "suspended" => Held(whole) /\ whole.id = answer.id
      BY <1>6 DEF Merged, Held
    <2> QED
      BY <2>1, <2>2
  <1>10. Tied(whole, js) /\ js \in Seq(Job) /\ whole \in Reply
    BY <1>4, <1>5, <1>6, MergedTied DEF Merged, Answering
  <1>11. whole # None /\ whole.id \in DOMAIN js
    BY <1>10, ReplyFields DEF Tied
  <1>12. \A j \in DOMAIN js : js[j].state = "pause" => js[j].model \notin Background
    BY <1>5 DEF Answering, Accounted
  <1>13. replaced' \in BOOLEAN
    BY <1>7, Zenon
  <1>14. CASE over
    <2>1. /\ jobs' = Cancelled(js, whole) /\ place' = "ended" /\ outcome' = "error"
      BY <1>7, <1>14
    <2>2. Cancelling(jobs', js, whole)
      BY <1>10, <1>11, <2>1, CancelShape
    <2>3. RequestTyped'
      BY <1>3, <1>7, <1>10, <1>11, <1>13, <2>1, <2>2 DEF RequestTyped, Cancelling
    <2>4. Accounted'
      <3>1. Tied(whole, jobs')
        BY <1>10, <2>2, CancelKeeps
      <3>2. \A j \in DOMAIN jobs' : jobs'[j].state = "pause" => jobs'[j].model \notin Background
        BY <1>12, <2>2 DEF Cancelling
      <3>3. \A j \in DOMAIN jobs' : jobs'[j].state = "running" => Exempt(j)
        BY <1>9, <2>2 DEF Cancelling
      <3> QED
        BY <1>3, <1>7, <2>1, <3>1, <3>2, <3>3 DEF Accounted, Tied, Exempt, JobsAccountedFor
    <2>5. Books'
      BY <2>1 DEF Books
    <2> QED
      BY <2>3, <2>4, <2>5
  <1>15. CASE ~over
    <2>1. jobs' = js /\ place' = "top" /\ outcome' = "none"
      BY <1>3, <1>7, <1>15
    <2>2. RequestTyped'
      BY <1>3, <1>7, <1>10, <1>11, <1>13, <2>1 DEF RequestTyped
    <2>3. Accounted'
      BY <1>3, <1>7, <1>9, <1>10, <1>12, <2>1
         DEF Accounted, Tied, Followed, Exempt, JobsAccountedFor
    <2>4. Books'
      <3>1. SUFFICES ASSUME rejected \cap foreign = {}
                     PROVE  /\ Covered(whole, 0, js)
                            /\ run = 1 /\ ~replaced' => Complete(whole, 0, js)
        BY <1>7, <2>1 DEF Books, Spent, Covered, Complete, Debt, Undisturbed
      <3>2. Covered(response, attempts, jobs) /\ (Undisturbed => Complete(response, attempts, jobs))
        BY <1>3, <3>1 DEF Books, Spent
      <3>3. Covered(whole, 0, js)
        BY <1>3, <1>5, <1>6, <3>2, AnswerCovered
      <3>4. ASSUME run = 1, ~replaced' PROVE Complete(whole, 0, js)
        <4>1. ~replaced /\ ~(response # None /\ MergeMode(response, segment) = "replace")
          BY <1>7, <3>4, Zenon
        <4>2. Complete(response, attempts, jobs)
          BY <3>2, <3>4, <4>1 DEF Undisturbed
        <4>3. response # None => ~rewound /\ (response.id = answer.id \/ response.model = m)
          BY <1>8, <4>1
        <4> QED
          BY <1>3, <1>5, <1>6, <4>2, <4>3, AnswerComplete
      <3> QED
        BY <3>3, <3>4
    <2> QED
      BY <2>2, <2>3, <2>4
  <1> QED
    BY <1>14, <1>15

\* An interruption is only noticed later.
LEMMA Interrupts == ASSUME RInv, Interrupt PROVE RInv'
  <1> USE DEF RInv
  <1>1. /\ place # "ended"
        /\ UNCHANGED <<run, streamed, resumed, counted, foreign, response, lastMode, counts,
                       replaced, asking, pinned, rewound, attempts, place, usage, outcome,
                       detached, jobs, rejected>>
    BY DEF Interrupt, conversation, merging, chain
  <1>2. RequestTyped'
    BY <1>1 DEF RequestTyped
  <1>3. Accounted'
    BY <1>1 DEF Accounted, Tied, Followed, Exempt, JobsAccountedFor
  <1>4. Books'
    BY <1>1 DEF Books, Spent, Covered, Complete, Debt, Undisturbed
  <1> QED
    BY <1>2, <1>3, <1>4

\* The next run begins with what the last one left, and with what it counted.
LEMMA Resumes == ASSUME RInv, Resume PROVE RInv'
  <1> USE DEF RInv
  <1>1. /\ place = "ended" /\ outcome = "suspended" /\ run' = run + 1
        /\ counted' = counted + (usage + BilledBeyond(detached, resumed))
        /\ resumed' = detached /\ response' = detached
        /\ place' = "top" /\ asking' = 1 /\ pinned' = FALSE /\ rewound' = FALSE /\ attempts' = 0
        /\ usage' = 0 /\ outcome' = "none" /\ detached' = None
        /\ UNCHANGED <<jobs, rejected, foreign, replaced>>
    BY DEF Resume, Snapshot
  <1>2. Held(detached) /\ detached # None /\ detached \in Reply
    <2>1. Held(detached)
      BY <1>1 DEF Accounted
    <2> QED
      BY <2>1 DEF Held, None, RequestTyped
  <1>3. BilledBeyond(detached, resumed) \in Int /\ counted \in Int /\ usage \in Int
    <2>1. 0 \in Int
      OBVIOUS
    <2> QED
      BY <1>2, <2>1, DebtInteger DEF RequestTyped
  <1>4. RequestTyped'
    <2>1. asking' \in DOMAIN Chain
      <3>1. asking \in 1..Len(Chain) /\ Len(Chain) \in Nat /\ DOMAIN Chain = 1..Len(Chain)
        BY ChainAssumption DEF RequestTyped
      <3> QED
        BY <1>1, <3>1
    <2>2. pinned' \in BOOLEAN /\ rewound' \in BOOLEAN
      BY <1>1, Zenon
    <2>3. usage' \in Int /\ counted' \in Int /\ attempts' \in Nat
      BY <1>1, <1>3
    <2> QED
      BY <1>1, <1>2, <2>1, <2>2, <2>3 DEF RequestTyped
  <1>5. Accounted'
    BY <1>1, <1>2 DEF Accounted, Tied, Followed, Exempt, JobsAccountedFor
  <1>6. Books'
    <2>1. SUFFICES ASSUME rejected \cap foreign = {}
                   PROVE  Covered(response, Spent, jobs)' /\ ~Undisturbed'
      BY <1>1 DEF Books
    <2>2. Covered(detached, 0, jobs)
      BY <1>1, <2>1 DEF Books
    <2>3. ~Undisturbed'
      BY <1>1 DEF Undisturbed, RequestTyped
    <2>4. Debt(response, Spent)' = Debt(detached, 0)
      <3>1. BilledBeyond(detached, detached) = 0
        <4>1. detached.usage \in Nat /\ detached.failed \in Nat
          BY <1>2, ReplyFields
        <4> QED
          BY <1>2, <4>1 DEF BilledBeyond
      <3>2. Debt(response, Spent)' = counted' + 0 + 0 + BilledBeyond(detached, detached)
        BY <1>1, <1>2 DEF Debt, Spent
      <3>3. Debt(detached, 0) = counted + usage + 0 + BilledBeyond(detached, resumed)
        BY <1>2 DEF Debt
      <3> QED
        BY <1>1, <1>3, <3>1, <3>2, <3>3
    <2> QED
      BY <1>1, <2>2, <2>3, <2>4 DEF Covered
  <1> QED
    BY <1>4, <1>5, <1>6

\* A step that changes nothing.
LEMMA Stays == ASSUME RInv, UNCHANGED requestVars PROVE RInv'
  <1> USE DEF RInv
  <1>1. UNCHANGED <<run, streamed, resumed, counted, foreign, response, lastMode, counts, cause,
                    replaced, asking, pinned, rewound, attempts, place, usage, outcome,
                    detached, jobs, rejected>>
    BY DEF requestVars
  <1>2. RequestTyped'
    BY <1>1 DEF RequestTyped
  <1>3. Accounted'
    BY <1>1 DEF Accounted, Tied, Followed, Exempt, JobsAccountedFor
  <1>4. Books'
    BY <1>1 DEF Books, Spent, Covered, Complete, Debt, Undisturbed
  <1> QED
    BY <1>2, <1>3, <1>4

\* A conversation begins with a request, or with a job its history ends in.
LEMMA Begins == ASSUME RequestInit PROVE RInv
  <1>1. /\ run = 1 /\ response = resumed /\ place = "top" /\ asking = 1 /\ pinned = FALSE
        /\ rewound = FALSE /\ attempts = 0 /\ usage = 0 /\ outcome = "none" /\ detached = None
        /\ rejected = {} /\ foreign = DOMAIN jobs /\ replaced = FALSE
    BY DEF RequestInit
  <1>2. 1 \in DOMAIN Chain
    <2>1. Chain \in Seq(Candidates) /\ Chain # <<>>
      BY ChainAssumption
    <2>2. Len(Chain) \in Nat /\ Len(Chain) # 0 /\ DOMAIN Chain = 1..Len(Chain)
      BY <2>1, EmptySeq
    <2> QED
      BY <2>2
  <1>3. pinned \in BOOLEAN /\ rewound \in BOOLEAN /\ replaced \in BOOLEAN
    BY <1>1, Zenon
  <1>4. CASE resumed = None /\ jobs = <<>> /\ counted = 0
    <2>1. RequestTyped
      BY <1>1, <1>2, <1>3, <1>4 DEF RequestTyped
    <2>2. Accounted
      BY <1>1, <1>4 DEF Accounted, Tied, Followed, JobsAccountedFor
    <2>3. Debt(response, Spent) = 0 /\ ~Held(response)
      BY <1>1, <1>4 DEF Debt, Spent, Held, None
    <2>4. Books
      BY <1>1, <1>4, <2>3, BilledNothing DEF Books, Covered, Complete
    <2> QED
      BY <2>1, <2>2, <2>4 DEF RInv
  <1>5. CASE \E m \in Background :
               /\ resumed = Unpinned(m) /\ counted = 1
               /\ jobs = <<[model |-> m, usage |-> 1, state |-> "running"]>>
    <2>1. PICK m \in Background :
               /\ resumed = Unpinned(m) /\ counted = 1
               /\ jobs = <<[model |-> m, usage |-> 1, state |-> "running"]>>
      BY <1>5
    <2> DEFINE job == [model |-> m, usage |-> 1, state |-> "running"]
               held == "suspended"
               one == 1
               failed == 0
               pin == NoPin
               marked == FALSE
               none == <<>>
    <2>2. job \in Job /\ job.usage = 1 /\ job.model = m /\ job.state = "running"
      BY DEF Job, Models
    <2>3. resumed = ReplyOf(held, one, one, failed, m, pin, marked)
      BY <2>1 DEF Unpinned, ReplyOf
    <2>4. /\ pin \in Models \cup {NoPin} /\ m \in Models /\ failed \in Nat /\ marked \in BOOLEAN
          /\ held \in {"suspended", "complete"} /\ one \in Nat \ {0} /\ one \in Nat
      BY DEF Models
    <2> HIDE DEF held, one, failed, pin, marked
    <2>5. /\ resumed \in Reply /\ resumed.state = "suspended" /\ resumed.id = 1
          /\ resumed.usage = 1 /\ resumed.failed = failed /\ resumed.model = m
      BY <2>3, <2>4, ReplyOfFields DEF held, one
    <2>6. resumed # None /\ Held(resumed)
      BY <2>5, ReplyFields DEF Held
    <2> HIDE DEF job
    <2>7. /\ jobs \in Seq(Job) /\ Len(jobs) = 1 /\ DOMAIN jobs = {1} /\ jobs[1] = job
          /\ jobs = Append(<<>>, job)
      BY <2>1, <2>2 DEF job
    <2>8. Billed(jobs) = 1
      <3>1. none \in Seq(Job) /\ jobs = Append(none, job) /\ Billed(none) = 0
        BY <2>7, BilledNothing
      <3> HIDE DEF none
      <3>2. Billed(jobs) = Billed(none) + job.usage
        BY <2>2, <3>1, BilledAppend
      <3> QED
        BY <2>2, <3>1, <3>2
    <2>9. RequestTyped
      BY <1>1, <1>2, <1>3, <2>1, <2>5, <2>6, <2>7 DEF RequestTyped
    <2>10. Accounted
      BY <1>1, <2>2, <2>5, <2>6, <2>7 DEF Accounted, Tied, Followed, Exempt, JobsAccountedFor
    <2>11. Debt(response, Spent) = 1
      <3>1. BilledBeyond(resumed, resumed) = 0
        BY <2>5, <2>6, ReplyFields DEF BilledBeyond
      <3> QED
        BY <1>1, <2>1, <2>6, <3>1 DEF Debt, Spent
    <2>12. Books
      BY <1>1, <2>2, <2>5, <2>7, <2>8, <2>11 DEF Books, Covered, Complete
    <2> QED
      BY <2>9, <2>10, <2>12 DEF RInv
  <1> QED
    BY <1>4, <1>5 DEF RequestInit

-----------------------------------------------------------------------------
(* The theorems about requests *)

\* Every step keeps the invariant.
LEMMA RequestSteps == ASSUME RInv, [RequestNext]_requestVars PROVE RInv'
  <1>1. CASE Return
    BY <1>1, Returns
  <1>2. CASE Exceed
    BY <1>2, Exceeds
  <1>3. CASE WaitInterrupted
    BY <1>3, WaitsInterrupted
  <1>4. CASE Ask
    BY <1>4, Asks
  <1>5. CASE Answer
    BY <1>5, AnswersMerge
  <1>6. CASE PredicateRejects
    BY <1>6, Rejects
  <1>7. CASE CandidateFails
    BY <1>7, Fails
  <1>8. CASE PinnedFails
    BY <1>8, PinsFail
  <1>9. CASE SendFails
    BY <1>9, SendsFail
  <1>10. CASE StreamBreaks
    BY <1>10, StreamsBreak
  <1>11. CASE Interrupt
    BY <1>11, Interrupts
  <1>12. CASE Resume
    BY <1>12, Resumes
  <1>13. CASE Over
    BY <1>13, Stays DEF Over
  <1>14. CASE UNCHANGED requestVars
    BY <1>14, Stays
  <1> QED
    BY <1>1, <1>2, <1>3, <1>4, <1>5, <1>6, <1>7, <1>8, <1>9, <1>10, <1>11, <1>12, <1>13, <1>14
       DEF RequestNext, Request

\* The invariant: one job at most runs for a request, the one its response is pinned to, and
\* what the conversation counts with that response is what its providers billed.
THEOREM RequestInvariant == RequestSpec => []RInv
  <1>1. RequestInit => RInv
    BY Begins
  <1>2. RInv /\ [RequestNext]_requestVars => RInv'
    BY RequestSteps
  <1> QED
    BY <1>1, <1>2, PTL DEF RequestSpec

\* However a request ends, whatever candidates fail, and whenever the consumer leaves: no
\* server works on a job that nobody will collect.
THEOREM NothingLeftRunning == RequestSpec => []JobsAccountedFor
  <1>1. RInv => JobsAccountedFor
    BY DEF RInv, Accounted
  <1> QED
    BY <1>1, RequestInvariant, PTL

\* Over all the runs of a conversation no usage is counted twice, and a run that kept its
\* consumer and its responses counts all that was billed.
THEOREM EveryUnitCountedOnce == RequestSpec => []UsageCountedOnce
  <1>1. ASSUME RInv PROVE UsageCountedOnce
    <2>1. SUFFICES ASSUME rejected \cap foreign = {}, outcome \in {"result", "suspended"}
                   PROVE  LET total == counted + IF outcome = "suspended" THEN Snapshot ELSE usage
                          IN  /\ total <= Billed(jobs)
                              /\ outcome = "result" /\ run = 1 /\ ~replaced => total = Billed(jobs)
      BY DEF UsageCountedOnce
    <2>2. CASE outcome = "result"
      BY <1>1, <2>1, <2>2 DEF RInv, Books, Undisturbed
    <2>3. CASE outcome = "suspended"
      <3>1. Held(detached) /\ Covered(detached, 0, jobs)
        BY <1>1, <2>1, <2>3 DEF RInv, Books, Accounted
      <3>2. detached # None /\ detached \in Reply
        BY <1>1, <3>1 DEF RInv, RequestTyped, Held, None
      <3>3. BilledBeyond(detached, resumed) \in Int /\ counted \in Int /\ usage \in Int
        <4>1. 0 \in Int
          OBVIOUS
        <4> QED
          BY <1>1, <3>2, <4>1, DebtInteger DEF RInv, RequestTyped
      <3>4. Debt(detached, 0) = counted + Snapshot
        BY <3>2, <3>3 DEF Debt, Snapshot
      <3> QED
        BY <2>3, <3>1, <3>4 DEF Covered
    <2> QED
      BY <2>1, <2>2, <2>3
  <1> QED
    BY <1>1, RequestInvariant, PTL
=============================================================================
