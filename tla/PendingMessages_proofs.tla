------------------------ MODULE PendingMessages_proofs ------------------------
(***************************************************************************)
(* Proofs about PendingMessages, for any messages, any number of responses *)
(* and any number of runs.                                                 *)
(***************************************************************************)
EXTENDS PendingMessages, SequenceTheorems, WellFoundedInduction, TLAPS

-----------------------------------------------------------------------------
(* The invariant *)

\* Past the loop no response is added.
Leaving == {"unwind", "conclude", "close", "ended"}

\* Every message of S was accepted.
Known(S) == \A m \in S : turn[m] \in 1..accepted

\* All of S was accepted before all of T, priority by priority.
Before(S, T) == \A m \in S, n \in T : Earlier(m, n)

Sorted(s) == \A i, j \in DOMAIN s : i < j => Earlier(s[i], s[j])

\* A queue is sorted, each message in the sequence of its priority.
Lined(q) == \A p \in Priorities : Sorted(q[p]) /\ \A i \in DOMAIN q[p] : Priority(q[p][i]) = p

\* Only the last response carries messages, accepted after those delivered.
Sound(h) ==
    /\ Ascending(h) /\ Known(Delivered(h))
    /\ \A i \in Keyed(h) :
          /\ \A j \in Responses(h) : j <= i
          /\ Lined(h[i].waiting) /\ Known(Waiting(h[i].waiting))
          /\ Before(Delivered(h), Waiting(h[i].waiting))

\* Delivered, about to be delivered, waiting: in the order of acceptance.
InLine ==
    /\ Lined(queue) /\ Sorted(groups)
    /\ Known(Waiting(queue) \cup ToSet(groups))
    /\ Before(Delivered(history), ToSet(groups) \cup Waiting(queue))
    /\ Before(ToSet(groups), Waiting(queue))

Order ==
    /\ Sound(history) /\ Sound(saved) /\ InLine
    /\ \A m \in Msgs : turn[m] <= accepted
    /\ pc \notin Leaving => Keyed(history) = {}

\* A message of this run is delivered, being delivered or waiting, unless the run
\* failed; a result is only returned once the queue is closed and empty.
Owed ==
    /\ out \in {"none", "result"} =>
          mine \subseteq Delivered(history) \cup ToSet(groups) \cup Waiting(queue)
    /\ out = "result" => closed /\ queue = Empty
    /\ pc \notin Leaving => out \in {"none", "panicked"}

IInv == PendingTyped /\ Order /\ Owed

-----------------------------------------------------------------------------
(* The last of some positions *)

LEMMA LatestIs ==
    ASSUME NEW n \in Nat, NEW S, S \subseteq 1..n, S # {}
    PROVE  Latest(S) \in S /\ \A j \in S : j <= Latest(S)
  <1> DEFINE R == {p \in Nat \X Nat : p[1] < p[2]}
             T == {n - x : x \in S}
  <1>1. IsWellFoundedOn(R, Nat)
    BY NatLessThanWellFounded, Zenon DEF OpToRel
  <1>2. T \subseteq Nat /\ T # {}
    <2>1. \A x \in S : n - x \in Nat
      OBVIOUS
    <2> QED
      BY <2>1
  <1> HIDE DEF R
  <1>3. PICK m \in T : \A y \in T : ~(<<y, m>> \in R)
    <2> HIDE DEF T
    <2> QED
      BY <1>1, <1>2, WFMin
  <1>4. \A y \in T : m <= y
    <2>1. ASSUME NEW y \in T, y < m PROVE <<y, m>> \in R
      <3> HIDE DEF T
      <3> QED
        BY <2>1, <1>2 DEF R
    <2>2. ASSUME NEW y \in T PROVE ~(y < m)
      BY <1>3, <2>1
    <2> HIDE DEF T
    <2> QED
      BY <2>2, <1>2
  <1>5. PICK x \in S : m = n - x
    OBVIOUS
  <1>6. \A y \in S : y <= x
    <2>1. TAKE y \in S
    <2>2. n - y \in T
      OBVIOUS
    <2>3. n - x <= n - y
      BY <1>4, <1>5, <2>2
    <2>4. x \in Int /\ y \in Int
      OBVIOUS
    <2> QED
      BY <2>3, <2>4
  <1> QED
    BY <1>6 DEF Latest

-----------------------------------------------------------------------------
(* Queues and groups *)

LEMMA EmptyQueue == Empty \in Queues /\ Waiting(Empty) = {} /\ Lined(Empty)
  BY DEF Empty, Queues, Priorities, Waiting, ToSet, Lined, Sorted

LEMMA QueueMessages ==
    ASSUME NEW q \in Queues
    PROVE  /\ q["asap"] \in Seq(Msgs) /\ q["idle"] \in Seq(Msgs)
           /\ Waiting(q) \subseteq Msgs
           /\ \A p \in Priorities : \A i \in DOMAIN q[p] : q[p][i] \in Waiting(q)
           /\ \A m \in Waiting(q) : \E p \in Priorities : \E i \in DOMAIN q[p] : m = q[p][i]
  BY DEF Queues, Priorities, Waiting, ToSet

\* One more message at the end of a sequence, or at the end of its queue.
LEMMA Appended ==
    ASSUME NEW T, NEW s \in Seq(T), NEW e \in T
    PROVE  /\ Append(s, e) \in Seq(T) /\ DOMAIN Append(s, e) = 1..(Len(s) + 1)
           /\ Len(Append(s, e)) = Len(s) + 1
           /\ DOMAIN s = 1..Len(s)
           /\ \A i \in DOMAIN s : Append(s, e)[i] = s[i]
           /\ Append(s, e)[Len(s) + 1] = e
           /\ ToSet(Append(s, e)) = ToSet(s) \cup {e}
  BY DEF ToSet

LEMMA Joined ==
    ASSUME NEW T, NEW s \in Seq(T), NEW t \in Seq(T)
    PROVE  /\ s \o t \in Seq(T) /\ ToSet(s \o t) = ToSet(s) \cup ToSet(t)
           /\ \A i \in DOMAIN s : (s \o t)[i] = s[i]
           /\ \A i \in DOMAIN (s \o t) : i \notin DOMAIN s =>
                 i - Len(s) \in DOMAIN t /\ (s \o t)[i] = t[i - Len(s)]
  <1>1. /\ Len(s \o t) = Len(s) + Len(t) /\ s \o t \in Seq(T)
        /\ \A i \in 1..(Len(s) + Len(t)) :
              (s \o t)[i] = IF i <= Len(s) THEN s[i] ELSE t[i - Len(s)]
    BY ConcatProperties
  <1>2. DOMAIN (s \o t) = 1..(Len(s) + Len(t)) /\ DOMAIN s = 1..Len(s) /\ DOMAIN t = 1..Len(t)
    BY <1>1
  <1>3. \A i \in DOMAIN s : i \in DOMAIN (s \o t) /\ (s \o t)[i] = s[i]
    BY <1>1, <1>2
  <1>4. \A i \in DOMAIN t : i + Len(s) \in DOMAIN (s \o t) /\ (s \o t)[i + Len(s)] = t[i]
    BY <1>1, <1>2
  <1>5. \A i \in DOMAIN (s \o t) : i \notin DOMAIN s =>
           i - Len(s) \in DOMAIN t /\ (s \o t)[i] = t[i - Len(s)]
    BY <1>1, <1>2
  <1>6. ToSet(s \o t) \subseteq ToSet(s) \cup ToSet(t)
    <2>1. ASSUME NEW i \in DOMAIN (s \o t) PROVE (s \o t)[i] \in ToSet(s) \cup ToSet(t)
      <3>1. CASE i \in DOMAIN s
        BY <1>3, <3>1 DEF ToSet
      <3>2. CASE i \notin DOMAIN s
        <4>1. i - Len(s) \in DOMAIN t /\ (s \o t)[i] = t[i - Len(s)]
          BY <1>5, <3>2
        <4> QED
          BY <4>1 DEF ToSet
      <3> QED
        BY <3>1, <3>2
    <2> QED
      BY <2>1 DEF ToSet
  <1>7. ToSet(s) \cup ToSet(t) \subseteq ToSet(s \o t)
    BY <1>3, <1>4 DEF ToSet
  <1> QED
    BY <1>1, <1>3, <1>5, <1>6, <1>7

\* The first of some groups and the others.
LEMMA Taken ==
    ASSUME NEW T, NEW s \in Seq(T), s # <<>>
    PROVE  /\ Head(s) \in T /\ Tail(s) \in Seq(T)
           /\ ToSet(s) = {Head(s)} \cup ToSet(Tail(s))
           /\ 1 \in DOMAIN s /\ Head(s) = s[1]
           /\ \A i \in DOMAIN Tail(s) : i + 1 \in DOMAIN s /\ Tail(s)[i] = s[i + 1]
  <1>1. /\ Tail(s) \in Seq(T) /\ Len(Tail(s)) = Len(s) - 1 /\ Len(s) >= 1
        /\ \A i \in 1..Len(Tail(s)) : Tail(s)[i] = s[i + 1]
    BY HeadTailProperties
  <1>2. DOMAIN s = 1..Len(s) /\ DOMAIN Tail(s) = 1..Len(Tail(s))
    BY <1>1
  <1>3. 1 \in DOMAIN s /\ Head(s) = s[1] /\ Head(s) \in T
    BY <1>1, <1>2
  <1>4. \A i \in DOMAIN Tail(s) : i + 1 \in DOMAIN s /\ Tail(s)[i] = s[i + 1]
    BY <1>1, <1>2
  <1>5. \A i \in DOMAIN s : i = 1 \/ (i - 1 \in DOMAIN Tail(s) /\ s[i] = Tail(s)[i - 1])
    BY <1>1, <1>2
  <1>6. ToSet(s) \subseteq {Head(s)} \cup ToSet(Tail(s))
    <2>1. ASSUME NEW i \in DOMAIN s, i # 1 PROVE s[i] \in ToSet(Tail(s))
      <3>1. i - 1 \in DOMAIN Tail(s) /\ s[i] = Tail(s)[i - 1]
        BY <1>5, <2>1
      <3> QED
        BY <3>1 DEF ToSet
    <2>2. \A i \in DOMAIN s : s[i] \in {Head(s)} \cup ToSet(Tail(s))
      BY <1>3, <2>1
    <2> QED
      BY <2>2 DEF ToSet
  <1>7. {Head(s)} \cup ToSet(Tail(s)) \subseteq ToSet(s)
    BY <1>3, <1>4 DEF ToSet
  <1> QED
    BY <1>1, <1>3, <1>4, <1>6, <1>7

-----------------------------------------------------------------------------
(* Histories *)

LEMMA EntryKinds ==
    ASSUME NEW h \in Seq(Entries), NEW i \in DOMAIN h
    PROVE  /\ h[i] \in Entries
           /\ i \in Deliveries(h) => h[i].message \in Msgs /\ i \notin Responses(h)
           /\ i \in Responses(h) =>
                 h[i].waiting \in Queues /\ h[i] = [kind |-> "response", waiting |-> h[i].waiting]
           /\ i \in Deliveries(h) \/ i \in Responses(h)
  BY DEF Entries, Deliveries, Responses

LEMMA NewEntries ==
    /\ Response \in Entries /\ Response.kind = "response" /\ Response.waiting = Empty
    /\ \A m \in Msgs : /\ Enqueued(m) \in Entries
                       /\ Enqueued(m).kind = "enqueued" /\ Enqueued(m).message = m
  BY EmptyQueue DEF Response, Enqueued, Entries

\* A message enters a history.
LEMMA AddMessage ==
    ASSUME NEW h \in Seq(Entries), NEW m \in Msgs, Keyed(h) = {}, Sound(h),
           Known({m}), Before(Delivered(h), {m})
    PROVE  LET g == Append(h, Enqueued(m)) IN
           g \in Seq(Entries) /\ Delivered(g) = Delivered(h) \cup {m} /\ Keyed(g) = {} /\ Sound(g)
  <1> DEFINE g == Append(h, Enqueued(m))
             n == Len(h) + 1
  <1>0. Enqueued(m) \in Entries /\ Enqueued(m).kind = "enqueued" /\ Enqueued(m).message = m
    BY NewEntries
  <1>1. /\ g \in Seq(Entries) /\ DOMAIN g = 1..n /\ DOMAIN h = 1..(n - 1) /\ n \in Nat \ {0}
        /\ \A i \in DOMAIN h : g[i] = h[i]
        /\ g[n] = Enqueued(m)
    BY <1>0, Appended
  <1> HIDE DEF g, n
  <1>a. DOMAIN g = DOMAIN h \cup {n} /\ n \notin DOMAIN h
    BY <1>1
  <1>2. Deliveries(g) = Deliveries(h) \cup {n} /\ n \notin Deliveries(h)
    BY <1>0, <1>1, <1>a DEF Deliveries
  <1>3. Responses(g) = Responses(h)
    BY <1>0, <1>1 DEF Responses
  <1>4. Keyed(g) = {}
    BY <1>1, <1>3 DEF Keyed, Responses
  <1>5. \A i \in Deliveries(h) : g[i] = h[i] /\ i < n
    BY <1>1 DEF Deliveries
  <1>6. Delivered(g) = Delivered(h) \cup {m}
    BY <1>0, <1>1, <1>2, <1>5 DEF Delivered
  <1>7. Ascending(g)
    <2> SUFFICES ASSUME NEW i \in Deliveries(g), NEW j \in Deliveries(g), i < j
                 PROVE  Earlier(g[i].message, g[j].message)
      BY DEF Ascending
    <2>1. i \in Nat /\ j \in Nat /\ i <= n /\ j <= n
      BY <1>1 DEF Deliveries
    <2>2. i \in Deliveries(h)
      BY <1>2, <2>1
    <2>3. CASE j \in Deliveries(h)
      BY <1>5, <2>2, <2>3 DEF Sound, Ascending
    <2>4. CASE j = n
      BY <1>0, <1>1, <1>5, <2>2, <2>4 DEF Before, Delivered
    <2> QED
      BY <1>2, <2>3, <2>4
  <1>8. Known(Delivered(g))
    BY <1>6 DEF Known, Sound
  <1>9. Sound(g)
    BY <1>4, <1>7, <1>8 DEF Sound
  <1> QED
    BY <1>1, <1>4, <1>6, <1>9 DEF g

\* A response enters a history.
LEMMA AddResponse ==
    ASSUME NEW h \in Seq(Entries), Keyed(h) = {}, Sound(h)
    PROVE  LET g == Append(h, Response) IN
           g \in Seq(Entries) /\ Delivered(g) = Delivered(h) /\ Keyed(g) = {} /\ Sound(g)
  <1> DEFINE g == Append(h, Response)
             n == Len(h) + 1
  <1>0. Response \in Entries /\ Response.kind = "response" /\ Response.waiting = Empty
    BY NewEntries
  <1>1. /\ g \in Seq(Entries) /\ DOMAIN g = 1..n /\ DOMAIN h = 1..(n - 1) /\ n \in Nat \ {0}
        /\ \A i \in DOMAIN h : g[i] = h[i]
        /\ g[n] = Response
    BY <1>0, Appended
  <1> HIDE DEF g, n
  <1>a. DOMAIN g = DOMAIN h \cup {n}
    BY <1>1
  <1>2. Deliveries(g) = Deliveries(h)
    BY <1>0, <1>1, <1>a DEF Deliveries
  <1>3. Responses(g) = Responses(h) \cup {n}
    BY <1>0, <1>1, <1>a DEF Responses
  <1>4. Keyed(g) = {}
    BY <1>0, <1>1, <1>3 DEF Keyed, Responses
  <1>5. \A i \in Deliveries(h) : g[i] = h[i]
    BY <1>1 DEF Deliveries
  <1>6. Delivered(g) = Delivered(h)
    BY <1>2, <1>5 DEF Delivered
  <1>7. Ascending(g)
    BY <1>2, <1>5 DEF Sound, Ascending
  <1>9. Sound(g)
    BY <1>4, <1>6, <1>7 DEF Sound
  <1> QED
    BY <1>1, <1>4, <1>6, <1>9 DEF g

\* A response of a history gets another queue to carry.
LEMMA Rewritten ==
    ASSUME NEW h \in Seq(Entries), NEW k \in Responses(h), NEW q \in Queues
    PROVE  LET g == Carrying(h, k, q) IN
           /\ g \in Seq(Entries) /\ DOMAIN g = DOMAIN h
           /\ Deliveries(g) = Deliveries(h) /\ \A i \in Deliveries(h) : g[i] = h[i]
           /\ Delivered(g) = Delivered(h)
           /\ Responses(g) = Responses(h) /\ g[k].waiting = q
           /\ \A i \in Responses(h) : i # k => g[i] = h[i]
           /\ Ascending(h) => Ascending(g)
  <1> DEFINE g == Carrying(h, k, q)
             e == [kind |-> "response", waiting |-> q]
  <1>0. k \in DOMAIN h
    BY DEF Responses
  <1>1. g = [h EXCEPT ![k] = e]
    <2>1. h[k] = [kind |-> "response", waiting |-> h[k].waiting]
      BY <1>0, EntryKinds
    <2>2. [h[k] EXCEPT !.waiting = q] = e
      BY <2>1
    <2> HIDE DEF e
    <2> QED
      BY <1>0, <2>2, Zenon DEF Carrying
  <1>2. /\ g \in Seq(Entries) /\ DOMAIN g = DOMAIN h /\ g[k] = e
        /\ \A i \in DOMAIN h : i # k => g[i] = h[i]
    <2>1. e \in Entries
      BY DEF Entries
    <2> HIDE DEF e, g
    <2> QED
      BY <1>0, <1>1, <2>1, ExceptSeq
  <1> HIDE DEF g
  <1>3. k \notin Deliveries(h) /\ g[k].kind = "response" /\ g[k].waiting = q
    BY <1>0, <1>2, EntryKinds
  <1>4. Deliveries(g) = Deliveries(h) /\ \A i \in Deliveries(h) : g[i] = h[i]
    BY <1>2, <1>3 DEF Deliveries
  <1>5. Responses(g) = Responses(h) /\ \A i \in Responses(h) : i # k => g[i] = h[i]
    BY <1>2, <1>3 DEF Responses
  <1>6. Delivered(g) = Delivered(h)
    BY <1>4 DEF Delivered
  <1>7. Ascending(h) => Ascending(g)
    BY <1>4 DEF Ascending
  <1> QED
    BY <1>2, <1>3, <1>4, <1>5, <1>6, <1>7 DEF g

\* Only one response carries messages, and it is the one found from the end.
LEMMA OneKeyed ==
    ASSUME NEW h \in Seq(Entries), Sound(h), NEW k \in Keyed(h)
    PROVE  Latest(Keyed(h)) = k /\ Keyed(h) = {k} /\ k \in Responses(h)
  <1>1. Keyed(h) \subseteq Responses(h) /\ Responses(h) \subseteq DOMAIN h
    BY DEF Keyed, Responses
  <1>2. \A i, j \in Keyed(h) : j <= i
    BY <1>1 DEF Sound
  <1>3. \A i \in Keyed(h) : i \in Int
    BY <1>1
  <1>4. \A i \in Keyed(h) : i = k
    <2>1. TAKE i \in Keyed(h)
    <2>2. i <= k /\ k <= i /\ i \in Int /\ k \in Int
      BY <1>2, <1>3
    <2> QED
      BY <2>2
  <1>5. Latest(Keyed(h)) = k
    <2>1. k \in Keyed(h) /\ \A j \in Keyed(h) : j <= k
      BY <1>2
    <2>2. Latest(Keyed(h)) \in Keyed(h)
      BY <2>1, Zenon DEF Latest
    <2> QED
      BY <1>4, <2>2
  <1> QED
    BY <1>1, <1>4, <1>5

\* What persisting the queue makes of a history.
LEMMA PersistSound ==
    ASSUME NEW h \in Seq(Entries), Sound(h), queue \in Queues, CanPersist(h), Lined(queue),
           Known(Waiting(queue)), Before(Delivered(h), Waiting(queue))
    PROVE  /\ Persist(h) \in Seq(Entries) /\ Sound(Persist(h))
           /\ Delivered(Persist(h)) = Delivered(h)
           /\ Waiting(queue) \subseteq Carried(Persist(h))
  <1>1. CASE queue = Empty
    <2>1. Persist(h) = h /\ Waiting(queue) = {}
      BY <1>1, EmptyQueue DEF Persist
    <2> QED
      BY <2>1
  <1>2. CASE queue # Empty
    <2>1. Responses(h) # {} /\ Responses(h) \subseteq 1..Len(h) /\ Len(h) \in Nat
      BY <1>2 DEF CanPersist, Responses
    <2>2. PICK k : k = Latest(Responses(h)) /\ k \in Responses(h) /\ \A j \in Responses(h) : j <= k
      BY <2>1, LatestIs
    <2> DEFINE g == Carrying(h, k, queue)
    <2>3. Persist(h) = g
      BY <1>2, <2>2 DEF Persist
    <2>4. /\ g \in Seq(Entries)
          /\ Delivered(g) = Delivered(h)
          /\ Responses(g) = Responses(h) /\ g[k].waiting = queue
          /\ \A i \in Responses(h) : i # k => g[i] = h[i]
          /\ Ascending(h) => Ascending(g)
      BY <2>2, Rewritten
    <2> HIDE DEF g
    <2>5. Waiting(queue) \subseteq Carried(g)
      BY <2>2, <2>4 DEF Carried
    <2>6. Keyed(g) = {k}
      <3>1. k \in Keyed(g)
        BY <1>2, <2>2, <2>4 DEF Keyed
      <3>2. ASSUME NEW i \in Keyed(g), i # k PROVE FALSE
        <4>1. i \in Keyed(h)
          BY <2>4, <3>2 DEF Keyed
        <4>2. k <= i /\ i \in Responses(h)
          BY <2>2, <4>1 DEF Sound, Keyed
        <4>3. i <= k
          BY <2>2, <4>2
        <4>4. i \in Int /\ k \in Int
          BY <2>1, <2>2, <4>2
        <4> QED
          BY <3>2, <4>2, <4>3, <4>4
      <3> QED
        BY <3>1, <3>2
    <2>7. Sound(g)
      BY <2>2, <2>4, <2>6 DEF Sound
    <2> QED
      BY <2>3, <2>4, <2>5, <2>7
  <1> QED
    BY <1>1, <1>2

\* What restoring makes of a history, and of the queue of the next run.
LEMMA RestoreSound ==
    ASSUME NEW h \in Seq(Entries), Sound(h)
    PROVE  /\ Stripped(h) \in Seq(Entries) /\ Sound(Stripped(h)) /\ Keyed(Stripped(h)) = {}
           /\ Delivered(Stripped(h)) = Delivered(h)
           /\ Restored(h) \in Queues /\ Lined(Restored(h)) /\ Known(Waiting(Restored(h)))
           /\ Before(Delivered(h), Waiting(Restored(h)))
  <1>1. CASE Keyed(h) = {}
    <2>1. Stripped(h) = h /\ Restored(h) = Empty
      BY <1>1 DEF Stripped, Restored
    <2>2. Known({}) /\ Before(Delivered(h), {})
      BY DEF Known, Before
    <2> QED
      BY <1>1, <2>1, <2>2, EmptyQueue
  <1>2. ASSUME NEW k \in Keyed(h)
        PROVE  /\ Stripped(h) \in Seq(Entries) /\ Sound(Stripped(h)) /\ Keyed(Stripped(h)) = {}
               /\ Delivered(Stripped(h)) = Delivered(h)
               /\ Restored(h) \in Queues /\ Lined(Restored(h)) /\ Known(Waiting(Restored(h)))
               /\ Before(Delivered(h), Waiting(Restored(h)))
    <2> DEFINE g == Carrying(h, k, Empty)
    <2>1. Latest(Keyed(h)) = k /\ Keyed(h) = {k} /\ k \in Responses(h)
      BY <1>2, OneKeyed
    <2>2. Stripped(h) = g /\ Restored(h) = h[k].waiting
      BY <2>1 DEF Stripped, Restored
    <2>3. /\ g \in Seq(Entries)
          /\ Delivered(g) = Delivered(h)
          /\ Responses(g) = Responses(h) /\ g[k].waiting = Empty
          /\ \A i \in Responses(h) : i # k => g[i] = h[i]
          /\ Ascending(h) => Ascending(g)
      BY <2>1, EmptyQueue, Rewritten
    <2> HIDE DEF g
    <2>4. Keyed(g) = {}
      BY <2>1, <2>3 DEF Keyed
    <2>5. Sound(g)
      BY <2>3, <2>4 DEF Sound
    <2>6. k \in DOMAIN h
      BY <2>1 DEF Responses
    <2>7. h[k].waiting \in Queues
      BY <2>1, <2>6, EntryKinds
    <2> QED
      BY <1>2, <2>2, <2>3, <2>4, <2>5, <2>7 DEF Sound
  <1> QED
    BY <1>1, <1>2

-----------------------------------------------------------------------------
(* The initial state, and what leaves the messages alone *)

LEMMA InitKeeps == PendingInit => IInv
  <1> SUFFICES ASSUME PendingInit PROVE IInv
    OBVIOUS
  <1>1. Deliveries(<<>>) = {} /\ Responses(<<>>) = {}
    BY DEF Deliveries, Responses
  <1>2. Keyed(<<>>) = {} /\ Delivered(<<>>) = {}
    BY <1>1 DEF Keyed, Delivered
  <1>3. Sound(<<>>)
    BY <1>1, <1>2 DEF Sound, Ascending, Known
  <1>4. InLine
    BY <1>2, EmptyQueue DEF InLine, PendingInit, Sorted, Known, Before, ToSet
  <1>5. Order
    BY <1>2, <1>3, <1>4 DEF Order, PendingInit
  <1>6. Owed
    BY DEF Owed, PendingInit
  <1>7. PendingTyped
    <2>1. history \in Seq(Entries) /\ saved \in Seq(Entries) /\ groups \in Seq(Msgs)
      BY DEF PendingInit
    <2>2. queue \in Queues /\ turn \in [Msgs -> Nat]
      BY EmptyQueue DEF PendingInit
    <2>3. /\ pc = "idle" /\ out = "none" /\ mine = {} /\ groups = <<>>
          /\ closed \in BOOLEAN /\ resolving \in BOOLEAN /\ cancelled \in BOOLEAN
          /\ responses \in Nat /\ runs \in Nat /\ accepted \in Nat
      BY DEF PendingInit
    <2> QED
      BY <2>1, <2>2, <2>3 DEF PendingTyped, Outs
  <1> QED
    BY <1>5, <1>6, <1>7 DEF IInv

-----------------------------------------------------------------------------
(* Steps that accept no message *)

\* Without a new message the order of acceptance is the same before and after.
LEMMA SoundAfter ==
    ASSUME UNCHANGED <<turn, accepted>>, Sound(history'), Sound(saved')
    PROVE  Sound(history)' /\ Sound(saved)'
  BY DEF Sound, Ascending, Known, Before, Lined, Sorted, Earlier

LEMMA LineAfter ==
    ASSUME UNCHANGED <<turn, accepted>>, Lined(queue'), Sorted(groups'),
           Known(Waiting(queue') \cup ToSet(groups')),
           Before(Delivered(history'), ToSet(groups') \cup Waiting(queue')),
           Before(ToSet(groups'), Waiting(queue'))
    PROVE  InLine'
  <1>1. Lined(queue)' /\ Sorted(groups)'
    BY DEF Lined, Sorted, Earlier
  <1>2. Known(Waiting(queue) \cup ToSet(groups))'
    BY DEF Known
  <1>3. Before(Delivered(history), ToSet(groups) \cup Waiting(queue))'
    BY DEF Before, Earlier
  <1>4. Before(ToSet(groups), Waiting(queue))'
    BY DEF Before, Earlier
  <1> QED
    BY <1>1, <1>2, <1>3, <1>4 DEF InLine

LEMMA OrderAfter ==
    ASSUME Order, UNCHANGED <<turn, accepted>>, Sound(history'), Sound(saved'), Lined(queue'),
           Sorted(groups'), Known(Waiting(queue') \cup ToSet(groups')),
           Before(Delivered(history'), ToSet(groups') \cup Waiting(queue')),
           Before(ToSet(groups'), Waiting(queue')),
           pc' \notin Leaving => Keyed(history') = {}
    PROVE  Order'
  <1>1. \A m \in Msgs : turn'[m] <= accepted'
    BY DEF Order
  <1>2. (pc \notin Leaving => Keyed(history) = {})'
    OBVIOUS
  <1>3. Sound(history)' /\ Sound(saved)'
    BY SoundAfter
  <1>4. InLine'
    BY LineAfter
  <1> QED
    BY <1>1, <1>2, <1>3, <1>4 DEF Order

\* Steps that leave the messages where they are.
Still == UNCHANGED <<history, queue, groups, mine, turn, accepted>>

LEMMA StillKeeps ==
    ASSUME Order, Owed, Still, UNCHANGED saved, UNCHANGED closed,
           pc' \in Leaving \/ pc \notin Leaving,
           out' = out \/ out' \notin {"none", "result"},
           pc' \in Leaving \/ out' \in {"none", "panicked"}
    PROVE  Order' /\ Owed'
  <1>1. Order'
    <2>1. Sound(history') /\ Sound(saved')
      BY DEF Order, Still
    <2>2. Lined(queue') /\ Sorted(groups') /\ Known(Waiting(queue') \cup ToSet(groups'))
      BY DEF Order, Still, InLine
    <2>3. /\ Before(Delivered(history'), ToSet(groups') \cup Waiting(queue'))
          /\ Before(ToSet(groups'), Waiting(queue'))
      BY DEF Order, Still, InLine
    <2>4. pc' \notin Leaving => Keyed(history') = {}
      BY DEF Order, Still
    <2>5. UNCHANGED <<turn, accepted>>
      BY DEF Still
    <2> QED
      BY <2>1, <2>2, <2>3, <2>4, <2>5, OrderAfter
  <1>2. Owed'
    BY DEF Owed, Still, Delivered, Deliveries
  <1> QED
    BY <1>1, <1>2

LEMMA CancelKeeps == ASSUME IInv, CancelRun PROVE IInv'
  <1>1. PendingTyped'
    BY DEF IInv, PendingTyped, CancelRun, loopVars
  <1>2. Still /\ UNCHANGED <<saved, closed, pc, out>>
    BY DEF CancelRun, loopVars, Still
  <1>3. Order' /\ Owed'
    BY <1>2, StillKeeps DEF IInv, Owed
  <1> QED
    BY <1>1, <1>3 DEF IInv

LEMMA ContinueKeeps == ASSUME IInv, Continue PROVE IInv'
  <1>1. PendingTyped'
    BY DEF IInv, PendingTyped, Continue, Leave, loopVars, envVars, Outs
  <1>2. Still /\ UNCHANGED <<saved, closed>>
    BY DEF Continue, loopVars, envVars, Still
  <1>3. /\ pc \notin Leaving
        /\ out' = out \/ out' \notin {"none", "result"}
        /\ pc' \in Leaving \/ (out' = out /\ out \in {"none", "panicked"})
    BY DEF IInv, Owed, Continue, Leave, Leaving
  <1>4. Order' /\ Owed'
    BY <1>2, <1>3, StillKeeps DEF IInv
  <1> QED
    BY <1>1, <1>4 DEF IInv

LEMMA DeferCallsKeeps == ASSUME IInv, DeferCalls PROVE IInv'
  <1>1. PendingTyped'
    BY DEF IInv, PendingTyped, DeferCalls, loopVars, envVars
  <1>2. Still /\ UNCHANGED <<saved, closed, out>> /\ pc \notin Leaving
    BY DEF DeferCalls, loopVars, envVars, Still, Leaving
  <1>3. Order' /\ Owed'
    BY <1>2, StillKeeps DEF IInv, Owed
  <1> QED
    BY <1>1, <1>3 DEF IInv

LEMMA UnwindKeeps == ASSUME IInv, Unwind PROVE IInv'
  <1>1. PendingTyped'
    BY DEF IInv, PendingTyped, Unwind, loopVars, envVars, Outs
  <1>2. Still /\ UNCHANGED <<saved, closed>> /\ pc' \in Leaving
    BY DEF Unwind, loopVars, envVars, Still, Leaving
  <1>3. out' = out \/ out' \notin {"none", "result"}
    BY DEF Unwind
  <1>4. Order' /\ Owed'
    BY <1>2, <1>3, StillKeeps DEF IInv
  <1> QED
    BY <1>1, <1>4 DEF IInv

LEMMA CloseKeeps == ASSUME IInv, CloseRun PROVE IInv'
  <1>1. PendingTyped'
    BY DEF IInv, PendingTyped, CloseRun
  <1>2. UNCHANGED <<history, queue, groups, turn, accepted, mine, out>> /\ pc' = "ended"
    BY DEF CloseRun
  <1>3. saved' = saved \/ saved' = history
    BY DEF CloseRun
  <1>4. Order'
    <2>1. Sound(history') /\ Sound(saved')
      BY <1>2, <1>3 DEF IInv, Order
    <2>2. Lined(queue') /\ Sorted(groups') /\ Known(Waiting(queue') \cup ToSet(groups'))
      BY <1>2 DEF IInv, Order, InLine
    <2>3. /\ Before(Delivered(history'), ToSet(groups') \cup Waiting(queue'))
          /\ Before(ToSet(groups'), Waiting(queue'))
      BY <1>2 DEF IInv, Order, InLine
    <2>4. pc' \in Leaving /\ UNCHANGED <<turn, accepted>>
      BY <1>2 DEF Leaving
    <2> QED
      BY <2>1, <2>2, <2>3, <2>4, OrderAfter DEF IInv
  <1>5. Owed'
    <2>1. closed' = TRUE /\ pc' \in Leaving
      BY DEF CloseRun, Leaving
    <2> QED
      BY <1>2, <2>1 DEF IInv, Owed
  <1> QED
    BY <1>1, <1>4, <1>5 DEF IInv

-----------------------------------------------------------------------------
(* Steps that drain the queue *)

\* What is drained is what waited, in the order of acceptance.
LEMMA DrainedAsap ==
    ASSUME queue \in Queues, Lined(queue), DrainAsap
    PROVE  /\ groups' \in Seq(Msgs) /\ queue' \in Queues
           /\ Waiting(queue') \cup ToSet(groups') = Waiting(queue)
           /\ Lined(queue') /\ Sorted(groups') /\ Before(ToSet(groups'), Waiting(queue'))
  <1>1. /\ queue["asap"] \in Seq(Msgs) /\ queue["idle"] \in Seq(Msgs)
        /\ groups' = queue["asap"]
        /\ queue' \in Queues /\ queue'["asap"] = <<>> /\ queue'["idle"] = queue["idle"]
    BY DEF Queues, Priorities, DrainAsap
  <1>2. ToSet(<<>>) = {}
    BY DEF ToSet
  <1>3. Waiting(queue') \cup ToSet(groups') = Waiting(queue)
    BY <1>1, <1>2 DEF Waiting
  <1>4. Lined(queue') /\ Sorted(groups')
    BY <1>1 DEF Lined, Priorities, Sorted
  <1>5. Before(ToSet(groups'), Waiting(queue'))
    <2>1. /\ \A m \in ToSet(groups') : Priority(m) = "asap"
          /\ \A m \in Waiting(queue') : Priority(m) = "idle"
      BY <1>1, <1>2 DEF Lined, Priorities, Waiting, ToSet
    <2> QED
      BY <2>1 DEF Before, Earlier
  <1> QED
    BY <1>1, <1>3, <1>4, <1>5

LEMMA DrainedAll ==
    ASSUME queue \in Queues, Lined(queue), DrainForRedirect
    PROVE  /\ groups' \in Seq(Msgs) /\ queue' = Empty
           /\ Waiting(queue') \cup ToSet(groups') = Waiting(queue)
           /\ Sorted(groups') /\ Before(ToSet(groups'), Waiting(queue'))
  <1> DEFINE s == queue["asap"]
             t == queue["idle"]
  <1>1. /\ s \in Seq(Msgs) /\ t \in Seq(Msgs) /\ groups' = s \o t /\ queue' = Empty
        /\ Sorted(s) /\ Sorted(t)
        /\ \A i \in DOMAIN s : Priority(s[i]) = "asap"
        /\ \A i \in DOMAIN t : Priority(t[i]) = "idle"
        /\ Waiting(queue) = ToSet(s) \cup ToSet(t)
    BY DEF Queues, Priorities, DrainForRedirect, Lined, Waiting
  <1> HIDE DEF s, t
  <1>2. /\ s \o t \in Seq(Msgs) /\ ToSet(s \o t) = ToSet(s) \cup ToSet(t)
        /\ \A i \in DOMAIN s : (s \o t)[i] = s[i]
        /\ \A i \in DOMAIN (s \o t) : i \notin DOMAIN s =>
              i - Len(s) \in DOMAIN t /\ (s \o t)[i] = t[i - Len(s)]
    BY <1>1, Joined
  <1>3. Sorted(groups')
    <2> SUFFICES ASSUME NEW i \in DOMAIN (s \o t), NEW j \in DOMAIN (s \o t), i < j
                 PROVE  Earlier((s \o t)[i], (s \o t)[j])
      BY <1>1 DEF Sorted
    <2>1. i \in Int /\ j \in Int /\ i >= 1
      BY <1>2
    <2>2. DOMAIN s = 1..Len(s) /\ Len(s) \in Nat
      BY <1>1
    <2>3. CASE i \in DOMAIN s /\ j \in DOMAIN s
      BY <1>1, <1>2, <2>3 DEF Sorted
    <2>4. CASE i \in DOMAIN s /\ j \notin DOMAIN s
      <3>1. Priority((s \o t)[i]) = "asap" /\ Priority((s \o t)[j]) = "idle"
        BY <1>1, <1>2, <2>4
      <3> QED
        BY <3>1 DEF Earlier
    <2>5. CASE i \notin DOMAIN s /\ j \notin DOMAIN s
      <3>1. /\ i - Len(s) \in DOMAIN t /\ (s \o t)[i] = t[i - Len(s)]
            /\ j - Len(s) \in DOMAIN t /\ (s \o t)[j] = t[j - Len(s)]
        BY <1>2, <2>5
      <3>2. i - Len(s) < j - Len(s)
        BY <2>1, <2>2
      <3> QED
        BY <1>1, <3>1, <3>2 DEF Sorted
    <2> QED
      BY <2>1, <2>2, <2>3, <2>4, <2>5
  <1>4. Waiting(queue') = {}
    BY <1>1, EmptyQueue
  <1> QED
    BY <1>1, <1>2, <1>3, <1>4 DEF Before

\* Draining into groups keeps the messages of the run in line.
LEMMA DrainKeeps ==
    ASSUME Order, Owed, groups = <<>>, UNCHANGED <<history, saved, mine, turn, accepted>>,
           queue' \in Queues, Lined(queue'), Sorted(groups'),
           Waiting(queue') \cup ToSet(groups') = Waiting(queue),
           Before(ToSet(groups'), Waiting(queue')),
           pc \notin Leaving, out # "panicked",
           out' = "result" => closed' /\ queue' = Empty,
           pc' \in Leaving \/ out' \in {"none", "panicked"}
    PROVE  Order' /\ Owed'
  <1>1. ToSet(groups) = {}
    BY DEF ToSet
  <1>2. Order'
    <2>1. Sound(history') /\ Sound(saved')
      BY DEF Order
    <2>2. Known(Waiting(queue') \cup ToSet(groups'))
      BY <1>1 DEF Order, InLine
    <2>3. Before(Delivered(history'), ToSet(groups') \cup Waiting(queue'))
      <3>1. ToSet(groups') \cup Waiting(queue') = ToSet(groups) \cup Waiting(queue)
        BY <1>1
      <3> QED
        BY <3>1 DEF Order, InLine
    <2>4. pc' \notin Leaving => Keyed(history') = {}
      BY DEF Order
    <2> QED
      BY <2>1, <2>2, <2>3, <2>4, OrderAfter
  <1>3. out' \in {"none", "result"} =>
           mine' \subseteq Delivered(history') \cup ToSet(groups') \cup Waiting(queue')
    BY <1>1 DEF Owed
  <1>4. (out \in {"none", "result"} =>
           mine \subseteq Delivered(history) \cup ToSet(groups) \cup Waiting(queue))'
    BY <1>3
  <1> QED
    BY <1>2, <1>4 DEF Owed

LEMMA LoopTopKeeps == ASSUME IInv, out # "panicked", LoopTop PROVE IInv'
  <1>0. pc \notin Leaving /\ groups = <<>> /\ out = "none"
    BY DEF IInv, PendingTyped, Owed, LoopTop, Leaving
  <1>1. CASE cancelled \/ resolving
    <2>1. Still /\ UNCHANGED <<saved, closed>>
      BY <1>1 DEF LoopTop, loopVars, envVars, Still
    <2>2. /\ out' = out \/ out' = "cancelled"
          /\ pc' \in Leaving \/ out' = out
      BY <1>1 DEF LoopTop, Leave, Leaving
    <2>3. PendingTyped'
      BY <1>0, <1>1 DEF IInv, PendingTyped, LoopTop, Leave, loopVars, envVars, Outs
    <2>4. Order' /\ Owed'
      BY <1>0, <2>1, <2>2, StillKeeps DEF IInv
    <2> QED
      BY <2>3, <2>4 DEF IInv
  <1>2. CASE ~cancelled /\ ~resolving
    <2>1. /\ DrainAsap /\ pc' = "deliver"
          /\ UNCHANGED <<history, saved, mine, turn, accepted, out, closed>>
      BY <1>2 DEF LoopTop, envVars
    <2>2. queue \in Queues /\ Lined(queue)
      BY DEF IInv, PendingTyped, Order, InLine
    <2>3. /\ groups' \in Seq(Msgs) /\ queue' \in Queues
          /\ Waiting(queue') \cup ToSet(groups') = Waiting(queue)
          /\ Lined(queue') /\ Sorted(groups') /\ Before(ToSet(groups'), Waiting(queue'))
      BY <2>1, <2>2, DrainedAsap
    <2>4. Order' /\ Owed'
      BY <1>0, <2>1, <2>3, DrainKeeps DEF IInv
    <2>5. PendingTyped'
      BY <1>2, <2>1, <2>3 DEF IInv, PendingTyped, LoopTop, envVars
    <2> QED
      BY <2>4, <2>5 DEF IInv
  <1> QED
    BY <1>1, <1>2

LEMMA PrepareKeeps == ASSUME IInv, out # "panicked", Prepare PROVE IInv'
  <1>0. pc \notin Leaving /\ groups = <<>> /\ out = "none"
    BY DEF IInv, PendingTyped, Owed, Prepare, Leaving
  <1>1. ASSUME UNCHANGED <<history, queue, closed, groups>>, resolving' \in BOOLEAN,
               Leave("failed") \/ (pc' = "defer" /\ out' = out)
        PROVE  IInv'
    <2>1. Still /\ UNCHANGED <<saved, closed>>
      BY <1>1 DEF Prepare, envVars, Still
    <2>2. /\ out' = out \/ out' = "failed"
          /\ pc' \in Leaving \/ out' = out
      BY <1>1 DEF Leave, Leaving
    <2>3. PendingTyped'
      BY <1>0, <1>1 DEF IInv, PendingTyped, Prepare, Leave, envVars, Outs
    <2>4. Order' /\ Owed'
      BY <1>0, <2>1, <2>2, StillKeeps DEF IInv
    <2> QED
      BY <2>3, <2>4 DEF IInv
  <1>2. ASSUME pc' = "deliverAgain", DrainAsap, resolving' = FALSE,
               UNCHANGED <<history, closed, out>>
        PROVE  IInv'
    <2>1. UNCHANGED <<saved, mine, turn, accepted>>
      BY DEF Prepare, envVars
    <2>2. queue \in Queues /\ Lined(queue)
      BY DEF IInv, PendingTyped, Order, InLine
    <2>3. /\ groups' \in Seq(Msgs) /\ queue' \in Queues
          /\ Waiting(queue') \cup ToSet(groups') = Waiting(queue)
          /\ Lined(queue') /\ Sorted(groups') /\ Before(ToSet(groups'), Waiting(queue'))
      BY <1>2, <2>2, DrainedAsap
    <2>4. Order' /\ Owed'
      BY <1>0, <1>2, <2>1, <2>3, DrainKeeps DEF IInv
    <2>5. PendingTyped'
      BY <1>2, <2>1, <2>3 DEF IInv, PendingTyped, Prepare, envVars
    <2> QED
      BY <2>4, <2>5 DEF IInv
  <1>3. \/ Leave("failed") /\ UNCHANGED loopVars
        \/ /\ resolving /\ pc' = "defer" /\ resolving' = FALSE
           /\ UNCHANGED <<history, queue, closed, groups, out>>
        \/ /\ pc' = "deliverAgain" /\ DrainAsap /\ resolving' = FALSE
           /\ UNCHANGED <<history, closed, out>>
    BY DEF Prepare
  <1>4. ASSUME Leave("failed"), UNCHANGED loopVars PROVE IInv'
    <2>1. UNCHANGED <<history, queue, closed, groups>> /\ resolving' \in BOOLEAN
      BY <1>4 DEF loopVars, IInv, PendingTyped
    <2> QED
      BY <1>1, <1>4, <2>1
  <1>5. ASSUME pc' = "defer", resolving' = FALSE, UNCHANGED <<history, queue, closed, groups, out>>
        PROVE  IInv'
    BY <1>1, <1>5
  <1> QED
    BY <1>2, <1>3, <1>4, <1>5

LEMMA FinishKeeps == ASSUME IInv, out # "panicked", Finish PROVE IInv'
  <1>0. pc \notin Leaving /\ groups = <<>> /\ out = "none"
    BY DEF IInv, PendingTyped, Owed, Finish, Leaving
  <1>1. /\ DrainForRedirect /\ closed' = (queue = Empty)
        /\ UNCHANGED <<history, saved, mine, turn, accepted>>
    BY DEF Finish, DrainForRedirect, envVars
  <1>2. queue \in Queues /\ Lined(queue)
    BY DEF IInv, PendingTyped, Order, InLine
  <1>3. /\ groups' \in Seq(Msgs) /\ queue' = Empty /\ queue' \in Queues /\ Lined(queue')
        /\ Waiting(queue') \cup ToSet(groups') = Waiting(queue)
        /\ Sorted(groups') /\ Before(ToSet(groups'), Waiting(queue'))
    BY <1>1, <1>2, DrainedAll, EmptyQueue
  <1>4. CASE queue = Empty
    <2>1. pc' = "unwind" /\ out' = "result" /\ closed' = TRUE
      BY <1>1, <1>4 DEF Finish, Leave
    <2>2. groups' = <<>>
      <3>1. Waiting(queue) = {}
        BY <1>4, EmptyQueue
      <3>2. ToSet(groups') = {}
        BY <1>3, <3>1
      <3> QED
        BY <1>3, <3>2 DEF ToSet
    <2>3. Order' /\ Owed'
      BY <1>0, <1>1, <1>3, <2>1, DrainKeeps DEF IInv, Leaving
    <2>4. PendingTyped'
      BY <1>1, <1>3, <2>1, <2>2 DEF IInv, PendingTyped, Finish, envVars, Outs
    <2> QED
      BY <2>3, <2>4 DEF IInv
  <1>5. CASE queue # Empty
    <2>1. pc' = "redirect" /\ out' = out
      BY <1>5 DEF Finish
    <2>2. Order' /\ Owed'
      BY <1>0, <1>1, <1>3, <2>1, DrainKeeps DEF IInv
    <2>3. PendingTyped'
      <3>1. closed' \in BOOLEAN
        BY <1>1
      <3> QED
        BY <1>1, <1>3, <2>1, <3>1 DEF IInv, PendingTyped, Finish, envVars
    <2> QED
      BY <2>2, <2>3 DEF IInv
  <1> QED
    BY <1>4, <1>5

-----------------------------------------------------------------------------
(* Steps that change a history *)

\* A group enters the history, and the others follow it or are dropped.
LEMMA GroupDelivered ==
    ASSUME IInv, out # "panicked", groups # <<>>, pc \notin Leaving,
           history' = Append(history, Enqueued(Head(groups))),
           UNCHANGED <<queue, closed, mine, saved, turn, accepted>>,
           \/ groups' = Tail(groups) /\ UNCHANGED <<pc, out>>
           \/ groups' = <<>> /\ Leave("failed")
    PROVE  Order' /\ Owed' /\ history' \in Seq(Entries) /\ groups' \in Seq(Msgs)
  <1> DEFINE m == Head(groups)
  <1>0. /\ history \in Seq(Entries) /\ groups \in Seq(Msgs) /\ Keyed(history) = {}
        /\ Sound(history) /\ InLine
    BY DEF IInv, PendingTyped, Order
  <1>1. /\ m \in Msgs /\ Tail(groups) \in Seq(Msgs)
        /\ ToSet(groups) = {m} \cup ToSet(Tail(groups))
        /\ 1 \in DOMAIN groups /\ m = groups[1]
        /\ \A i \in DOMAIN Tail(groups) : i + 1 \in DOMAIN groups /\ Tail(groups)[i] = groups[i + 1]
    BY <1>0, Taken
  <1> HIDE DEF m
  <1>2. Known({m}) /\ Before(Delivered(history), {m})
    BY <1>0, <1>1 DEF InLine, Known, Before
  <1>3. /\ history' \in Seq(Entries) /\ Delivered(history') = Delivered(history) \cup {m}
        /\ Keyed(history') = {} /\ Sound(history')
    BY <1>0, <1>1, <1>2, AddMessage DEF m
  <1>4. ToSet(groups') \subseteq ToSet(Tail(groups)) /\ groups' \in Seq(Msgs)
    <2>1. groups' = Tail(groups) \/ groups' = <<>>
      OBVIOUS
    <2>2. ToSet(<<>>) = {} /\ <<>> \in Seq(Msgs)
      BY DEF ToSet
    <2> QED
      BY <1>1, <2>1, <2>2
  <1>5. Sorted(groups')
    <2>1. Sorted(Tail(groups))
      <3> SUFFICES ASSUME NEW i \in DOMAIN Tail(groups), NEW j \in DOMAIN Tail(groups), i < j
                   PROVE  Earlier(Tail(groups)[i], Tail(groups)[j])
        BY DEF Sorted
      <3>1. i \in Int /\ j \in Int
        BY <1>1
      <3>2. i + 1 < j + 1
        BY <3>1
      <3> QED
        BY <1>0, <1>1, <3>2 DEF InLine, Sorted
    <2>2. Sorted(<<>>)
      BY DEF Sorted
    <2> QED
      BY <2>1, <2>2
  <1>6. Before({m}, ToSet(Tail(groups)))
    <2> SUFFICES ASSUME NEW i \in DOMAIN Tail(groups) PROVE Earlier(m, Tail(groups)[i])
      BY DEF Before, ToSet
    <2>1. 1 < i + 1
      BY <1>1
    <2> QED
      BY <1>0, <1>1, <2>1 DEF InLine, Sorted
  <1>7. Before(Delivered(history'), ToSet(groups') \cup Waiting(queue'))
    BY <1>0, <1>1, <1>3, <1>4, <1>6 DEF InLine, Before
  <1>8. Before(ToSet(groups'), Waiting(queue')) /\ Lined(queue')
    BY <1>0, <1>1, <1>4 DEF InLine, Before
  <1>9. Known(Waiting(queue') \cup ToSet(groups'))
    BY <1>0, <1>1, <1>4 DEF InLine, Known
  <1>10. Order'
    <2>1. Sound(saved') /\ UNCHANGED <<turn, accepted>>
      BY DEF IInv, Order
    <2> QED
      BY <1>3, <1>5, <1>7, <1>8, <1>9, <2>1, OrderAfter DEF IInv
  <1>11. Owed'
    <2>1. out = "none"
      BY DEF IInv, Owed
    <2>2. mine \subseteq Delivered(history) \cup ToSet(groups) \cup Waiting(queue)
      BY <2>1 DEF IInv, Owed
    <2>3. CASE groups' = Tail(groups) /\ UNCHANGED <<pc, out>>
      <3>1. mine' \subseteq Delivered(history') \cup ToSet(groups') \cup Waiting(queue')
        BY <1>1, <1>3, <2>2, <2>3
      <3>2. (mine \subseteq Delivered(history) \cup ToSet(groups) \cup Waiting(queue))'
        BY <3>1
      <3> QED
        BY <2>1, <2>3, <3>2 DEF Owed
    <2>4. CASE Leave("failed")
      BY <2>4 DEF Leave, Owed, Leaving
    <2> QED
      BY <2>3, <2>4
  <1> QED
    BY <1>3, <1>4, <1>10, <1>11

LEMMA DeliverKeeps == ASSUME IInv, out # "panicked", Deliver PROVE IInv'
  <1>1. /\ pc \in {"deliver", "deliverAgain", "redirect"}
        /\ UNCHANGED <<closed, resolving, cancelled, mine, saved, runs, turn, accepted, responses>>
    BY DEF Deliver, envVars
  <1>2. PICK to \in {"prepare", "request", "loop"} : DeliverGroup(to) \/ DeliveryDone(to)
    BY DEF Deliver
  <1>3. CASE DeliverGroup(to)
    <2>1. Order' /\ Owed' /\ history' \in Seq(Entries) /\ groups' \in Seq(Msgs)
      BY <1>1, <1>3, GroupDelivered DEF DeliverGroup, Leaving
    <2>2. PendingTyped'
      BY <1>1, <1>3, <2>1 DEF IInv, PendingTyped, DeliverGroup, Leave, Outs
    <2> QED
      BY <2>1, <2>2 DEF IInv
  <1>4. CASE DeliveryDone(to)
    <2>1. Still /\ UNCHANGED <<saved, closed, out>> /\ pc \notin Leaving
      BY <1>1, <1>4 DEF DeliveryDone, Still, Leaving
    <2>2. Order' /\ Owed'
      BY <2>1, StillKeeps DEF IInv, Owed
    <2>3. PendingTyped'
      BY <1>1, <1>4 DEF IInv, PendingTyped, DeliveryDone
    <2> QED
      BY <2>2, <2>3 DEF IInv
  <1> QED
    BY <1>2, <1>3, <1>4

LEMMA RequestKeeps == ASSUME IInv, out # "panicked", ModelRequest PROVE IInv'
  <1>0. /\ pc \notin Leaving /\ groups = <<>> /\ out = "none"
        /\ history \in Seq(Entries) /\ Keyed(history) = {} /\ Sound(history)
        /\ UNCHANGED <<queue, closed, groups, mine, saved, turn, accepted>>
    BY DEF IInv, PendingTyped, Order, Owed, ModelRequest, Leaving, envVars
  <1>1. responses' \in Nat /\ pc' \in {"unwind", "answered", "loop"}
        /\ out' \in {"none", "failed"} /\ (out' = "failed" => pc' \in Leaving)
    BY <1>0 DEF IInv, PendingTyped, ModelRequest, Leave, Leaving
  <1>2. CASE UNCHANGED history
    <2>1. Still
      BY <1>0, <1>2 DEF Still
    <2>2. Order' /\ Owed'
      BY <1>0, <1>1, <2>1, StillKeeps DEF IInv
    <2>3. PendingTyped'
      BY <1>0, <1>1, <1>2 DEF IInv, PendingTyped, ModelRequest, envVars, Outs
    <2> QED
      BY <2>2, <2>3 DEF IInv
  <1>3. CASE history' = Append(history, Response)
    <2>1. /\ history' \in Seq(Entries) /\ Delivered(history') = Delivered(history)
          /\ Keyed(history') = {} /\ Sound(history')
      BY <1>0, <1>3, AddResponse
    <2>2. Order'
      <3>1. Sound(saved') /\ Lined(queue') /\ Sorted(groups')
        BY <1>0 DEF IInv, Order, InLine
      <3>2. Known(Waiting(queue') \cup ToSet(groups'))
        BY <1>0 DEF IInv, Order, InLine
      <3>3. /\ Before(Delivered(history'), ToSet(groups') \cup Waiting(queue'))
            /\ Before(ToSet(groups'), Waiting(queue'))
        BY <1>0, <2>1 DEF IInv, Order, InLine
      <3> QED
        BY <1>0, <2>1, <3>1, <3>2, <3>3, OrderAfter DEF IInv
    <2>3. Owed'
      <3>1. mine' \subseteq Delivered(history') \cup ToSet(groups') \cup Waiting(queue')
        BY <1>0, <2>1 DEF IInv, Owed
      <3>2. (mine \subseteq Delivered(history) \cup ToSet(groups) \cup Waiting(queue))'
        BY <3>1
      <3> QED
        BY <1>1, <3>2 DEF Owed
    <2>4. PendingTyped'
      BY <1>0, <1>1, <2>1 DEF IInv, PendingTyped, ModelRequest, envVars, Outs
    <2> QED
      BY <2>2, <2>3, <2>4 DEF IInv
  <1> QED
    BY <1>2, <1>3 DEF ModelRequest

\* The queue goes into the history of a run that ends.
LEMMA PersistKeeps ==
    ASSUME IInv, CanPersist(history), history' = Persist(history),
           UNCHANGED <<queue, closed, groups, mine, saved, turn, accepted>>,
           pc' \in Leaving, out' = out \/ out' \notin {"none", "result"}
    PROVE  Order' /\ Owed' /\ history' \in Seq(Entries)
  <1>1. /\ history \in Seq(Entries) /\ Sound(history) /\ queue \in Queues /\ Lined(queue)
        /\ Known(Waiting(queue)) /\ Before(Delivered(history), Waiting(queue))
    BY DEF IInv, PendingTyped, Order, InLine, Known, Before
  <1>2. history' \in Seq(Entries) /\ Sound(history') /\ Delivered(history') = Delivered(history)
    BY <1>1, PersistSound
  <1>3. Order'
    <2>1. Sound(saved') /\ Lined(queue') /\ Sorted(groups')
      BY DEF IInv, Order, InLine
    <2>2. Known(Waiting(queue') \cup ToSet(groups'))
      BY DEF IInv, Order, InLine
    <2>3. /\ Before(Delivered(history'), ToSet(groups') \cup Waiting(queue'))
          /\ Before(ToSet(groups'), Waiting(queue'))
      BY <1>2 DEF IInv, Order, InLine
    <2> QED
      BY <1>2, <2>1, <2>2, <2>3, OrderAfter DEF IInv
  <1>4. Owed'
    <2>1. out' \in {"none", "result"} =>
             mine' \subseteq Delivered(history') \cup ToSet(groups') \cup Waiting(queue')
      BY <1>2 DEF IInv, Owed
    <2>2. (out \in {"none", "result"} =>
             mine \subseteq Delivered(history) \cup ToSet(groups) \cup Waiting(queue))'
      BY <2>1
    <2> QED
      BY <2>2 DEF IInv, Owed
  <1> QED
    BY <1>2, <1>3, <1>4

\* A run that cannot persist its queue panics.
LEMMA PanicKeeps ==
    ASSUME IInv, out' = "panicked", UNCHANGED <<pc, history, saved, closed>>, Still,
           UNCHANGED <<resolving, cancelled, runs, responses>>
    PROVE  IInv'
  <1>1. Order' /\ Owed'
    BY StillKeeps DEF IInv
  <1>2. PendingTyped'
    BY DEF IInv, PendingTyped, Still, Outs
  <1> QED
    BY <1>1, <1>2 DEF IInv

LEMMA DeferResultKeeps == ASSUME IInv, DeferResult PROVE IInv'
  <1>0. UNCHANGED <<queue, closed, groups, resolving, cancelled, mine, saved, runs, turn,
                    accepted, responses>>
    BY DEF DeferResult, envVars
  <1>1. CASE CanPersist(history)
    <2>1. history' = Persist(history) /\ pc' = "unwind" /\ out' = "deferred"
      BY <1>1 DEF DeferResult, Leave
    <2>2. Order' /\ Owed' /\ history' \in Seq(Entries)
      BY <1>0, <1>1, <2>1, PersistKeeps DEF Leaving
    <2>3. groups = <<>>
      BY DEF IInv, PendingTyped, DeferResult
    <2>4. PendingTyped'
      BY <1>0, <2>1, <2>2, <2>3 DEF IInv, PendingTyped, Outs
    <2> QED
      BY <2>2, <2>4 DEF IInv
  <1>2. CASE ~CanPersist(history)
    <2>1. out' = "panicked" /\ UNCHANGED <<pc, history>>
      BY <1>2 DEF DeferResult
    <2>2. Still
      BY <1>0, <2>1 DEF Still
    <2> QED
      BY <1>0, <2>1, <2>2, PanicKeeps
  <1> QED
    BY <1>1, <1>2

\* The outcome of the run, once its hooks have returned.
Verdict == IF cancelled THEN "cancelled" ELSE out

LEMMA ConcludeShape ==
    ASSUME ConcludeRun
    PROVE  \/ /\ Verdict \notin {"cancelled", "deferred"}
              /\ out' = Verdict /\ pc' = "close" /\ UNCHANGED history
           \/ /\ CanPersist(history) /\ history' = Persist(history)
              /\ out' = Verdict /\ pc' = "close"
           \/ out' = "panicked" /\ UNCHANGED <<pc, history>>
  BY DEF ConcludeRun, Verdict

LEMMA ConcludeKeeps == ASSUME IInv, ConcludeRun PROVE IInv'
  <1>0. /\ UNCHANGED <<queue, closed, groups, resolving, cancelled, mine, saved, runs, turn,
                       accepted, responses>>
        /\ groups = <<>> /\ pc \in Leaving
    BY DEF ConcludeRun, envVars, IInv, PendingTyped, Leaving
  <1>a. Verdict \in Outs /\ (Verdict = out \/ Verdict \notin {"none", "result"})
    BY DEF Verdict, IInv, PendingTyped, Outs
  <1>1. ASSUME out' = Verdict, pc' = "close", UNCHANGED history
        PROVE  IInv'
    <2>1. Still
      BY <1>0, <1>1 DEF Still
    <2>2. Order' /\ Owed'
      BY <1>0, <1>a, <1>1, <2>1, StillKeeps DEF IInv, Leaving
    <2>3. PendingTyped'
      BY <1>0, <1>a, <1>1 DEF IInv, PendingTyped
    <2> QED
      BY <2>2, <2>3 DEF IInv
  <1>2. ASSUME CanPersist(history), history' = Persist(history), out' = Verdict, pc' = "close"
        PROVE  IInv'
    <2>1. Order' /\ Owed' /\ history' \in Seq(Entries)
      BY <1>0, <1>a, <1>2, PersistKeeps DEF Leaving
    <2>2. PendingTyped'
      BY <1>0, <1>a, <1>2, <2>1 DEF IInv, PendingTyped
    <2> QED
      BY <2>1, <2>2 DEF IInv
  <1>3. ASSUME out' = "panicked", UNCHANGED <<pc, history>>
        PROVE  IInv'
    <2>1. Still
      BY <1>0, <1>3 DEF Still
    <2> QED
      BY <1>0, <1>3, <2>1, PanicKeeps
  <1> QED
    BY <1>1, <1>2, <1>3, ConcludeShape

LEMMA StartKeeps == ASSUME IInv, StartRun PROVE IInv'
  <1>1. /\ saved \in Seq(Entries) /\ Sound(saved)
        /\ history' = Stripped(saved) /\ queue' = Restored(saved) /\ groups' = <<>>
        /\ mine' = Waiting(Restored(saved)) /\ pc' = "loop" /\ out' = "none"
        /\ UNCHANGED <<saved, turn, accepted>>
    BY DEF IInv, PendingTyped, Order, StartRun
  <1>2. /\ history' \in Seq(Entries) /\ Sound(history') /\ Keyed(history') = {}
        /\ Delivered(history') = Delivered(saved)
        /\ queue' \in Queues /\ Lined(queue') /\ Known(Waiting(queue'))
        /\ Before(Delivered(history'), Waiting(queue'))
    BY <1>1, RestoreSound
  <1>3. Sorted(groups') /\ ToSet(groups') = {}
    BY <1>1 DEF Sorted, ToSet
  <1>4. Order'
    <2>1. Before(ToSet(groups'), Waiting(queue'))
      BY <1>3 DEF Before
    <2> QED
      BY <1>1, <1>2, <1>3, <2>1, OrderAfter DEF IInv
  <1>5. Owed'
    <2>1. (mine \subseteq Delivered(history) \cup ToSet(groups) \cup Waiting(queue))'
      BY <1>1
    <2> QED
      BY <1>1, <2>1 DEF Owed
  <1>6. PendingTyped'
    <2>1. mine' \subseteq Msgs
      BY <1>1, <1>2, QueueMessages
    <2>2. /\ resolving' \in BOOLEAN /\ closed' \in BOOLEAN /\ cancelled' \in BOOLEAN
          /\ responses' \in Nat /\ runs' \in Nat
      <3>1. resolving' \in BOOLEAN /\ closed' \in BOOLEAN /\ cancelled' \in BOOLEAN
        BY Zenon DEF StartRun
      <3>2. responses' \in Nat /\ runs' \in Nat
        BY DEF StartRun, IInv, PendingTyped
      <3> QED
        BY <3>1, <3>2
    <2>3. saved' \in Seq(Entries) /\ accepted' \in Nat /\ turn' \in [Msgs -> Nat]
      BY <1>1 DEF IInv, PendingTyped
    <2>4. groups' \in Seq(Msgs)
      BY <1>1
    <2> QED
      BY <1>1, <1>2, <2>1, <2>2, <2>3, <2>4 DEF PendingTyped, Outs
  <1> QED
    BY <1>4, <1>5, <1>6 DEF IInv

-----------------------------------------------------------------------------
(* A message is accepted *)

\* It is the last so far, and the order of the others stays.
LEMMA NewTurn ==
    ASSUME turn \in [Msgs -> Nat], accepted \in Nat, NEW m \in Msgs, turn[m] = 0,
           turn' = [turn EXCEPT ![m] = accepted + 1], accepted' = accepted + 1
    PROVE  /\ turn' \in [Msgs -> Nat] /\ turn'[m] = accepted'
           /\ \A n \in Msgs : turn[n] \in 1..accepted =>
                 n # m /\ turn'[n] = turn[n] /\ turn'[n] \in 1..accepted' /\ turn'[n] < turn'[m]
           /\ \A n \in Msgs : turn[n] <= accepted => turn'[n] <= accepted'
  BY Z3

LEMMA EnqueueSound ==
    ASSUME NEW h \in Seq(Entries), Sound(h),
           \A n \in Msgs : turn[n] \in 1..accepted =>
              turn'[n] = turn[n] /\ turn'[n] \in 1..accepted'
    PROVE  Sound(h)'
  <1>1. Delivered(h) \subseteq Msgs
    <2>1. \A i \in Deliveries(h) : i \in DOMAIN h /\ h[i].message \in Msgs
      BY EntryKinds DEF Deliveries
    <2> QED
      BY <2>1 DEF Delivered
  <1>2. Known(Delivered(h))'
    BY <1>1 DEF Sound, Known
  <1>3. Ascending(h)'
    <2>1. \A i \in Deliveries(h) : h[i].message \in Delivered(h)
      BY DEF Delivered
    <2>2. \A i \in Deliveries(h) : turn'[h[i].message] = turn[h[i].message]
      BY <1>1, <2>1 DEF Sound, Known
    <2> QED
      BY <2>2 DEF Sound, Ascending, Earlier
  <1>4. ASSUME NEW i \in Keyed(h)
        PROVE  /\ Lined(h[i].waiting)' /\ Known(Waiting(h[i].waiting))'
               /\ Before(Delivered(h), Waiting(h[i].waiting))'
    <2> DEFINE q == h[i].waiting
    <2>1. i \in DOMAIN h /\ i \in Responses(h)
      BY <1>4 DEF Keyed, Responses
    <2>2. q \in Queues
      BY <2>1, EntryKinds
    <2>3. /\ Waiting(q) \subseteq Msgs
          /\ \A p \in Priorities : \A j \in DOMAIN q[p] : q[p][j] \in Waiting(q)
      BY <2>2, QueueMessages
    <2>4. Lined(q) /\ Known(Waiting(q)) /\ Before(Delivered(h), Waiting(q))
      BY <1>4 DEF Sound
    <2> HIDE DEF q
    <2>5. \A n \in Waiting(q) : turn'[n] = turn[n] /\ turn'[n] \in 1..accepted'
      BY <2>3, <2>4 DEF Known
    <2>6. \A n \in Delivered(h) : turn'[n] = turn[n]
      BY <1>1 DEF Sound, Known
    <2>7. Known(Waiting(q))'
      BY <2>5 DEF Known
    <2>8. Before(Delivered(h), Waiting(q))'
      BY <2>4, <2>5, <2>6 DEF Before, Earlier
    <2>9. Lined(q)'
      <3>1. \A p \in Priorities : \A j \in DOMAIN q[p] : turn'[q[p][j]] = turn[q[p][j]]
        BY <2>3, <2>5
      <3>2. \A p \in Priorities : Sorted(q[p])'
        BY <2>4, <3>1 DEF Lined, Sorted, Earlier
      <3> QED
        BY <2>4, <3>2 DEF Lined
    <2> QED
      BY <2>7, <2>8, <2>9 DEF q
  <1> QED
    BY <1>2, <1>3, <1>4 DEF Sound

LEMMA EnqueueKeeps == ASSUME IInv, NEW m \in Msgs, Enqueue(m) PROVE IInv'
  <1>p. PICK p : p = Priority(m)
    OBVIOUS
  <1>q. PICK q : q = queue[p]
    OBVIOUS
  <1>0. /\ turn \in [Msgs -> Nat] /\ accepted \in Nat /\ queue \in Queues
        /\ history \in Seq(Entries) /\ saved \in Seq(Entries) /\ groups \in Seq(Msgs)
        /\ p \in Priorities /\ q \in Seq(Msgs)
    BY <1>p, <1>q DEF IInv, PendingTyped, Priority, Priorities, Queues
  <1>1. /\ turn[m] = 0 /\ ~closed
        /\ turn' = [turn EXCEPT ![m] = accepted + 1] /\ accepted' = accepted + 1
        /\ mine' = mine \cup {m}
        /\ UNCHANGED <<pc, history, closed, groups, resolving, cancelled, out, saved, responses,
                       runs>>
    BY DEF Enqueue
  <1>2. queue' = [queue EXCEPT ![p] = Append(q, m)]
    BY <1>p, <1>q DEF Enqueue
  <1>3. /\ turn' \in [Msgs -> Nat] /\ turn'[m] = accepted' /\ accepted' \in Nat \ {0}
        /\ \A n \in Msgs : turn[n] \in 1..accepted =>
              n # m /\ turn'[n] = turn[n] /\ turn'[n] \in 1..accepted' /\ turn'[n] < turn'[m]
        /\ \A n \in Msgs : turn[n] <= accepted => turn'[n] <= accepted'
    <2>1. accepted' \in Nat \ {0}
      BY <1>0, <1>1
    <2> QED
      BY <1>0, <1>1, <2>1, NewTurn
  <1>4. /\ Append(q, m) \in Seq(Msgs) /\ DOMAIN Append(q, m) = 1..(Len(q) + 1)
        /\ DOMAIN q = 1..Len(q) /\ Len(q) \in Nat
        /\ \A i \in DOMAIN q : Append(q, m)[i] = q[i]
        /\ Append(q, m)[Len(q) + 1] = m
        /\ ToSet(Append(q, m)) = ToSet(q) \cup {m}
    BY <1>0, Appended
  <1>5. /\ queue' \in Queues /\ queue'[p] = Append(q, m) /\ queue[p] = q
        /\ \A o \in Priorities : o # p => queue'[o] = queue[o]
    BY <1>0, <1>q, <1>2, <1>4 DEF Queues
  <1>6. Waiting(queue') = Waiting(queue) \cup {m}
    BY <1>0, <1>4, <1>5 DEF Waiting, Priorities
  <1>7. /\ Sound(history) /\ Sound(saved) /\ InLine
        /\ \A n \in Waiting(queue) \cup ToSet(groups) : n \in Msgs /\ turn[n] \in 1..accepted
        /\ \A n \in Delivered(history) : n \in Msgs /\ turn[n] \in 1..accepted
    <2>1. Sound(history) /\ Sound(saved) /\ InLine
      BY DEF IInv, Order
    <2>2. Waiting(queue) \subseteq Msgs /\ ToSet(groups) \subseteq Msgs
      BY <1>0, QueueMessages DEF ToSet
    <2>3. Delivered(history) \subseteq Msgs
      <3>1. \A i \in Deliveries(history) : i \in DOMAIN history /\ history[i].message \in Msgs
        BY <1>0, EntryKinds DEF Deliveries
      <3> QED
        BY <3>1 DEF Delivered
    <2> QED
      BY <2>1, <2>2, <2>3 DEF InLine, Known, Sound
  <1>8. Sound(history)' /\ Sound(saved)'
    <2>1. \A n \in Msgs : turn[n] \in 1..accepted =>
             turn'[n] = turn[n] /\ turn'[n] \in 1..accepted'
      BY <1>3
    <2> QED
      BY <1>0, <1>1, <1>7, <2>1, EnqueueSound
  <1>9. InLine'
    <2>1. Lined(queue)'
      <3>1. ASSUME NEW o \in Priorities, o # p
            PROVE  Sorted(queue[o])' /\ (\A i \in DOMAIN queue[o] : Priority(queue[o][i]) = o)'
        <4>1. queue'[o] = queue[o] /\ Sorted(queue[o])
          BY <1>5, <1>7, <3>1 DEF InLine, Lined
        <4>2. \A i \in DOMAIN queue[o] : turn'[queue[o][i]] = turn[queue[o][i]]
          BY <1>0, <1>3, <1>7, QueueMessages
        <4>3. Sorted(queue[o])'
          BY <4>1, <4>2 DEF Sorted, Earlier
        <4> QED
          BY <1>7, <4>1, <4>3 DEF InLine, Lined
      <3>2. \A i \in DOMAIN q : turn'[q[i]] = turn[q[i]] /\ turn'[q[i]] < turn'[m]
        BY <1>0, <1>3, <1>5, <1>7, QueueMessages
      <3>3. Sorted(queue[p])'
        <4> SUFFICES ASSUME NEW i \in DOMAIN Append(q, m), NEW j \in DOMAIN Append(q, m), i < j
                     PROVE  Earlier(Append(q, m)[i], Append(q, m)[j])'
          BY <1>5 DEF Sorted
        <4>1. i \in DOMAIN q
          BY <1>4
        <4>2. CASE j \in DOMAIN q
          <5>1. Earlier(q[i], q[j])
            BY <1>5, <1>7, <4>1, <4>2, <1>0 DEF InLine, Lined, Sorted
          <5> QED
            BY <1>4, <3>2, <4>1, <4>2, <5>1 DEF Earlier
        <4>3. CASE j = Len(q) + 1
          BY <1>4, <3>2, <4>1, <4>3 DEF Earlier
        <4> QED
          BY <1>4, <4>2, <4>3
      <3>4. \A i \in DOMAIN Append(q, m) : Priority(Append(q, m)[i]) = p
        <4>1. \A i \in DOMAIN q : Priority(q[i]) = p
          BY <1>0, <1>5, <1>7 DEF InLine, Lined
        <4>2. \A i \in DOMAIN Append(q, m) : i \in DOMAIN q \/ i = Len(q) + 1
          BY <1>4
        <4> QED
          BY <1>p, <1>4, <4>1, <4>2
      <3> QED
        BY <1>5, <3>1, <3>3, <3>4 DEF Lined
    <2>2. Sorted(groups)'
      <3>1. \A i \in DOMAIN groups : turn'[groups[i]] = turn[groups[i]]
        BY <1>3, <1>7 DEF ToSet
      <3> QED
        BY <1>1, <1>7, <3>1 DEF InLine, Sorted, Earlier
    <2>3. Known(Waiting(queue) \cup ToSet(groups))'
      BY <1>1, <1>3, <1>6, <1>7 DEF Known
    <2>4. Before(Delivered(history), ToSet(groups) \cup Waiting(queue))'
      BY <1>1, <1>3, <1>6, <1>7 DEF InLine, Before, Earlier
    <2>5. Before(ToSet(groups), Waiting(queue))'
      BY <1>1, <1>3, <1>6, <1>7 DEF InLine, Before, Earlier
    <2> QED
      BY <2>1, <2>2, <2>3, <2>4, <2>5 DEF InLine
  <1>10. Order'
    BY <1>1, <1>3, <1>8, <1>9 DEF IInv, Order
  <1>11. Owed'
    BY <1>1, <1>6 DEF IInv, Owed
  <1>12. PendingTyped'
    <2>1. mine' \subseteq Msgs /\ history' \in Seq(Entries) /\ saved' \in Seq(Entries)
      BY <1>0, <1>1 DEF IInv, PendingTyped
    <2> QED
      BY <1>0, <1>1, <1>3, <1>5, <2>1 DEF IInv, PendingTyped
  <1> QED
    BY <1>10, <1>11, <1>12 DEF IInv

-----------------------------------------------------------------------------
(* The theorems *)

LEMMA StepKeeps == ASSUME IInv, [PendingNext]_pendingVars PROVE IInv'
  <1>1. CASE StartRun
    BY <1>1, StartKeeps
  <1>2. CASE LoopStep
    <2>1. out # "panicked"
      BY <1>2 DEF LoopStep
    <2> QED
      BY <1>2, <2>1, LoopTopKeeps, DeliverKeeps, PrepareKeeps, RequestKeeps, ContinueKeeps,
         FinishKeeps, DeferCallsKeeps, DeferResultKeeps, UnwindKeeps, ConcludeKeeps, CloseKeeps
         DEF LoopStep
  <1>3. CASE CancelRun
    BY <1>3, CancelKeeps
  <1>4. CASE \E m \in Msgs : Enqueue(m)
    BY <1>4, EnqueueKeeps
  <1>5. CASE UNCHANGED pendingVars
    <2>1. Still /\ UNCHANGED <<saved, closed, pc, out>>
      BY <1>5 DEF pendingVars, Still
    <2>2. Order' /\ Owed'
      BY <2>1, StillKeeps DEF IInv, Owed
    <2>3. PendingTyped'
      BY <1>5 DEF IInv, PendingTyped, pendingVars
    <2> QED
      BY <2>2, <2>3 DEF IInv
  <1> QED
    BY <1>1, <1>2, <1>3, <1>4, <1>5 DEF PendingNext

\* The inductive invariant: the variables have their types; what is delivered, about to be
\* delivered, waiting and carried was accepted, and in this order; and while a run may still
\* return a result, its messages are delivered, about to be, or waiting.
THEOREM PendingInvariant == PendingSpec => []IInv
  <1>1. PendingInit => IInv
    BY InitKeeps
  <1>2. IInv /\ [PendingNext]_pendingVars => IInv'
    BY StepKeeps
  <1> QED
    BY <1>1, <1>2, PTL DEF PendingSpec

\* Every variable of the pending messages has its type: groups of messages are only in hand
\* where they are delivered.
THEOREM MessagesTyped == PendingSpec => []PendingTyped
  <1>1. IInv => PendingTyped
    BY DEF IInv
  <1> QED
    BY <1>1, PendingInvariant, PTL

\* A result is returned only when every message accepted by or restored into the run has been
\* delivered, whenever producers enqueue (drainForRedirect, enqueue.go:176).
THEOREM ResultsDeliverAll == PendingSpec => []ResultDeliversAll
  <1>1. IInv => ResultDeliversAll
    <2> SUFFICES ASSUME IInv, pc = "ended", out = "result" PROVE mine \subseteq Delivered(history)
      BY DEF ResultDeliversAll
    <2>1. queue = Empty /\ groups = <<>>
      BY DEF IInv, Owed, PendingTyped
    <2>2. Waiting(queue) = {} /\ ToSet(groups) = {}
      BY <2>1, EmptyQueue DEF ToSet
    <2> QED
      BY <2>2 DEF IInv, Owed
  <1> QED
    BY <1>1, PendingInvariant, PTL

\* A history that is sound delivers each message once, and none that it still carries.
LEMMA SoundOnce ==
    ASSUME NEW h \in Seq(Entries), Sound(h)
    PROVE  /\ Ascending(h) /\ Delivered(h) \cap Carried(h) = {}
           /\ \A i, j \in Keyed(h) : i = j
  <1>1. ASSUME NEW m \in Delivered(h), m \in Carried(h) PROVE FALSE
    <2>1. PICK i \in Responses(h) : m \in Waiting(h[i].waiting)
      BY <1>1 DEF Carried
    <2>2. i \in Keyed(h)
      BY <2>1, EmptyQueue DEF Keyed
    <2>3. Before(Delivered(h), Waiting(h[i].waiting))
      BY <2>2 DEF Sound
    <2>4. turn[m] < turn[m]
      BY <1>1, <2>1, <2>3 DEF Before, Earlier
    <2>5. turn[m] \in 1..accepted
      BY <1>1 DEF Sound, Known
    <2> QED
      BY <2>4, <2>5
  <1>2. \A i, j \in Keyed(h) : i = j
    BY OneKeyed
  <1> QED
    BY <1>1, <1>2 DEF Sound

\* What is accepted is delivered once and in the order of acceptance, in any number of runs,
\* deferred, cancelled, failed or resumed (enqueue.go:194-308).
THEOREM DeliveredOnceInOrder == PendingSpec => []OnceInOrder
  <1>1. IInv => OnceInOrder
    <2> SUFFICES ASSUME IInv PROVE OnceInOrder
      OBVIOUS
    <2>1. /\ history \in Seq(Entries) /\ saved \in Seq(Entries)
          /\ Sound(history) /\ Sound(saved)
          /\ Before(Delivered(history), ToSet(groups) \cup Waiting(queue))
      BY DEF IInv, PendingTyped, Order, InLine
    <2>2. ASSUME NEW m \in Delivered(history), m \in Waiting(queue) \cup ToSet(groups)
          PROVE  FALSE
      <3>1. turn[m] < turn[m]
        BY <2>1, <2>2 DEF Before, Earlier
      <3>2. turn[m] \in 1..accepted
        BY <2>1, <2>2 DEF Sound, Known
      <3> QED
        BY <3>1, <3>2
    <2>3. \A h \in {history, saved} :
             /\ Ascending(h) /\ Delivered(h) \cap Carried(h) = {}
             /\ \A i, j \in Keyed(h) : i = j
      BY <2>1, SoundOnce
    <2> QED
      BY <2>2, <2>3 DEF OnceInOrder
  <1> QED
    BY <1>1, PendingInvariant, PTL

\* What waits when a run is concluded as deferred or cancelled is in the history it leaves
\* behind (persistPendingMessages, enqueue.go:225).
THEOREM QueueHandedOn == PendingSpec => ConcludeKeepsQueue
  <1>1. IInv /\ [PendingNext]_pendingVars => [ConcludeStep]_pendingVars
    <2> SUFFICES ASSUME IInv, ConcludeRun, out' \in {"deferred", "cancelled"}
                 PROVE  Waiting(queue) \subseteq HandedOn(history')
      BY DEF ConcludeStep
    <2>1. CanPersist(history) /\ history' = Persist(history)
      BY DEF ConcludeRun
    <2>2. /\ history \in Seq(Entries) /\ Sound(history) /\ queue \in Queues /\ Lined(queue)
          /\ Known(Waiting(queue)) /\ Before(Delivered(history), Waiting(queue))
      BY DEF IInv, PendingTyped, Order, InLine, Known, Before
    <2>3. Waiting(queue) \subseteq Carried(history')
      BY <2>1, <2>2, PersistSound
    <2> QED
      BY <2>3 DEF HandedOn
  <1> QED
    BY <1>1, PendingInvariant, PTL DEF ConcludeKeepsQueue, PendingSpec
=============================================================================
