----------------------- MODULE RealtimeSession_proofs -----------------------
(***************************************************************************)
(* Proofs about RealtimeSession: the session and the connection agree on   *)
(* when the tools of a response are answered, and the results of the tools *)
(* follow the response that called them in the history.                    *)
(*                                                                         *)
(* The invariant has five parts.  Shapes gives the variables their types.  *)
(* Channel says what may stand on the wire between the response the        *)
(* session collects and the one the provider generates.  Recorder, Counted *)
(* and InStep relate the progress of the calls to the history, to the      *)
(* batches of the session and to the batches of the connection.            *)
(*                                                                         *)
(* The bounds of the type invariant need two parts more, in the last       *)
(* section: Numbered, every response but the provider's own answers one    *)
(* input, and Owing, every reply that is owed was reserved for one.        *)
(***************************************************************************)
EXTENDS RealtimeSession, Integers, FiniteSetTheorems, TLAPS

-----------------------------------------------------------------------------
(* The invariant *)

Positive == Nat \ {0}

Event ==
    [kind : {"started"}, n : Positive]
      \cup [kind : {"call"}, call : Calls, n : Positive]
      \cup [kind : {"done"}, n : Positive, cut : BOOLEAN]
      \cup [kind : {"rejected"}, input : Inputs]

Batch == [left : Int, closed : BOOLEAN, counted : BOOLEAN, abandoned : BOOLEAN]
ConnBatch == [unanswered : SUBSET Calls, done : BOOLEAN, input : Calls]
ConnBatches == UNION {[D -> ConnBatch] : D \in SUBSET Nat}
Conn ==
    [active : BOOLEAN, started : BOOLEAN, inputs : Seq(Inputs), deferred : Seq(Inputs),
     batches : ConnBatches]
History == [responses : SUBSET Positive, results : SUBSET Calls, held : SUBSET Calls]
Stages == {"none", "run", "reserve", "send", "record", "done"}

Shapes ==
    /\ open \in Nat /\ server \in Nat
    /\ made \in [all : Nat, alone : Nat]
    /\ batch \in [Responses -> Batch]
    /\ of \in [Calls -> Nat] /\ tool \in [Calls -> Stages]
    /\ history \in History
    /\ conn \in Conn
    /\ wire \in Seq(Event)
    /\ pump \in {"read", "dial", "resume", "ending", "closed"}
    /\ ended \in {"no", "dial", "send", "close"}
    /\ link \in BOOLEAN

\* The event moves its reader from response a to response b, 0 for none.
Moves(e, a, b) ==
    \/ e.kind = "started" /\ a = 0 /\ b = e.n
    \/ e.kind = "call" /\ a = e.n /\ b = e.n
    \/ e.kind = "done" /\ a = e.n /\ b = 0
    \/ e.kind = "rejected" /\ b = a

\* Events that take a reader who is in response a to response b.
Flow(w, a, b) ==
    \E now \in [1 .. Len(w) + 1 -> Nat] :
       /\ now[1] = a /\ now[Len(w) + 1] = b
       /\ \A i \in 1 .. Len(w) : Moves(w[i], now[i], now[i + 1])

\* The responses that the session has heard of, and the calls that it has not.
Heard == {0, open} \cup history.responses \cup {of[c] : c \in Calls}
Unmade == {c \in Calls : of[c] = 0}

\* The responses that the events start are numbered up to all and none is old, their calls
\* are new, and each starts or is made once.
Orderly(w, old, all, new) ==
    /\ \A i \in 1 .. Len(w) : w[i].kind = "started" => w[i].n <= all /\ w[i].n \notin old
    /\ \A i \in 1 .. Len(w) : w[i].kind = "call" => w[i].call \in new
    /\ \A i, j \in 1 .. Len(w) :
         w[i].kind = "started" /\ w[j].kind = "started" /\ w[i].n = w[j].n => i = j
    /\ \A i, j \in 1 .. Len(w) :
         w[i].kind = "call" /\ w[j].kind = "call" /\ w[i].call = w[j].call => i = j

Channel ==
    /\ \A n \in Heard : n <= made.all
    /\ server <= made.all
    /\ Orderly(wire, Heard, made.all, Unmade)
    /\ ~link => wire = <<>> /\ server = 0
    /\ pump = "dial" => ~link
    /\ pump \in {"dial", "resume"} /\ ended = "no" => open = 0
    /\ ended = "no" /\ link => Flow(wire, open, server)
    /\ ended = "no" /\ pump = "read" /\ open # 0 => conn.active /\ conn.started

Recorder ==
    /\ \A c \in Calls : tool[c] = "none" <=> of[c] = 0
    /\ cancelled \subseteq {c \in Calls : of[c] # 0}
    /\ \A c \in history.results : of[c] \in history.responses
    /\ \A n \in Responses : batch[n].closed => n \in history.responses
    /\ ended = "no" =>
         /\ open \notin history.responses
         /\ \A c \in Calls : of[c] # 0 => of[c] = open \/ of[c] \in history.responses
         /\ \A c \in cancelled : of[c] \in history.responses
         /\ \A c \in Calls : tool[c] = "done" =>
              c \in IF of[c] = open THEN history.held ELSE history.results

RunningIn(n) == {c \in CallsOf(n) : tool[c] = "run"}

CountedAt(n) ==
    /\ batch[n].left = Cardinality(RunningIn(n))
    /\ \A c \in cancelled : of[c] = n /\ tool[c] = "run" => batch[n].abandoned
    /\ batch[n].closed /\ ~batch[n].abandoned /\ RunningIn(n) = {} /\ CallsOf(n) # {}
         => batch[n].counted

Counted == \A n \in Responses : CountedAt(n)

OpenCalls(n) == {c \in CallsOf(n) : tool[c] \in {"run", "reserve", "send"}}

\* The connection's batch of response n, against what the session knows of its calls.
Mirrors(n) ==
    /\ n # 0
    /\ conn.batches[n].unanswered = OpenCalls(n)
    /\ conn.batches[n].done <=> n # open
    /\ n # open => OpenCalls(n) # {}
    /\ conn.batches[n].input \in CallsOf(n)
    /\ CallsOf(n) \cap Asked = {}

InStep ==
    ended = "no" =>
      /\ pump = "resume" => DOMAIN conn.batches = {}
      /\ pump \in {"read", "resume"} =>
           /\ \A n \in DOMAIN conn.batches : Mirrors(n)
           /\ open # 0 /\ CallsOf(open) # {} => open \in DOMAIN conn.batches
           /\ \A c \in Calls \cap Asked : of[c] # 0
           /\ \A c \in cancelled : of[c] \notin DOMAIN conn.batches

IInv == Shapes /\ Channel /\ Recorder /\ Counted /\ InStep

-----------------------------------------------------------------------------
(* Events and the sequences of them *)

\* What an event of each kind carries.
LEMMA Carried ==
    ASSUME NEW e \in Event
    PROVE  /\ e.kind \in {"started", "call", "done", "rejected"}
           /\ e.kind # "rejected" => e.n \in Positive
           /\ e.kind = "call" => e.call \in Calls
           /\ e.kind = "rejected" => e.input \in Inputs
  BY DEF Event

\* What the provider writes are events.
LEMMA Written ==
    /\ \A n \in Positive : [kind |-> "started", n |-> n] \in Event
    /\ \A n \in Positive, c \in Calls : [kind |-> "call", call |-> c, n |-> n] \in Event
    /\ \A n \in Positive, cut \in BOOLEAN : [kind |-> "done", n |-> n, cut |-> cut] \in Event
    /\ \A x \in Inputs : [kind |-> "rejected", input |-> x] \in Event
  <1>1. \A n \in Positive : [kind |-> "started", n |-> n] \in Event
    BY Zenon DEF Event
  <1>2. \A n \in Positive, c \in Calls : [kind |-> "call", call |-> c, n |-> n] \in Event
    BY Zenon DEF Event
  <1>3. \A n \in Positive, cut \in BOOLEAN : [kind |-> "done", n |-> n, cut |-> cut] \in Event
    BY Zenon DEF Event
  <1>4. \A x \in Inputs : [kind |-> "rejected", input |-> x] \in Event
    BY Zenon DEF Event
  <1> QED
    BY <1>1, <1>2, <1>3, <1>4

\* The first element of a sequence and the others.
LEMMA Split ==
    ASSUME NEW S, NEW w \in Seq(S), w # <<>>
    PROVE  /\ Len(w) \in Nat \ {0}
           /\ Head(w) \in S /\ Head(w) = w[1]
           /\ Tail(w) \in Seq(S) /\ Len(Tail(w)) = Len(w) - 1
           /\ \A i \in 1 .. Len(w) - 1 : Tail(w)[i] = w[i + 1]
  OBVIOUS

\* A sequence with one element more.
LEMMA Longer ==
    ASSUME NEW S, NEW w \in Seq(S), NEW e \in S
    PROVE  /\ Append(w, e) \in Seq(S) /\ Len(Append(w, e)) = Len(w) + 1
           /\ Len(w) \in Nat
           /\ Append(w, e)[Len(w) + 1] = e
           /\ \A i \in 1 .. Len(w) : Append(w, e)[i] = w[i]
  OBVIOUS

\* Nothing moves the reader when there is nothing to read.
LEMMA FlowEmpty ==
    ASSUME NEW a \in Nat
    PROVE  Flow(<<>>, a, a)
  <1> DEFINE now == [i \in 1 .. 1 |-> a]
  <1>1. now \in [1 .. Len(<<>>) + 1 -> Nat] /\ now[1] = a /\ now[Len(<<>>) + 1] = a
    OBVIOUS
  <1>2. 1 .. Len(<<>>) = {}
    OBVIOUS
  <1> HIDE DEF now
  <1> QED
    BY <1>1, <1>2 DEF Flow

\* The reader of one event goes on from where it takes it.
LEMMA FlowTail ==
    ASSUME NEW w \in Seq(Event), w # <<>>, NEW a, NEW b, Flow(w, a, b)
    PROVE  \E m \in Nat : Moves(Head(w), a, m) /\ Flow(Tail(w), m, b)
  <1>1. PICK now \in [1 .. Len(w) + 1 -> Nat] :
          /\ now[1] = a /\ now[Len(w) + 1] = b
          /\ \A i \in 1 .. Len(w) : Moves(w[i], now[i], now[i + 1])
    BY DEF Flow
  <1>2. /\ Len(w) \in Nat \ {0} /\ Head(w) = w[1]
        /\ Len(Tail(w)) = Len(w) - 1
        /\ \A i \in 1 .. Len(w) - 1 : Tail(w)[i] = w[i + 1]
    BY Split
  <1> DEFINE k == Len(w)
             v == Tail(w)
             next == [i \in 1 .. k |-> now[i + 1]]
  <1>3. 1 \in 1 .. k /\ 2 \in 1 .. k + 1
    BY <1>2
  <1>4. now[2] \in Nat /\ Moves(Head(w), a, now[2])
    <2>1. Moves(w[1], now[1], now[1 + 1])
      BY <1>1, <1>3
    <2> QED
      BY <1>1, <1>2, <1>3, <2>1
  <1>5. /\ next \in [1 .. Len(v) + 1 -> Nat]
        /\ next[1] = now[2] /\ next[Len(v) + 1] = b
    BY <1>1, <1>2
  <1>6. ASSUME NEW i \in 1 .. Len(v)
        PROVE  Moves(v[i], next[i], next[i + 1])
    <2>1. i + 1 \in 1 .. k /\ i \in 1 .. k /\ i \in 1 .. k - 1 /\ i + 1 + 1 \in 1 .. k + 1
      BY <1>2
    <2>2. next[i] = now[i + 1] /\ next[i + 1] = now[i + 1 + 1] /\ v[i] = w[i + 1]
      BY <1>2, <2>1
    <2>3. Moves(w[i + 1], now[i + 1], now[i + 1 + 1])
      BY <1>1, <2>1
    <2> QED
      BY <2>2, <2>3
  <1> HIDE DEF next, v, k
  <1>7. Flow(v, now[2], b)
    BY <1>5, <1>6 DEF Flow
  <1> QED
    BY <1>4, <1>7 DEF v

\* An event more takes the reader one move further.
LEMMA FlowAppend ==
    ASSUME NEW w \in Seq(Event), NEW e \in Event, NEW a, NEW b, NEW d \in Nat,
           Flow(w, a, b), Moves(e, b, d)
    PROVE  Flow(Append(w, e), a, d)
  <1>1. PICK now \in [1 .. Len(w) + 1 -> Nat] :
          /\ now[1] = a /\ now[Len(w) + 1] = b
          /\ \A i \in 1 .. Len(w) : Moves(w[i], now[i], now[i + 1])
    BY DEF Flow
  <1> DEFINE k == Len(w)
             v == Append(w, e)
             next == [i \in 1 .. k + 2 |-> IF i = k + 2 THEN d ELSE now[i]]
  <1>2. /\ k \in Nat /\ Len(v) = k + 1 /\ v[k + 1] = e
        /\ \A i \in 1 .. k : v[i] = w[i]
    BY Longer
  <1>3. next \in [1 .. Len(v) + 1 -> Nat] /\ next[1] = a /\ next[Len(v) + 1] = d
    <2>1. \A i \in 1 .. k + 2 : i # k + 2 => i \in 1 .. k + 1
      BY <1>2
    <2>2. next \in [1 .. k + 2 -> Nat]
      BY <1>1, <2>1
    <2>3. 1 \in 1 .. k + 2 /\ 1 # k + 2 /\ k + 2 \in 1 .. k + 2 /\ Len(v) + 1 = k + 2
      BY <1>2
    <2> QED
      BY <1>1, <2>2, <2>3
  <1>4. ASSUME NEW i \in 1 .. Len(v)
        PROVE  Moves(v[i], next[i], next[i + 1])
    <2>1. CASE i = k + 1
      <3>1. next[i] = b /\ next[i + 1] = d /\ v[i] = e
        BY <1>1, <1>2, <2>1
      <3> QED
        BY <3>1
    <2>2. CASE i # k + 1
      <3>1. i \in 1 .. k /\ i + 1 # k + 2 /\ i # k + 2 /\ i + 1 \in 1 .. k + 2
        BY <1>2, <2>2
      <3>2. next[i] = now[i] /\ next[i + 1] = now[i + 1] /\ v[i] = w[i]
        BY <1>2, <3>1
      <3> QED
        BY <1>1, <3>1, <3>2
    <2> QED
      BY <2>1, <2>2
  <1> HIDE DEF next, v, k
  <1>5. Flow(v, a, d)
    BY <1>3, <1>4 DEF Flow
  <1> QED
    BY <1>5 DEF v

\* Refusals move no reader.
Refusals(inputs) == [i \in 1 .. Len(inputs) |-> [kind |-> "rejected", input |-> inputs[i]]]

\* Events followed by refusals are events.
LEMMA Refused ==
    ASSUME NEW w \in Seq(Event), NEW inputs \in Seq(Inputs)
    PROVE  LET v == w \o Refusals(inputs)
           IN  /\ v \in Seq(Event) /\ Len(v) \in Nat /\ Len(w) \in Nat /\ Len(w) <= Len(v)
               /\ \A i \in 1 .. Len(w) : v[i] = w[i]
               /\ \A i \in 1 .. Len(v) : i \notin 1 .. Len(w) => v[i].kind = "rejected"
  <1> DEFINE r == Refusals(inputs)
             v == w \o r
             k == Len(inputs)
  <1>1. k \in Nat /\ r \in Seq(Event) /\ Len(r) = k
    <2>1. \A i \in 1 .. Len(inputs) : [kind |-> "rejected", input |-> inputs[i]] \in Event
      BY Written
    <2> QED
      BY <2>1 DEF Refusals
  <1>2. \A i \in 1 .. k : r[i].kind = "rejected"
    BY DEF Refusals
  <1> HIDE DEF r, k
  <1>3. /\ v \in Seq(Event) /\ Len(v) = Len(w) + k /\ Len(w) \in Nat
        /\ \A i \in 1 .. Len(w) + k : v[i] = IF i <= Len(w) THEN w[i] ELSE r[i - Len(w)]
    BY <1>1
  <1> HIDE DEF v
  <1>4. \A i \in 1 .. Len(w) : v[i] = w[i]
    BY <1>1, <1>3
  <1>5. ASSUME NEW i \in 1 .. Len(v), i \notin 1 .. Len(w)
        PROVE  v[i].kind = "rejected"
    <2>1. i - Len(w) \in 1 .. k /\ v[i] = r[i - Len(w)]
      BY <1>1, <1>3, <1>5
    <2> QED
      BY <1>2, <2>1
  <1> QED
    BY <1>1, <1>3, <1>4, <1>5 DEF v, r

\* They take a reader where they took him before,
LEMMA FlowRefused ==
    ASSUME NEW w \in Seq(Event), NEW inputs \in Seq(Inputs), NEW a, NEW b, Flow(w, a, b)
    PROVE  Flow(w \o Refusals(inputs), a, b)
  <1>1. PICK now \in [1 .. Len(w) + 1 -> Nat] :
          /\ now[1] = a /\ now[Len(w) + 1] = b
          /\ \A i \in 1 .. Len(w) : Moves(w[i], now[i], now[i + 1])
    BY DEF Flow
  <1> DEFINE k == Len(w)
             v == w \o Refusals(inputs)
             next == [i \in 1 .. Len(v) + 1 |-> IF i <= k + 1 THEN now[i] ELSE b]
  <1>2. /\ k \in Nat /\ Len(v) \in Nat /\ k <= Len(v)
        /\ \A i \in 1 .. k : v[i] = w[i]
        /\ \A i \in 1 .. Len(v) : i \notin 1 .. k => v[i].kind = "rejected"
    BY Refused
  <1> HIDE DEF v, k
  <1>3. b \in Nat
    BY <1>1, <1>2 DEF k
  <1>4. /\ next \in [1 .. Len(v) + 1 -> Nat]
        /\ next[1] = a /\ next[Len(v) + 1] = b
    <2>1. \A i \in 1 .. Len(v) + 1 : i <= k + 1 => i \in 1 .. k + 1
      BY <1>2
    <2>2. next \in [1 .. Len(v) + 1 -> Nat]
      BY <1>1, <1>3, <2>1 DEF k
    <2>3. 1 \in 1 .. Len(v) + 1 /\ 1 <= k + 1 /\ Len(v) + 1 \in 1 .. Len(v) + 1
      BY <1>2
    <2>4. Len(v) + 1 <= k + 1 => Len(v) + 1 = k + 1
      BY <1>2
    <2> QED
      BY <1>1, <2>2, <2>3, <2>4 DEF k
  <1>5. ASSUME NEW i \in 1 .. Len(v)
        PROVE  Moves(v[i], next[i], next[i + 1])
    <2>1. i \in 1 .. Len(v) + 1 /\ i + 1 \in 1 .. Len(v) + 1
      BY <1>2
    <2>2. CASE i <= k
      <3>1. i \in 1 .. k /\ i <= k + 1 /\ i + 1 <= k + 1
        BY <1>2, <2>2
      <3>2. next[i] = now[i] /\ next[i + 1] = now[i + 1] /\ v[i] = w[i]
        BY <1>2, <2>1, <3>1
      <3> QED
        BY <1>1, <3>1, <3>2 DEF k
    <2>3. CASE ~(i <= k)
      <3>1. i \notin 1 .. k /\ ~(i + 1 <= k + 1) /\ (i <= k + 1 => i = k + 1)
        BY <1>2, <2>3
      <3>2. next[i] = b /\ next[i + 1] = b
        BY <1>1, <2>1, <3>1 DEF k
      <3> QED
        BY <1>2, <3>1, <3>2 DEF Moves
    <2> QED
      BY <2>2, <2>3
  <1> HIDE DEF next
  <1>6. Flow(v, a, b)
    BY <1>4, <1>5 DEF Flow
  <1> QED
    BY <1>6 DEF v

\* What is orderly stays so as it is read; the first event tells what is no longer new.
LEMMA OrderlyTail ==
    ASSUME NEW w \in Seq(Event), w # <<>>, NEW old, NEW all, NEW new,
           Orderly(w, old, all, new)
    PROVE  /\ Orderly(Tail(w), old, all, new)
           /\ Head(w).kind = "started" =>
                /\ Head(w).n <= all /\ Head(w).n \notin old
                /\ Orderly(Tail(w), old \cup {Head(w).n}, all, new)
           /\ Head(w).kind = "call" =>
                /\ Head(w).call \in new
                /\ Orderly(Tail(w), old, all, new \ {Head(w).call})
  <1> DEFINE k == Len(w)
             v == Tail(w)
  <1>1. /\ k \in Nat \ {0} /\ Head(w) = w[1]
        /\ Len(v) = k - 1
        /\ \A i \in 1 .. k - 1 : v[i] = w[i + 1]
    BY Split
  <1> HIDE DEF v, k
  <1>2. 1 \in 1 .. k /\ \A i \in 1 .. k - 1 : i + 1 \in 1 .. k /\ i + 1 # 1
    BY <1>1
  <1>3. \A i, j \in 1 .. k - 1 : i + 1 = j + 1 => i = j
    BY <1>1
  <1>4. Orderly(v, old, all, new)
    <2>1. /\ \A i \in 1 .. k - 1 : v[i].kind = "started" => v[i].n <= all /\ v[i].n \notin old
          /\ \A i \in 1 .. k - 1 : v[i].kind = "call" => v[i].call \in new
      BY <1>1, <1>2 DEF Orderly, k
    <2>2. \A i, j \in 1 .. k - 1 :
            v[i].kind = "started" /\ v[j].kind = "started" /\ v[i].n = v[j].n => i = j
      BY <1>1, <1>2, <1>3 DEF Orderly, k
    <2>3. \A i, j \in 1 .. k - 1 :
            v[i].kind = "call" /\ v[j].kind = "call" /\ v[i].call = v[j].call => i = j
      BY <1>1, <1>2, <1>3 DEF Orderly, k
    <2> QED
      BY <1>1, <2>1, <2>2, <2>3 DEF Orderly
  <1>5. ASSUME Head(w).kind = "started"
        PROVE  /\ Head(w).n <= all /\ Head(w).n \notin old
               /\ Orderly(v, old \cup {Head(w).n}, all, new)
    <2>1. \A i \in 1 .. k - 1 : v[i].kind = "started" => v[i].n # Head(w).n
      BY <1>1, <1>2, <1>5 DEF Orderly, k
    <2> QED
      BY <1>1, <1>2, <1>4, <1>5, <2>1 DEF Orderly, k
  <1>6. ASSUME Head(w).kind = "call"
        PROVE  /\ Head(w).call \in new
               /\ Orderly(v, old, all, new \ {Head(w).call})
    <2>1. \A i \in 1 .. k - 1 : v[i].kind = "call" => v[i].call # Head(w).call
      BY <1>1, <1>2, <1>6 DEF Orderly, k
    <2> QED
      BY <1>1, <1>2, <1>4, <1>6, <2>1 DEF Orderly, k
  <1> QED
    BY <1>4, <1>5, <1>6 DEF v

\* An event more: a response with a higher number, a call that is not there yet, or neither.
LEMMA OrderlyAppend ==
    ASSUME NEW w \in Seq(Event), NEW e \in Event, NEW old, NEW all \in Nat, NEW new,
           Orderly(w, old, all, new)
    PROVE  /\ e.kind \in {"done", "rejected"} => Orderly(Append(w, e), old, all, new)
           /\ e.kind = "started" /\ e.n = all + 1 /\ all + 1 \notin old
                => Orderly(Append(w, e), old, all + 1, new)
           /\ ( /\ e.kind = "call" /\ e.call \in new
                /\ \A i \in 1 .. Len(w) : w[i].kind = "call" => w[i].call # e.call )
                => Orderly(Append(w, e), old, all, new)
  <1> DEFINE k == Len(w)
             v == Append(w, e)
  <1>1. /\ k \in Nat /\ Len(v) = k + 1 /\ v[k + 1] = e
        /\ \A i \in 1 .. k : v[i] = w[i]
    BY Longer
  <1>2. \A i \in 1 .. k + 1 : i \in 1 .. k \/ i = k + 1
    BY <1>1
  <1>3. \A i \in 1 .. k : w[i].kind = "started" => w[i].n \in Nat
    BY Carried DEF Positive, k
  <1> HIDE DEF v, k
  <1>4. ASSUME e.kind \in {"done", "rejected"} PROVE Orderly(v, old, all, new)
    BY <1>1, <1>2, <1>4 DEF Orderly, k
  <1>5. ASSUME e.kind = "started", e.n = all + 1, all + 1 \notin old
        PROVE  Orderly(v, old, all + 1, new)
    <2>1. \A i \in 1 .. k : w[i].kind = "started" => w[i].n <= all + 1 /\ w[i].n # e.n
      BY <1>3, <1>5 DEF Orderly, k
    <2>2. e.n <= all + 1
      BY <1>5
    <2> QED
      BY <1>1, <1>2, <1>5, <2>1, <2>2 DEF Orderly, k
  <1>6. ASSUME e.kind = "call", e.call \in new,
               \A i \in 1 .. k : w[i].kind = "call" => w[i].call # e.call
        PROVE  Orderly(v, old, all, new)
    BY <1>1, <1>2, <1>6 DEF Orderly, k
  <1>7. ( /\ e.kind = "call" /\ e.call \in new
          /\ \A i \in 1 .. k : w[i].kind = "call" => w[i].call # e.call )
          => Orderly(v, old, all, new)
    BY <1>6, Zenon
  <1>8. e.kind \in {"done", "rejected"} => Orderly(v, old, all, new)
    BY <1>4, Zenon
  <1>9. e.kind = "started" /\ e.n = all + 1 /\ all + 1 \notin old
          => Orderly(v, old, all + 1, new)
    BY <1>5, Zenon
  <1> QED
    BY <1>7, <1>8, <1>9, Zenon DEF v, k

\* and start and make nothing else.
LEMMA OrderlyRefused ==
    ASSUME NEW w \in Seq(Event), NEW inputs \in Seq(Inputs), NEW old, NEW all, NEW new,
           Orderly(w, old, all, new)
    PROVE  Orderly(w \o Refusals(inputs), old, all, new)
  <1> DEFINE v == w \o Refusals(inputs)
  <1>1. /\ \A i \in 1 .. Len(w) : v[i] = w[i]
        /\ \A i \in 1 .. Len(v) : i \notin 1 .. Len(w) => v[i].kind = "rejected"
    BY Refused
  <1> HIDE DEF v
  <1> QED
    BY <1>1 DEF Orderly, v

\* Fewer old responses do no harm.
LEMMA OrderlyLess ==
    ASSUME NEW w, NEW old, NEW all, NEW new, Orderly(w, old, all, new), NEW fewer \in SUBSET old
    PROVE  Orderly(w, fewer, all, new)
  BY DEF Orderly

-----------------------------------------------------------------------------
(* The connection *)

Elements(s) == {s[i] : i \in DOMAIN s}
AskedOf(c) == Elements(c.inputs) \cup Elements(c.deferred)

\* What the connection holds.
LEMMA ConnParts ==
    ASSUME NEW c \in Conn
    PROVE  /\ c.active \in BOOLEAN /\ c.started \in BOOLEAN
           /\ c.inputs \in Seq(Inputs) /\ c.deferred \in Seq(Inputs)
           /\ c.batches \in ConnBatches
  BY DEF Conn

\* The batches of the connection are those of some responses.
LEMMA BatchParts ==
    ASSUME NEW f \in ConnBatches
    PROVE  /\ f \in [DOMAIN f -> ConnBatch] /\ DOMAIN f \in SUBSET Nat
           /\ \A n \in DOMAIN f : f[n] \in ConnBatch
  BY DEF ConnBatches

\* A function from response numbers to batches of the connection is a table of batches.
LEMMA BatchMade ==
    ASSUME NEW D \in SUBSET Nat, NEW f \in [D -> ConnBatch]
    PROVE  f \in ConnBatches
  BY DEF ConnBatches

\* What the provider does with a request: nothing, it starts a response, or refuses it.
Puts(events) ==
    \/ wire' = events /\ server' = server /\ made' = made
    \/ /\ server = 0 /\ server' = made.all + 1
       /\ made' = [made EXCEPT !.all = @ + 1]
       /\ wire' = Append(events, [kind |-> "started", n |-> made.all + 1])
    \/ /\ server # 0 /\ server' = server /\ made' = made
       /\ \E inputs \in Seq(Inputs) : wire' = events \o Refusals(inputs)

\* A request changes what the connection has asked for and nothing else of it.
LEMMA RequestEffect ==
    ASSUME NEW c \in Conn, NEW inputs \in Seq(Inputs), NEW events,
           Requested(c, inputs, events)
    PROVE  /\ conn' \in Conn /\ conn'.active = TRUE /\ conn'.started = c.started
           /\ conn'.batches = c.batches
           /\ AskedOf(conn') \subseteq AskedOf(c) \cup Elements(inputs)
           /\ Puts(events)
  <1>1. /\ c.active \in BOOLEAN /\ c.started \in BOOLEAN
        /\ c.inputs \in Seq(Inputs) /\ c.deferred \in Seq(Inputs)
        /\ c.batches \in ConnBatches
    BY ConnParts
  <1>2. CASE c.active
    <2> DEFINE d == c.deferred \o inputs
    <2>1. conn' = [c EXCEPT !.deferred = d] /\ wire' = events /\ server' = server /\ made' = made
      BY <1>2 DEF Requested
    <2>2. d \in Seq(Inputs) /\ Elements(d) \subseteq Elements(c.deferred) \cup Elements(inputs)
      <3>1. /\ d \in Seq(Inputs) /\ Len(d) = Len(c.deferred) + Len(inputs)
            /\ \A i \in 1 .. Len(d) : d[i] = IF i <= Len(c.deferred) THEN c.deferred[i]
                                             ELSE inputs[i - Len(c.deferred)]
            /\ DOMAIN d = 1 .. Len(d) /\ DOMAIN c.deferred = 1 .. Len(c.deferred)
            /\ DOMAIN inputs = 1 .. Len(inputs)
            /\ Len(c.deferred) \in Nat /\ Len(inputs) \in Nat
        BY <1>1
      <3> HIDE DEF d
      <3>2. ASSUME NEW i \in 1 .. Len(d)
            PROVE  \/ i \in 1 .. Len(c.deferred) /\ d[i] = c.deferred[i]
                   \/ i - Len(c.deferred) \in 1 .. Len(inputs)
                      /\ d[i] = inputs[i - Len(c.deferred)]
        BY <3>1
      <3> QED
        BY <3>1, <3>2 DEF Elements
    <2> HIDE DEF d
    <2>3. conn' \in Conn
      BY <2>1, <2>2 DEF Conn
    <2>4. /\ conn'.active = TRUE /\ conn'.started = c.started /\ conn'.batches = c.batches
          /\ conn'.inputs = c.inputs /\ conn'.deferred = d
      BY <1>1, <1>2, <2>1 DEF Conn
    <2> QED
      BY <2>1, <2>2, <2>3, <2>4 DEF AskedOf, Puts
  <1>3. CASE ~c.active
    <2>1. conn' = [c EXCEPT !.active = TRUE, !.inputs = inputs]
      BY <1>3 DEF Requested
    <2>2. conn' \in Conn
      BY <2>1 DEF Conn
    <2>3. /\ conn'.active = TRUE /\ conn'.started = c.started /\ conn'.batches = c.batches
          /\ conn'.inputs = inputs /\ conn'.deferred = c.deferred
      BY <2>1 DEF Conn
    <2>4. Puts(events)
      BY <1>3 DEF Requested, Puts, Refusals
    <2> QED
      BY <2>2, <2>3, <2>4 DEF AskedOf
  <1> QED
    BY <1>2, <1>3

\* What was deferred is asked for, or nothing is.
LEMMA DeferredEffect ==
    ASSUME NEW c \in Conn, NEW events, SentDeferred(c, events)
    PROVE  /\ conn' \in Conn /\ conn'.started = c.started /\ conn'.batches = c.batches
           /\ c.active => conn'.active
           /\ AskedOf(conn') \subseteq AskedOf(c)
           /\ Puts(events)
  <1>1. CASE c.active \/ c.deferred = <<>>
    BY <1>1 DEF SentDeferred, Quiet, Puts
  <1>2. CASE ~(c.active \/ c.deferred = <<>>)
    <2> DEFINE d == [c EXCEPT !.deferred = <<>>]
    <2>1. c.deferred \in Seq(Inputs) /\ <<>> \in Seq(Inputs)
      BY ConnParts
    <2>2. d \in Conn
      BY <2>1 DEF Conn
    <2>3. d.started = c.started /\ d.batches = c.batches /\ d.inputs = c.inputs /\ d.deferred = <<>>
      BY DEF Conn
    <2> HIDE DEF d
    <2>4. Requested(d, c.deferred, events)
      BY <1>2 DEF SentDeferred, d
    <2>5. AskedOf(d) = Elements(c.inputs)
      BY <2>3 DEF AskedOf, Elements
    <2>6. /\ conn' \in Conn /\ conn'.active = TRUE /\ conn'.started = c.started
          /\ conn'.batches = c.batches
          /\ AskedOf(conn') \subseteq AskedOf(d) \cup Elements(c.deferred)
          /\ Puts(events)
      BY <2>1, <2>2, <2>3, <2>4, RequestEffect
    <2> QED
      BY <2>5, <2>6 DEF AskedOf
  <1> QED
    BY <1>1, <1>2

\* Forgetting a batch leaves the others as they are.
LEMMA WithoutMade ==
    ASSUME NEW f \in ConnBatches, NEW n
    PROVE  /\ Without(f, n) \in ConnBatches /\ DOMAIN Without(f, n) = DOMAIN f \ {n}
           /\ \A m \in DOMAIN f \ {n} : Without(f, n)[m] = f[m]
  <1>1. DOMAIN f \in SUBSET Nat /\ \A m \in DOMAIN f : f[m] \in ConnBatch
    BY BatchParts
  <1>2. DOMAIN f \ {n} \in SUBSET Nat /\ Without(f, n) \in [DOMAIN f \ {n} -> ConnBatch]
    BY <1>1 DEF Without
  <1>3. Without(f, n) \in ConnBatches
    BY <1>2, BatchMade
  <1> QED
    BY <1>3 DEF Without

\* The answer of a response is asked for once its batch is ready, which then is gone.
LEMMA AnsweredEffect ==
    ASSUME NEW c \in Conn, NEW n, NEW events, Answered(c, n, events)
    PROVE  /\ conn' \in Conn /\ conn'.started = c.started
           /\ c.active => conn'.active
           /\ Puts(events)
           /\ Ready(c, n) => /\ conn'.batches = Without(c.batches, n)
                             /\ AskedOf(conn') \subseteq AskedOf(c) \cup {c.batches[n].input}
           /\ ~Ready(c, n) => /\ conn'.batches = c.batches
                              /\ AskedOf(conn') \subseteq AskedOf(c)
  <1>1. CASE Ready(c, n)
    <2> DEFINE d == [c EXCEPT !.batches = Without(@, n)]
               x == c.batches[n].input
    <2>1. c.batches \in ConnBatches
      BY ConnParts
    <2>2. d \in Conn
      BY <2>1, WithoutMade DEF Conn
    <2>3. /\ d.started = c.started /\ d.batches = Without(c.batches, n)
          /\ d.inputs = c.inputs /\ d.deferred = c.deferred
      BY DEF Conn
    <2>4. x \in Inputs
      <3>1. c.batches[n] \in ConnBatch
        BY <1>1, <2>1, BatchParts DEF Ready
      <3> QED
        BY <3>1 DEF ConnBatch, Inputs
    <2>5. <<x>> \in Seq(Inputs) /\ Elements(<<x>>) = {x}
      BY <2>4 DEF Elements
    <2> HIDE DEF d, x
    <2>6. Requested(d, <<x>>, events)
      BY <1>1 DEF Answered, d, x
    <2>7. /\ conn' \in Conn /\ conn'.active = TRUE /\ conn'.started = d.started
          /\ conn'.batches = d.batches
          /\ AskedOf(conn') \subseteq AskedOf(d) \cup Elements(<<x>>)
          /\ Puts(events)
      BY <2>2, <2>5, <2>6, RequestEffect
    <2>8. AskedOf(d) = AskedOf(c)
      BY <2>3 DEF AskedOf
    <2> QED
      BY <1>1, <2>3, <2>5, <2>7, <2>8 DEF x
  <1>2. CASE ~Ready(c, n)
    BY <1>2, DeferredEffect DEF Answered
  <1> QED
    BY <1>1, <1>2

\* Whatever the provider puts on the wire keeps it in order.
LEMMA PutsOrderly ==
    ASSUME NEW events \in Seq(Event), NEW old, NEW new,
           server \in Nat, made \in [all : Nat, alone : Nat], server <= made.all,
           \A n \in old : n <= made.all,
           Orderly(events, old, made.all, new), Puts(events)
    PROVE  /\ wire' \in Seq(Event) /\ server' \in Nat /\ made' \in [all : Nat, alone : Nat]
           /\ made.all <= made'.all /\ server' <= made'.all
           /\ Orderly(wire', old, made'.all, new)
           /\ \A a : Flow(events, a, server) => Flow(wire', a, server')
  <1>1. CASE wire' = events /\ server' = server /\ made' = made
    BY <1>1
  <1>2. CASE /\ server = 0 /\ server' = made.all + 1
             /\ made' = [made EXCEPT !.all = @ + 1]
             /\ wire' = Append(events, [kind |-> "started", n |-> made.all + 1])
    <2> DEFINE e == [kind |-> "started", n |-> made.all + 1]
               m == made.all
    <2>1. m \in Nat /\ m + 1 \in Nat /\ m + 1 \in Positive /\ made' \in [all : Nat, alone : Nat]
          /\ made'.all = m + 1
      BY <1>2 DEF Positive
    <2>2. e \in Event
      BY <2>1, Written
    <2>3. e.kind = "started" /\ e.n = m + 1 /\ Moves(e, 0, m + 1) /\ m + 1 \notin old
      BY <2>1 DEF Moves
    <2> HIDE DEF e, m
    <2>4. wire' = Append(events, e)
      BY <1>2 DEF e
    <2>5. Orderly(wire', old, m + 1, new)
      BY <2>1, <2>2, <2>3, <2>4, OrderlyAppend DEF m
    <2>6. ASSUME NEW a, Flow(events, a, server) PROVE Flow(wire', a, server')
      <3>1. Flow(events, a, 0)
        BY <1>2, <2>6
      <3>2. Flow(Append(events, e), a, m + 1)
        BY <2>1, <2>2, <2>3, <3>1, FlowAppend
      <3> QED
        BY <1>2, <2>4, <3>2 DEF m
    <2>7. wire' \in Seq(Event)
      BY <2>2, <2>4
    <2> QED
      BY <1>2, <2>1, <2>5, <2>6, <2>7 DEF m
  <1>3. CASE /\ server # 0 /\ server' = server /\ made' = made
             /\ \E inputs \in Seq(Inputs) : wire' = events \o Refusals(inputs)
    <2>1. PICK inputs \in Seq(Inputs) : wire' = events \o Refusals(inputs)
      BY <1>3
    <2>2. wire' \in Seq(Event)
      BY <2>1, Refused
    <2>3. Orderly(wire', old, made.all, new)
      BY <2>1, OrderlyRefused
    <2>4. \A a : Flow(events, a, server) => Flow(wire', a, server)
      BY <2>1, FlowRefused
    <2> QED
      BY <1>3, <2>2, <2>3, <2>4
  <1> QED
    BY <1>1, <1>2, <1>3 DEF Puts

-----------------------------------------------------------------------------
(* The steps that matter to the invariant *)

\* The calls of the response that the session collects.
OpenResponseCalls == IF open = 0 THEN {} ELSE CallsOf(open)

\* finishResponse closes the batch of the response, and counts its answer if nobody has; the
\* response enters the history, and the results that waited for it.
LEMMA FinishEffect ==
    ASSUME Shapes, NEW cut, Finish(open, cut)
    PROVE  /\ open' = 0
           /\ batch' \in [Responses -> Batch]
           /\ \A m \in Responses :
                ~(m = open /\ OpenResponseCalls # {}) => batch'[m] = batch[m]
           /\ \A m \in Responses : m = open /\ OpenResponseCalls # {} =>
                /\ batch'[m].left = batch[m].left
                /\ batch'[m].abandoned = batch[m].abandoned
                /\ batch'[m].closed
                /\ batch[m].counted => batch'[m].counted
                /\ batch[m].left = 0 /\ ~batch[m].abandoned => batch'[m].counted
           /\ history' \in History
           /\ history'.responses = history.responses \cup ({open} \ {0})
           /\ history'.results = history.results \cup (history.held \cap OpenResponseCalls)
           /\ history'.held = history.held \ OpenResponseCalls
  <1> DEFINE calls == OpenResponseCalls
             over == [batch[open] EXCEPT !.closed = TRUE]
             asks == calls # {} /\ Answerable(over)
             last == [over EXCEPT !.counted = @ \/ asks]
  <1>1. /\ open' = 0
        /\ batch' = IF calls = {} THEN batch ELSE [batch EXCEPT ![open] = last]
        /\ history' = Recorded(history, open, calls)
    BY DEF Finish, OpenResponseCalls
  <1>2. open \in Nat /\ batch \in [Responses -> Batch] /\ history \in History
    BY DEF Shapes
  <1>3. /\ history' \in History
        /\ history'.responses = history.responses \cup ({open} \ {0})
        /\ history'.results = history.results \cup (history.held \cap calls)
        /\ history'.held = history.held \ calls
    BY <1>1, <1>2 DEF Recorded, History, Positive
  <1>4. ASSUME open \in Responses, calls # {}
        PROVE  /\ last \in Batch
               /\ last.left = batch[open].left /\ last.abandoned = batch[open].abandoned
               /\ last.closed = TRUE
               /\ batch[open].counted => last.counted
               /\ batch[open].left = 0 /\ ~batch[open].abandoned => last.counted
    <2> DEFINE b == batch[open]
    <2>1. b \in Batch
      BY <1>2, <1>4
    <2> HIDE DEF b
    <2>2. b.left \in Int /\ b.counted \in BOOLEAN /\ b.abandoned \in BOOLEAN
      BY <2>1 DEF Batch
    <2>3. over = [b EXCEPT !.closed = TRUE]
      BY DEF b
    <2>4. /\ over \in Batch /\ over.left = b.left /\ over.closed = TRUE
          /\ over.counted = b.counted /\ over.abandoned = b.abandoned
      BY <2>1, <2>3 DEF Batch
    <2> HIDE DEF over
    <2>5. asks <=> (b.left = 0 /\ ~b.counted /\ ~b.abandoned)
      BY <1>4, <2>4 DEF Answerable
    <2> DEFINE more == over.counted \/ asks
    <2>6. last = [over EXCEPT !.counted = more]
      OBVIOUS
    <2>7. more \in BOOLEAN
      OBVIOUS
    <2>8. (b.counted => more) /\ (b.left = 0 /\ ~b.abandoned => more)
      BY <2>2, <2>4, <2>5
    <2> HIDE DEF asks, last, more
    <2>9. /\ last \in Batch /\ last.left = b.left /\ last.closed = TRUE
          /\ last.counted = more /\ last.abandoned = b.abandoned
      BY <2>4, <2>6, <2>7 DEF Batch
    <2> QED
      BY <2>8, <2>9 DEF b
  <1> HIDE DEF last, calls
  <1>5. batch' \in [Responses -> Batch]
    BY <1>1, <1>2, <1>4
  <1>6. ASSUME NEW m \in Responses, ~(m = open /\ calls # {})
        PROVE  batch'[m] = batch[m]
    BY <1>1, <1>2, <1>6
  <1>7. ASSUME NEW m \in Responses, m = open /\ calls # {}
        PROVE  batch'[m] = last
    BY <1>1, <1>2, <1>7
  <1>8. ASSUME NEW m \in Responses, m = open /\ calls # {}
        PROVE  /\ batch'[m].left = batch[m].left
               /\ batch'[m].abandoned = batch[m].abandoned
               /\ batch'[m].closed
               /\ batch[m].counted => batch'[m].counted
               /\ batch[m].left = 0 /\ ~batch[m].abandoned => batch'[m].counted
    BY <1>4, <1>7, <1>8
  <1> QED
    BY <1>1, <1>3, <1>5, <1>6, <1>8 DEF calls

\* What the invariant is about, except for the reason why the session ends.
kept == <<open, batch, of, tool, cancelled, history, conn, wire, server, made, link, pump>>

\* Steps that only count replies, wake goroutines or end the session.
Aside == UNCHANGED kept /\ (ended' = ended \/ ended' \in {"dial", "send", "close"})

\* The steps that ask for the answer to a text.
Writes ==
    /\ link /\ ended = "no"
    /\ \E x \in Texts \cup Prompts : Requested(conn, <<x>>, wire)
    /\ UNCHANGED <<open, batch, of, tool, cancelled, history, link, pump, ended>>

\* Every step is one of these: the actions that matter to nobody here are taken together.
LEMMA Actions ==
    ASSUME [RealtimeNext]_realtimeVars
    PROVE  \/ Aside \/ (\E t \in Texts : SendWrites(t)) \/ DeliverWrites
           \/ SpeechResponse \/ Drop \/ (\E cut \in BOOLEAN : ServerEnds(cut))
           \/ \E c \in Calls : ServerCalls(c)
           \/ HandleStarted \/ HandleCall \/ HandleDone \/ HandleRejected
           \/ Redial \/ Reconnects \/ HandleReconnected \/ PumpEnds \/ PumpCloses
           \/ \E c \in Calls : \/ ToolReturns(c) \/ ToolReserves(c) \/ ToolSends(c)
                               \/ ToolSendFails(c) \/ ToolRecords(c)
  <1>1. CASE UNCHANGED realtimeVars
    BY <1>1 DEF realtimeVars, Aside, kept
  <1>2. CASE GivesUp
    BY <1>2 DEF GivesUp, Aside, kept, channel
  <1>3. ASSUME NEW t \in Texts, SendText(t) \/ SendFails(t)
        PROVE  Aside
    <2>1. CASE SendText(t)
      BY <2>1 DEF SendText, Aside, kept, channel, socket
    <2>2. CASE SendFails(t)
      BY <2>2 DEF SendFails, Aside, kept, channel, socket
    <2> QED
      BY <1>3, <2>1, <2>2
  <1>4. ASSUME NEW p \in Prompts, Enqueue(p)
        PROVE  Aside
    BY <1>4 DEF Enqueue, Aside, kept, session, channel, socket
  <1>5. CASE Deliver \/ DeliverFails
    <2>1. CASE Deliver
      BY <2>1 DEF Deliver, Aside, kept, channel, socket
    <2>2. CASE DeliverFails
      BY <2>2 DEF DeliverFails, Aside, kept, channel
    <2> QED
      BY <1>5, <2>1, <2>2
  <1>6. CASE Close
    BY <1>6 DEF Close, Aside, kept, session, channel
  <1>7. ASSUME NEW w \in Waiters, WaitForReply(w) \/ Waiting(w)
        PROVE  Aside
    BY <1>7 DEF WaitForReply, Waiting, WaitChecks, WaitWakes, Aside, kept, session, channel, socket
  <1> QED
    BY <1>1, <1>2, <1>3, <1>4, <1>5, <1>6, <1>7
       DEF RealtimeNext, Pump, Tool, Answering, Sending, Delivering

\* The texts and prompts that are written need no telling apart where their progress is not
\* looked at.
LEMMA Cases ==
    ASSUME [RealtimeNext]_realtimeVars
    PROVE  \/ Aside \/ Writes
           \/ SpeechResponse \/ Drop \/ (\E cut \in BOOLEAN : ServerEnds(cut))
           \/ \E c \in Calls : ServerCalls(c)
           \/ HandleStarted \/ HandleCall \/ HandleDone \/ HandleRejected
           \/ Redial \/ Reconnects \/ HandleReconnected \/ PumpEnds \/ PumpCloses
           \/ \E c \in Calls : \/ ToolReturns(c) \/ ToolReserves(c) \/ ToolSends(c)
                               \/ ToolSendFails(c) \/ ToolRecords(c)
  <1>1. ASSUME NEW t \in Texts, SendWrites(t)
        PROVE  Writes
    BY <1>1 DEF SendWrites, Writes, session, socket
  <1>2. CASE DeliverWrites
    <2>1. (CHOOSE p \in Taken : TRUE) \in Texts \cup Prompts
      BY <1>2 DEF DeliverWrites, Taken
    <2> QED
      BY <1>2, <2>1 DEF DeliverWrites, Writes, session, socket
  <1> QED
    BY <1>1, <1>2, Actions

\* The connection hears that a response is over: its batch goes when it is answered.
LEMMA DoneEffect ==
    ASSUME Shapes, HandleDone
    PROVE  LET n == Head(wire).n
               B == conn.batches
               D == conn'.batches
           IN  /\ conn' \in Conn /\ Puts(Tail(wire))
               /\ n \notin DOMAIN B => D = B /\ AskedOf(conn') \subseteq AskedOf(conn)
               /\ n \in DOMAIN B /\ B[n].unanswered = {} =>
                    /\ DOMAIN D = DOMAIN B \ {n}
                    /\ AskedOf(conn') \subseteq AskedOf(conn) \cup {B[n].input}
               /\ n \in DOMAIN B /\ B[n].unanswered # {} =>
                    /\ DOMAIN D = DOMAIN B /\ AskedOf(conn') \subseteq AskedOf(conn)
                    /\ D[n].unanswered = B[n].unanswered /\ D[n].input = B[n].input /\ D[n].done
               /\ \A m \in DOMAIN B : m # n => D[m] = B[m]
  <1> DEFINE n == Head(wire).n
             B == conn.batches
             c1 == [conn EXCEPT !.active = FALSE, !.started = FALSE, !.inputs = <<>>]
             over == [c1 EXCEPT !.batches[n].done = TRUE]
             c2 == IF n \in DOMAIN B THEN over ELSE c1
  <1>1. Answered(c2, n, Tail(wire))
    BY DEF HandleDone
  <1>2. conn \in Conn /\ B \in ConnBatches
    BY ConnParts DEF Shapes
  <1>3. c1 \in Conn /\ c1.batches = B /\ c1.inputs = <<>> /\ c1.deferred = conn.deferred
    <2>1. <<>> \in Seq(Inputs)
      OBVIOUS
    <2> QED
      BY <1>2, <2>1 DEF Conn
  <1>4. AskedOf(c1) \subseteq AskedOf(conn)
    BY <1>3 DEF AskedOf, Elements
  <1>5. /\ B \in [DOMAIN B -> ConnBatch] /\ DOMAIN B \in SUBSET Nat
        /\ \A m \in DOMAIN B : B[m] \in ConnBatch
    BY <1>2, BatchParts
  <1> HIDE DEF c1, n, B
  <1>6. CASE n \notin DOMAIN B
    <2>1. c2 = c1 /\ ~Ready(c1, n)
      BY <1>3, <1>6 DEF Ready
    <2> QED
      BY <1>1, <1>2, <1>3, <1>4, <1>6, <2>1, AnsweredEffect DEF n, B
  <1>7. CASE n \in DOMAIN B
    <2> DEFINE b == [B[n] EXCEPT !.done = TRUE]
               C == [B EXCEPT ![n] = b]
    <2>1. b \in ConnBatch /\ b.done = TRUE /\ b.unanswered = B[n].unanswered /\ b.input = B[n].input
      BY <1>5, <1>7 DEF ConnBatch
    <2>2. c2 = [c1 EXCEPT !.batches = C]
      BY <1>3, <1>7
    <2> HIDE DEF c2, b
    <2>3. /\ C \in [DOMAIN B -> ConnBatch] /\ DOMAIN C = DOMAIN B /\ C[n] = b
          /\ \A m \in DOMAIN B : m # n => C[m] = B[m]
      BY <1>5, <1>7, <2>1
    <2>4. C \in ConnBatches
      BY <1>5, <2>3, BatchMade
    <2> HIDE DEF C
    <2>5. c2 \in Conn /\ c2.batches = C /\ c2.inputs = c1.inputs /\ c2.deferred = c1.deferred
      BY <1>3, <2>2, <2>4 DEF Conn
    <2>6. AskedOf(c2) \subseteq AskedOf(conn)
      BY <1>4, <2>5 DEF AskedOf
    <2>7. Ready(c2, n) <=> B[n].unanswered = {}
      BY <1>7, <2>1, <2>3, <2>5 DEF Ready
    <2>8. /\ conn' \in Conn /\ Puts(Tail(wire))
          /\ Ready(c2, n) => /\ conn'.batches = Without(C, n)
                             /\ AskedOf(conn') \subseteq AskedOf(c2) \cup {C[n].input}
          /\ ~Ready(c2, n) => conn'.batches = C /\ AskedOf(conn') \subseteq AskedOf(c2)
      BY <1>1, <2>5, AnsweredEffect
    <2>9. /\ DOMAIN Without(C, n) = DOMAIN B \ {n}
          /\ \A m \in DOMAIN B : m # n => Without(C, n)[m] = B[m]
      BY <2>3, <2>4, WithoutMade
    <2>10. CASE Ready(c2, n)
      BY <1>7, <2>1, <2>3, <2>6, <2>7, <2>8, <2>9, <2>10 DEF n, B
    <2>11. CASE ~Ready(c2, n)
      BY <1>7, <2>1, <2>3, <2>6, <2>7, <2>8, <2>11 DEF n, B
    <2> QED
      BY <2>10, <2>11
  <1> QED
    BY <1>6, <1>7

\* The result of a call is written: the last one of a response that is over asks for the
\* answer, and so does one whose response the connection does not know.
LEMMA SendsEffect ==
    ASSUME Shapes, NEW c \in Calls, ToolSends(c)
    PROVE  LET n == of[c]
               B == conn.batches
               D == conn'.batches
               rest == B[n].unanswered \ {c}
           IN  /\ conn' \in Conn /\ Puts(wire)
               /\ conn'.started = conn.started
               /\ conn.active => conn'.active
               /\ n \notin DOMAIN B => D = B /\ AskedOf(conn') \subseteq AskedOf(conn) \cup {c}
               /\ n \in DOMAIN B /\ B[n].done /\ rest = {} =>
                    /\ DOMAIN D = DOMAIN B \ {n}
                    /\ AskedOf(conn') \subseteq AskedOf(conn) \cup {c}
               /\ n \in DOMAIN B /\ ~(B[n].done /\ rest = {}) =>
                    /\ DOMAIN D = DOMAIN B /\ AskedOf(conn') \subseteq AskedOf(conn)
                    /\ D[n].unanswered = rest /\ D[n].done = B[n].done /\ D[n].input = c
               /\ \A m \in DOMAIN B : m # n => D[m] = B[m]
  <1> DEFINE n == of[c]
             B == conn.batches
             rest == B[n].unanswered \ {c}
             c1 == [conn EXCEPT !.batches[n].unanswered = @ \ {c}, !.batches[n].input = c]
  <1>1. /\ n \notin DOMAIN B => Requested(conn, <<c>>, wire)
        /\ n \in DOMAIN B /\ Ready(c1, n) => Answered(c1, n, wire)
        /\ n \in DOMAIN B /\ ~Ready(c1, n) => Quiet(c1, wire)
    BY DEF ToolSends
  <1>2. conn \in Conn /\ B \in ConnBatches
    BY ConnParts DEF Shapes
  <1>3. /\ B \in [DOMAIN B -> ConnBatch] /\ DOMAIN B \in SUBSET Nat
        /\ \A m \in DOMAIN B : B[m] \in ConnBatch
    BY <1>2, BatchParts
  <1>4. <<c>> \in Seq(Inputs) /\ Elements(<<c>>) = {c}
    BY DEF Inputs, Elements
  <1> HIDE DEF n, B
  <1>5. CASE n \notin DOMAIN B
    BY <1>1, <1>2, <1>4, <1>5, RequestEffect DEF n, B
  <1>6. CASE n \in DOMAIN B
    <2> DEFINE b == [B[n] EXCEPT !.unanswered = rest, !.input = c]
               C == [B EXCEPT ![n] = b]
    <2>1. B[n].unanswered \in SUBSET Calls
      BY <1>3, <1>6 DEF ConnBatch
    <2>2. b \in ConnBatch /\ b.done = B[n].done /\ b.unanswered = rest /\ b.input = c
      BY <1>3, <1>6, <2>1 DEF ConnBatch
    <2>3. c1 = [conn EXCEPT !.batches = C]
      <3>1. conn.batches = B
        BY DEF B
      <3> QED
        BY <1>2, <1>3, <1>6, <3>1 DEF Conn
    <2> HIDE DEF c1, b
    <2>4. /\ C \in [DOMAIN B -> ConnBatch] /\ DOMAIN C = DOMAIN B /\ C[n] = b
          /\ \A m \in DOMAIN B : m # n => C[m] = B[m]
      BY <1>3, <1>6, <2>2
    <2>5. C \in ConnBatches
      BY <1>3, <2>4, BatchMade
    <2> HIDE DEF C, rest
    <2>6. /\ c1 \in Conn /\ c1.batches = C /\ c1.inputs = conn.inputs /\ c1.deferred = conn.deferred
          /\ c1.started = conn.started /\ c1.active = conn.active
      BY <1>2, <2>3, <2>5 DEF Conn
    <2>7. AskedOf(c1) = AskedOf(conn)
      BY <2>6 DEF AskedOf
    <2>8. Ready(c1, n) <=> B[n].done /\ rest = {}
      BY <1>6, <2>2, <2>4, <2>6 DEF Ready
    <2>9. CASE Ready(c1, n)
      <3>1. /\ conn' \in Conn /\ conn'.started = c1.started
            /\ c1.active => conn'.active
            /\ Puts(wire)
            /\ conn'.batches = Without(C, n)
            /\ AskedOf(conn') \subseteq AskedOf(c1) \cup {C[n].input}
        BY <1>1, <1>6, <2>6, <2>9, AnsweredEffect
      <3>2. /\ DOMAIN Without(C, n) = DOMAIN B \ {n}
            /\ \A m \in DOMAIN B : m # n => Without(C, n)[m] = B[m]
        BY <2>4, <2>5, WithoutMade
      <3> QED
        BY <1>6, <2>2, <2>4, <2>6, <2>7, <2>8, <2>9, <3>1, <3>2 DEF n, B, rest
    <2>10. CASE ~Ready(c1, n)
      <3>1. conn' = c1 /\ Puts(wire)
        BY <1>1, <1>6, <2>10 DEF Quiet, Puts
      <3> QED
        BY <1>6, <2>2, <2>4, <2>6, <2>7, <2>8, <2>10, <3>1 DEF n, B, rest
    <2> QED
      BY <2>9, <2>10
  <1> QED
    BY <1>5, <1>6

\* A refusal frees the connection of its own request only.
LEMMA RejectedEffect ==
    ASSUME Shapes, HandleRejected
    PROVE  /\ conn' \in Conn /\ Puts(Tail(wire))
           /\ conn'.batches = conn.batches /\ AskedOf(conn') \subseteq AskedOf(conn)
           /\ conn.active /\ conn.started => conn'.active /\ conn'.started
  <1> DEFINE own == /\ conn.active /\ ~conn.started
                    /\ \E i \in 1 .. Len(conn.inputs) : conn.inputs[i] = Head(wire).input
             c1 == [conn EXCEPT !.active = FALSE, !.inputs = <<>>]
  <1>1. /\ own => SentDeferred(c1, Tail(wire))
        /\ ~own => Quiet(conn, Tail(wire))
    BY DEF HandleRejected
  <1>2. conn \in Conn
    BY DEF Shapes
  <1>3. CASE own
    <2>1. ~conn.started
      BY <1>3
    <2>2. /\ c1 \in Conn /\ c1.batches = conn.batches
          /\ c1.inputs = <<>> /\ c1.deferred = conn.deferred
      <3>1. <<>> \in Seq(Inputs)
        OBVIOUS
      <3> QED
        BY <1>2, <3>1 DEF Conn
    <2>3. AskedOf(c1) \subseteq AskedOf(conn)
      BY <2>2 DEF AskedOf, Elements
    <2> HIDE DEF c1, own
    <2> QED
      BY <1>1, <1>3, <2>1, <2>2, <2>3, DeferredEffect
  <1>4. CASE ~own
    <2> HIDE DEF own
    <2> QED
      BY <1>1, <1>2, <1>4 DEF Quiet, Puts
  <1> QED
    BY <1>3, <1>4

\* A call joins the batch of its response.
LEMMA CallEffect ==
    ASSUME Shapes, HandleCall
    PROVE  LET n == Head(wire).n
               c == Head(wire).call
               B == conn.batches
               D == conn'.batches
           IN  /\ conn' \in Conn /\ AskedOf(conn') = AskedOf(conn)
               /\ conn'.active = conn.active /\ conn'.started = conn.started
               /\ DOMAIN D = DOMAIN B \cup {n}
               /\ D[n].unanswered = (IF n \in DOMAIN B THEN B[n].unanswered ELSE {}) \cup {c}
               /\ D[n].done = FALSE /\ D[n].input = c
               /\ \A m \in DOMAIN B : m # n => D[m] = B[m]
  <1> DEFINE n == Head(wire).n
             c == Head(wire).call
             B == conn.batches
             known == IF n \in DOMAIN B THEN B[n].unanswered ELSE {}
             added == [unanswered |-> known \cup {c}, done |-> FALSE, input |-> c]
             D == [m \in DOMAIN B \cup {n} |-> IF m = n THEN added ELSE B[m]]
  <1>1. conn' = [conn EXCEPT !.batches = D]
    BY DEF HandleCall, Quiet
  <1>2. conn \in Conn /\ B \in ConnBatches /\ n \in Nat /\ c \in Calls
    <2>1. wire \in Seq(Event) /\ wire # <<>> /\ Head(wire).kind = "call"
      BY DEF Shapes, HandleCall, Reads
    <2>2. Head(wire) \in Event
      BY <2>1, Split
    <2> QED
      BY <2>1, <2>2, Carried, ConnParts DEF Shapes, Positive
  <1>3. DOMAIN B \in SUBSET Nat /\ \A m \in DOMAIN B : B[m] \in ConnBatch
    BY <1>2, BatchParts
  <1> HIDE DEF n, c, B
  <1>4. added \in ConnBatch
    <2>1. known \cup {c} \in SUBSET Calls
      BY <1>2, <1>3 DEF ConnBatch
    <2> HIDE DEF known
    <2> QED
      BY <1>2, <2>1 DEF ConnBatch
  <1>5. added.unanswered = known \cup {c} /\ added.done = FALSE /\ added.input = c
    OBVIOUS
  <1> HIDE DEF added
  <1>6. D \in [DOMAIN B \cup {n} -> ConnBatch] /\ DOMAIN B \cup {n} \in SUBSET Nat
    BY <1>2, <1>3, <1>4
  <1>7. D \in ConnBatches /\ DOMAIN D = DOMAIN B \cup {n}
    BY <1>6, BatchMade
  <1>8. D[n] = added /\ \A m \in DOMAIN B : m # n => D[m] = B[m]
    OBVIOUS
  <1> HIDE DEF D
  <1>9. /\ conn' \in Conn /\ conn'.batches = D /\ conn'.inputs = conn.inputs
        /\ conn'.deferred = conn.deferred
        /\ conn'.active = conn.active /\ conn'.started = conn.started
    BY <1>1, <1>2, <1>7 DEF Conn
  <1> QED
    BY <1>5, <1>7, <1>8, <1>9 DEF AskedOf, n, c, B

-----------------------------------------------------------------------------
(* The types *)

\* The event that the pump reads.
LEMMA HeadRead ==
    ASSUME Shapes, NEW kind, Reads(kind)
    PROVE  /\ wire \in Seq(Event) /\ wire # <<>> /\ Head(wire) \in Event /\ Head(wire).kind = kind
           /\ Tail(wire) \in Seq(Event)
           /\ pump = "read" /\ ended = "no"
           /\ kind # "rejected" => Head(wire).n \in Nat /\ Head(wire).n # 0
           /\ kind = "call" => Head(wire).call \in Calls
  <1>1. /\ wire \in Seq(Event) /\ wire # <<>> /\ Head(wire).kind = kind
        /\ pump = "read" /\ ended = "no"
    BY DEF Shapes, Reads
  <1>2. Head(wire) \in Event /\ Tail(wire) \in Seq(Event)
    BY <1>1, Split
  <1> QED
    BY <1>1, <1>2, Carried DEF Positive

\* What the provider puts on the wire keeps the types of the channel.
LEMMA PutsShapes ==
    ASSUME Shapes, NEW events \in Seq(Event), Puts(events)
    PROVE  wire' \in Seq(Event) /\ server' \in Nat /\ made' \in [all : Nat, alone : Nat]
  <1>1. CASE wire' = events /\ server' = server /\ made' = made
    BY <1>1 DEF Shapes
  <1>2. CASE /\ server' = made.all + 1
             /\ made' = [made EXCEPT !.all = @ + 1]
             /\ wire' = Append(events, [kind |-> "started", n |-> made.all + 1])
    <2>1. made.all + 1 \in Positive /\ made' \in [all : Nat, alone : Nat]
      <3>1. made \in [all : Nat, alone : Nat] /\ made' = [made EXCEPT !.all = @ + 1]
        BY <1>2 DEF Shapes
      <3>2. made.all \in Nat
        BY <3>1
      <3> QED
        BY <3>1, <3>2 DEF Positive
    <2> DEFINE e == [kind |-> "started", n |-> made.all + 1]
    <2>2. e \in Event
      BY <2>1, Written
    <2> HIDE DEF e
    <2>3. wire' = Append(events, e)
      BY <1>2 DEF e
    <2> QED
      BY <1>2, <2>1, <2>2, <2>3 DEF Positive
  <1>3. CASE /\ server' = server /\ made' = made
             /\ \E inputs \in Seq(Inputs) : wire' = events \o Refusals(inputs)
    BY <1>3, Refused DEF Shapes
  <1> QED
    BY <1>1, <1>2, <1>3 DEF Puts

\* The fields of a batch of the session.
LEMMA BatchFields ==
    ASSUME NEW b \in Batch
    PROVE  /\ b.left \in Int /\ b.closed \in BOOLEAN /\ b.counted \in BOOLEAN
           /\ b.abandoned \in BOOLEAN
  BY DEF Batch

\* A tool that returns leaves its batch with one running tool less.
LEMMA ReturnsEffect ==
    ASSUME Shapes, NEW c \in Calls, ToolReturns(c)
    PROVE  /\ tool[c] = "run" /\ tool' \in [Calls -> Stages]
           /\ tool'[c] \in {"record", "reserve", "send"}
           /\ c \in cancelled => tool'[c] = "record"
           /\ c \notin cancelled => tool'[c] # "record"
           /\ \A d \in Calls : d # c => tool'[d] = tool[d]
           /\ batch' \in [Responses -> Batch]
           /\ \A m \in Responses : m # of[c] => batch'[m] = batch[m]
           /\ of[c] \in Responses =>
                /\ batch'[of[c]].left = batch[of[c]].left - 1
                /\ batch'[of[c]].closed = batch[of[c]].closed
                /\ batch'[of[c]].abandoned = batch[of[c]].abandoned
                /\ batch[of[c]].counted => batch'[of[c]].counted
                /\ ( /\ batch'[of[c]].left = 0 /\ batch[of[c]].closed
                     /\ ~batch[of[c]].abandoned /\ c \notin cancelled )
                   => batch'[of[c]].counted
           /\ cancelled' = cancelled \ {c}
           /\ UNCHANGED <<open, of, history, conn, wire, server, made, link, pump, ended>>
  <1> DEFINE n == of[c]
             gone == c \in cancelled
             b == [batch[n] EXCEPT !.left = @ - 1]
             asks == ~gone /\ Answerable(b)
             last == [b EXCEPT !.counted = @ \/ asks]
             stage == IF gone THEN "record" ELSE IF asks THEN "reserve" ELSE "send"
  <1>1. /\ tool[c] = "run"
        /\ batch' = [batch EXCEPT ![n] = last]
        /\ tool' = [tool EXCEPT ![c] = stage]
        /\ cancelled' = cancelled \ {c}
        /\ UNCHANGED <<open, of, history, conn, wire, server, made, link, pump, ended>>
    BY DEF ToolReturns, channel, socket
  <1>2. tool \in [Calls -> Stages] /\ batch \in [Responses -> Batch]
    BY DEF Shapes
  <1>3. /\ stage \in {"record", "reserve", "send"} /\ stage \in Stages
        /\ gone => stage = "record"
        /\ ~gone => stage # "record"
    BY DEF Stages
  <1>4. ASSUME n \in Responses
        PROVE  /\ last \in Batch /\ last.left = batch[n].left - 1
               /\ last.closed = batch[n].closed /\ last.abandoned = batch[n].abandoned
               /\ batch[n].counted => last.counted
               /\ last.left = 0 /\ batch[n].closed /\ ~batch[n].abandoned /\ ~gone => last.counted
    <2> DEFINE old == batch[n]
               more == b.counted \/ asks
    <2>1. old \in Batch
      BY <1>2, <1>4
    <2>2. b = [old EXCEPT !.left = old.left - 1] /\ last = [b EXCEPT !.counted = more]
      OBVIOUS
    <2> HIDE DEF old
    <2>3. /\ b \in Batch /\ b.left = old.left - 1 /\ b.closed = old.closed
          /\ b.counted = old.counted /\ b.abandoned = old.abandoned
      <3>1. old.left \in Int /\ old.left - 1 \in Int
        BY <2>1, BatchFields
      <3> HIDE DEF b
      <3> QED
        BY <2>1, <2>2, <3>1 DEF Batch
    <2> HIDE DEF b
    <2>4. asks <=> (~gone /\ b.left = 0 /\ b.closed /\ ~b.counted /\ ~b.abandoned)
      BY DEF Answerable
    <2>5. more \in BOOLEAN
      OBVIOUS
    <2>6. (b.counted => more) /\ (b.left = 0 /\ b.closed /\ ~b.abandoned /\ ~gone => more)
      BY <2>4
    <2> HIDE DEF asks, last, more
    <2>7. /\ last \in Batch /\ last.left = b.left /\ last.closed = b.closed
          /\ last.counted = more /\ last.abandoned = b.abandoned
      BY <2>2, <2>3, <2>5 DEF Batch
    <2> QED
      BY <2>3, <2>6, <2>7 DEF old
  <1> HIDE DEF last, stage
  <1>5. /\ tool' \in [Calls -> Stages] /\ tool'[c] = stage
        /\ \A d \in Calls : d # c => tool'[d] = tool[d]
    BY <1>1, <1>2, <1>3
  <1>6. /\ batch' \in [Responses -> Batch]
        /\ \A m \in Responses : m # n => batch'[m] = batch[m]
        /\ n \in Responses => batch'[n] = last
    BY <1>1, <1>2, <1>4
  <1> QED
    BY <1>1, <1>3, <1>4, <1>5, <1>6

\* The session adds a call to the batch of its response.
LEMMA CalledEffect ==
    ASSUME Shapes, HandleCall
    PROVE  LET n == Head(wire).n
               c == Head(wire).call
           IN  /\ c \in Calls /\ n \in Nat /\ n # 0
               /\ batch' \in [Responses -> Batch]
               /\ \A m \in Responses : m # n => batch'[m] = batch[m]
               /\ n \in Responses => /\ batch'[n].left = batch[n].left + 1
                                     /\ batch'[n].closed = batch[n].closed
                                     /\ batch'[n].abandoned = batch[n].abandoned
               /\ of' \in [Calls -> Nat] /\ of'[c] = n
               /\ \A d \in Calls : d # c => of'[d] = of[d]
               /\ tool' \in [Calls -> Stages] /\ tool'[c] = "run"
               /\ \A d \in Calls : d # c => tool'[d] = tool[d]
               /\ wire' = Tail(wire)
               /\ UNCHANGED <<open, cancelled, history, server, made, link, pump, ended>>
  <1> DEFINE n == Head(wire).n
             c == Head(wire).call
             b == [batch[n] EXCEPT !.left = @ + 1]
  <1>1. c \in Calls /\ n \in Nat /\ n # 0
    BY HeadRead DEF HandleCall
  <1>2. /\ batch' = [batch EXCEPT ![n] = b]
        /\ of' = [of EXCEPT ![c] = n] /\ tool' = [tool EXCEPT ![c] = "run"]
        /\ wire' = Tail(wire)
        /\ UNCHANGED <<open, cancelled, history, server, made, link, pump, ended>>
    BY DEF HandleCall, Quiet, socket
  <1>3. batch \in [Responses -> Batch] /\ of \in [Calls -> Nat] /\ tool \in [Calls -> Stages]
    BY DEF Shapes
  <1>4. ASSUME n \in Responses
        PROVE  /\ b \in Batch /\ b.left = batch[n].left + 1
               /\ b.closed = batch[n].closed /\ b.abandoned = batch[n].abandoned
    <2>1. batch[n] \in Batch /\ batch[n].left + 1 \in Int
      BY <1>3, <1>4, BatchFields
    <2> QED
      BY <2>1 DEF Batch
  <1> HIDE DEF n, c, b
  <1>5. /\ batch' \in [Responses -> Batch]
        /\ \A m \in Responses : m # n => batch'[m] = batch[m]
        /\ n \in Responses => batch'[n] = b
    BY <1>2, <1>3, <1>4
  <1>6. /\ of' \in [Calls -> Nat] /\ of'[c] = n
        /\ \A d \in Calls : d # c => of'[d] = of[d]
    BY <1>1, <1>2, <1>3
  <1>7. /\ tool' \in [Calls -> Stages] /\ tool'[c] = "run"
        /\ \A d \in Calls : d # c => tool'[d] = tool[d]
    BY <1>1, <1>2, <1>3 DEF Stages
  <1> QED
    BY <1>1, <1>2, <1>4, <1>5, <1>6, <1>7 DEF n, c

\* A new conversation cancels the tools that run and abandons their batches.
LEMMA ReconnectedEffect ==
    ASSUME Shapes, HandleReconnected, open = 0
    PROVE  /\ pump = "resume" /\ pump' = "read" /\ ended = "no" /\ open' = 0
           /\ cancelled' = cancelled \cup Running
           /\ batch' \in [Responses -> Batch]
           /\ \A m \in Responses :
                /\ batch'[m].left = batch[m].left /\ batch'[m].closed = batch[m].closed
                /\ batch'[m].counted = batch[m].counted
                /\ batch[m].abandoned => batch'[m].abandoned
                /\ \A c \in Calls : tool[c] = "run" /\ of[c] = m => batch'[m].abandoned
           /\ history' \in History /\ history'.responses = history.responses
           /\ history'.results = history.results /\ history'.held = history.held
           /\ UNCHANGED <<of, tool, conn, wire, server, made, link, ended>>
  <1> DEFINE gone == {of[c] : c \in {d \in Calls : tool[d] = "run"}}
             next(m) == [batch[m] EXCEPT !.abandoned = @ \/ m \in gone, !.closed = @ \/ FALSE]
  <1>1. /\ pump = "resume" /\ pump' = "read" /\ ended = "no" /\ open' = 0
        /\ cancelled' = cancelled \cup Running
        /\ history' = Recorded(history, 0, {})
        /\ UNCHANGED <<of, tool, conn, wire, server, made, link, ended>>
    BY DEF HandleReconnected, channel
  <1>2. batch' = [m \in Responses |-> next(m)]
    <2>1. ~({} # {})
      OBVIOUS
    <2> QED
      BY <2>1 DEF HandleReconnected
  <1>3. batch \in [Responses -> Batch] /\ history \in History
    BY DEF Shapes
  <1>4. ASSUME NEW m \in Responses
        PROVE  /\ next(m) \in Batch
               /\ next(m).left = batch[m].left /\ next(m).closed = batch[m].closed
               /\ next(m).counted = batch[m].counted
               /\ batch[m].abandoned => next(m).abandoned
               /\ m \in gone => next(m).abandoned
    <2> DEFINE b == batch[m]
               a == b.abandoned \/ m \in gone
               k == b.closed \/ FALSE
    <2>1. b \in Batch
      BY <1>3
    <2>2. next(m) = [b EXCEPT !.abandoned = a, !.closed = k]
      OBVIOUS
    <2> HIDE DEF b
    <2>3. a \in BOOLEAN /\ k = b.closed /\ k \in BOOLEAN
      BY <2>1, BatchFields
    <2>4. (b.abandoned => a) /\ (m \in gone => a)
      OBVIOUS
    <2> HIDE DEF a, k, next, gone
    <2>5. /\ next(m) \in Batch /\ next(m).left = b.left /\ next(m).closed = k
          /\ next(m).counted = b.counted /\ next(m).abandoned = a
      BY <2>1, <2>2, <2>3 DEF Batch
    <2> QED
      BY <2>3, <2>4, <2>5 DEF b
  <1> HIDE DEF next
  <1>5. batch' \in [Responses -> Batch] /\ \A m \in Responses : batch'[m] = next(m)
    BY <1>2, <1>4
  <1>6. /\ history' \in History /\ history'.responses = history.responses
        /\ history'.results = history.results /\ history'.held = history.held
    BY <1>1, <1>3 DEF Recorded, History, Positive
  <1>7. ASSUME NEW m \in Responses, NEW c \in Calls, tool[c] = "run", of[c] = m
        PROVE  batch'[m].abandoned
    <2>1. m \in gone
      BY <1>7
    <2> QED
      BY <1>4, <1>5, <2>1
  <1> HIDE DEF gone
  <1> QED
    BY <1>1, <1>4, <1>5, <1>6, <1>7

\* Every step keeps the types.
LEMMA StepShapes ==
    ASSUME Shapes, Channel, [RealtimeNext]_realtimeVars
    PROVE  Shapes'
  <1> USE DEF Shapes
  <1>1. CASE Aside
    BY <1>1 DEF Aside, kept
  <1>2. CASE Writes
    <2>1. PICK x \in Texts \cup Prompts : Requested(conn, <<x>>, wire)
      BY <1>2 DEF Writes
    <2>2. conn \in Conn /\ <<x>> \in Seq(Inputs)
      BY DEF Inputs
    <2>3. conn' \in Conn /\ Puts(wire)
      BY <2>1, <2>2, RequestEffect
    <2>4. wire' \in Seq(Event) /\ server' \in Nat /\ made' \in [all : Nat, alone : Nat]
      BY <2>3, PutsShapes
    <2> QED
      BY <1>2, <2>3, <2>4 DEF Writes
  <1>3. CASE SpeechResponse
    <2>1. made.all \in Nat /\ made.all + 1 \in Positive /\ made.alone \in Nat
      BY DEF Positive
    <2>2. [kind |-> "started", n |-> made.all + 1] \in Event
      BY <2>1, Written
    <2>3. wire' \in Seq(Event)
      BY <1>3, <2>2 DEF SpeechResponse
    <2>4. made' \in [all : Nat, alone : Nat] /\ server' \in Nat
      BY <1>3, <2>1 DEF SpeechResponse
    <2> QED
      BY <1>3, <2>3, <2>4 DEF SpeechResponse, session, socket
  <1>4. CASE Drop
    <2>1. wire' \in Seq(Event) /\ server' \in Nat
      BY <1>4 DEF Drop
    <2> QED
      BY <1>4, <2>1 DEF Drop, session
  <1>5. ASSUME NEW cut \in BOOLEAN, ServerEnds(cut)
        PROVE  Shapes'
    <2>1. server \in Positive
      BY <1>5 DEF ServerEnds, Positive
    <2>2. [kind |-> "done", n |-> server, cut |-> cut] \in Event
      BY <2>1, Written
    <2>3. wire' \in Seq(Event) /\ server' \in Nat
      BY <1>5, <2>2 DEF ServerEnds
    <2> QED
      BY <1>5, <2>3 DEF ServerEnds, session, socket
  <1>6. ASSUME NEW c \in Calls, ServerCalls(c)
        PROVE  Shapes'
    <2>1. server \in Positive
      BY <1>6 DEF ServerCalls, Positive
    <2>2. [kind |-> "call", call |-> c, n |-> server] \in Event
      BY <2>1, Written
    <2>3. wire' \in Seq(Event)
      BY <1>6, <2>2 DEF ServerCalls
    <2> QED
      BY <1>6, <2>3 DEF ServerCalls, session, socket
  <1>7. CASE HandleStarted
    <2>1. Head(wire).n \in Nat /\ Tail(wire) \in Seq(Event)
      BY <1>7, HeadRead DEF HandleStarted
    <2>2. conn' \in Conn
      BY <1>7 DEF HandleStarted, Quiet, Conn
    <2> QED
      BY <1>7, <2>1, <2>2 DEF HandleStarted, Quiet, socket
  <1>8. CASE HandleCall
    <2>1. conn' \in Conn
      BY <1>8, CallEffect
    <2>2. Tail(wire) \in Seq(Event)
      BY <1>8, HeadRead DEF HandleCall
    <2>3. /\ batch' \in [Responses -> Batch] /\ of' \in [Calls -> Nat]
          /\ tool' \in [Calls -> Stages] /\ wire' = Tail(wire)
          /\ UNCHANGED <<open, history, server, made, link, pump, ended>>
      BY <1>8, CalledEffect
    <2> QED
      BY <2>1, <2>2, <2>3
  <1>9. CASE HandleDone
    <2>1. conn' \in Conn /\ Puts(Tail(wire))
      BY <1>9, DoneEffect
    <2>2. Tail(wire) \in Seq(Event)
      BY <1>9, HeadRead DEF HandleDone
    <2>3. wire' \in Seq(Event) /\ server' \in Nat /\ made' \in [all : Nat, alone : Nat]
      BY <2>1, <2>2, PutsShapes
    <2>4. PICK cut : Finish(open, cut)
      BY <1>9 DEF HandleDone
    <2>5. open' = 0 /\ batch' \in [Responses -> Batch] /\ history' \in History
      BY <2>4, FinishEffect
    <2> QED
      BY <1>9, <2>1, <2>3, <2>5 DEF HandleDone, socket
  <1>10. CASE HandleRejected
    <2>1. conn' \in Conn /\ Puts(Tail(wire))
      BY <1>10, RejectedEffect
    <2>2. Tail(wire) \in Seq(Event)
      BY <1>10, HeadRead DEF HandleRejected
    <2>3. wire' \in Seq(Event) /\ server' \in Nat /\ made' \in [all : Nat, alone : Nat]
      BY <2>1, <2>2, PutsShapes
    <2> QED
      BY <1>10, <2>1, <2>3 DEF HandleRejected, socket
  <1>11. ASSUME Redial \/ PumpEnds
         PROVE  Shapes'
    <2>1. /\ UNCHANGED <<of, tool, conn, wire, server, made, link, ended>>
          /\ pump' \in {"dial", "ending"}
          /\ \/ \E cut : Finish(open, cut)
             \/ UNCHANGED <<open, batch, history>>
      BY <1>11 DEF Redial, PumpEnds, channel
    <2>2. CASE \E cut : Finish(open, cut)
      <3>1. PICK cut : Finish(open, cut)
        BY <2>2
      <3>2. open' = 0 /\ batch' \in [Responses -> Batch] /\ history' \in History
        BY <3>1, FinishEffect
      <3> QED
        BY <2>1, <3>2
    <2>3. CASE UNCHANGED <<open, batch, history>>
      BY <2>1, <2>3
    <2> QED
      BY <2>1, <2>2, <2>3
  <1>12. CASE Reconnects
    <2>1. FreshConn \in Conn
      <3>1. [n \in {} |-> {}] \in ConnBatches
        <4> DEFINE f == [n \in {} |-> {}]
        <4>1. {} \in SUBSET Nat /\ f \in [{} -> ConnBatch]
          OBVIOUS
        <4> HIDE DEF f
        <4>2. f \in ConnBatches
          BY <4>1, BatchMade
        <4> QED
          BY <4>2 DEF f
      <3>2. <<>> \in Seq(Inputs)
        OBVIOUS
      <3> QED
        BY <3>1, <3>2 DEF FreshConn, Conn
    <2> QED
      BY <1>12, <2>1 DEF Reconnects, Quiet, session
  <1>13. CASE HandleReconnected
    <2>1. open = 0
      BY <1>13 DEF HandleReconnected, Channel
    <2>2. /\ batch' \in [Responses -> Batch] /\ history' \in History /\ open' = 0 /\ pump' = "read"
          /\ UNCHANGED <<of, tool, conn, wire, server, made, link, ended>>
      BY <1>13, <2>1, ReconnectedEffect
    <2> QED
      BY <2>2
  <1>14. CASE PumpCloses
    BY <1>14 DEF PumpCloses, channel
  <1>15. ASSUME NEW c \in Calls, ToolReturns(c)
         PROVE  Shapes'
    <2>1. /\ tool' \in [Calls -> Stages] /\ batch' \in [Responses -> Batch]
          /\ UNCHANGED <<open, of, history, conn, wire, server, made, link, pump, ended>>
      BY <1>15, ReturnsEffect
    <2> QED
      BY <2>1
  <1>16. ASSUME NEW c \in Calls, ToolReserves(c)
         PROVE  Shapes'
    BY <1>16 DEF ToolReserves, channel, socket, Stages
  <1>17. ASSUME NEW c \in Calls, ToolSends(c)
         PROVE  Shapes'
    <2>1. conn' \in Conn /\ Puts(wire)
      BY <1>17, SendsEffect
    <2>2. wire' \in Seq(Event) /\ server' \in Nat /\ made' \in [all : Nat, alone : Nat]
      BY <2>1, PutsShapes
    <2> QED
      BY <1>17, <2>1, <2>2 DEF ToolSends, socket, Stages
  <1>18. ASSUME NEW c \in Calls, ToolSendFails(c)
         PROVE  Shapes'
    BY <1>18 DEF ToolSendFails, channel, Stages
  <1>19. ASSUME NEW c \in Calls, ToolRecords(c)
         PROVE  Shapes'
    <2>1. tool' \in [Calls -> Stages]
      BY <1>19 DEF ToolRecords, Stages
    <2>2. history' \in History
      BY <1>19 DEF ToolRecords, History
    <2> QED
      BY <1>19, <2>1, <2>2 DEF ToolRecords, channel, socket
  <1> QED
    BY <1>1, <1>2, <1>3, <1>4, <1>5, <1>6, <1>7, <1>8, <1>9, <1>10, <1>11, <1>12, <1>13, <1>14,
       <1>15, <1>16, <1>17, <1>18, <1>19, Cases

-----------------------------------------------------------------------------
(* The channel *)

\* The steps that leave the wire alone.
LEMMA ChannelRests ==
    ASSUME Channel, UNCHANGED <<wire, server, made, link>>,
           Heard' \subseteq Heard, Unmade' = Unmade,
           pump' = "dial" => ~link,
           pump' \in {"dial", "resume"} /\ ended' = "no" => open' = 0,
           ended' = "no" /\ link => ended = "no" /\ open' = open,
           ended' = "no" /\ pump' = "read" /\ open' # 0 => conn'.active /\ conn'.started
    PROVE  Channel'
  <1>1. Orderly(wire, Heard', made.all, Unmade)
    BY OrderlyLess DEF Channel
  <1> QED
    BY <1>1 DEF Channel

\* The steps that read from the wire or write to it.
LEMMA ChannelPuts ==
    ASSUME Shapes, Channel, NEW events \in Seq(Event), Puts(events),
           Orderly(events, Heard, made.all, Unmade),
           Heard' \subseteq Heard, Unmade' = Unmade,
           link, UNCHANGED <<link, pump, ended>>, pump \notin {"dial", "resume"} \/ open' = open,
           ended = "no" => Flow(events, open', server),
           ended = "no" /\ pump = "read" /\ open' # 0 => conn'.active /\ conn'.started
    PROVE  Channel'
  <1>1. /\ server \in Nat /\ made \in [all : Nat, alone : Nat] /\ server <= made.all
        /\ \A n \in Heard : n <= made.all
    BY DEF Shapes, Channel
  <1>2. /\ server' \in Nat /\ made' \in [all : Nat, alone : Nat]
        /\ made.all <= made'.all /\ server' <= made'.all
        /\ Orderly(wire', Heard, made'.all, Unmade)
        /\ \A a : Flow(events, a, server) => Flow(wire', a, server')
    BY <1>1, PutsOrderly
  <1>3. Orderly(wire', Heard', made'.all, Unmade')
    BY <1>2, OrderlyLess
  <1>4. Heard \subseteq Nat
    BY DEF Heard, Shapes, History, Positive
  <1>5. \A n \in Heard' : n <= made'.all
    <2>1. made.all \in Nat /\ made'.all \in Nat
      BY <1>1, <1>2
    <2> QED
      BY <1>1, <1>2, <1>4, <2>1
  <1>6. ended' = "no" => Flow(wire', open', server')
    BY <1>2
  <1> QED
    BY <1>2, <1>3, <1>5, <1>6 DEF Channel

\* What the end of a response leaves of the responses and calls the session knows.
LEMMA HeardSame ==
    ASSUME Shapes, UNCHANGED of,
           \/ UNCHANGED <<open, history>>
           \/ open' = open /\ history'.responses = history.responses
           \/ open' = 0 /\ history'.responses = history.responses \cup ({open} \ {0})
    PROVE  Heard' \subseteq Heard /\ Unmade' = Unmade
  BY DEF Heard, Unmade, Shapes

\* What the pump reads is the next event of the response the session collects.
LEMMA ReadsInOrder ==
    ASSUME Shapes, Channel, NEW kind, Reads(kind)
    PROVE  /\ link /\ Orderly(Tail(wire), Heard, made.all, Unmade)
           /\ kind = "started" => open = 0 /\ Flow(Tail(wire), Head(wire).n, server)
           /\ kind = "call" => open = Head(wire).n /\ Flow(Tail(wire), open, server)
           /\ kind = "done" => open = Head(wire).n /\ Flow(Tail(wire), 0, server)
           /\ kind = "rejected" => Flow(Tail(wire), open, server)
  <1>1. /\ wire \in Seq(Event) /\ wire # <<>> /\ Head(wire).kind = kind /\ ended = "no"
    BY HeadRead
  <1>2. link /\ Orderly(wire, Heard, made.all, Unmade) /\ Flow(wire, open, server)
    BY <1>1 DEF Channel
  <1>3. Orderly(Tail(wire), Heard, made.all, Unmade)
    BY <1>1, <1>2, OrderlyTail
  <1>4. PICK m \in Nat : Moves(Head(wire), open, m) /\ Flow(Tail(wire), m, server)
    BY <1>1, <1>2, FlowTail
  <1> QED
    BY <1>1, <1>2, <1>3, <1>4 DEF Moves

\* The provider writes one event at the end of the wire.
LEMMA ChannelAppends ==
    ASSUME Shapes, Channel, ended = "no", link, NEW e \in Event, wire' = Append(wire, e),
           UNCHANGED <<open, of, history, conn, link, pump, ended>>,
           Orderly(Append(wire, e), Heard, made'.all, Unmade),
           made.all \in Nat, made'.all \in Nat, made.all <= made'.all,
           server' \in Nat, server' <= made'.all, Moves(e, server, server')
    PROVE  Channel'
  <1>1. Heard' = Heard /\ Unmade' = Unmade
    BY DEF Heard, Unmade
  <1>2. Flow(wire', open, server')
    BY FlowAppend DEF Shapes, Channel
  <1>3. \A n \in Heard' : n <= made'.all
    <2>1. Heard \subseteq Nat
      BY DEF Heard, Shapes, History, Positive
    <2> QED
      BY <1>1, <2>1 DEF Channel
  <1> QED
    BY <1>1, <1>2, <1>3 DEF Channel

\* Every step keeps the order of the wire.
LEMMA StepChannel ==
    ASSUME Shapes, Channel, [RealtimeNext]_realtimeVars
    PROVE  Channel'
  <1>1. CASE Aside
    <2>1. Heard' \subseteq Heard /\ Unmade' = Unmade
      BY <1>1 DEF Aside, kept, Heard, Unmade
    <2> QED
      BY <1>1, <2>1, ChannelRests DEF Aside, kept, Channel
  <1>2. CASE Writes
    <2>1. PICK x \in Texts \cup Prompts : Requested(conn, <<x>>, wire)
      BY <1>2 DEF Writes
    <2>2. conn \in Conn /\ <<x>> \in Seq(Inputs) /\ wire \in Seq(Event)
      BY DEF Inputs, Shapes
    <2>3. conn'.active = TRUE /\ conn'.started = conn.started /\ Puts(wire)
      BY <2>1, <2>2, RequestEffect
    <2>4. Heard' \subseteq Heard /\ Unmade' = Unmade
      BY <1>2 DEF Writes, Heard, Unmade
    <2> QED
      BY <1>2, <2>2, <2>3, <2>4, ChannelPuts DEF Writes, Channel
  <1>3. CASE SpeechResponse
    <2> DEFINE e == [kind |-> "started", n |-> made.all + 1]
    <2>1. made.all \in Nat /\ made.all + 1 \in Positive /\ server = 0
      BY <1>3 DEF SpeechResponse, Shapes, Positive
    <2>2. e \in Event
      BY <2>1, Written
    <2>3. e.kind = "started" /\ e.n = made.all + 1 /\ Moves(e, 0, made.all + 1)
      BY DEF Moves
    <2> HIDE DEF e
    <2>4. /\ wire' = Append(wire, e) /\ server' = made.all + 1 /\ made'.all = made.all + 1
          /\ ended = "no" /\ link
          /\ UNCHANGED <<open, of, history, conn, link, pump, ended>>
      BY <1>3 DEF SpeechResponse, Listened, session, socket, e
    <2>5. made.all + 1 \notin Heard
      BY <2>1 DEF Channel
    <2>6. Orderly(Append(wire, e), Heard, made.all + 1, Unmade)
      BY <2>1, <2>2, <2>3, <2>5, OrderlyAppend DEF Shapes, Channel
    <2> QED
      BY <2>1, <2>2, <2>3, <2>4, <2>6, ChannelAppends
  <1>4. CASE Drop
    <2>1. Heard' \subseteq Heard /\ Unmade' = Unmade
      BY <1>4 DEF Drop, session, Heard, Unmade
    <2>2. Orderly(<<>>, Heard', made.all, Unmade)
      BY DEF Orderly
    <2> QED
      BY <1>4, <2>1, <2>2 DEF Drop, session, Channel, Shapes
  <1>5. ASSUME NEW cut \in BOOLEAN, ServerEnds(cut)
        PROVE  Channel'
    <2> DEFINE e == [kind |-> "done", n |-> server, cut |-> cut]
    <2>1. server \in Positive
      BY <1>5 DEF ServerEnds, Positive, Shapes
    <2>2. e \in Event
      BY <2>1, Written
    <2>3. e.kind = "done" /\ Moves(e, server, 0)
      BY DEF Moves
    <2> HIDE DEF e
    <2>4. /\ wire' = Append(wire, e) /\ server' = 0 /\ made' = made
          /\ ended = "no"
          /\ UNCHANGED <<open, of, history, conn, link, pump, ended>>
      BY <1>5 DEF ServerEnds, Listened, session, socket, e
    <2>5. Orderly(Append(wire, e), Heard, made.all, Unmade)
      BY <2>2, <2>3, OrderlyAppend DEF Shapes, Channel
    <2>6. link /\ made.all \in Nat
      BY <2>1 DEF Channel, Shapes, Positive
    <2> QED
      BY <2>2, <2>3, <2>4, <2>5, <2>6, ChannelAppends
  <1>6. ASSUME NEW c \in Calls, ServerCalls(c)
        PROVE  Channel'
    <2> DEFINE e == [kind |-> "call", call |-> c, n |-> server]
    <2>1. server \in Positive
      BY <1>6 DEF ServerCalls, Positive, Shapes
    <2>2. e \in Event
      BY <2>1, Written
    <2>3. e.kind = "call" /\ e.call = c /\ Moves(e, server, server)
      BY DEF Moves
    <2> HIDE DEF e
    <2>4. /\ wire' = Append(wire, e) /\ server' = server /\ made' = made
          /\ ended = "no"
          /\ UNCHANGED <<open, of, history, conn, link, pump, ended>>
      BY <1>6 DEF ServerCalls, Listened, session, socket, e
    <2>5. c \in Unmade /\ \A i \in 1 .. Len(wire) : wire[i].kind = "call" => wire[i].call # c
      BY <1>6 DEF ServerCalls, Unmade
    <2>6. Orderly(Append(wire, e), Heard, made.all, Unmade)
      BY <2>2, <2>3, <2>5, OrderlyAppend DEF Shapes, Channel
    <2>7. link /\ made.all \in Nat /\ server \in Nat /\ server <= made.all
      BY <2>1 DEF Channel, Shapes, Positive
    <2> QED
      BY <2>2, <2>3, <2>4, <2>6, <2>7, ChannelAppends
  <1>7. CASE HandleStarted
    <2> DEFINE n == Head(wire).n
    <2>1. Reads("started")
      BY <1>7 DEF HandleStarted
    <2>2. /\ link /\ Flow(Tail(wire), n, server) /\ pump = "read" /\ ended = "no"
          /\ wire # <<>> /\ wire \in Seq(Event) /\ Head(wire).kind = "started"
      BY <2>1, HeadRead, ReadsInOrder
    <2>3. n <= made.all /\ Orderly(Tail(wire), Heard \cup {n}, made.all, Unmade)
      BY <2>2, OrderlyTail DEF Channel
    <2>4. /\ open' = n /\ wire' = Tail(wire) /\ conn'.active /\ conn'.started
          /\ UNCHANGED <<of, history, server, made, link, pump, ended>>
      BY <1>7 DEF HandleStarted, Quiet, socket, Shapes, Conn
    <2>5. Heard' \in SUBSET (Heard \cup {n}) /\ Unmade' = Unmade
      BY <2>4 DEF Heard, Unmade
    <2> HIDE DEF n
    <2>6. Orderly(wire', Heard', made.all, Unmade)
      BY <2>3, <2>4, <2>5, OrderlyLess
    <2>7. \A m \in Heard' : m <= made'.all
      BY <2>3, <2>4, <2>5 DEF Channel
    <2> QED
      BY <2>2, <2>4, <2>5, <2>6, <2>7 DEF Channel
  <1>8. CASE HandleCall
    <2> DEFINE c == Head(wire).call
    <2>1. Reads("call")
      BY <1>8 DEF HandleCall
    <2>2. /\ link /\ open = Head(wire).n /\ Flow(Tail(wire), open, server)
          /\ pump = "read" /\ ended = "no"
          /\ wire # <<>> /\ wire \in Seq(Event) /\ Head(wire).kind = "call"
      BY <2>1, HeadRead, ReadsInOrder
    <2>3. Orderly(Tail(wire), Heard, made.all, Unmade \ {c})
      BY <2>2, OrderlyTail DEF Channel
    <2>4. /\ c \in Calls /\ of'[c] = open /\ open \in Nat /\ open # 0
          /\ \A d \in Calls : d # c => of'[d] = of[d]
          /\ wire' = Tail(wire)
          /\ UNCHANGED <<open, history, server, made, link, pump, ended>>
      BY <1>8, <2>2, CalledEffect DEF Shapes
    <2>5. conn'.active = conn.active /\ conn'.started = conn.started
      BY <1>8, CallEffect
    <2> HIDE DEF c
    <2>6. Heard' \in SUBSET Heard
      BY <2>4 DEF Heard
    <2>7. Unmade' = Unmade \ {c}
      BY <2>4 DEF Unmade
    <2>8. Orderly(wire', Heard', made.all, Unmade')
      BY <2>3, <2>4, <2>6, <2>7, OrderlyLess
    <2> QED
      BY <2>2, <2>4, <2>5, <2>6, <2>8 DEF Channel
  <1>9. CASE HandleDone
    <2>1. Reads("done")
      BY <1>9 DEF HandleDone
    <2>2. /\ link /\ Flow(Tail(wire), 0, server) /\ Orderly(Tail(wire), Heard, made.all, Unmade)
          /\ pump = "read" /\ Tail(wire) \in Seq(Event)
      BY <2>1, HeadRead, ReadsInOrder
    <2>3. PICK cut : Finish(open, cut)
      BY <1>9 DEF HandleDone
    <2>4. open' = 0 /\ history'.responses = history.responses \cup ({open} \ {0})
      BY <2>3, FinishEffect
    <2>5. UNCHANGED <<of, link, pump, ended>>
      BY <1>9 DEF HandleDone, socket
    <2>6. Heard' \subseteq Heard /\ Unmade' = Unmade
      BY <2>4, <2>5, HeardSame
    <2>7. Puts(Tail(wire))
      BY <1>9, DoneEffect
    <2> QED
      BY <2>2, <2>4, <2>5, <2>6, <2>7, ChannelPuts
  <1>10. CASE HandleRejected
    <2>1. Reads("rejected")
      BY <1>10 DEF HandleRejected
    <2>2. /\ link /\ Flow(Tail(wire), open, server)
          /\ Orderly(Tail(wire), Heard, made.all, Unmade)
          /\ pump = "read" /\ ended = "no" /\ Tail(wire) \in Seq(Event)
      BY <2>1, HeadRead, ReadsInOrder
    <2>3. UNCHANGED <<open, of, history, link, pump, ended>>
      BY <1>10 DEF HandleRejected, socket
    <2>4. Heard' \subseteq Heard /\ Unmade' = Unmade
      BY <2>3, HeardSame
    <2>5. Puts(Tail(wire)) /\ (conn.active /\ conn.started => conn'.active /\ conn'.started)
      BY <1>10, RejectedEffect
    <2>6. open' # 0 => conn'.active /\ conn'.started
      BY <2>2, <2>3, <2>5 DEF Channel
    <2> QED
      BY <2>2, <2>3, <2>4, <2>5, <2>6, ChannelPuts
  <1>11. ASSUME Redial \/ PumpEnds
         PROVE  Channel'
    <2>1. UNCHANGED <<of, wire, server, made, link, ended>>
      BY <1>11 DEF Redial, PumpEnds, channel
    <2>2. \/ \E cut : Finish(open, cut)
          \/ UNCHANGED <<open, history>>
      BY <1>11 DEF Redial, PumpEnds
    <2>3. \/ UNCHANGED <<open, history>>
          \/ open' = 0 /\ history'.responses = history.responses \cup ({open} \ {0})
      BY <2>2, FinishEffect
    <2>4. Heard' \subseteq Heard /\ Unmade' = Unmade
      BY <2>1, <2>3, HeardSame
    <2>5. pump' = "dial" => ~link
      BY <1>11 DEF Redial, PumpEnds
    <2>6. ended' = "no" => ~link /\ pump' = "dial" /\ open' = 0
      <3>1. CASE PumpEnds
        BY <2>1, <3>1 DEF PumpEnds
      <3>2. CASE Redial
        <4>1. pump = "read" /\ ended = "no" /\ ~link /\ pump' = "dial"
          BY <3>2 DEF Redial
        <4>2. conn.active \/ open = 0
          BY <4>1 DEF Channel
        <4>3. conn.active => open' = 0
          BY <3>2 DEF Redial, Finish
        <4>4. ~conn.active => open' = open
          BY <3>2 DEF Redial
        <4> QED
          BY <4>1, <4>2, <4>3, <4>4
      <3> QED
        BY <1>11, <3>1, <3>2
    <2> QED
      BY <2>1, <2>4, <2>5, <2>6, ChannelRests
  <1>12. CASE Reconnects
    <2>1. /\ pump = "dial" /\ ended = "no" /\ link' = TRUE /\ pump' = "resume"
          /\ UNCHANGED <<open, of, history, wire, server, made, ended>>
      BY <1>12 DEF Reconnects, Quiet, session
    <2>2. open = 0 /\ wire = <<>> /\ server = 0
      BY <2>1 DEF Channel
    <2>3. Heard' = Heard /\ Unmade' = Unmade
      BY <2>1 DEF Heard, Unmade
    <2>4. Flow(wire', open', server')
      BY <2>1, <2>2, FlowEmpty
    <2> QED
      BY <2>1, <2>2, <2>3, <2>4 DEF Channel
  <1>13. CASE HandleReconnected
    <2>1. open = 0
      BY <1>13 DEF HandleReconnected, Channel
    <2>2. /\ open' = 0 /\ pump' = "read" /\ history'.responses = history.responses /\ ended = "no"
          /\ UNCHANGED <<of, wire, server, made, link, ended>>
      BY <1>13, <2>1, ReconnectedEffect
    <2>3. Heard' \subseteq Heard /\ Unmade' = Unmade
      BY <2>1, <2>2, HeardSame
    <2> QED
      BY <2>1, <2>2, <2>3, ChannelRests
  <1>14. CASE PumpCloses
    <2>1. pump' = "closed" /\ UNCHANGED <<open, of, history, wire, server, made, link, ended>>
      BY <1>14 DEF PumpCloses, channel
    <2>2. Heard' \subseteq Heard /\ Unmade' = Unmade
      BY <2>1, HeardSame
    <2> QED
      BY <2>1, <2>2, ChannelRests
  <1>15. ASSUME NEW c \in Calls,
                ToolReturns(c) \/ ToolReserves(c) \/ ToolSendFails(c) \/ ToolRecords(c)
         PROVE  Channel'
    <2>1. /\ UNCHANGED <<open, of, conn, wire, server, made, link, pump>>
          /\ history'.responses = history.responses
          /\ ended' = "no" => ended = "no"
      BY <1>15 DEF ToolReturns, ToolReserves, ToolSendFails, ToolRecords, channel, socket, Shapes,
                   History
    <2>2. Heard' \subseteq Heard /\ Unmade' = Unmade
      BY <2>1, HeardSame
    <2> QED
      BY <2>1, <2>2, ChannelRests DEF Channel
  <1>16. ASSUME NEW c \in Calls, ToolSends(c)
         PROVE  Channel'
    <2>1. Puts(wire) /\ conn'.started = conn.started /\ (conn.active => conn'.active)
      BY <1>16, SendsEffect
    <2>2. link /\ ended = "no" /\ UNCHANGED <<open, of, history, link, pump, ended>>
      BY <1>16 DEF ToolSends, socket
    <2>3. Heard' \subseteq Heard /\ Unmade' = Unmade
      BY <2>2, HeardSame
    <2> QED
      BY <2>1, <2>2, <2>3, ChannelPuts DEF Channel, Shapes
  <1> QED
    BY <1>1, <1>2, <1>3, <1>4, <1>5, <1>6, <1>7, <1>8, <1>9, <1>10, <1>11, <1>12, <1>13, <1>14,
       <1>15, <1>16, Cases

-----------------------------------------------------------------------------
(* The history *)

\* The end of a response files the results that waited for it.
LEMMA RecorderFinish ==
    ASSUME Shapes, Recorder, NEW cut, Finish(open, cut), UNCHANGED <<of, tool, cancelled, ended>>
    PROVE  Recorder'
  <1>1. /\ open' = 0
        /\ \A m \in Responses :
             ~(m = open /\ OpenResponseCalls # {}) => batch'[m] = batch[m]
        /\ history'.responses = history.responses \cup ({open} \ {0})
        /\ history'.results = history.results \cup (history.held \cap OpenResponseCalls)
    BY FinishEffect
  <1>2. \A c \in OpenResponseCalls : c \in Calls /\ of[c] = open /\ open # 0
    BY DEF OpenResponseCalls, CallsOf
  <1>3. \A c \in Calls : of[c] = open /\ open # 0 => c \in OpenResponseCalls
    BY DEF OpenResponseCalls, CallsOf
  <1>4. 0 \notin history'.responses
    BY <1>1 DEF Shapes, History, Positive
  <1>5. \A c \in history'.results : of[c] \in history'.responses
    BY <1>1, <1>2 DEF Recorder
  <1>6. \A m \in Responses : batch'[m].closed => m \in history'.responses
    <2>1. \A m \in Responses : m = open /\ OpenResponseCalls # {} => m \in history'.responses
      BY <1>1, <1>2
    <2> QED
      BY <1>1, <2>1 DEF Recorder
  <1>7. ASSUME ended = "no", NEW c \in Calls, of[c] # 0
        PROVE  of[c] \in history'.responses
    BY <1>1, <1>7 DEF Recorder
  <1>8. ASSUME ended = "no", NEW c \in Calls, tool[c] = "done"
        PROVE  of[c] # 0 /\ c \in history'.results
    <2>1. of[c] # 0
      BY <1>8 DEF Recorder
    <2>2. CASE of[c] = open
      BY <1>1, <1>3, <1>8, <2>1, <2>2 DEF Recorder
    <2>3. CASE of[c] # open
      BY <1>1, <1>8, <2>3 DEF Recorder
    <2> QED
      BY <2>1, <2>2, <2>3
  <1>9. \A c \in cancelled : of[c] # 0 /\ c \in Calls
    BY DEF Recorder
  <1> QED
    BY <1>1, <1>4, <1>5, <1>6, <1>7, <1>8, <1>9 DEF Recorder

\* Every step keeps the history in agreement with the progress of the calls.
LEMMA StepRecorder ==
    ASSUME Shapes, Channel, Recorder, [RealtimeNext]_realtimeVars
    PROVE  Recorder'
  <1>1. CASE Aside
    BY <1>1 DEF Aside, kept, Recorder
  <1>2. ASSUME UNCHANGED <<open, batch, of, tool, cancelled, history, ended>>
        PROVE  Recorder'
    BY <1>2 DEF Recorder
  <1>3. CASE Writes \/ SpeechResponse \/ Drop \/ \E cut \in BOOLEAN : ServerEnds(cut)
    BY <1>2, <1>3 DEF Writes, SpeechResponse, Drop, ServerEnds, session, socket
  <1>4. CASE HandleRejected \/ Reconnects \/ PumpCloses \/ \E c \in Calls : ServerCalls(c)
    BY <1>2, <1>4 DEF HandleRejected, Reconnects, PumpCloses, ServerCalls, session, socket
  <1>5. CASE HandleStarted
    <2> DEFINE n == Head(wire).n
    <2>1. Reads("started")
      BY <1>5 DEF HandleStarted
    <2>2. /\ open = 0 /\ wire # <<>> /\ wire \in Seq(Event) /\ Head(wire).kind = "started"
          /\ ended = "no"
      BY <2>1, HeadRead, ReadsInOrder
    <2>3. n \notin Heard
      BY <2>2, OrderlyTail DEF Channel
    <2>4. n \notin history.responses /\ \A c \in Calls : of[c] # n
      BY <2>3 DEF Heard
    <2>5. open' = n /\ UNCHANGED <<batch, of, tool, cancelled, history, ended>>
      BY <1>5 DEF HandleStarted, socket
    <2> HIDE DEF n
    <2> QED
      BY <2>2, <2>4, <2>5 DEF Recorder
  <1>6. CASE HandleCall
    <2> DEFINE c == Head(wire).call
    <2>1. Reads("call")
      BY <1>6 DEF HandleCall
    <2>2. /\ open = Head(wire).n /\ ended = "no"
          /\ wire # <<>> /\ wire \in Seq(Event) /\ Head(wire).kind = "call"
      BY <2>1, HeadRead, ReadsInOrder
    <2>3. c \in Unmade
      BY <2>2, OrderlyTail DEF Channel
    <2>4. /\ c \in Calls /\ of'[c] = open /\ open # 0 /\ tool'[c] = "run"
          /\ \A d \in Calls : d # c => of'[d] = of[d] /\ tool'[d] = tool[d]
          /\ \A m \in Responses : batch'[m].closed = batch[m].closed
          /\ UNCHANGED <<open, cancelled, history, ended>>
      BY <1>6, <2>2, CalledEffect
    <2> HIDE DEF c
    <2>5. of[c] = 0 /\ 0 \notin history.responses
      BY <2>3 DEF Unmade, Shapes, History, Positive
    <2>6. c \notin history.results /\ c \notin cancelled
      BY <2>5 DEF Recorder
    <2>7. history.results \subseteq Calls /\ cancelled \subseteq Calls
      BY DEF Shapes, History, Recorder
    <2>8. \A d \in Calls : tool'[d] = "none" <=> of'[d] = 0
      BY <2>4 DEF Recorder
    <2>9. /\ cancelled' \subseteq {d \in Calls : of'[d] # 0}
          /\ \A d \in history'.results : of'[d] \in history'.responses
          /\ \A m \in Responses : batch'[m].closed => m \in history'.responses
      BY <2>4, <2>6, <2>7 DEF Recorder
    <2>10. /\ open' \notin history'.responses
           /\ \A d \in Calls : of'[d] # 0 => of'[d] = open' \/ of'[d] \in history'.responses
           /\ \A d \in cancelled' : of'[d] \in history'.responses
      BY <2>2, <2>4, <2>6, <2>7 DEF Recorder
    <2>11. \A d \in Calls : tool'[d] = "done" =>
             d \in IF of'[d] = open' THEN history'.held ELSE history'.results
      BY <2>2, <2>4 DEF Recorder
    <2> QED
      BY <2>8, <2>9, <2>10, <2>11 DEF Recorder
  <1>7. CASE HandleDone
    <2>1. PICK cut : Finish(open, cut)
      BY <1>7 DEF HandleDone
    <2> QED
      BY <1>7, <2>1, RecorderFinish DEF HandleDone, socket
  <1>8. ASSUME Redial \/ PumpEnds
        PROVE  Recorder'
    <2>1. UNCHANGED <<of, tool, cancelled, ended>>
      BY <1>8 DEF Redial, PumpEnds
    <2>2. \/ \E cut : Finish(open, cut)
          \/ UNCHANGED <<open, batch, history>>
      BY <1>8 DEF Redial, PumpEnds
    <2>3. CASE \E cut : Finish(open, cut)
      BY <2>1, <2>3, RecorderFinish
    <2>4. CASE UNCHANGED <<open, batch, history>>
      BY <1>2, <2>1, <2>4
    <2> QED
      BY <2>2, <2>3, <2>4
  <1>9. CASE HandleReconnected
    <2>1. open = 0
      BY <1>9 DEF HandleReconnected, Channel
    <2>2. /\ open' = 0 /\ history'.responses = history.responses /\ ended = "no"
          /\ history'.results = history.results
          /\ \A m \in Responses : batch'[m].closed = batch[m].closed
          /\ cancelled' = cancelled \cup Running
          /\ UNCHANGED <<of, tool, ended>>
      BY <1>9, <2>1, ReconnectedEffect
    <2>3. \A c \in Running : c \in Calls /\ of[c] # 0
      BY DEF Running, Recorder
    <2> QED
      BY <2>1, <2>2, <2>3 DEF Recorder
  <1>10. ASSUME NEW c \in Calls, ToolReturns(c)
         PROVE  Recorder'
    <2>1. /\ tool[c] = "run" /\ tool'[c] \in {"record", "reserve", "send"}
          /\ \A d \in Calls : d # c => tool'[d] = tool[d]
          /\ \A m \in Responses : batch'[m].closed = batch[m].closed
          /\ cancelled' \subseteq cancelled
          /\ UNCHANGED <<open, of, history, ended>>
      BY <1>10, ReturnsEffect
    <2>2. \A d \in Calls : /\ tool'[d] = "none" <=> tool[d] = "none"
                           /\ tool'[d] = "done" => tool[d] = "done"
      BY <2>1
    <2> QED
      BY <2>1, <2>2 DEF Recorder
  <1>11. ASSUME NEW c \in Calls, ToolReserves(c) \/ ToolSends(c)
         PROVE  Recorder'
    <2>1. /\ \A d \in Calls : /\ tool'[d] = "none" <=> tool[d] = "none"
                              /\ tool'[d] = "done" => tool[d] = "done"
          /\ UNCHANGED <<open, batch, of, cancelled, history, ended>>
      BY <1>11 DEF ToolReserves, ToolSends, socket, Shapes
    <2> QED
      BY <2>1 DEF Recorder
  <1>12. ASSUME NEW c \in Calls, ToolSendFails(c)
         PROVE  Recorder'
    <2>1. /\ \A d \in Calls : tool'[d] = "none" <=> tool[d] = "none"
          /\ UNCHANGED <<open, batch, of, cancelled, history>>
          /\ ended' # "no"
      BY <1>12 DEF ToolSendFails, Shapes
    <2> QED
      BY <2>1 DEF Recorder
  <1>13. ASSUME NEW c \in Calls, ToolRecords(c)
         PROVE  Recorder'
    <2>1. /\ tool[c] = "record" /\ tool'[c] = "done"
          /\ \A d \in Calls : d # c => tool'[d] = tool[d]
          /\ UNCHANGED <<open, batch, of, cancelled, ended>>
      BY <1>13 DEF ToolRecords, socket, Shapes
    <2>2. /\ history'.responses = history.responses
          /\ of[c] \in history.responses =>
               history'.results = history.results \cup {c} /\ history'.held = history.held
          /\ of[c] \notin history.responses =>
               history'.results = history.results /\ history'.held = history.held \cup {c}
      BY <1>13 DEF ToolRecords, Shapes, History
    <2>3. of[c] # 0
      BY <2>1 DEF Recorder
    <2>4. \A d \in Calls : tool'[d] = "none" <=> of[d] = 0
      BY <2>1, <2>3 DEF Recorder
    <2>5. \A d \in history'.results : of[d] \in history'.responses
      BY <2>2 DEF Recorder
    <2>6. ASSUME ended = "no", NEW d \in Calls, tool'[d] = "done"
          PROVE  d \in IF of[d] = open THEN history'.held ELSE history'.results
      <3>1. CASE d = c
        <4>1. CASE of[c] \in history.responses
          BY <2>2, <2>6, <3>1, <4>1 DEF Recorder
        <4>2. CASE of[c] \notin history.responses
          BY <2>2, <2>3, <2>6, <3>1, <4>2 DEF Recorder
        <4> QED
          BY <4>1, <4>2
      <3>2. CASE d # c
        <4>1. d \in IF of[d] = open THEN history.held ELSE history.results
          BY <2>1, <2>6, <3>2 DEF Recorder
        <4>2. history.held \subseteq history'.held /\ history.results \subseteq history'.results
          BY <2>2
        <4> QED
          BY <4>1, <4>2
      <3> QED
        BY <3>1, <3>2
    <2> QED
      BY <2>1, <2>2, <2>4, <2>5, <2>6 DEF Recorder
  <1> QED
    BY <1>1, <1>3, <1>4, <1>5, <1>6, <1>7, <1>8, <1>9, <1>10, <1>11, <1>12, <1>13, Cases

-----------------------------------------------------------------------------
(* The batches of the session *)

\* The calls of a response that run can be counted.
LEMMA RunningFinite ==
    ASSUME NEW n
    PROVE  IsFiniteSet(RunningIn(n)) /\ RunningIn(n) \subseteq Calls
  BY RealtimeAssumption, FS_Subset DEF RunningIn, CallsOf

\* Responses are numbered from 1.
LEMMA ResponsesPositive == \A n \in Responses : n \in Nat /\ n # 0
  BY DEF Responses

\* Steps that start and stop no tool.
LEMMA CountedRests ==
    ASSUME Counted, cancelled \subseteq Calls, UNCHANGED <<batch, of, cancelled>>,
           \A c \in Calls : tool'[c] = "run" <=> tool[c] = "run"
    PROVE  Counted'
  <1>1. \A n : CallsOf(n)' = CallsOf(n) /\ RunningIn(n)' = RunningIn(n)
    BY DEF RunningIn, CallsOf
  <1>2. ASSUME NEW n \in Responses
        PROVE  CountedAt(n)'
    BY <1>1 DEF Counted, CountedAt
  <1> QED
    BY <1>2 DEF Counted

\* A response that ends counts its answer unless a tool of it still runs.
LEMMA CountedFinish ==
    ASSUME Shapes, Counted, NEW cut, Finish(open, cut), UNCHANGED <<of, tool, cancelled>>
    PROVE  Counted'
  <1>1. \A n : CallsOf(n)' = CallsOf(n) /\ RunningIn(n)' = RunningIn(n)
    BY DEF RunningIn, CallsOf
  <1>2. /\ \A m \in Responses :
             ~(m = open /\ OpenResponseCalls # {}) => batch'[m] = batch[m]
        /\ \A m \in Responses : m = open /\ OpenResponseCalls # {} =>
             /\ batch'[m].left = batch[m].left
             /\ batch'[m].abandoned = batch[m].abandoned
             /\ batch[m].left = 0 /\ ~batch[m].abandoned => batch'[m].counted
    BY FinishEffect
  <1>3. ASSUME NEW n \in Responses
        PROVE  CountedAt(n)'
    <2>1. CASE n = open /\ OpenResponseCalls # {}
      <3>1. /\ batch'[n].left = batch[n].left
            /\ batch'[n].abandoned = batch[n].abandoned
            /\ batch[n].left = 0 /\ ~batch[n].abandoned => batch'[n].counted
        BY <1>2, <2>1
      <3>2. RunningIn(n) = {} => batch[n].left = 0
        BY FS_EmptySet DEF Counted, CountedAt
      <3> QED
        BY <1>1, <3>1, <3>2 DEF Counted, CountedAt
    <2>2. CASE ~(n = open /\ OpenResponseCalls # {})
      <3>1. batch'[n] = batch[n]
        BY <1>2, <2>2
      <3> QED
        BY <1>1, <3>1 DEF Counted, CountedAt
    <2> QED
      BY <2>1, <2>2
  <1> QED
    BY <1>3 DEF Counted

\* Every step keeps the session's batches in agreement with the calls that run.
LEMMA StepCounted ==
    ASSUME Shapes, Channel, Recorder, Counted, [RealtimeNext]_realtimeVars
    PROVE  Counted'
  <1> cancelled \subseteq Calls
    BY DEF Recorder
  <1>1. CASE Aside \/ Writes \/ SpeechResponse \/ Drop \/ \E cut \in BOOLEAN : ServerEnds(cut)
    BY <1>1, CountedRests
       DEF Aside, kept, Writes, SpeechResponse, Drop, ServerEnds, session, socket
  <1>2. CASE HandleStarted \/ HandleRejected \/ Reconnects \/ PumpCloses
             \/ \E c \in Calls : ServerCalls(c)
    BY <1>2, CountedRests
       DEF HandleStarted, HandleRejected, Reconnects, PumpCloses, ServerCalls, session, socket
  <1>3. CASE HandleCall
    <2> DEFINE c == Head(wire).call
               k == Head(wire).n
    <2>1. Reads("call")
      BY <1>3 DEF HandleCall
    <2>2. wire # <<>> /\ wire \in Seq(Event) /\ Head(wire).kind = "call"
      BY <2>1, HeadRead
    <2>3. c \in Unmade
      BY <2>2, OrderlyTail DEF Channel
    <2>4. /\ c \in Calls /\ k \in Nat /\ of'[c] = k /\ tool'[c] = "run"
          /\ \A d \in Calls : d # c => of'[d] = of[d] /\ tool'[d] = tool[d]
          /\ \A m \in Responses : m # k => batch'[m] = batch[m]
          /\ k \in Responses => batch'[k].left = batch[k].left + 1
          /\ cancelled' = cancelled
      BY <1>3, CalledEffect
    <2> HIDE DEF c, k
    <2>5. of[c] = 0 /\ c \notin cancelled /\ cancelled \subseteq Calls
      BY <2>3 DEF Unmade, Recorder
    <2>6. ASSUME NEW n \in Responses
          PROVE  CountedAt(n)'
      <3>1. of[c] # n
        BY <2>5, ResponsesPositive
      <3>2. CASE n = k
        <4>1. RunningIn(n)' = RunningIn(n) \cup {c} /\ c \notin RunningIn(n)
          BY <2>4, <3>1, <3>2 DEF RunningIn, CallsOf
        <4>2. Cardinality(RunningIn(n)') = Cardinality(RunningIn(n)) + 1
          BY <4>1, RunningFinite, FS_AddElement
        <4>3. batch'[n].left = Cardinality(RunningIn(n)')
          BY <2>4, <3>2, <4>2 DEF Counted, CountedAt
        <4>4. RunningIn(n)' # {}
          BY <4>1
        <4>5. \A d \in cancelled : of'[d] = n /\ tool'[d] = "run" => batch'[n].abandoned
          <5>1. batch'[n].abandoned = batch[n].abandoned
            BY <1>3, <3>2, CalledEffect DEF k
          <5> QED
            BY <2>4, <2>5, <5>1 DEF Counted, CountedAt
        <4> QED
          BY <2>4, <4>3, <4>4, <4>5 DEF CountedAt
      <3>3. CASE n # k
        <4>1. RunningIn(n)' = RunningIn(n) /\ CallsOf(n)' = CallsOf(n)
          BY <2>4, <3>1, <3>3 DEF RunningIn, CallsOf
        <4>2. batch'[n] = batch[n]
          BY <2>4, <3>3
        <4>3. \A d \in cancelled : of'[d] = n /\ tool'[d] = "run" => batch'[n].abandoned
          BY <2>4, <2>5, <4>2 DEF Counted, CountedAt
        <4> QED
          BY <2>4, <4>1, <4>2, <4>3 DEF Counted, CountedAt
      <3> QED
        BY <3>2, <3>3
    <2> QED
      BY <2>6 DEF Counted
  <1>4. CASE HandleDone
    <2>1. PICK cut : Finish(open, cut)
      BY <1>4 DEF HandleDone
    <2> QED
      BY <1>4, <2>1, CountedFinish DEF HandleDone
  <1>5. ASSUME Redial \/ PumpEnds
        PROVE  Counted'
    <2>1. UNCHANGED <<of, tool, cancelled>>
      BY <1>5 DEF Redial, PumpEnds
    <2>2. \/ \E cut : Finish(open, cut)
          \/ UNCHANGED batch
      BY <1>5 DEF Redial, PumpEnds
    <2> QED
      BY <2>1, <2>2, CountedFinish, CountedRests
  <1>6. CASE HandleReconnected
    <2>1. open = 0
      BY <1>6 DEF HandleReconnected, Channel
    <2>2. /\ cancelled' = cancelled \cup Running
          /\ \A m \in Responses :
               /\ batch'[m].left = batch[m].left /\ batch'[m].closed = batch[m].closed
               /\ batch'[m].counted = batch[m].counted
               /\ batch[m].abandoned => batch'[m].abandoned
               /\ \A c \in Calls : tool[c] = "run" /\ of[c] = m => batch'[m].abandoned
          /\ UNCHANGED <<of, tool>>
      BY <1>6, <2>1, ReconnectedEffect
    <2>3. cancelled' \subseteq Calls
      BY <2>2 DEF Running, Recorder
    <2>4. \A n : CallsOf(n)' = CallsOf(n) /\ RunningIn(n)' = RunningIn(n)
      BY <2>2 DEF RunningIn, CallsOf
    <2>5. ASSUME NEW n \in Responses
          PROVE  CountedAt(n)'
      BY <2>2, <2>3, <2>4 DEF Counted, CountedAt
    <2> QED
      BY <2>5 DEF Counted
  <1>7. ASSUME NEW c \in Calls, ToolReturns(c)
        PROVE  Counted'
    <2> DEFINE k == of[c]
    <2>1. /\ tool[c] = "run" /\ tool'[c] # "run"
          /\ \A d \in Calls : d # c => tool'[d] = tool[d]
          /\ \A m \in Responses : m # k => batch'[m] = batch[m]
          /\ k \in Responses =>
               /\ batch'[k].left = batch[k].left - 1
               /\ batch'[k].closed = batch[k].closed
               /\ batch'[k].abandoned = batch[k].abandoned
               /\ batch[k].counted => batch'[k].counted
               /\ ( /\ batch'[k].left = 0 /\ batch[k].closed
                    /\ ~batch[k].abandoned /\ c \notin cancelled )
                  => batch'[k].counted
          /\ cancelled' = cancelled \ {c} /\ of' = of
      BY <1>7, ReturnsEffect
    <2> HIDE DEF k
    <2>2. cancelled \subseteq Calls
      BY DEF Recorder
    <2>3. ASSUME NEW n \in Responses
          PROVE  CountedAt(n)'
      <3>1. CallsOf(n)' = CallsOf(n)
        BY <2>1 DEF CallsOf
      <3>2. CASE n = k
        <4>1. RunningIn(n)' = RunningIn(n) \ {c} /\ c \in RunningIn(n)
          BY <2>1, <3>1, <3>2 DEF RunningIn, CallsOf, k
        <4>2. Cardinality(RunningIn(n)') = Cardinality(RunningIn(n)) - 1
          BY <4>1, RunningFinite, FS_RemoveElement
        <4>3. batch'[n].left = Cardinality(RunningIn(n)')
          BY <2>1, <3>2, <4>2 DEF Counted, CountedAt
        <4>4. \A d \in cancelled' : of'[d] = n /\ tool'[d] = "run" => batch'[n].abandoned
          BY <2>1, <2>2, <3>2 DEF Counted, CountedAt
        <4>5. RunningIn(n)' = {} => batch'[n].left = 0
          BY <4>3, FS_EmptySet
        <4>6. c \in cancelled => batch[n].abandoned
          BY <2>1, <3>2 DEF Counted, CountedAt, k
        <4> QED
          BY <2>1, <3>2, <4>3, <4>4, <4>5, <4>6 DEF CountedAt
      <3>3. CASE n # k
        <4>1. RunningIn(n)' = RunningIn(n)
          BY <2>1, <3>1, <3>3 DEF RunningIn, CallsOf, k
        <4>2. batch'[n] = batch[n]
          BY <2>1, <3>3
        <4>3. \A d \in cancelled' : of'[d] = n /\ tool'[d] = "run" => batch'[n].abandoned
          BY <2>1, <2>2, <4>2 DEF Counted, CountedAt
        <4> QED
          BY <3>1, <4>1, <4>2, <4>3 DEF Counted, CountedAt
      <3> QED
        BY <3>2, <3>3
    <2> QED
      BY <2>3 DEF Counted
  <1>8. ASSUME NEW c \in Calls,
               ToolReserves(c) \/ ToolSends(c) \/ ToolSendFails(c) \/ ToolRecords(c)
        PROVE  Counted'
    <2>1. \A d \in Calls : tool'[d] = "run" <=> tool[d] = "run"
      BY <1>8 DEF ToolReserves, ToolSends, ToolSendFails, ToolRecords, Shapes
    <2>2. UNCHANGED <<batch, of, cancelled>>
      BY <1>8 DEF ToolReserves, ToolSends, ToolSendFails, ToolRecords
    <2> QED
      BY <2>1, <2>2, CountedRests
  <1> QED
    BY <1>1, <1>2, <1>3, <1>4, <1>5, <1>6, <1>7, <1>8, Cases

-----------------------------------------------------------------------------
(* The batches of the connection *)

\* What is asked for depends on the connection alone.
LEMMA AskedIs == Asked = AskedOf(conn) /\ Asked' = AskedOf(conn')
  BY DEF Asked, AskedOf, Elements

\* Steps that give the connection no other batches and have it ask for no other call.
LEMMA InStepRests ==
    ASSUME InStep, cancelled' \subseteq cancelled, UNCHANGED <<open, of, pump>>,
           conn'.batches = conn.batches, Asked' \cap Calls \subseteq Asked,
           ended' = "no" =>
             /\ ended = "no"
             /\ \A n \in DOMAIN conn.batches : OpenCalls(n)' = OpenCalls(n)
    PROVE  InStep'
  <1>1. \A n : CallsOf(n)' = CallsOf(n) /\ CallsOf(n) \subseteq Calls
    BY DEF CallsOf
  <1>2. ASSUME ended' = "no", NEW n \in DOMAIN conn.batches, Mirrors(n)
        PROVE  Mirrors(n)'
    <2>1. CallsOf(n) \cap Asked' = {}
      BY <1>1, <1>2 DEF Mirrors
    <2> QED
      BY <1>1, <1>2, <2>1 DEF Mirrors
  <1> QED
    BY <1>1, <1>2 DEF InStep

\* Every step keeps the connection's batches in agreement with the calls of the session.
LEMMA StepInStep ==
    ASSUME Shapes, Channel, Recorder, InStep, [RealtimeNext]_realtimeVars
    PROVE  InStep'
  <1>0. \A n : UNCHANGED <<of, tool>> => OpenCalls(n)' = OpenCalls(n)
    BY DEF OpenCalls, CallsOf
  <1>1. CASE Aside
    <2>1. Asked' = Asked
      BY <1>1 DEF Aside, kept, Asked
    <2> QED
      BY <1>0, <1>1, <2>1, InStepRests DEF Aside, kept
  <1>2. CASE Writes
    <2>1. PICK x \in Texts \cup Prompts : Requested(conn, <<x>>, wire)
      BY <1>2 DEF Writes
    <2>2. conn \in Conn /\ <<x>> \in Seq(Inputs) /\ Elements(<<x>>) = {x} /\ x \notin Calls
      BY RealtimeAssumption DEF Inputs, Shapes, Elements
    <2>3. conn'.batches = conn.batches /\ AskedOf(conn') \subseteq AskedOf(conn) \cup {x}
      BY <2>1, <2>2, RequestEffect
    <2>4. Asked' \cap Calls \subseteq Asked
      BY <2>2, <2>3, AskedIs
    <2> QED
      BY <1>0, <1>2, <2>3, <2>4, InStepRests DEF Writes
  <1>3. ASSUME UNCHANGED <<open, of, tool, cancelled, conn, pump, ended>>
        PROVE  InStep'
    <2>1. Asked' = Asked
      BY <1>3 DEF Asked
    <2> QED
      BY <1>0, <1>3, <2>1, InStepRests
  <1>4. CASE SpeechResponse \/ Drop \/ (\E cut \in BOOLEAN : ServerEnds(cut))
             \/ \E c \in Calls : ServerCalls(c)
    BY <1>3, <1>4 DEF SpeechResponse, Drop, ServerEnds, ServerCalls, session, socket
  <1>5. CASE HandleStarted
    <2> DEFINE n == Head(wire).n
    <2>1. Reads("started")
      BY <1>5 DEF HandleStarted
    <2>2. /\ open = 0 /\ wire # <<>> /\ wire \in Seq(Event) /\ Head(wire).kind = "started"
          /\ ended = "no" /\ pump = "read"
      BY <2>1, HeadRead, ReadsInOrder
    <2>3. \A c \in Calls : of[c] # n
      <3>1. Orderly(wire, Heard, made.all, Unmade)
        BY DEF Channel
      <3>2. n \notin Heard
        BY <2>2, <3>1, OrderlyTail
      <3> QED
        BY <3>2 DEF Heard
    <2>4. open' = n /\ UNCHANGED <<of, tool, cancelled, pump, ended>>
      BY <1>5 DEF HandleStarted, socket
    <2>5. /\ conn'.batches = conn.batches /\ conn'.inputs = conn.inputs
          /\ conn'.deferred = conn.deferred
      BY <1>5 DEF HandleStarted, Quiet, Shapes, Conn
    <2> HIDE DEF n
    <2>6. Asked' = Asked
      BY <2>5 DEF Asked
    <2>7. \A m : CallsOf(m)' = CallsOf(m) /\ OpenCalls(m)' = OpenCalls(m)
      BY <2>4 DEF CallsOf, OpenCalls
    <2>8. CallsOf(n) = {}
      BY <2>3 DEF CallsOf
    <2>9. ASSUME NEW m \in DOMAIN conn.batches
          PROVE  Mirrors(m)'
      <3>1. Mirrors(m)
        BY <2>2 DEF InStep
      <3>2. m # n
        BY <2>8, <3>1 DEF Mirrors
      <3> QED
        BY <2>2, <2>4, <2>5, <2>6, <2>7, <3>1, <3>2 DEF Mirrors
    <2> QED
      BY <2>2, <2>4, <2>5, <2>6, <2>7, <2>8, <2>9 DEF InStep
  <1>6. CASE HandleCall
    <2> DEFINE c == Head(wire).call
    <2>1. Reads("call")
      BY <1>6 DEF HandleCall
    <2>2. /\ open = Head(wire).n /\ ended = "no" /\ pump = "read"
          /\ wire # <<>> /\ wire \in Seq(Event) /\ Head(wire).kind = "call"
      BY <2>1, HeadRead, ReadsInOrder
    <2>3. c \in Unmade
      BY <2>2, OrderlyTail DEF Channel
    <2>4. /\ c \in Calls /\ of'[c] = open /\ open # 0 /\ tool'[c] = "run"
          /\ \A d \in Calls : d # c => of'[d] = of[d] /\ tool'[d] = tool[d]
          /\ UNCHANGED <<open, cancelled, history, pump, ended>>
      BY <1>6, <2>2, CalledEffect
    <2> DEFINE B == conn.batches
               D == conn'.batches
    <2>5. /\ Asked' = Asked
          /\ DOMAIN D = DOMAIN B \cup {open}
          /\ D[open].unanswered = (IF open \in DOMAIN B THEN B[open].unanswered ELSE {}) \cup {c}
          /\ D[open].done = FALSE /\ D[open].input = c
          /\ \A m \in DOMAIN B : m # open => D[m] = B[m]
      BY <1>6, <2>2, CallEffect, AskedIs
    <2> HIDE DEF c, B, D
    <2>6. /\ \A m \in DOMAIN B : Mirrors(m)
          /\ CallsOf(open) # {} => open \in DOMAIN B
          /\ \A d \in Calls \cap Asked : of[d] # 0
          /\ \A d \in cancelled : of[d] \notin DOMAIN B
      BY <2>2, <2>4 DEF InStep, B
    <2>7. of[c] = 0 /\ c \notin Asked /\ c \notin cancelled /\ cancelled \subseteq Calls
      BY <2>3, <2>4, <2>6 DEF Unmade, Recorder
    <2>8. ASSUME NEW m, m # 0, m # open
          PROVE  CallsOf(m)' = CallsOf(m) /\ OpenCalls(m)' = OpenCalls(m)
      BY <2>4, <2>7, <2>8 DEF CallsOf, OpenCalls
    <2>9. /\ CallsOf(open)' = CallsOf(open) \cup {c}
          /\ OpenCalls(open)' = OpenCalls(open) \cup {c}
      BY <2>4, <2>7 DEF CallsOf, OpenCalls
    <2>10. ASSUME NEW m \in DOMAIN B, m # open
           PROVE  Mirrors(m)'
      <3>1. Mirrors(m) /\ m # 0
        BY <2>6 DEF Mirrors
      <3>2. CallsOf(m)' = CallsOf(m) /\ OpenCalls(m)' = OpenCalls(m) /\ D[m] = B[m]
        BY <2>5, <2>8, <2>10, <3>1
      <3> QED
        BY <2>4, <2>5, <3>1, <3>2 DEF Mirrors, B, D
    <2>11. Mirrors(open)'
      <3>1. D[open].unanswered = OpenCalls(open)'
        <4>1. CASE open \in DOMAIN B
          BY <2>5, <2>6, <2>9, <4>1 DEF Mirrors, B
        <4>2. CASE open \notin DOMAIN B
          <5>1. OpenCalls(open) = {}
            BY <2>6, <4>2 DEF OpenCalls
          <5> QED
            BY <2>5, <2>9, <4>2, <5>1
        <4> QED
          BY <4>1, <4>2
      <3>2. CallsOf(open) \cap Asked = {}
        BY <2>6 DEF Mirrors
      <3>3. CallsOf(open)' \cap Asked' = {} /\ c \in CallsOf(open)'
        BY <2>5, <2>7, <2>9, <3>2
      <3> QED
        BY <2>4, <2>5, <3>1, <3>3 DEF Mirrors, D
    <2>12. ASSUME NEW m \in DOMAIN D
           PROVE  Mirrors(m)'
      <3>1. m = open \/ (m \in DOMAIN B /\ m # open)
        BY <2>5
      <3>2. CASE m = open
        BY <2>4, <2>11, <3>2 DEF Mirrors
      <3> QED
        BY <2>10, <3>1, <3>2
    <2>13. \A d \in Calls \cap Asked' : of'[d] # 0
      BY <2>4, <2>5, <2>6
    <2>14. \A d \in cancelled' : of'[d] \notin DOMAIN D
      BY <2>2, <2>4, <2>5, <2>6, <2>7 DEF Recorder
    <2> QED
      BY <2>2, <2>4, <2>5, <2>12, <2>13, <2>14 DEF InStep, D
  <1>7. CASE HandleDone
    <2> DEFINE B == conn.batches
               D == conn'.batches
    <2>1. Reads("done")
      BY <1>7 DEF HandleDone
    <2>2. Head(wire).n = open /\ open # 0 /\ ended = "no" /\ pump = "read"
      BY <2>1, HeadRead, ReadsInOrder
    <2>3. /\ open \notin DOMAIN B => D = B /\ Asked' \subseteq Asked
          /\ open \in DOMAIN B /\ B[open].unanswered = {} =>
               /\ DOMAIN D = DOMAIN B \ {open}
               /\ Asked' \subseteq Asked \cup {B[open].input}
          /\ open \in DOMAIN B /\ B[open].unanswered # {} =>
               /\ DOMAIN D = DOMAIN B /\ Asked' \subseteq Asked
               /\ D[open].unanswered = B[open].unanswered /\ D[open].input = B[open].input
               /\ D[open].done
          /\ \A m \in DOMAIN B : m # open => D[m] = B[m]
      BY <1>7, <2>2, DoneEffect, AskedIs
    <2>4. open' = 0
      BY <1>7 DEF HandleDone, Finish
    <2>5. UNCHANGED <<of, tool, cancelled, pump, ended>>
      BY <1>7 DEF HandleDone, socket
    <2> HIDE DEF B, D
    <2>6. /\ \A m \in DOMAIN B : Mirrors(m)
          /\ \A d \in Calls \cap Asked : of[d] # 0
          /\ \A d \in cancelled : of[d] \notin DOMAIN B
      BY <2>2 DEF InStep, B
    <2>7. \A m : CallsOf(m)' = CallsOf(m) /\ OpenCalls(m)' = OpenCalls(m)
      BY <2>5 DEF CallsOf, OpenCalls
    <2>8. DOMAIN D \subseteq DOMAIN B
      BY <2>3
    <2>9. \A x \in Asked' : x \in Asked \/ of[x] = open
      <3>1. open \in DOMAIN B => B[open].input \in CallsOf(open)
        BY <2>6 DEF Mirrors, B
      <3> QED
        BY <2>3, <3>1 DEF CallsOf
    <2>10. ASSUME NEW m \in DOMAIN D
           PROVE  Mirrors(m)'
      <3>1. Mirrors(m) /\ m \in DOMAIN B
        BY <2>6, <2>8
      <3>2. CASE m # open
        <4>1. D[m] = B[m]
          BY <2>3, <3>1, <3>2
        <4>2. CallsOf(m)' \cap Asked' = {}
          BY <2>7, <2>9, <3>1, <3>2 DEF Mirrors, CallsOf
        <4> QED
          BY <2>4, <2>7, <3>1, <3>2, <4>1, <4>2 DEF Mirrors, B, D
      <3>3. CASE m = open
        <4>1. /\ Asked' \subseteq Asked /\ B[m].unanswered # {}
              /\ D[m].unanswered = B[m].unanswered /\ D[m].input = B[m].input /\ D[m].done
          BY <2>3, <3>1, <3>3
        <4> QED
          BY <2>2, <2>4, <2>7, <3>1, <3>3, <4>1 DEF Mirrors, B, D
      <3> QED
        BY <3>2, <3>3
    <2>11. \A d \in Calls \cap Asked' : of'[d] # 0
      BY <2>2, <2>5, <2>6, <2>9
    <2>12. \A d \in cancelled' : of'[d] \notin DOMAIN D
      BY <2>5, <2>6, <2>8
    <2> QED
      BY <2>2, <2>4, <2>5, <2>10, <2>11, <2>12 DEF InStep, D
  <1>8. CASE HandleRejected
    <2>1. conn'.batches = conn.batches /\ Asked' \subseteq Asked
      BY <1>8, RejectedEffect, AskedIs
    <2>2. UNCHANGED <<open, of, tool, cancelled, pump, ended>>
      BY <1>8 DEF HandleRejected, socket
    <2> QED
      BY <1>0, <2>1, <2>2, InStepRests
  <1>9. CASE Redial
    BY <1>9 DEF Redial, InStep
  <1>10. CASE Reconnects
    <2>1. conn' = FreshConn /\ pump' = "resume" /\ open' = open /\ open = 0
      BY <1>10 DEF Reconnects, Quiet, session, Channel
    <2>2. DOMAIN conn'.batches = {}
      BY <2>1 DEF FreshConn
    <2>3. Asked' = {}
      BY <2>1 DEF FreshConn, Asked
    <2> QED
      BY <2>1, <2>2, <2>3 DEF InStep
  <1>11. CASE HandleReconnected
    <2>1. open = 0
      BY <1>11 DEF HandleReconnected, Channel
    <2>2. /\ pump = "resume" /\ ended = "no" /\ open' = 0
          /\ UNCHANGED <<of, conn, ended>>
      BY <1>11, <2>1, ReconnectedEffect
    <2>3. DOMAIN conn.batches = {} /\ \A c \in Calls \cap Asked : of[c] # 0
      BY <2>2 DEF InStep
    <2>4. Asked' = Asked
      BY <2>2 DEF Asked
    <2> QED
      BY <2>2, <2>3, <2>4 DEF InStep
  <1>12. CASE PumpEnds \/ PumpCloses
    BY <1>12 DEF PumpEnds, PumpCloses, InStep
  <1>13. ASSUME NEW c \in Calls, ToolReturns(c)
         PROVE  InStep'
    <2>1. /\ tool[c] = "run" /\ tool'[c] \in {"record", "reserve", "send"}
          /\ c \notin cancelled => tool'[c] # "record"
          /\ \A d \in Calls : d # c => tool'[d] = tool[d]
          /\ cancelled' = cancelled \ {c}
          /\ UNCHANGED <<open, of, conn, pump, ended>>
      BY <1>13, ReturnsEffect
    <2>2. Asked' = Asked
      BY <2>1 DEF Asked
    <2>3. ASSUME NEW m, c \notin cancelled \/ of[c] # m
          PROVE  OpenCalls(m)' = OpenCalls(m)
      BY <2>1, <2>3 DEF OpenCalls, CallsOf
    <2>4. CASE ended = "no" /\ pump \in {"read", "resume"}
      <3>1. c \in cancelled => of[c] \notin DOMAIN conn.batches
        BY <2>4 DEF InStep
      <3>2. \A m \in DOMAIN conn.batches : OpenCalls(m)' = OpenCalls(m)
        BY <2>3, <3>1
      <3> QED
        BY <2>1, <2>2, <3>2, InStepRests
    <2>5. CASE ~(ended = "no" /\ pump \in {"read", "resume"})
      BY <2>1, <2>5 DEF InStep
    <2> QED
      BY <2>4, <2>5
  <1>14. ASSUME NEW c \in Calls, ToolReserves(c) \/ ToolRecords(c)
         PROVE  InStep'
    <2>1. /\ \A d \in Calls : tool'[d] \in {"run", "reserve", "send"}
                                <=> tool[d] \in {"run", "reserve", "send"}
          /\ UNCHANGED <<open, of, cancelled, conn, pump, ended>>
      BY <1>14 DEF ToolReserves, ToolRecords, channel, socket, Shapes
    <2>2. \A m : OpenCalls(m)' = OpenCalls(m)
      BY <2>1 DEF OpenCalls, CallsOf
    <2>3. Asked' = Asked
      BY <2>1 DEF Asked
    <2> QED
      BY <2>1, <2>2, <2>3, InStepRests
  <1>15. ASSUME NEW c \in Calls, ToolSendFails(c)
         PROVE  InStep'
    BY <1>15 DEF ToolSendFails, InStep
  <1>16. ASSUME NEW c \in Calls, ToolSends(c)
         PROVE  InStep'
    <2> DEFINE n == of[c]
               B == conn.batches
               D == conn'.batches
               rest == B[n].unanswered \ {c}
    <2>1. /\ tool[c] = "send" /\ tool'[c] = "record"
          /\ \A d \in Calls : d # c => tool'[d] = tool[d]
          /\ ended = "no" /\ link
          /\ UNCHANGED <<open, of, cancelled, pump, ended>>
      BY <1>16 DEF ToolSends, socket, Shapes
    <2>2. /\ n \notin DOMAIN B => D = B /\ Asked' \subseteq Asked \cup {c}
          /\ n \in DOMAIN B /\ B[n].done /\ rest = {} =>
               /\ DOMAIN D = DOMAIN B \ {n}
               /\ Asked' \subseteq Asked \cup {c}
          /\ n \in DOMAIN B /\ ~(B[n].done /\ rest = {}) =>
               /\ DOMAIN D = DOMAIN B /\ Asked' \subseteq Asked
               /\ D[n].unanswered = rest /\ D[n].done = B[n].done /\ D[n].input = c
          /\ \A m \in DOMAIN B : m # n => D[m] = B[m]
      BY <1>16, SendsEffect, AskedIs
    <2> SUFFICES ASSUME pump \in {"read", "resume"}
                 PROVE  InStep'
      BY <2>1 DEF InStep
    <2> HIDE DEF B, D, rest
    <2>3. /\ pump = "resume" => DOMAIN B = {}
          /\ \A m \in DOMAIN B : Mirrors(m)
          /\ open # 0 /\ CallsOf(open) # {} => open \in DOMAIN B
          /\ \A d \in Calls \cap Asked : of[d] # 0
          /\ \A d \in cancelled : of[d] \notin DOMAIN B
      BY <2>1 DEF InStep, B
    <2>4. n # 0
      BY <2>1 DEF Recorder
    <2>5. \A m : CallsOf(m)' = CallsOf(m)
      BY <2>1 DEF CallsOf
    <2>6. /\ c \in CallsOf(n)
          /\ \A m : m = n => OpenCalls(m)' = OpenCalls(n) \ {c}
      BY <2>1 DEF CallsOf, OpenCalls
    <2>7. \A m : m # n => OpenCalls(m)' = OpenCalls(m) /\ c \notin CallsOf(m)
      BY <2>1 DEF CallsOf, OpenCalls
    <2> HIDE DEF n
    <2>8. DOMAIN D \subseteq DOMAIN B /\ Asked' \subseteq Asked \cup {c}
      BY <2>2
    <2>9. ASSUME NEW m \in DOMAIN D
          PROVE  Mirrors(m)'
      <3>1. Mirrors(m) /\ m \in DOMAIN B
        BY <2>3, <2>8
      <3>2. CASE m # n
        <4>1. D[m] = B[m]
          BY <2>2, <3>1, <3>2
        <4>2. CallsOf(m)' \cap Asked' = {}
          BY <2>5, <2>7, <2>8, <3>1, <3>2 DEF Mirrors
        <4> QED
          BY <2>1, <2>5, <2>7, <3>1, <3>2, <4>1, <4>2 DEF Mirrors, B, D
      <3>3. CASE m = n
        <4>1. /\ ~(B[n].done /\ rest = {}) /\ Asked' \subseteq Asked
              /\ D[n].unanswered = rest /\ D[n].done = B[n].done /\ D[n].input = c
          BY <2>2, <3>1, <3>3
        <4>2. rest = OpenCalls(m)' /\ (B[n].done <=> n # open)
          BY <2>6, <3>1, <3>3 DEF Mirrors, rest, B
        <4> QED
          <5>1. CallsOf(m)' \cap Asked' = {} /\ c \in CallsOf(m)'
            BY <2>5, <2>6, <3>1, <3>3, <4>1 DEF Mirrors
          <5>2. D[m].unanswered = OpenCalls(m)' /\ (D[m].done <=> m # open')
            BY <2>1, <3>3, <4>1, <4>2
          <5>3. m # open' => OpenCalls(m)' # {}
            BY <2>1, <2>6, <3>3, <4>1, <4>2
          <5> QED
            BY <2>4, <3>3, <4>1, <5>1, <5>2, <5>3 DEF Mirrors, D
      <3> QED
        BY <3>2, <3>3
    <2>10. open # 0 /\ CallsOf(open) # {} => open \in DOMAIN D
      <3>1. n \in DOMAIN B => (B[n].done <=> n # open)
        BY <2>3 DEF Mirrors, B
      <3> QED
        BY <2>2, <2>3, <3>1
    <2>11. \A d \in Calls \cap Asked' : of'[d] # 0
      BY <2>1, <2>3, <2>4, <2>8 DEF n
    <2>12. \A d \in cancelled' : of'[d] \notin DOMAIN D
      BY <2>1, <2>3, <2>8
    <2> QED
      BY <2>1, <2>3, <2>5, <2>8, <2>9, <2>10, <2>11, <2>12 DEF InStep, D
  <1> QED
    BY <1>1, <1>2, <1>4, <1>5, <1>6, <1>7, <1>8, <1>9, <1>10, <1>11, <1>12, <1>13, <1>14, <1>15,
       <1>16, Cases

-----------------------------------------------------------------------------
(* The theorems *)

\* A session that has just been connected satisfies the invariant.
LEMMA InitIInv ==
    ASSUME RealtimeInit
    PROVE  IInv
  <1>1. Shapes
    <2>1. <<>> \in Seq(Inputs) /\ <<>> \in Seq(Event)
      OBVIOUS
    <2>2. conn.batches \in ConnBatches
      <3>1. conn.batches \in [{} -> ConnBatch] /\ {} \in SUBSET Nat
        BY DEF RealtimeInit, FreshConn
      <3> QED
        BY <3>1 DEF ConnBatches
    <2>3. conn \in Conn
      BY <2>1, <2>2 DEF RealtimeInit, FreshConn, Conn
    <2>4. history \in History
      BY DEF RealtimeInit, History
    <2>5. batch \in [Responses -> Batch]
      BY DEF RealtimeInit, NoBatch, Batch
    <2>6. of \in [Calls -> Nat] /\ tool \in [Calls -> Stages] /\ made \in [all : Nat, alone : Nat]
      BY DEF RealtimeInit, Stages
    <2> QED
      BY <2>1, <2>3, <2>4, <2>5, <2>6 DEF Shapes, RealtimeInit
  <1>2. Channel
    <2>1. Heard = {0}
      BY DEF Heard, RealtimeInit
    <2>2. wire = <<>> /\ Len(wire) = 0 /\ 1 .. Len(wire) = {}
      BY DEF RealtimeInit
    <2>3. Orderly(wire, Heard, made.all, Unmade)
      BY <2>2 DEF Orderly
    <2>4. Flow(wire, open, server)
      BY <2>2, FlowEmpty DEF RealtimeInit
    <2> QED
      BY <2>1, <2>3, <2>4 DEF Channel, RealtimeInit
  <1>3. Recorder
    BY DEF Recorder, RealtimeInit, NoBatch
  <1>4. Counted
    <2>1. ASSUME NEW n \in Responses
          PROVE  CountedAt(n)
      <3>1. RunningIn(n) = {} /\ batch[n] = NoBatch /\ cancelled = {}
        BY DEF RunningIn, CallsOf, RealtimeInit
      <3> QED
        BY <3>1, FS_EmptySet DEF CountedAt, NoBatch
    <2> QED
      BY <2>1 DEF Counted
  <1>5. InStep
    <2>1. DOMAIN conn.batches = {} /\ open = 0 /\ cancelled = {} /\ Asked = {}
      BY DEF RealtimeInit, FreshConn, Asked
    <2> QED
      BY <2>1 DEF InStep
  <1> QED
    BY <1>1, <1>2, <1>3, <1>4, <1>5 DEF IInv

\* In every reachable state the wire can be read in order, and the session's batches, the
\* connection's batches and the history agree with the progress of the calls.
THEOREM BatchesInv == RealtimeSpec => []IInv
  <1>1. RealtimeInit => IInv
    BY InitIInv
  <1>2. IInv /\ [RealtimeNext]_realtimeVars => IInv'
    BY StepShapes, StepChannel, StepRecorder, StepCounted, StepInStep DEF IInv
  <1> QED
    BY <1>1, <1>2, PTL DEF RealtimeSpec

\* Once a response and its tools are over, the session has counted one reply to them and
\* the connection has forgotten the batch; the connection asks for nothing sooner.
THEOREM RealtimeBatchesAgree == RealtimeSpec => []BatchesAgree
  <1>1. IInv => BatchesAgree
    <2> SUFFICES ASSUME IInv, ended = "no", pump = "read", NEW n \in Responses
                 PROVE  /\ ( /\ CallsOf(n) # {} /\ batch[n].closed /\ ~batch[n].abandoned
                             /\ \A c \in CallsOf(n) : tool[c] = "done" )
                           => batch[n].counted /\ n \notin DOMAIN conn.batches
                        /\ n \in DOMAIN conn.batches => CallsOf(n) \cap Asked = {}
      BY DEF BatchesAgree
    <2>1. n \in DOMAIN conn.batches => Mirrors(n)
      BY DEF IInv, InStep
    <2>2. ASSUME CallsOf(n) # {}, batch[n].closed, ~batch[n].abandoned,
                 \A c \in CallsOf(n) : tool[c] = "done"
          PROVE  batch[n].counted /\ n \notin DOMAIN conn.batches
      <3>1. RunningIn(n) = {} /\ OpenCalls(n) = {}
        BY <2>2 DEF RunningIn, OpenCalls
      <3>2. batch[n].counted
        BY <2>2, <3>1 DEF IInv, Counted, CountedAt
      <3>3. n # open
        BY <2>2 DEF IInv, Recorder
      <3> QED
        BY <2>1, <3>1, <3>2, <3>3 DEF Mirrors
    <2> QED
      BY <2>1, <2>2 DEF Mirrors
  <1> QED
    BY <1>1, BatchesInv, PTL

\* The result of a tool is held back while its response is collected, enters the history
\* with it, and is never there before it.
THEOREM RealtimeResultsFollow == RealtimeSpec => []ResultsFollowResponses
  <1>1. IInv => ResultsFollowResponses
    BY DEF IInv, Recorder, ResultsFollowResponses
  <1> QED
    BY <1>1, BatchesInv, PTL

\* Both promises about the tools of a response, as the run checks them.
THEOREM RealtimeBatchesSound == RealtimeSpec => []BatchesSound
  BY RealtimeBatchesAgree, RealtimeResultsFollow, PTL DEF BatchesSound

-----------------------------------------------------------------------------
(* The bounds: how many responses there can be, and how much is owed *)

TextStates == {"new", "reserved", "sent", "lost", "queued", "taken"}

\* What the connection was asked to answer: texts that were written, and calls whose batch is
\* answered or forgotten.
Requesting ==
    {t \in Texts \cup Prompts : text[t] = "sent"}
      \cup {c \in Calls : tool[c] \in {"record", "done"} /\ of[c] \notin DOMAIN conn.batches}

\* A response was started by the provider itself, or answers something of its own.
Numbered ==
    /\ text \in [Texts \cup Prompts -> TextStates]
    /\ made.alone <= MaxSpeech /\ made.alone <= made.all
    /\ made.all + Len(conn.deferred) <= made.alone + Cardinality(Requesting)
    /\ \A n \in DOMAIN conn.batches : n # 0 /\ n <= made.all

\* What a reply was reserved for: texts and prompts, and the batches that were counted.
Sources ==
    {t \in Texts : text[t] # "new"} \cup {p \in Prompts : text[p] \notin {"new", "queued"}}
CountedIn == {n \in Responses : batch[n].counted}
Reserving == {c \in Calls : tool[c] = "reserve"}

Owed == [active : BOOLEAN, exchange : BOOLEAN, pending : Nat, tools : Nat]

\* Replies are reserved once for each of them, or are about to be by the goroutine of a tool,
\* and every tool that runs is counted.
Owing ==
    /\ replies \in Owed
    /\ replies.tools = Cardinality(Running)
    /\ replies.pending + Cardinality(Reserving) <= Cardinality(Sources) + Cardinality(CountedIn)
    /\ \A n \in CountedIn : CallsOf(n) # {}

\* A set of inputs that grows, by one at least when it has a new element.
LEMMA SetGrows ==
    ASSUME NEW S, NEW T, IsFiniteSet(T), S \subseteq T
    PROVE  /\ IsFiniteSet(S) /\ Cardinality(S) \in Nat /\ Cardinality(T) \in Nat
           /\ Cardinality(S) <= Cardinality(T)
           /\ \A x \in T \ S : Cardinality(S) + 1 <= Cardinality(T)
  <1>1. /\ IsFiniteSet(S) /\ Cardinality(S) \in Nat /\ Cardinality(T) \in Nat
        /\ Cardinality(S) <= Cardinality(T)
    BY FS_Subset, FS_CardinalityType
  <1>2. ASSUME NEW x \in T \ S
        PROVE  Cardinality(S) + 1 <= Cardinality(T)
    <2>1. S \cup {x} \in SUBSET T
      OBVIOUS
    <2>2. Cardinality(S \cup {x}) = Cardinality(S) + 1
      BY <1>1, <1>2, FS_AddElement
    <2>3. Cardinality(S \cup {x}) <= Cardinality(T)
      BY <2>1, FS_Subset
    <2> QED
      BY <1>1, <2>2, <2>3
  <1> QED
    BY <1>1, <1>2

\* Sets without a common element count separately.
LEMMA CountsApart ==
    ASSUME NEW S, NEW T, IsFiniteSet(S), IsFiniteSet(T), S \cap T = {}
    PROVE  /\ IsFiniteSet(S \cup T)
           /\ Cardinality(S \cup T) = Cardinality(S) + Cardinality(T)
  <1>1. Cardinality(S \cap T) = 0
    BY FS_EmptySet
  <1>2. Cardinality(S) \in Nat /\ Cardinality(T) \in Nat
    BY FS_CardinalityType
  <1>3. /\ IsFiniteSet(S \cup T)
        /\ Cardinality(S \cup T) = Cardinality(S) + Cardinality(T) - Cardinality(S \cap T)
    BY FS_Union, Zenon
  <1> DEFINE k == Cardinality(S \cap T)
             m == Cardinality(S \cup T)
  <1>4. k = 0 /\ m = Cardinality(S) + Cardinality(T) - k
    BY <1>1, <1>3, Zenon
  <1> HIDE DEF k, m
  <1>5. m = Cardinality(S) + Cardinality(T)
    BY <1>2, <1>4
  <1> QED
    BY <1>3, <1>5 DEF m

\* Everything that is counted here is finite.
LEMMA InputsFinite ==
    /\ IsFiniteSet(Inputs)
    /\ Cardinality(Inputs) = Cardinality(Calls) + Cardinality(Texts) + Cardinality(Prompts)
    /\ Cardinality(Calls) \in Nat /\ Cardinality(Texts) \in Nat /\ Cardinality(Prompts) \in Nat
  <1>1. /\ IsFiniteSet(Calls) /\ IsFiniteSet(Texts) /\ IsFiniteSet(Prompts)
        /\ Cardinality(Calls) \in Nat /\ Cardinality(Texts) \in Nat /\ Cardinality(Prompts) \in Nat
    BY RealtimeAssumption, FS_CardinalityType
  <1>2. /\ IsFiniteSet(Calls \cup Texts)
        /\ Cardinality(Calls \cup Texts) = Cardinality(Calls) + Cardinality(Texts)
    BY <1>1, CountsApart, RealtimeAssumption
  <1>3. (Calls \cup Texts) \cap Prompts = {}
    BY RealtimeAssumption
  <1>4. /\ IsFiniteSet((Calls \cup Texts) \cup Prompts)
        /\ Cardinality((Calls \cup Texts) \cup Prompts)
             = Cardinality(Calls \cup Texts) + Cardinality(Prompts)
    BY <1>1, <1>2, <1>3, CountsApart
  <1> QED
    BY <1>1, <1>2, <1>4 DEF Inputs

\* Texts and prompts move on, and what was written stays written.
LEMMA TextMoves ==
    ASSUME [RealtimeNext]_realtimeVars, text \in [Texts \cup Prompts -> TextStates]
    PROVE  /\ text' \in [Texts \cup Prompts -> TextStates]
           /\ \A x \in Texts \cup Prompts : text[x] = "sent" => text'[x] = "sent"
           /\ Sources \subseteq Sources'
  <1>1. CASE UNCHANGED text
    BY <1>1 DEF Sources
  <1>2. ASSUME NEW t \in Texts, SendText(t) \/ SendWrites(t) \/ SendFails(t)
        PROVE  /\ text' \in [Texts \cup Prompts -> TextStates]
               /\ \A x \in Texts \cup Prompts : text[x] = "sent" => text'[x] = "sent"
               /\ Sources \subseteq Sources'
    <2>1. /\ text[t] \in {"new", "reserved"}
          /\ \E state \in {"reserved", "sent", "lost"} : text' = [text EXCEPT ![t] = state]
      BY <1>2 DEF SendText, SendWrites, SendFails
    <2> QED
      BY <2>1 DEF Sources, TextStates
  <1>3. ASSUME NEW p \in Prompts, Enqueue(p)
        PROVE  /\ text' \in [Texts \cup Prompts -> TextStates]
               /\ \A x \in Texts \cup Prompts : text[x] = "sent" => text'[x] = "sent"
               /\ Sources \subseteq Sources'
    <2>1. text[p] = "new" /\ text' = [text EXCEPT ![p] = "queued"] /\ p \notin Texts
      BY <1>3, RealtimeAssumption DEF Enqueue
    <2> QED
      BY <2>1 DEF Sources, TextStates
  <1>4. ASSUME NEW P \in SUBSET Prompts, NEW old \in {"queued", "taken"},
               \A p \in P : text[p] = old,
               NEW state \in {"taken", "sent", "lost"},
               text' = [t \in DOMAIN text |-> IF t \in P THEN state ELSE text[t]]
        PROVE  /\ text' \in [Texts \cup Prompts -> TextStates]
               /\ \A x \in Texts \cup Prompts : text[x] = "sent" => text'[x] = "sent"
               /\ Sources \subseteq Sources'
    <2>1. P \cap Texts = {}
      BY RealtimeAssumption
    <2>2. /\ text' \in [Texts \cup Prompts -> TextStates]
          /\ \A x \in Texts \cup Prompts : text'[x] = IF x \in P THEN state ELSE text[x]
      BY <1>4 DEF TextStates
    <2> QED
      BY <1>4, <2>1, <2>2 DEF Sources
  <1>5. CASE Deliver \/ DeliverWrites \/ DeliverFails
    <2>1. CASE UNCHANGED text
      BY <1>1, <2>1
    <2>2. CASE text' = [t \in DOMAIN text |-> IF t \in Queued THEN "taken" ELSE text[t]]
      BY <1>4, <2>2 DEF Queued
    <2>3. CASE Delivered("sent") \/ Delivered("lost")
      BY <1>4, <2>3 DEF Delivered, Taken
    <2> QED
      BY <1>5, <2>1, <2>2, <2>3 DEF Deliver, DeliverWrites, DeliverFails
  <1>6. CASE SpeechResponse \/ Drop \/ Answering \/ \E c \in Calls : ServerCalls(c)
    BY <1>1, <1>6 DEF SpeechResponse, Drop, Answering, ServerEnds, ServerCalls, callers
  <1>7. CASE \E c \in Calls : Tool(c)
    BY <1>1, <1>7 DEF Tool, ToolReturns, ToolReserves, ToolSends, ToolSendFails, ToolRecords,
                      callers
  <1>8. CASE Pump
    BY <1>1, <1>8 DEF Pump, HandleStarted, HandleCall, HandleDone, HandleRejected, Redial,
                      Reconnects, GivesUp, HandleReconnected, PumpEnds, PumpCloses, callers
  <1>9. CASE Close \/ \E w \in Waiters : WaitForReply(w) \/ Waiting(w)
    BY <1>1, <1>9 DEF Close, WaitForReply, Waiting, WaitChecks, WaitWakes, callers
  <1>10. CASE UNCHANGED realtimeVars
    BY <1>1, <1>10 DEF realtimeVars
  <1> QED
    BY <1>2, <1>3, <1>5, <1>6, <1>7, <1>8, <1>9, <1>10 DEF RealtimeNext, Sending, Delivering

\* The connection, which was c, asks for at most k responses more than it had asked for or
\* deferred.
Asks(c, k) ==
    /\ made' \in [all : Nat, alone : Nat]
    /\ made'.alone = made.alone /\ made.all <= made'.all
    /\ made'.all + Len(conn'.deferred) <= made.all + Len(c.deferred) + k

\* A request is one more than before, or as many as it has inputs when it is deferred.
LEMMA RequestAsks ==
    ASSUME made \in [all : Nat, alone : Nat], NEW c \in Conn, NEW inputs \in Seq(Inputs),
           NEW events, Requested(c, inputs, events), inputs # <<>>
    PROVE  Asks(c, Len(inputs))
  <1>1. /\ c.deferred \in Seq(Inputs) /\ Len(c.deferred) \in Nat
        /\ Len(inputs) \in Nat /\ Len(inputs) >= 1
        /\ made.all \in Nat /\ made.alone \in Nat
    BY ConnParts
  <1>2. CASE c.active
    <2> DEFINE d == c.deferred \o inputs
    <2>1. d \in Seq(Inputs) /\ Len(d) = Len(c.deferred) + Len(inputs)
      BY <1>1
    <2> HIDE DEF d
    <2>2. conn' = [c EXCEPT !.deferred = d] /\ made' = made
      BY <1>2 DEF Requested, d
    <2>3. conn'.deferred = d
      BY <2>2 DEF Conn
    <2> QED
      BY <1>1, <2>1, <2>2, <2>3 DEF Asks
  <1>3. CASE ~c.active
    <2>1. conn' = [c EXCEPT !.active = TRUE, !.inputs = inputs]
      BY <1>3 DEF Requested
    <2>2. conn'.deferred = c.deferred
      BY <2>1 DEF Conn
    <2>3. made' = made \/ made' = [made EXCEPT !.all = @ + 1]
      BY <1>3 DEF Requested
    <2>4. /\ made' \in [all : Nat, alone : Nat] /\ made'.alone = made.alone
          /\ made'.all = made.all \/ made'.all = made.all + 1
      BY <1>1, <2>3
    <2> QED
      BY <1>1, <2>2, <2>4 DEF Asks
  <1> QED
    BY <1>2, <1>3

\* What was deferred becomes one request, which is no more than it was.
LEMMA DeferredAsks ==
    ASSUME made \in [all : Nat, alone : Nat], NEW c \in Conn, NEW events,
           SentDeferred(c, events)
    PROVE  Asks(c, 0)
  <1>1. c.deferred \in Seq(Inputs) /\ Len(c.deferred) \in Nat /\ made.all \in Nat
    BY ConnParts
  <1>2. CASE c.active \/ c.deferred = <<>>
    BY <1>1, <1>2 DEF SentDeferred, Quiet, Asks
  <1>3. CASE ~(c.active \/ c.deferred = <<>>)
    <2> DEFINE d == [c EXCEPT !.deferred = <<>>]
    <2>1. <<>> \in Seq(Inputs)
      OBVIOUS
    <2>2. d \in Conn
      BY <2>1 DEF Conn
    <2>3. d.deferred = <<>> /\ Len(d.deferred) = 0
      BY DEF Conn
    <2> HIDE DEF d
    <2>4. Requested(d, c.deferred, events)
      BY <1>3 DEF SentDeferred, d
    <2>5. Asks(d, Len(c.deferred))
      BY <1>1, <1>3, <2>2, <2>4, RequestAsks
    <2> QED
      BY <1>1, <2>3, <2>5 DEF Asks
  <1> QED
    BY <1>2, <1>3

\* The answer of a batch is one request.
LEMMA AnsweredAsks ==
    ASSUME made \in [all : Nat, alone : Nat], NEW c \in Conn, NEW n, NEW events,
           Answered(c, n, events)
    PROVE  /\ Ready(c, n) => Asks(c, 1)
           /\ ~Ready(c, n) => Asks(c, 0)
  <1>1. CASE Ready(c, n)
    <2> DEFINE d == [c EXCEPT !.batches = Without(@, n)]
               x == c.batches[n].input
    <2>1. c.batches \in ConnBatches
      BY ConnParts
    <2>2. d \in Conn
      BY <2>1, WithoutMade DEF Conn
    <2>3. d.deferred = c.deferred
      BY DEF Conn
    <2>4. x \in Inputs
      <3>1. c.batches[n] \in ConnBatch
        BY <1>1, <2>1, BatchParts DEF Ready
      <3> QED
        BY <3>1 DEF ConnBatch, Inputs
    <2>5. <<x>> \in Seq(Inputs) /\ Len(<<x>>) = 1 /\ <<x>> # <<>>
      BY <2>4
    <2> HIDE DEF d
    <2>6. Requested(d, <<x>>, events)
      BY <1>1 DEF Answered, d
    <2> HIDE DEF x
    <2>7. Asks(d, 1)
      BY <2>2, <2>5, <2>6, RequestAsks
    <2> QED
      BY <1>1, <2>3, <2>7 DEF Asks
  <1>2. CASE ~Ready(c, n)
    BY <1>2, DeferredAsks DEF Answered
  <1> QED
    BY <1>1, <1>2

\* The end of a response asks for the answer of its batch, if that is over.
LEMMA DoneAsks ==
    ASSUME Shapes, HandleDone
    PROVE  LET n == Head(wire).n
           IN  IF n \in DOMAIN conn.batches /\ conn.batches[n].unanswered = {}
               THEN Asks(conn, 1) ELSE Asks(conn, 0)
  <1> DEFINE n == Head(wire).n
             B == conn.batches
             c1 == [conn EXCEPT !.active = FALSE, !.started = FALSE, !.inputs = <<>>]
             over == [c1 EXCEPT !.batches[n].done = TRUE]
             c2 == IF n \in DOMAIN B THEN over ELSE c1
  <1>1. Answered(c2, n, Tail(wire))
    BY DEF HandleDone
  <1>2. conn \in Conn /\ B \in ConnBatches /\ made \in [all : Nat, alone : Nat]
    BY ConnParts DEF Shapes
  <1>3. c1 \in Conn /\ c1.batches = B /\ c1.deferred = conn.deferred
    <2>1. <<>> \in Seq(Inputs)
      OBVIOUS
    <2> QED
      BY <1>2, <2>1 DEF Conn
  <1>4. /\ B \in [DOMAIN B -> ConnBatch] /\ DOMAIN B \in SUBSET Nat
        /\ \A m \in DOMAIN B : B[m] \in ConnBatch
    BY <1>2, BatchParts
  <1> HIDE DEF c1, n, B
  <1>5. CASE n \notin DOMAIN B
    <2>1. c2 = c1 /\ ~Ready(c1, n)
      BY <1>3, <1>5 DEF Ready
    <2>2. Asks(c1, 0)
      BY <1>1, <1>2, <1>3, <2>1, AnsweredAsks
    <2>3. Asks(conn, 0)
      BY <1>3, <2>2 DEF Asks
    <2> QED
      BY <1>5, <2>3 DEF n, B
  <1>6. CASE n \in DOMAIN B
    <2> DEFINE b == [B[n] EXCEPT !.done = TRUE]
               C == [B EXCEPT ![n] = b]
    <2>1. b \in ConnBatch /\ b.done = TRUE /\ b.unanswered = B[n].unanswered
      BY <1>4, <1>6 DEF ConnBatch
    <2>2. c2 = [c1 EXCEPT !.batches = C]
      BY <1>3, <1>6
    <2> HIDE DEF c2, b
    <2>3. C \in [DOMAIN B -> ConnBatch] /\ DOMAIN C = DOMAIN B /\ C[n] = b
      BY <1>4, <1>6, <2>1
    <2>4. C \in ConnBatches
      BY <1>4, <2>3, BatchMade
    <2> HIDE DEF C
    <2>5. c2 \in Conn /\ c2.batches = C /\ c2.deferred = conn.deferred
      BY <1>3, <2>2, <2>4 DEF Conn
    <2>6. Ready(c2, n) <=> B[n].unanswered = {}
      BY <1>6, <2>1, <2>3, <2>5 DEF Ready
    <2>7. /\ Ready(c2, n) => Asks(c2, 1)
          /\ ~Ready(c2, n) => Asks(c2, 0)
      BY <1>1, <1>2, <2>5, AnsweredAsks
    <2>8. \A k : Asks(c2, k) => Asks(conn, k)
      BY <2>5 DEF Asks
    <2> QED
      BY <1>6, <2>6, <2>7, <2>8 DEF n, B
  <1> QED
    BY <1>5, <1>6

\* A result asks for the answer if it is the last of a response that is over, or of none
\* that the connection knows.
LEMMA SendsAsks ==
    ASSUME Shapes, NEW c \in Calls, ToolSends(c)
    PROVE  LET n == of[c]
           IN  IF n \in DOMAIN conn.batches
                  /\ ~(conn.batches[n].done /\ conn.batches[n].unanswered \ {c} = {})
               THEN Asks(conn, 0) ELSE Asks(conn, 1)
  <1> DEFINE n == of[c]
             B == conn.batches
             rest == B[n].unanswered \ {c}
             c1 == [conn EXCEPT !.batches[n].unanswered = @ \ {c}, !.batches[n].input = c]
  <1>1. /\ n \notin DOMAIN B => Requested(conn, <<c>>, wire)
        /\ n \in DOMAIN B /\ Ready(c1, n) => Answered(c1, n, wire)
        /\ n \in DOMAIN B /\ ~Ready(c1, n) => Quiet(c1, wire)
    BY DEF ToolSends
  <1>2. conn \in Conn /\ B \in ConnBatches /\ made \in [all : Nat, alone : Nat]
    BY ConnParts DEF Shapes
  <1>3. /\ B \in [DOMAIN B -> ConnBatch] /\ DOMAIN B \in SUBSET Nat
        /\ \A m \in DOMAIN B : B[m] \in ConnBatch
    BY <1>2, BatchParts
  <1>4. <<c>> \in Seq(Inputs) /\ Len(<<c>>) = 1 /\ <<c>> # <<>>
    BY DEF Inputs
  <1> HIDE DEF n, B
  <1>5. CASE n \notin DOMAIN B
    BY <1>1, <1>2, <1>4, <1>5, RequestAsks DEF n, B
  <1>6. CASE n \in DOMAIN B
    <2> DEFINE b == [B[n] EXCEPT !.unanswered = rest, !.input = c]
               C == [B EXCEPT ![n] = b]
    <2>1. B[n].unanswered \in SUBSET Calls
      BY <1>3, <1>6 DEF ConnBatch
    <2>2. b \in ConnBatch /\ b.done = B[n].done /\ b.unanswered = rest
      BY <1>3, <1>6, <2>1 DEF ConnBatch
    <2>3. c1 = [conn EXCEPT !.batches = C]
      <3>1. conn.batches = B
        BY DEF B
      <3> QED
        BY <1>2, <1>3, <1>6, <3>1 DEF Conn
    <2> HIDE DEF c1, b
    <2>4. C \in [DOMAIN B -> ConnBatch] /\ DOMAIN C = DOMAIN B /\ C[n] = b
      BY <1>3, <1>6, <2>2
    <2>5. C \in ConnBatches
      BY <1>3, <2>4, BatchMade
    <2> HIDE DEF C, rest
    <2>6. c1 \in Conn /\ c1.batches = C /\ c1.deferred = conn.deferred
      BY <1>2, <2>3, <2>5 DEF Conn
    <2>7. Ready(c1, n) <=> B[n].done /\ rest = {}
      BY <1>6, <2>2, <2>4, <2>6 DEF Ready
    <2>8. CASE Ready(c1, n)
      <3>1. Asks(c1, 1)
        BY <1>1, <1>2, <1>6, <2>6, <2>8, AnsweredAsks
      <3>2. Asks(conn, 1)
        BY <2>6, <3>1 DEF Asks
      <3> QED
        BY <1>6, <2>7, <2>8, <3>2 DEF n, B, rest
    <2>9. CASE ~Ready(c1, n)
      <3>1. conn' = c1 /\ made' = made
        BY <1>1, <1>6, <2>9 DEF Quiet
      <3>2. Len(conn.deferred) \in Nat
        BY <1>2, ConnParts
      <3>3. Asks(conn, 0)
        BY <1>2, <2>6, <3>1, <3>2 DEF Asks
      <3> QED
        BY <1>6, <2>7, <2>9, <3>3 DEF n, B, rest
    <2> QED
      BY <2>8, <2>9
  <1> QED
    BY <1>5, <1>6

\* A refusal asks again for what was deferred.
LEMMA RejectedAsks ==
    ASSUME Shapes, HandleRejected
    PROVE  Asks(conn, 0)
  <1> DEFINE own == /\ conn.active /\ ~conn.started
                    /\ \E i \in 1 .. Len(conn.inputs) : conn.inputs[i] = Head(wire).input
             c1 == [conn EXCEPT !.active = FALSE, !.inputs = <<>>]
  <1>1. /\ own => SentDeferred(c1, Tail(wire))
        /\ ~own => Quiet(conn, Tail(wire))
    BY DEF HandleRejected
  <1>2. conn \in Conn /\ made \in [all : Nat, alone : Nat] /\ Len(conn.deferred) \in Nat
    BY ConnParts DEF Shapes
  <1>3. c1 \in Conn /\ c1.deferred = conn.deferred
    <2>1. <<>> \in Seq(Inputs)
      OBVIOUS
    <2> QED
      BY <1>2, <2>1 DEF Conn
  <1> HIDE DEF c1, own
  <1>4. CASE own
    <2>1. Asks(c1, 0)
      BY <1>1, <1>2, <1>3, <1>4, DeferredAsks
    <2> QED
      BY <1>3, <2>1 DEF Asks
  <1>5. CASE ~own
    BY <1>1, <1>2, <1>5 DEF Quiet, Asks
  <1> QED
    BY <1>4, <1>5

\* What was asked for stays asked for until a call joins its batch again.
LEMMA RequestingGrows ==
    ASSUME text' \in [Texts \cup Prompts -> TextStates],
           \A x \in Texts \cup Prompts : text[x] = "sent" => text'[x] = "sent",
           \A c \in Calls : tool[c] \in {"record", "done"} /\ of[c] \notin DOMAIN conn.batches =>
             tool'[c] \in {"record", "done"} /\ of'[c] \notin DOMAIN conn'.batches
    PROVE  Requesting \subseteq Requesting' /\ IsFiniteSet(Requesting')
  <1>1. Requesting' \in SUBSET Inputs
    BY DEF Requesting, Inputs
  <1> QED
    BY <1>1, InputsFinite, FS_Subset DEF Requesting

\* A step that asks for nothing more, or for one response more on behalf of something that
\* was not asked for.
LEMMA NumberedKeeps ==
    ASSUME Shapes, Numbered, conn' \in Conn,
           text' \in [Texts \cup Prompts -> TextStates],
           Requesting \subseteq Requesting', IsFiniteSet(Requesting'),
           Asks(conn, 0) \/ (Asks(conn, 1) /\ Requesting' \ Requesting # {}),
           \A n \in DOMAIN conn'.batches : n # 0 /\ n <= made.all
    PROVE  Numbered'
  <1>1. /\ made.all \in Nat /\ made.alone \in Nat /\ Len(conn.deferred) \in Nat
        /\ Len(conn'.deferred) \in Nat /\ DOMAIN conn'.batches \subseteq Nat
    <2>1. conn'.deferred \in Seq(Inputs) /\ conn'.batches \in ConnBatches
      BY ConnParts
    <2> QED
      BY <2>1, ConnParts, BatchParts DEF Shapes
  <1>2. /\ Cardinality(Requesting) \in Nat /\ Cardinality(Requesting') \in Nat
        /\ Cardinality(Requesting) <= Cardinality(Requesting')
        /\ Requesting' \ Requesting # {} =>
             Cardinality(Requesting) + 1 <= Cardinality(Requesting')
    BY SetGrows
  <1>3. made'.all \in Nat /\ made'.alone = made.alone /\ made.all <= made'.all
    BY DEF Asks
  <1>4. made'.all + Len(conn'.deferred) <= made'.alone + Cardinality(Requesting')
    <2> DEFINE asked == made.all + Len(conn.deferred)
               asks == made'.all + Len(conn'.deferred)
               known == Cardinality(Requesting)
               knows == Cardinality(Requesting')
    <2>1. /\ \/ asks <= asked + 0
             \/ asks <= asked + 1 /\ Requesting' \ Requesting # {}
          /\ asked <= made.alone + known
      BY DEF Asks, Numbered
    <2>2. asked \in Nat /\ asks \in Nat
      BY <1>1, <1>3
    <2> HIDE DEF asked, asks, known, knows
    <2>3. /\ known \in Nat /\ knows \in Nat /\ known <= knows
          /\ Requesting' \ Requesting # {} => known + 1 <= knows
      BY <1>2 DEF known, knows
    <2>4. asks <= made'.alone + knows
      BY <1>1, <1>3, <2>1, <2>2, <2>3
    <2> QED
      BY <2>4 DEF asks, knows
  <1>5. \A n \in DOMAIN conn'.batches : n # 0 /\ n <= made'.all
    BY <1>1, <1>3
  <1>6. made'.alone <= MaxSpeech /\ made'.alone <= made'.all
    BY <1>1, <1>3, RealtimeAssumption DEF Numbered
  <1> QED
    BY <1>4, <1>5, <1>6 DEF Numbered

\* A step that leaves the provider and what is deferred alone asks for nothing.
LEMMA AsksNothing ==
    ASSUME Shapes, made' = made, conn'.deferred = conn.deferred
    PROVE  Asks(conn, 0)
  <1>1. Len(conn.deferred) \in Nat /\ made.all \in Nat
    BY ConnParts DEF Shapes
  <1> QED
    BY <1>1 DEF Asks, Shapes

\* Every step starts a response for something, or the provider does by itself.
LEMMA StepNumbered ==
    ASSUME Shapes, Shapes', Channel, Recorder, InStep, Numbered, [RealtimeNext]_realtimeVars
    PROVE  Numbered'
  <1>1. /\ text' \in [Texts \cup Prompts -> TextStates]
        /\ \A x \in Texts \cup Prompts : text[x] = "sent" => text'[x] = "sent"
    BY TextMoves DEF Numbered
  <1>2. conn' \in Conn
    BY DEF Shapes
  <1>3. ASSUME UNCHANGED <<made, conn, of>>,
               \A c \in Calls : tool[c] \in {"record", "done"} => tool'[c] \in {"record", "done"}
        PROVE  Numbered'
    <2>1. Asks(conn, 0)
      BY <1>3, AsksNothing
    <2>2. Requesting \subseteq Requesting' /\ IsFiniteSet(Requesting')
      BY <1>1, <1>3, RequestingGrows
    <2> QED
      BY <1>1, <1>2, <1>3, <2>1, <2>2, NumberedKeeps DEF Numbered
  <1>4. ASSUME UNCHANGED <<of, tool>>, conn'.batches = conn.batches,
               \/ Asks(conn, 0)
               \/ /\ Asks(conn, 1)
                  /\ \E x \in Texts \cup Prompts : text[x] # "sent" /\ text'[x] = "sent"
        PROVE  Numbered'
    <2>1. Requesting \subseteq Requesting' /\ IsFiniteSet(Requesting')
      BY <1>1, <1>4, RequestingGrows
    <2>2. ASSUME NEW x \in Texts \cup Prompts, text[x] # "sent", text'[x] = "sent"
          PROVE  Requesting' \ Requesting # {}
      <3>1. x \notin Calls
        BY RealtimeAssumption
      <3> QED
        BY <2>2, <3>1 DEF Requesting
    <2> QED
      BY <1>1, <1>2, <1>4, <2>1, <2>2, NumberedKeeps DEF Numbered
  <1>5. CASE Aside
    BY <1>3, <1>5 DEF Aside, kept
  <1>6. ASSUME NEW t \in Texts, SendWrites(t)
        PROVE  Numbered'
    <2>1. <<t>> \in Seq(Inputs) /\ <<t>> # <<>> /\ Len(<<t>>) = 1
      BY DEF Inputs
    <2>2. text[t] # "sent" /\ text'[t] = "sent" /\ Requested(conn, <<t>>, wire)
      BY <1>6 DEF SendWrites, Numbered
    <2>3. Asks(conn, 1)
      BY <2>1, <2>2, RequestAsks DEF Shapes
    <2>4. conn'.batches = conn.batches
      BY <2>1, <2>2, RequestEffect DEF Shapes
    <2> QED
      BY <1>4, <1>6, <2>2, <2>3, <2>4 DEF SendWrites, session
  <1>7. CASE DeliverWrites
    <2> DEFINE p == CHOOSE q \in Taken : TRUE
    <2>1. p \in Taken /\ Requested(conn, <<p>>, wire)
      BY <1>7 DEF DeliverWrites
    <2> HIDE DEF p
    <2>2. p \in Prompts /\ <<p>> \in Seq(Inputs) /\ <<p>> # <<>> /\ Len(<<p>>) = 1
      BY <2>1 DEF Taken, Inputs
    <2>3. text[p] # "sent" /\ text'[p] = "sent"
      BY <1>7, <2>1, <2>2 DEF DeliverWrites, Delivered, Taken, Numbered
    <2>4. Asks(conn, 1)
      BY <2>1, <2>2, RequestAsks DEF Shapes
    <2>5. conn'.batches = conn.batches
      BY <2>1, <2>2, RequestEffect DEF Shapes
    <2> QED
      BY <1>4, <1>7, <2>2, <2>3, <2>4, <2>5 DEF DeliverWrites, session
  <1>8. CASE SpeechResponse
    <2>1. /\ made' = [all |-> made.all + 1, alone |-> made.alone + 1]
          /\ made.alone < MaxSpeech /\ UNCHANGED <<conn, of, tool, text>>
      BY <1>8 DEF SpeechResponse, session, callers
    <2>2. made.all \in Nat /\ made.alone \in Nat /\ Len(conn.deferred) \in Nat
      BY ConnParts DEF Shapes
    <2>3. Requesting' = Requesting
      BY <2>1 DEF Requesting
    <2>4. Cardinality(Requesting) \in Nat
      BY <1>1, <2>1, <2>3, RequestingGrows, FS_CardinalityType
    <2>5. made'.all = made.all + 1 /\ made'.alone = made.alone + 1
      BY <2>1
    <2>6. made'.all + Len(conn'.deferred) <= made'.alone + Cardinality(Requesting')
      BY <2>1, <2>2, <2>3, <2>4, <2>5 DEF Numbered
    <2>7. made'.alone <= MaxSpeech /\ made'.alone <= made'.all
      BY <2>1, <2>2, <2>5, RealtimeAssumption DEF Numbered
    <2>8. DOMAIN conn.batches \subseteq Nat
      BY ConnParts, BatchParts DEF Shapes
    <2>9. \A n \in DOMAIN conn'.batches : n # 0 /\ n <= made'.all
      BY <2>1, <2>2, <2>5, <2>8 DEF Numbered
    <2> QED
      BY <1>1, <2>6, <2>7, <2>9 DEF Numbered
  <1>9. CASE Drop \/ (\E cut \in BOOLEAN : ServerEnds(cut)) \/ \E c \in Calls : ServerCalls(c)
    BY <1>3, <1>9 DEF Drop, ServerEnds, ServerCalls, session
  <1>10. CASE HandleStarted
    <2>1. conn'.deferred = conn.deferred /\ conn'.batches = conn.batches
      BY <1>10 DEF HandleStarted, Quiet, Shapes, Conn
    <2>2. made' = made /\ UNCHANGED <<of, tool>>
      BY <1>10 DEF HandleStarted, Quiet
    <2> QED
      BY <1>4, <2>1, <2>2, AsksNothing
  <1>11. CASE HandleRejected
    <2>1. conn'.batches = conn.batches
      BY <1>11, RejectedEffect
    <2> QED
      BY <1>4, <1>11, <2>1, RejectedAsks DEF HandleRejected
  <1>12. CASE Redial \/ HandleReconnected \/ PumpEnds \/ PumpCloses
    BY <1>3, <1>12 DEF Redial, HandleReconnected, PumpEnds, PumpCloses, channel
  <1>13. ASSUME NEW c \in Calls,
                ToolReturns(c) \/ ToolReserves(c) \/ ToolSendFails(c) \/ ToolRecords(c)
         PROVE  Numbered'
    <2>1. UNCHANGED <<made, conn, of>>
      BY <1>13 DEF ToolReturns, ToolReserves, ToolSendFails, ToolRecords, channel
    <2>2. \A d \in Calls : tool[d] \in {"record", "done"} => tool'[d] \in {"record", "done"}
      BY <1>13 DEF ToolReturns, ToolReserves, ToolSendFails, ToolRecords, Shapes
    <2> QED
      BY <1>3, <2>1, <2>2
  <1>14. CASE HandleCall
    <2> DEFINE c == Head(wire).call
               B == conn.batches
    <2>1. Reads("call")
      BY <1>14 DEF HandleCall
    <2>2. /\ open = Head(wire).n /\ ended = "no" /\ pump = "read"
          /\ wire # <<>> /\ wire \in Seq(Event) /\ Head(wire).kind = "call"
      BY <2>1, HeadRead, ReadsInOrder
    <2>3. c \in Unmade
      BY <2>2, OrderlyTail DEF Channel
    <2>4. /\ c \in Calls /\ open # 0
          /\ \A d \in Calls : d # c => of'[d] = of[d] /\ tool'[d] = tool[d]
      BY <1>14, <2>2, CalledEffect
    <2>5. DOMAIN conn'.batches = DOMAIN B \cup {open}
      BY <1>14, <2>2, CallEffect
    <2>6. conn'.deferred = conn.deferred /\ made' = made
      BY <1>14 DEF HandleCall, Quiet, Shapes, Conn
    <2> HIDE DEF c
    <2>7. tool[c] = "none"
      BY <2>3, <2>4 DEF Unmade, Recorder
    <2>8. \A d \in Calls : of[d] = open => open \in DOMAIN B
      BY <2>2, <2>4 DEF InStep, CallsOf
    <2>9. \A d \in Calls : tool[d] \in {"record", "done"} /\ of[d] \notin DOMAIN B =>
            tool'[d] \in {"record", "done"} /\ of'[d] \notin DOMAIN conn'.batches
      BY <2>4, <2>5, <2>7, <2>8
    <2>10. Requesting \subseteq Requesting' /\ IsFiniteSet(Requesting')
      BY <1>1, <2>9, RequestingGrows
    <2>11. open <= made.all
      BY DEF Channel, Heard
    <2>12. \A n \in DOMAIN conn'.batches : n # 0 /\ n <= made.all
      BY <2>4, <2>5, <2>11 DEF Numbered
    <2>13. Asks(conn, 0)
      BY <2>6, AsksNothing
    <2> QED
      BY <1>1, <1>2, <2>10, <2>12, <2>13, NumberedKeeps
  <1>15. CASE HandleDone
    <2> DEFINE n == Head(wire).n
               B == conn.batches
               D == conn'.batches
    <2>1. pump = "read" /\ ended = "no"
      BY <1>15, HeadRead DEF HandleDone
    <2>2. UNCHANGED <<of, tool>>
      BY <1>15 DEF HandleDone
    <2>3. /\ n \notin DOMAIN B => D = B
          /\ n \in DOMAIN B /\ B[n].unanswered = {} => DOMAIN D = DOMAIN B \ {n}
          /\ n \in DOMAIN B /\ B[n].unanswered # {} => DOMAIN D = DOMAIN B
      BY <1>15, DoneEffect
    <2>4. IF n \in DOMAIN B /\ B[n].unanswered = {} THEN Asks(conn, 1) ELSE Asks(conn, 0)
      BY <1>15, DoneAsks
    <2> HIDE DEF n
    <2>5. DOMAIN D \subseteq DOMAIN B
      BY <2>3
    <2>6. Requesting \subseteq Requesting' /\ IsFiniteSet(Requesting')
      BY <1>1, <2>2, <2>5, RequestingGrows
    <2>7. ASSUME n \in DOMAIN B, B[n].unanswered = {}
          PROVE  Requesting' \ Requesting # {}
      <3> DEFINE x == B[n].input
      <3>1. x \in CallsOf(n) /\ OpenCalls(n) = {} /\ n # 0
        BY <2>1, <2>7 DEF InStep, Mirrors
      <3> HIDE DEF x
      <3>2. x \in Calls /\ of[x] = n /\ tool[x] \in Stages /\ tool[x] # "none"
        BY <3>1 DEF CallsOf, Shapes, Recorder
      <3>3. tool[x] \in {"record", "done"}
        BY <3>1, <3>2 DEF OpenCalls, Stages
      <3>4. x \in Requesting'
        BY <2>2, <2>3, <2>7, <3>2, <3>3 DEF Requesting
      <3>5. x \notin Requesting
        BY <2>7, <3>2, RealtimeAssumption DEF Requesting
      <3> QED
        BY <3>4, <3>5
    <2> QED
      BY <1>1, <1>2, <2>4, <2>5, <2>6, <2>7, NumberedKeeps DEF Numbered
  <1>16. CASE Reconnects
    <2>1. conn' = FreshConn /\ made' = made /\ UNCHANGED <<of, tool>>
      BY <1>16 DEF Reconnects, Quiet, session
    <2>2. Len(conn'.deferred) = 0 /\ DOMAIN conn'.batches = {}
      BY <2>1 DEF FreshConn
    <2>3. Requesting \subseteq Requesting' /\ IsFiniteSet(Requesting')
      BY <1>1, <2>1, <2>2, RequestingGrows
    <2>4. Len(conn.deferred) \in Nat /\ made \in [all : Nat, alone : Nat]
      BY ConnParts DEF Shapes
    <2>5. Asks(conn, 0)
      BY <2>1, <2>2, <2>4 DEF Asks
    <2> QED
      BY <1>1, <1>2, <2>2, <2>3, <2>5, NumberedKeeps
  <1>17. ASSUME NEW c \in Calls, ToolSends(c)
         PROVE  Numbered'
    <2> DEFINE n == of[c]
               B == conn.batches
               D == conn'.batches
               rest == B[n].unanswered \ {c}
    <2>1. /\ tool[c] = "send" /\ tool'[c] = "record"
          /\ \A d \in Calls : d # c => tool'[d] = tool[d]
          /\ of' = of
      BY <1>17 DEF ToolSends, Shapes
    <2>2. /\ n \notin DOMAIN B => D = B
          /\ n \in DOMAIN B /\ B[n].done /\ rest = {} => DOMAIN D = DOMAIN B \ {n}
          /\ n \in DOMAIN B /\ ~(B[n].done /\ rest = {}) => DOMAIN D = DOMAIN B
      BY <1>17, SendsEffect
    <2>3. IF n \in DOMAIN B /\ ~(B[n].done /\ rest = {}) THEN Asks(conn, 0) ELSE Asks(conn, 1)
      BY <1>17, SendsAsks
    <2> HIDE DEF rest
    <2>4. DOMAIN D \subseteq DOMAIN B
      BY <2>2
    <2>5. \A d \in Calls : tool[d] \in {"record", "done"} /\ of[d] \notin DOMAIN B =>
            tool'[d] \in {"record", "done"} /\ of'[d] \notin DOMAIN D
      BY <2>1, <2>4
    <2>6. Requesting \subseteq Requesting' /\ IsFiniteSet(Requesting')
      BY <1>1, <2>5, RequestingGrows
    <2>7. ASSUME ~(n \in DOMAIN B /\ ~(B[n].done /\ rest = {}))
          PROVE  Requesting' \ Requesting # {}
      <3>1. of'[c] \notin DOMAIN D
        BY <2>1, <2>2, <2>7
      <3>2. c \in Requesting'
        BY <2>1, <3>1 DEF Requesting
      <3>3. c \notin Requesting
        BY <2>1, RealtimeAssumption DEF Requesting
      <3> QED
        BY <3>2, <3>3
    <2> QED
      BY <1>1, <1>2, <2>3, <2>4, <2>6, <2>7, NumberedKeeps DEF Numbered
  <1> QED
    BY <1>5, <1>6, <1>7, <1>8, <1>9, <1>10, <1>11, <1>12, <1>13, <1>14, <1>15, <1>16, <1>17,
       Actions

\* No more responses are started than there are names for, and every response that a counter
\* or a call refers to has been started.
LEMMA InResponses ==
    ASSUME Shapes, Channel, Numbered
    PROVE  /\ open \in {0} \cup Responses /\ server \in {0} \cup Responses
           /\ of \in [Calls -> {0} \cup Responses]
           /\ DOMAIN conn.batches \subseteq Responses
  <1>1. Requesting \subseteq Inputs
    BY DEF Requesting, Inputs
  <1>2. Cardinality(Requesting) \in Nat /\ Cardinality(Requesting) <= Cardinality(Inputs)
    BY <1>1, InputsFinite, SetGrows
  <1>3. made.all \in Nat /\ made.alone \in Nat /\ Len(conn.deferred) \in Nat
    BY ConnParts DEF Shapes
  <1>4. made.all <= MaxSpeech + Cardinality(Calls) + Cardinality(Texts) + Cardinality(Prompts)
    <2> DEFINE k == Cardinality(Requesting)
    <2>1. /\ made.alone <= MaxSpeech
          /\ made.all + Len(conn.deferred) <= made.alone + k
      BY DEF Numbered
    <2>2. k \in Nat /\ k <= Cardinality(Inputs)
      BY <1>2
    <2> HIDE DEF k
    <2>3. made.all <= MaxSpeech + k
      BY <1>3, <2>1, <2>2, RealtimeAssumption
    <2> QED
      BY <1>3, <2>2, <2>3, InputsFinite, RealtimeAssumption
  <1>5. \A n \in Nat : n <= made.all => n \in {0} \cup Responses
    BY <1>3, <1>4, InputsFinite, RealtimeAssumption DEF Responses
  <1>6. open \in {0} \cup Responses /\ server \in {0} \cup Responses
    BY <1>5 DEF Shapes, Channel, Heard
  <1>7. of \in [Calls -> {0} \cup Responses]
    <2>1. \A c \in Calls : of[c] \in Nat /\ of[c] <= made.all
      BY DEF Shapes, Channel, Heard
    <2> QED
      BY <1>5, <2>1 DEF Shapes
  <1>8. DOMAIN conn.batches \subseteq Responses
    <2>1. DOMAIN conn.batches \subseteq Nat
      BY ConnParts, BatchParts DEF Shapes
    <2> QED
      BY <1>5, <2>1 DEF Numbered
  <1> QED
    BY <1>6, <1>7, <1>8

\* s owes no more than r does, and as many tools.
OwesLess(r, s) == s \in Owed /\ s.tools = r.tools /\ s.pending <= r.pending

\* Giving back, and the beginning of a response, only ever lower what is owed.
LEMMA LessOwed ==
    ASSUME NEW r \in Owed, NEW k \in Nat
    PROVE  /\ OwesLess(r, [r EXCEPT !.pending = Minus(@, k)])
           /\ OwesLess(r, GiveBack(r))
           /\ OwesLess(r, Begin(r))
  <1>1. /\ r.pending \in Nat /\ r.tools \in Nat /\ r.active \in BOOLEAN
        /\ r.exchange \in BOOLEAN
    BY DEF Owed
  <1>2. \A j \in Nat : Minus(r.pending, j) \in Nat /\ Minus(r.pending, j) <= r.pending
    BY <1>1 DEF Minus
  <1>3. ASSUME NEW j \in Nat
        PROVE  OwesLess(r, [r EXCEPT !.pending = Minus(@, j)])
    <2> DEFINE p == Minus(r.pending, j)
    <2>1. p \in Nat /\ p <= r.pending
      BY <1>2
    <2>2. [r EXCEPT !.pending = Minus(@, j)] = [r EXCEPT !.pending = p]
      OBVIOUS
    <2> HIDE DEF p
    <2> QED
      BY <2>1, <2>2 DEF OwesLess, Owed
  <1>4. OwesLess(r, Begin(r))
    <2> DEFINE p == IF r.active THEN r.pending ELSE Minus(r.pending, 1)
    <2>1. p \in Nat /\ p <= r.pending
      BY <1>1, <1>2
    <2>2. Begin(r) = [r EXCEPT !.active = TRUE, !.pending = p]
      BY DEF Begin
    <2> HIDE DEF p
    <2> QED
      BY <2>1, <2>2 DEF OwesLess, Owed
  <1> QED
    BY <1>3, <1>4 DEF GiveBack

\* A reservation owes one reply more.
LEMMA MoreOwed ==
    ASSUME NEW r \in Owed
    PROVE  /\ Reserved(r) \in Owed /\ Reserved(r).tools = r.tools
           /\ Reserved(r).pending = r.pending + 1
  <1>1. r.pending + 1 \in Nat
    BY DEF Owed
  <1> QED
    BY <1>1 DEF Reserved, Owed

\* What is counted for what is owed is finite, before a step and after it.
LEMMA OwedFinite ==
    \A S \in {Running, Running', Reserving, Reserving', Sources, Sources', CountedIn, CountedIn'} :
      IsFiniteSet(S) /\ Cardinality(S) \in Nat
  <1>1. IsFiniteSet(Responses)
    <2>1. /\ MaxSpeech + Cardinality(Calls) + Cardinality(Texts) + Cardinality(Prompts) \in Nat
          /\ 1 \in Nat
      BY InputsFinite, RealtimeAssumption
    <2> QED
      BY <2>1, FS_Interval DEF Responses
  <1>2. ASSUME NEW T, IsFiniteSet(T), NEW S \in SUBSET T
        PROVE  IsFiniteSet(S) /\ Cardinality(S) \in Nat
    BY <1>2, FS_Subset, FS_CardinalityType
  <1>3. /\ Running \in SUBSET Calls /\ Reserving \in SUBSET Calls
        /\ Running' \in SUBSET Calls /\ Reserving' \in SUBSET Calls
    BY DEF Running, Reserving
  <1>4. Sources \in SUBSET Inputs /\ Sources' \in SUBSET Inputs
    BY DEF Sources, Inputs
  <1>5. CountedIn \in SUBSET Responses /\ CountedIn' \in SUBSET Responses
    BY DEF CountedIn
  <1> QED
    BY <1>1, <1>2, <1>3, <1>4, <1>5, InputsFinite, RealtimeAssumption, Zenon

\* A step that owes nothing more, or one reply more for something that nothing was owed for.
LEMMA OwingKeeps ==
    ASSUME Owing, replies' \in Owed, replies'.tools = Cardinality(Running'),
           Sources \subseteq Sources', CountedIn \subseteq CountedIn',
           LET before == replies.pending + Cardinality(Reserving)
               after == replies'.pending + Cardinality(Reserving')
           IN  \/ after <= before
               \/ /\ after <= before + 1
                  /\ Sources' \ Sources # {} \/ CountedIn' \ CountedIn # {},
           \A n \in CountedIn' : CallsOf(n)' # {}
    PROVE  Owing'
  <1> DEFINE s0 == Cardinality(Sources)
             s1 == Cardinality(Sources')
             k0 == Cardinality(CountedIn)
             k1 == Cardinality(CountedIn')
             before == replies.pending + Cardinality(Reserving)
             after == replies'.pending + Cardinality(Reserving')
  <1>1. IsFiniteSet(Sources') /\ IsFiniteSet(CountedIn') /\ Cardinality(Reserving') \in Nat
    BY OwedFinite
  <1>2. /\ s0 \in Nat /\ s1 \in Nat /\ s0 <= s1
        /\ Sources' \ Sources # {} => s0 + 1 <= s1
    BY <1>1, SetGrows
  <1>3. /\ k0 \in Nat /\ k1 \in Nat /\ k0 <= k1
        /\ CountedIn' \ CountedIn # {} => k0 + 1 <= k1
    BY <1>1, SetGrows
  <1>4. before \in Nat /\ after \in Nat
    BY <1>1, OwedFinite DEF Owing, Owed
  <1>5. before <= s0 + k0
    BY DEF Owing
  <1>6. \/ after <= before
        \/ /\ after <= before + 1
           /\ Sources' \ Sources # {} \/ CountedIn' \ CountedIn # {}
    OBVIOUS
  <1> HIDE DEF s0, s1, k0, k1, before, after
  <1>7. after <= s1 + k1
    BY <1>2, <1>3, <1>4, <1>5, <1>6
  <1>8. replies'.pending + Cardinality(Reserving')
          <= Cardinality(Sources') + Cardinality(CountedIn')
    BY <1>7 DEF after, s1, k1
  <1> QED
    BY <1>8 DEF Owing

\* Steps that start, count and stop no tool.
LEMMA OwingRests ==
    ASSUME Owing, UNCHANGED <<batch, of, tool>>, Sources \subseteq Sources',
           \/ OwesLess(replies, replies')
           \/ replies' = Reserved(replies) /\ Sources' \ Sources # {}
    PROVE  Owing'
  <1>1. Running' = Running /\ Reserving' = Reserving /\ CountedIn' = CountedIn
    BY DEF Running, Reserving, CountedIn
  <1>2. \A n : CallsOf(n)' = CallsOf(n)
    BY DEF CallsOf
  <1>3. replies \in Owed /\ replies.pending \in Nat /\ Cardinality(Reserving) \in Nat
    BY OwedFinite DEF Owing, Owed
  <1>4. /\ replies' \in Owed /\ replies'.tools = replies.tools /\ replies'.pending \in Nat
        /\ \/ replies'.pending <= replies.pending
           \/ replies'.pending = replies.pending + 1 /\ Sources' \ Sources # {}
    <2>1. CASE OwesLess(replies, replies')
      BY <2>1 DEF OwesLess, Owed
    <2>2. CASE replies' = Reserved(replies) /\ Sources' \ Sources # {}
      BY <1>3, <2>2, MoreOwed
    <2> QED
      BY <2>1, <2>2
  <1> DEFINE k == Cardinality(Reserving)
  <1>5. \/ replies'.pending + k <= replies.pending + k
        \/ replies'.pending + k <= replies.pending + k + 1 /\ Sources' \ Sources # {}
    BY <1>3, <1>4
  <1>6. replies'.tools = Cardinality(Running')
    BY <1>1, <1>4 DEF Owing
  <1>7. \A n \in CountedIn' : CallsOf(n)' # {}
    BY <1>1, <1>2 DEF Owing
  <1> HIDE DEF k
  <1>8. Cardinality(Reserving') = k /\ Cardinality(Reserving) = k
    BY <1>1 DEF k
  <1> QED
    BY <1>1, <1>4, <1>5, <1>6, <1>7, <1>8, OwingKeeps

\* The end of a response reserves a reply exactly when it counts the answer to its tools.
LEMMA FinishOwes ==
    ASSUME Shapes, Owing, open \in {0} \cup Responses, NEW cut, cut \in BOOLEAN, Finish(open, cut),
           UNCHANGED <<of, tool>>, Sources \subseteq Sources'
    PROVE  Owing'
  <1> DEFINE calls == OpenResponseCalls
             over == [batch[open] EXCEPT !.closed = TRUE]
             asks == calls # {} /\ Answerable(over)
             last == [over EXCEPT !.counted = @ \/ asks]
             begun == Begin(replies)
             more == calls # {} /\ ~cut
             owed == begun.pending + (IF asks THEN 1 ELSE 0)
  <1>1. /\ replies' = [begun EXCEPT !.active = FALSE, !.exchange = more, !.pending = owed]
        /\ batch' = IF calls = {} THEN batch ELSE [batch EXCEPT ![open] = last]
    BY DEF Finish, OpenResponseCalls
  <1>2. replies \in Owed /\ replies.pending \in Nat
    BY DEF Owing, Owed
  <1>3. begun \in Owed /\ begun.tools = replies.tools /\ begun.pending <= replies.pending
    BY <1>2, LessOwed DEF OwesLess
  <1>4. more \in BOOLEAN /\ asks \in BOOLEAN
    BY DEF Answerable
  <1>5. asks => open \in Responses /\ batch[open].counted = FALSE
    <2> SUFFICES ASSUME asks
                 PROVE  open \in Responses /\ batch[open].counted = FALSE
      OBVIOUS
    <2>1. open \in Responses
      BY DEF OpenResponseCalls
    <2>2. batch[open] \in Batch
      BY <2>1 DEF Shapes
    <2>3. over.counted = batch[open].counted /\ batch[open].counted \in BOOLEAN
      BY <2>2 DEF Batch
    <2> HIDE DEF over
    <2> QED
      BY <2>1, <2>3 DEF Answerable
  <1>6. ASSUME NEW n \in Responses, batch[n].counted
        PROVE  batch'[n].counted
    BY <1>6, FinishEffect
  <1>7. ASSUME asks
        PROVE  batch'[open].counted
    <2>1. open \in Responses /\ batch[open] \in Batch /\ batch' = [batch EXCEPT ![open] = last]
      BY <1>1, <1>5, <1>7 DEF Shapes
    <2>2. batch \in [Responses -> Batch]
      BY DEF Shapes
    <2>3. batch'[open] = last
      BY <2>1, <2>2
    <2>4. over \in Batch
      BY <2>1 DEF Batch
    <2> HIDE DEF over
    <2>5. last.counted = (over.counted \/ asks)
      BY <2>4 DEF Batch
    <2> QED
      BY <1>7, <2>3, <2>5
  <1> HIDE DEF asks, last, over, begun
  <1>8. owed \in Nat /\ owed <= replies.pending + (IF asks THEN 1 ELSE 0)
    BY <1>2, <1>3 DEF Owed
  <1> HIDE DEF owed, more
  <1>9. replies' \in Owed /\ replies'.tools = replies.tools /\ replies'.pending = owed
    BY <1>1, <1>3, <1>4, <1>8 DEF Owed
  <1>10. Running' = Running /\ Reserving' = Reserving /\ \A n : CallsOf(n)' = CallsOf(n)
    BY DEF Running, Reserving, CallsOf
  <1>11. CountedIn \subseteq CountedIn'
    BY <1>6 DEF CountedIn
  <1>12. asks => CountedIn' \ CountedIn # {}
    BY <1>5, <1>7 DEF CountedIn
  <1>13. \A n \in CountedIn' : CallsOf(n)' # {}
    <2> SUFFICES ASSUME NEW n \in CountedIn', CallsOf(n) = {}
                 PROVE  FALSE
      BY <1>10
    <2>1. n \in Responses /\ ~(n = open /\ OpenResponseCalls # {})
      BY DEF CountedIn, OpenResponseCalls
    <2>2. n \in CountedIn
      BY <2>1, FinishEffect DEF CountedIn
    <2> QED
      BY <2>2 DEF Owing
  <1> DEFINE k == Cardinality(Reserving)
  <1>14. k \in Nat
    BY OwedFinite
  <1> HIDE DEF k
  <1>15. \/ owed + k <= replies.pending + k
         \/ owed + k <= replies.pending + k + 1 /\ asks
    BY <1>2, <1>8, <1>14
  <1>16. replies'.pending + Cardinality(Reserving') = owed + k
    BY <1>9, <1>10 DEF k
  <1>17. replies'.tools = Cardinality(Running')
    BY <1>9, <1>10 DEF Owing
  <1> QED
    BY <1>9, <1>11, <1>12, <1>13, <1>15, <1>16, <1>17, OwingKeeps DEF k

\* A tool that starts is counted.
LEMMA CallOwes ==
    ASSUME Shapes, Channel, Recorder, Owing, HandleCall
    PROVE  Owing'
  <1> DEFINE c == Head(wire).call
             n == Head(wire).n
             begun == Begin(replies)
             k == replies.tools + 1
  <1>1. Reads("call") /\ replies' = [begun EXCEPT !.tools = k]
    <2>1. begun.tools = replies.tools
      BY LessOwed DEF OwesLess, Owing
    <2> QED
      BY <2>1 DEF HandleCall
  <1>2. wire # <<>> /\ wire \in Seq(Event) /\ Head(wire).kind = "call"
    BY <1>1, HeadRead
  <1>3. c \in Unmade
    BY <1>2, OrderlyTail DEF Channel
  <1>4. /\ c \in Calls /\ n # 0 /\ tool'[c] = "run" /\ of'[c] = n
        /\ \A d \in Calls : d # c => of'[d] = of[d] /\ tool'[d] = tool[d]
    BY CalledEffect
  <1>5. \A m \in Responses : batch'[m].counted = batch[m].counted
    <2>1. batch' = [batch EXCEPT ![n] = [batch[n] EXCEPT !.left = @ + 1]]
      BY DEF HandleCall
    <2>2. batch \in [Responses -> Batch]
      BY DEF Shapes
    <2> HIDE DEF n
    <2>3. ASSUME NEW m \in Responses
          PROVE  batch'[m].counted = batch[m].counted
      <3>1. batch[m] \in Batch
        BY <2>2
      <3>2. CASE m = n
        <4>1. batch'[m] = [batch[m] EXCEPT !.left = @ + 1]
          BY <2>1, <2>2, <3>2
        <4> QED
          BY <3>1, <4>1 DEF Batch
      <3>3. CASE m # n
        BY <2>1, <2>2, <3>3
      <3> QED
        BY <3>2, <3>3
    <2> QED
      BY <2>3
  <1>6. UNCHANGED <<text>>
    BY DEF HandleCall, callers
  <1> HIDE DEF c, n, begun
  <1>7. tool[c] = "none" /\ of[c] = 0
    BY <1>3, <1>4 DEF Unmade, Recorder
  <1>8. begun \in Owed /\ begun.tools = replies.tools /\ begun.pending <= replies.pending
    BY LessOwed DEF OwesLess, Owing, begun
  <1>9. k \in Nat /\ replies.tools \in Nat /\ replies.pending \in Nat
    BY DEF Owing, Owed
  <1> HIDE DEF k
  <1>10. replies' \in Owed /\ replies'.tools = k /\ replies'.pending = begun.pending
    BY <1>1, <1>8, <1>9 DEF Owed
  <1>11. Running' = Running \cup {c} /\ c \notin Running
    BY <1>4, <1>7 DEF Running
  <1>12. Cardinality(Running') = Cardinality(Running) + 1
    BY <1>11, OwedFinite, FS_AddElement
  <1>13. replies'.tools = Cardinality(Running')
    BY <1>10, <1>12 DEF Owing, k
  <1>14. Reserving' = Reserving
    BY <1>4, <1>7 DEF Reserving
  <1>15. CountedIn' = CountedIn /\ Sources' = Sources
    BY <1>5, <1>6 DEF CountedIn, Sources
  <1>16. \A m \in CountedIn' : CallsOf(m)' # {}
    BY <1>4, <1>7, <1>15, ResponsesPositive DEF Owing, CallsOf, CountedIn
  <1> DEFINE r == Cardinality(Reserving)
  <1>17. r \in Nat
    BY OwedFinite
  <1> HIDE DEF r
  <1>18. replies'.pending + r <= replies.pending + r
    BY <1>8, <1>9, <1>10, <1>17 DEF Owed
  <1>19. Cardinality(Reserving') = r
    BY <1>14 DEF r
  <1> QED
    BY <1>10, <1>13, <1>15, <1>16, <1>18, <1>19, OwingKeeps DEF r

\* A tool that returns and counts the answer is about to reserve the reply.
LEMMA ReturnOwes ==
    ASSUME Shapes, Owing, NEW c \in Calls, of[c] \in Responses, ToolReturns(c)
    PROVE  Owing'
  <1> DEFINE n == of[c]
             gone == c \in cancelled
             b == [batch[n] EXCEPT !.left = @ - 1]
             asks == ~gone /\ Answerable(b)
             last == [b EXCEPT !.counted = @ \/ asks]
  <1>1. /\ batch' = [batch EXCEPT ![n] = last]
        /\ tool[c] = "run"
        /\ tool'[c] = IF gone THEN "record" ELSE IF asks THEN "reserve" ELSE "send"
        /\ \A d \in Calls : d # c => tool'[d] = tool[d]
        /\ UNCHANGED <<replies, of, text>>
    BY DEF ToolReturns, Shapes, callers
  <1>2. batch \in [Responses -> Batch] /\ batch[n] \in Batch
    BY DEF Shapes
  <1>3. batch[n].left - 1 \in Int /\ batch[n].counted \in BOOLEAN
    BY <1>2, BatchFields
  <1>4. b \in Batch /\ b.counted = batch[n].counted
    BY <1>2, <1>3 DEF Batch
  <1>5. asks \in BOOLEAN /\ (asks => ~batch[n].counted)
    BY <1>4 DEF Answerable
  <1> HIDE DEF b
  <1>6. last.counted = (batch[n].counted \/ asks)
    BY <1>4 DEF Batch
  <1> HIDE DEF asks, last
  <1>7. \A m \in Responses : IF m = n THEN batch'[m] = last ELSE batch'[m] = batch[m]
    BY <1>1, <1>2
  <1>8. CountedIn' = IF asks THEN CountedIn \cup {n} ELSE CountedIn
    BY <1>3, <1>6, <1>7 DEF CountedIn
  <1>9. asks => n \notin CountedIn
    BY <1>5 DEF CountedIn
  <1>10. asks => ~gone
    BY DEF asks
  <1>11. Running' = Running /\ Sources' = Sources /\ \A m : CallsOf(m)' = CallsOf(m)
    BY <1>1 DEF Running, Sources, CallsOf
  <1>12. /\ asks => Reserving' = Reserving \cup {c} /\ c \notin Reserving
         /\ ~asks => Reserving' = Reserving
    BY <1>1, <1>10 DEF Reserving
  <1>13. /\ asks => Cardinality(Reserving') = Cardinality(Reserving) + 1
         /\ ~asks => Cardinality(Reserving') = Cardinality(Reserving)
    BY <1>12, OwedFinite, FS_AddElement
  <1>14. \A m \in CountedIn' : CallsOf(m)' # {}
    BY <1>8, <1>11 DEF Owing, CallsOf
  <1>15. Cardinality(Reserving) \in Nat /\ replies.pending \in Nat
    BY OwedFinite DEF Owing, Owed
  <1>16. \/ replies'.pending + Cardinality(Reserving') <= replies.pending + Cardinality(Reserving)
         \/ /\ replies'.pending + Cardinality(Reserving')
                 <= replies.pending + Cardinality(Reserving) + 1
            /\ asks
    BY <1>1, <1>13, <1>15
  <1>17. asks => CountedIn' \ CountedIn # {}
    BY <1>8, <1>9
  <1>18. replies' \in Owed /\ replies'.tools = Cardinality(Running')
    BY <1>1, <1>11 DEF Owing
  <1> QED
    BY <1>8, <1>11, <1>14, <1>16, <1>17, <1>18, OwingKeeps

\* A tool gives its reservation to the counter, and it is over when its result is recorded or
\* cannot be written.
LEMMA ToolOwes ==
    ASSUME Shapes, Owing, NEW c \in Calls,
           ToolReserves(c) \/ ToolSends(c) \/ ToolSendFails(c) \/ ToolRecords(c)
    PROVE  Owing'
  <1> DEFINE r == Cardinality(Reserving)
  <1>1. UNCHANGED <<batch, of, text>> /\ \A d \in Calls : d # c => tool'[d] = tool[d]
    BY DEF ToolReserves, ToolSends, ToolSendFails, ToolRecords, Shapes, callers
  <1>2. CountedIn' = CountedIn /\ Sources' = Sources
    BY <1>1 DEF CountedIn, Sources
  <1>3. \A n \in CountedIn' : CallsOf(n)' # {}
    BY <1>1, <1>2 DEF Owing, CallsOf
  <1>4. /\ replies \in Owed /\ replies.pending \in Nat /\ replies.tools \in Nat
        /\ replies.tools = Cardinality(Running) /\ r \in Nat
    BY OwedFinite DEF Owing, Owed
  <1>5. ASSUME replies' \in Owed, replies'.tools = Cardinality(Running'),
               replies'.pending + Cardinality(Reserving') <= replies.pending + r
        PROVE  Owing'
    BY <1>2, <1>3, <1>5, OwingKeeps
  <1>6. CASE ToolReserves(c)
    <2>1. tool[c] = "reserve" /\ tool'[c] = "send" /\ replies' = Reserved(replies)
      BY <1>6 DEF ToolReserves, Shapes
    <2>2. Running' = Running
      BY <1>1, <2>1 DEF Running
    <2>3. Reserving' = Reserving \ {c} /\ c \in Reserving
      BY <1>1, <2>1 DEF Reserving
    <2>4. Cardinality(Reserving') = r - 1
      BY <2>3, OwedFinite, FS_RemoveElement
    <2>5. /\ replies' \in Owed /\ replies'.tools = replies.tools
          /\ replies'.pending = replies.pending + 1
      BY <1>4, <2>1, MoreOwed
    <2>6. replies'.pending + Cardinality(Reserving') <= replies.pending + r
      BY <1>4, <2>4, <2>5
    <2> QED
      BY <1>4, <1>5, <2>2, <2>5, <2>6
  <1>7. CASE ToolSends(c)
    <2>1. tool[c] = "send" /\ tool'[c] = "record" /\ replies' = replies
      BY <1>7 DEF ToolSends, Shapes
    <2>2. Running' = Running /\ Reserving' = Reserving
      BY <1>1, <2>1 DEF Running, Reserving
    <2> QED
      BY <1>4, <1>5, <2>1, <2>2
  <1>8. CASE ToolSendFails(c) \/ ToolRecords(c)
    <2>1. /\ tool[c] \in {"send", "record"} /\ tool'[c] = "done"
          /\ \E s \in {replies, GiveBack(replies)} :
               replies' = [s EXCEPT !.tools = Minus(@, 1)]
      BY <1>8 DEF ToolSendFails, ToolRecords, Shapes
    <2>2. PICK s \in {replies, GiveBack(replies)} :
            replies' = [s EXCEPT !.tools = Minus(@, 1)]
      BY <2>1
    <2>3. s \in Owed /\ s.tools = replies.tools /\ s.pending <= replies.pending /\ s.pending \in Nat
      <3>1. 0 \in Nat
        OBVIOUS
      <3>2. OwesLess(replies, GiveBack(replies))
        BY <1>4, <3>1, LessOwed
      <3>3. OwesLess(replies, s)
        BY <1>4, <3>2 DEF OwesLess
      <3>4. s \in Owed /\ s.tools = replies.tools /\ s.pending <= replies.pending
        BY <3>3 DEF OwesLess
      <3>5. s.pending \in Nat
        BY <3>4 DEF Owed
      <3> QED
        BY <3>4, <3>5
    <2>4. Running' = Running \ {c} /\ c \in Running /\ Reserving' = Reserving
      BY <1>1, <2>1 DEF Running, Reserving
    <2>5. Cardinality(Running') = Cardinality(Running) - 1 /\ Cardinality(Running') \in Nat
      BY <2>4, OwedFinite, FS_RemoveElement
    <2> DEFINE k == Minus(s.tools, 1)
    <2>6. k = Cardinality(Running') /\ k \in Nat
      BY <1>4, <2>3, <2>5 DEF Minus
    <2>7. replies' = [s EXCEPT !.tools = k]
      BY <2>2
    <2> HIDE DEF k
    <2>8. replies' \in Owed /\ replies'.tools = k /\ replies'.pending = s.pending
      BY <2>3, <2>6, <2>7 DEF Owed
    <2>9. replies'.pending + Cardinality(Reserving') <= replies.pending + r
      BY <1>4, <2>3, <2>4, <2>8
    <2> QED
      BY <1>5, <2>6, <2>8, <2>9
  <1> QED
    BY <1>6, <1>7, <1>8

\* Every step keeps what is owed within what it can be owed for.
LEMMA StepOwing ==
    ASSUME Shapes, Channel, Recorder, Numbered, Owing, [RealtimeNext]_realtimeVars
    PROVE  Owing'
  <1>1. Sources \subseteq Sources'
    BY TextMoves DEF Numbered
  <1>2. OwesLess(replies, replies)
    BY DEF OwesLess, Owing, Owed
  <1>3. replies \in Owed /\ replies.pending \in Nat /\ replies.tools \in Nat
    BY DEF Owing, Owed
  <1>4. open \in {0} \cup Responses /\ of \in [Calls -> {0} \cup Responses]
    BY InResponses
  <1>5. ASSUME UNCHANGED <<batch, of, tool, replies>>
        PROVE  Owing'
    BY <1>1, <1>2, <1>5, OwingRests
  <1>6. CASE SpeechResponse \/ Drop \/ Answering \/ \E c \in Calls : ServerCalls(c)
    BY <1>5, <1>6 DEF SpeechResponse, Drop, Answering, ServerEnds, ServerCalls, session
  <1>7. CASE HandleStarted
    <2> DEFINE merged == Minus(Len(conn.inputs), 1)
               s == [replies EXCEPT !.pending = Minus(@, merged)]
    <2>1. merged \in Nat
      BY ConnParts DEF Shapes, Minus
    <2>2. OwesLess(replies, s)
      BY <1>3, <2>1, LessOwed
    <2>3. replies' = Begin(s) /\ UNCHANGED <<batch, of, tool>>
      BY <1>7 DEF HandleStarted
    <2> HIDE DEF s
    <2>4. OwesLess(s, replies')
      BY <2>2, <2>3, LessOwed DEF OwesLess
    <2>5. OwesLess(replies, replies')
      BY <1>3, <2>2, <2>4 DEF OwesLess, Owed
    <2> QED
      BY <1>1, <2>3, <2>5, OwingRests
  <1>8. CASE HandleRejected
    BY <1>1, <1>3, <1>8, LessOwed, OwingRests DEF HandleRejected
  <1>9. CASE HandleCall
    BY <1>9, CallOwes
  <1>10. CASE HandleDone
    <2>1. Reads("done") /\ Finish(open, Head(wire).cut) /\ UNCHANGED <<of, tool>>
      BY <1>10 DEF HandleDone
    <2>2. Head(wire) \in Event /\ Head(wire).kind = "done"
      BY <2>1, HeadRead
    <2>3. Head(wire).cut \in BOOLEAN
      BY <2>2 DEF Event
    <2> QED
      BY <1>1, <1>4, <2>1, <2>3, FinishOwes
  <1>11. CASE Redial \/ PumpEnds
    <2>1. /\ UNCHANGED <<of, tool>>
          /\ Finish(open, TRUE) \/ UNCHANGED <<batch, replies>>
      BY <1>11 DEF Redial, PumpEnds
    <2> QED
      BY <1>1, <1>4, <1>5, <2>1, FinishOwes
  <1>12. CASE Reconnects \/ GivesUp
    BY <1>5, <1>12 DEF Reconnects, GivesUp, session
  <1>13. CASE HandleReconnected
    <2>1. open = 0
      BY <1>13 DEF HandleReconnected, Channel
    <2>2. /\ \A m \in Responses : batch'[m].counted = batch[m].counted
          /\ UNCHANGED <<of, tool>>
      BY <1>13, <2>1, ReconnectedEffect
    <2>3. replies' = [NoReplies EXCEPT !.tools = replies.tools]
      BY <1>13 DEF HandleReconnected
    <2>4. replies' \in Owed /\ replies'.tools = replies.tools /\ replies'.pending = 0
      BY <1>3, <2>3 DEF NoReplies, Owed
    <2>5. /\ CountedIn' = CountedIn /\ Running' = Running /\ Reserving' = Reserving
          /\ \A n : CallsOf(n)' = CallsOf(n)
      BY <2>2 DEF CountedIn, Running, Reserving, CallsOf
    <2>6. \A n \in CountedIn' : CallsOf(n)' # {}
      BY <2>5 DEF Owing
    <2>7. Cardinality(Reserving) \in Nat
      BY OwedFinite
    <2>8. replies'.pending + Cardinality(Reserving') <= replies.pending + Cardinality(Reserving)
      BY <1>3, <2>4, <2>5, <2>7
    <2>9. replies'.tools = Cardinality(Running')
      BY <2>4, <2>5 DEF Owing
    <2> QED
      BY <1>1, <2>4, <2>5, <2>6, <2>8, <2>9, OwingKeeps
  <1>14. CASE PumpCloses
    <2>1. replies' = NoReplies /\ Running = {} /\ UNCHANGED <<batch, of, tool>>
      BY <1>14 DEF PumpCloses
    <2>2. replies.tools = 0
      BY <2>1, FS_EmptySet DEF Owing
    <2>3. OwesLess(replies, replies')
      BY <1>3, <2>1, <2>2 DEF OwesLess, NoReplies, Owed
    <2> QED
      BY <1>1, <2>1, <2>3, OwingRests
  <1>15. ASSUME NEW c \in Calls, Tool(c)
         PROVE  Owing'
    <2>1. CASE ToolReturns(c)
      <3>1. of[c] \in Responses
        BY <1>4, <2>1 DEF ToolReturns, Recorder
      <3> QED
        BY <2>1, <3>1, ReturnOwes
    <2>2. CASE ToolReserves(c) \/ ToolSends(c) \/ ToolSendFails(c) \/ ToolRecords(c)
      BY <2>2, ToolOwes
    <2> QED
      BY <1>15, <2>1, <2>2 DEF Tool
  <1>16. ASSUME NEW t \in Texts, SendText(t) \/ SendWrites(t) \/ SendFails(t)
         PROVE  Owing'
    <2>1. CASE SendText(t)
      <3>1. text[t] = "new" /\ text'[t] = "reserved"
        BY <2>1 DEF SendText, Numbered
      <3>2. t \in Sources' \ Sources
        BY <3>1, RealtimeAssumption DEF Sources
      <3> QED
        BY <1>1, <2>1, <3>2, OwingRests DEF SendText
    <2>2. CASE SendWrites(t)
      BY <1>5, <2>2 DEF SendWrites, session
    <2>3. CASE SendFails(t)
      BY <1>1, <1>3, <2>3, LessOwed, OwingRests DEF SendFails
    <2> QED
      BY <1>16, <2>1, <2>2, <2>3
  <1>17. CASE Deliver
    <2>1. UNCHANGED <<batch, of, tool>>
      BY <1>17 DEF Deliver
    <2>2. CASE UNCHANGED replies
      BY <1>5, <2>1, <2>2
    <2>3. CASE /\ Queued # {} /\ replies' = Reserved(replies)
               /\ text' = [t \in DOMAIN text |-> IF t \in Queued THEN "taken" ELSE text[t]]
      <3>1. PICK p \in Queued : TRUE
        BY <2>3
      <3>2. p \in Prompts /\ text[p] = "queued" /\ text'[p] = "taken"
        BY <2>3, <3>1 DEF Queued, Numbered
      <3>3. p \in Sources' \ Sources
        BY <3>2, RealtimeAssumption DEF Sources
      <3> QED
        BY <1>1, <2>1, <2>3, <3>3, OwingRests
    <2> QED
      BY <1>17, <2>2, <2>3 DEF Deliver
  <1>18. CASE DeliverWrites
    BY <1>5, <1>18 DEF DeliverWrites, session
  <1>19. CASE DeliverFails
    BY <1>1, <1>3, <1>19, LessOwed, OwingRests DEF DeliverFails
  <1>20. CASE Close \/ (\E p \in Prompts : Enqueue(p)) \/ UNCHANGED realtimeVars
    BY <1>5, <1>20 DEF Close, Enqueue, realtimeVars, session
  <1>21. CASE \E w \in Waiters : WaitForReply(w) \/ Waiting(w)
    BY <1>5, <1>21 DEF WaitForReply, Waiting, WaitChecks, WaitWakes, session
  <1> QED
    BY <1>6, <1>7, <1>8, <1>9, <1>10, <1>11, <1>12, <1>13, <1>14, <1>15, <1>16, <1>17, <1>18,
       <1>19, <1>20, <1>21 DEF RealtimeNext, Pump, Sending, Delivering

\* What is owed is owed for at most the texts, the prompts and the calls: every batch that was
\* counted has a call of its own.
LEMMA OwedBounds ==
    ASSUME Shapes, Owing
    PROVE  replies \in [active : BOOLEAN, exchange : BOOLEAN, pending : 0 .. Cardinality(Inputs),
                        tools : 0 .. Cardinality(Calls)]
  <1> DEFINE T == {of[c] : c \in Calls}
  <1>1. IsFiniteSet(T) /\ Cardinality(T) <= Cardinality(Calls)
    <2>1. of \in Surjection(Calls, T)
      BY DEF Surjection, Shapes
    <2> QED
      BY <2>1, RealtimeAssumption, FS_Surjection
  <1>2. CountedIn \subseteq T
    BY DEF Owing, CallsOf
  <1> HIDE DEF T
  <1>3. Cardinality(CountedIn) <= Cardinality(Calls)
    <2>1. /\ Cardinality(CountedIn) \in Nat /\ Cardinality(T) \in Nat
          /\ Cardinality(CountedIn) <= Cardinality(T)
      BY <1>1, <1>2, SetGrows
    <2> QED
      BY <1>1, <2>1, InputsFinite
  <1>4. Cardinality(Sources) <= Cardinality(Texts) + Cardinality(Prompts)
    <2>1. Sources \subseteq Texts \cup Prompts
      BY DEF Sources
    <2>2. /\ IsFiniteSet(Texts \cup Prompts)
          /\ Cardinality(Texts \cup Prompts) = Cardinality(Texts) + Cardinality(Prompts)
      BY CountsApart, RealtimeAssumption
    <2> QED
      BY <2>1, <2>2, SetGrows
  <1>5. Cardinality(Running) <= Cardinality(Calls)
    BY RealtimeAssumption, SetGrows DEF Running
  <1>6. /\ replies.pending \in Nat /\ replies.tools \in Nat
        /\ Cardinality(Reserving) \in Nat /\ Cardinality(Sources) \in Nat
        /\ Cardinality(CountedIn) \in Nat
    BY OwedFinite DEF Owing, Owed
  <1>7. replies.pending \in 0 .. Cardinality(Inputs)
    BY <1>3, <1>4, <1>6, InputsFinite DEF Owing
  <1>8. replies.tools \in 0 .. Cardinality(Calls)
    BY <1>5, <1>6, InputsFinite DEF Owing
  <1> QED
    BY <1>7, <1>8 DEF Owing, Owed

\* A session that has just been connected owes nothing and was asked for nothing.
LEMMA InitBounds ==
    ASSUME RealtimeInit, Shapes
    PROVE  Numbered /\ Owing
  <1>1. Numbered
    <2>1. Requesting = {}
      BY DEF Requesting, RealtimeInit
    <2>2. Cardinality(Requesting) = 0
      BY <2>1, FS_EmptySet
    <2>3. Len(conn.deferred) = 0 /\ DOMAIN conn.batches = {}
      BY DEF RealtimeInit, FreshConn
    <2>4. text \in [Texts \cup Prompts -> TextStates]
      BY DEF RealtimeInit, TextStates
    <2>5. made.all = 0 /\ made.alone = 0
      BY DEF RealtimeInit
    <2> QED
      BY <2>2, <2>3, <2>4, <2>5, RealtimeAssumption DEF Numbered
  <1>2. Owing
    <2>1. Running = {} /\ Reserving = {} /\ Sources = {} /\ CountedIn = {}
      <3>1. Running = {} /\ Reserving = {}
        BY DEF Running, Reserving, RealtimeInit
      <3>2. Sources = {}
        BY DEF Sources, RealtimeInit
      <3>3. CountedIn = {}
        BY DEF CountedIn, RealtimeInit, NoBatch
      <3> QED
        BY <3>1, <3>2, <3>3
    <2>2. Cardinality({}) = 0
      BY FS_EmptySet
    <2>3. replies \in Owed /\ replies.tools = 0 /\ replies.pending = 0
      BY DEF RealtimeInit, NoReplies, Owed
    <2>4. \A n \in CountedIn : CallsOf(n) # {}
      BY <2>1
    <2>5. replies.tools = Cardinality(Running)
      BY <2>1, <2>2, <2>3
    <2>6. /\ Cardinality(Reserving) = 0 /\ Cardinality(Sources) = 0
          /\ Cardinality(CountedIn) = 0
      BY <2>1, <2>2
    <2>7. replies.pending + Cardinality(Reserving) <= Cardinality(Sources) + Cardinality(CountedIn)
      BY <2>3, <2>6
    <2> QED
      BY <2>3, <2>4, <2>5, <2>7 DEF Owing
  <1> QED
    BY <1>1, <1>2

\* In every reachable state no more is owed than was asked for: the replies pending are at
\* most as many as the texts, the prompts and the calls, every tool that runs is counted, and
\* the responses that a call or a batch refers to are among those that can be started.
THEOREM RealtimeKeepsTypes == RealtimeSpec => []RealtimeTyped
  <1> DEFINE Inv == IInv /\ Numbered /\ Owing
  <1>1. RealtimeInit => Inv
    BY InitIInv, InitBounds DEF IInv
  <1>2. Inv /\ [RealtimeNext]_realtimeVars => Inv'
    <2> SUFFICES ASSUME Inv, [RealtimeNext]_realtimeVars
                 PROVE  Inv'
      OBVIOUS
    <2>1. IInv'
      BY StepShapes, StepChannel, StepRecorder, StepCounted, StepInStep DEF IInv
    <2>2. Numbered'
      BY <2>1, StepNumbered DEF IInv
    <2>3. Owing'
      BY StepOwing DEF IInv
    <2> QED
      BY <2>1, <2>2, <2>3
  <1>3. Inv => RealtimeTyped
    <2> SUFFICES ASSUME Inv
                 PROVE  RealtimeTyped
      OBVIOUS
    <2>1. Shapes /\ Channel /\ Numbered /\ Owing
      BY DEF IInv
    <2> HIDE DEF Inv
    <2>2. /\ open \in {0} \cup Responses /\ server \in {0} \cup Responses
          /\ of \in [Calls -> {0} \cup Responses]
          /\ DOMAIN conn.batches \subseteq Responses
      BY <2>1, InResponses
    <2>3. replies \in [active : BOOLEAN, exchange : BOOLEAN,
                       pending : 0 .. Cardinality(Inputs), tools : 0 .. Cardinality(Calls)]
      BY <2>1, OwedBounds
    <2> QED
      BY <2>1, <2>2, <2>3 DEF RealtimeTyped, Shapes, Stages
  <1> HIDE DEF Inv
  <1> QED
    BY <1>1, <1>2, <1>3, PTL DEF RealtimeSpec
=============================================================================
