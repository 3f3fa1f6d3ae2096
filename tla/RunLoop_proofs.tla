--------------------------- MODULE RunLoop_proofs ---------------------------
(***************************************************************************)
(* Proofs about RunLoop, for every set of runs, however many turns,        *)
(* messages and callbacks: the usage a run reports is what it was billed,  *)
(* and a result stays within the limits (the invariant IInv); the new      *)
(* messages of a run are its own, and a request-scoped prompt reaches one  *)
(* model request (the invariant MInv).                                     *)
(***************************************************************************)
EXTENDS RunLoop, FiniteSetTheorems, SequenceTheorems, WellFoundedInduction, TLAPS

-----------------------------------------------------------------------------
(* The inductive invariant *)

Handling == at \in {"answered", "returned", "rejected"}
Settled  == at \in {"top", "prepared", "hooks", "asking", "judging", "givenUp"}
            \/ end \in {"result", "deferred"}

Types ==
    /\ conf \in Runs
    /\ {spent, billed, before, resp.usage} \subseteq Usage
    /\ resumed \in {None0, One}
    /\ at = "prepared" => resumed = None0
    /\ at # "ended" => end = "none"

\* While a response is handled, its usage is still missing from the books.
Books ==
    odd \subseteq {"standin"} =>
        /\ Handling => Plus(spent, Beyond(resp.usage, resumed)) = Plus(conf.carried, billed)
        /\ Settled  => spent = Plus(conf.carried, billed)

\* What the wrapper of the limits knows is what the loop knows: the usage before
\* the request, and whether a suspended response was resumed.
Known ==
    /\ at \in {"hooks", "asking", "answered", "returned"} /\ ~summed => before = spent
    /\ at \in {"answered", "returned"} /\ "standin" \notin odd =>
           resumed = IF EndsSuspended(asked) THEN One ELSE None0

Checked == (at = "judging" \/ end = "result") /\ ~summed /\ "standin" \notin odd => Within(spent)

IInv == Types /\ Books /\ Known /\ Checked

-----------------------------------------------------------------------------
(* Sums of usage *)

\* Usage is equal when its two counters are.
LEMMA UsageEqual ==
    ASSUME NEW u \in Usage, NEW v \in Usage, u.requests = v.requests, u.tokens = v.tokens
    PROVE  u = v
  BY DEF Usage

\* Sums and differences of usage are usage, counter by counter.
LEMMA UsageSums ==
    ASSUME NEW u \in Usage, NEW v \in Usage
    PROVE  /\ Plus(u, v) \in Usage
           /\ Plus(u, v).requests = u.requests + v.requests
           /\ Plus(u, v).tokens = u.tokens + v.tokens
           /\ Beyond(u, v) \in Usage
           /\ Beyond(u, v).requests = u.requests
           /\ Beyond(u, v).tokens = u.tokens - v.tokens
  BY DEF Usage, Plus, Beyond

\* None0 and One are usage.
LEMMA UsageConstants == None0 \in Usage /\ One \in Usage
  BY DEF None0, One, Usage

\* A response that was billed nothing adds nothing.
LEMMA FreeResponse ==
    ASSUME NEW u \in Usage
    PROVE  Plus(u, Beyond(None0, None0)) = u
  <1>1. /\ Beyond(None0, None0) \in Usage
        /\ Beyond(None0, None0).requests = 0 /\ Beyond(None0, None0).tokens = 0
    BY UsageConstants, UsageSums DEF None0
  <1>2. /\ Plus(u, Beyond(None0, None0)) \in Usage
        /\ Plus(u, Beyond(None0, None0)).requests = u.requests + 0
        /\ Plus(u, Beyond(None0, None0)).tokens = u.tokens + 0
    BY <1>1, UsageSums
  <1>3. u.requests \in Int /\ u.tokens \in Int
    BY DEF Usage
  <1> QED
    BY <1>2, <1>3, UsageEqual

\* One more unit on both sides keeps a sum balanced.
LEMMA OneMore ==
    ASSUME NEW c \in Usage, NEW b \in Usage
    PROVE  Plus(Plus(c, b), One) = Plus(c, Plus(b, One))
  <1>1. Plus(c, b) \in Usage /\ Plus(b, One) \in Usage
    BY UsageSums, UsageConstants
  <1>2. /\ Plus(Plus(c, b), One) \in Usage /\ Plus(c, Plus(b, One)) \in Usage
        /\ Plus(Plus(c, b), One).requests = (c.requests + b.requests) + One.requests
        /\ Plus(Plus(c, b), One).tokens = (c.tokens + b.tokens) + One.tokens
        /\ Plus(c, Plus(b, One)).requests = c.requests + (b.requests + One.requests)
        /\ Plus(c, Plus(b, One)).tokens = c.tokens + (b.tokens + One.tokens)
    BY <1>1, UsageSums, UsageConstants
  <1>3. /\ {c.requests, c.tokens, b.requests, b.tokens} \subseteq Int
        /\ One.requests = 1 /\ One.tokens = 1
    BY DEF Usage, One
  <1> QED
    BY <1>2, <1>3, UsageEqual

Answered(r) == [One EXCEPT !.tokens = @ + r.tokens]

\* The answer to a resumed request costs one unit beyond what was resumed.
LEMMA AnswerBeyond ==
    ASSUME NEW r \in {None0, One}
    PROVE  Answered(r) \in Usage /\ Beyond(Answered(r), r) = One
  <1>1. /\ Answered(r) \in Usage
        /\ Answered(r).requests = 1 /\ Answered(r).tokens = 1 + r.tokens
    BY DEF Answered, One, None0, Usage
  <1>2. r \in Usage /\ r.tokens \in Int
    BY DEF None0, One, Usage
  <1>3. /\ Beyond(Answered(r), r) \in Usage
        /\ Beyond(Answered(r), r).requests = 1
        /\ Beyond(Answered(r), r).tokens = (1 + r.tokens) - r.tokens
    BY <1>1, <1>2, UsageSums
  <1>4. One.requests = 1 /\ One.tokens = 1 /\ One \in Usage
    BY UsageConstants DEF One
  <1>5. (1 + r.tokens) - r.tokens = 1
    BY <1>2
  <1> QED
    BY <1>1, <1>3, <1>4, <1>5, UsageEqual

\* What a conversation had been billed is usage.
LEMMA Carried ==
    ASSUME conf \in Runs
    PROVE  conf.carried \in Usage
  BY RunsAssumption

Costing(u, cost) == [u EXCEPT !.tokens = @ + cost]

\* What tools cost is added on both sides.
LEMMA ToolsCost ==
    ASSUME NEW c \in Usage, NEW b \in Usage, NEW cost \in {0, 1}
    PROVE  /\ Costing(b, cost) \in Usage /\ Costing(Plus(c, b), cost) \in Usage
           /\ Costing(Plus(c, b), cost) = Plus(c, Costing(b, cost))
  <1>1. Plus(c, b) \in Usage
    BY UsageSums
  <1>2. ASSUME NEW u \in Usage
        PROVE  /\ Costing(u, cost) \in Usage
               /\ Costing(u, cost).requests = u.requests
               /\ Costing(u, cost).tokens = u.tokens + cost
    BY DEF Usage, Costing
  <1>3. /\ Costing(b, cost) \in Usage /\ Costing(Plus(c, b), cost) \in Usage
        /\ Costing(Plus(c, b), cost).requests = c.requests + b.requests
        /\ Costing(Plus(c, b), cost).tokens = (c.tokens + b.tokens) + cost
    BY <1>1, <1>2, UsageSums
  <1>4. /\ Plus(c, Costing(b, cost)) \in Usage
        /\ Plus(c, Costing(b, cost)).requests = c.requests + b.requests
        /\ Plus(c, Costing(b, cost)).tokens = c.tokens + (b.tokens + cost)
    BY <1>2, UsageSums
  <1>5. {c.requests, c.tokens, b.requests, b.tokens, cost} \subseteq Int
    BY DEF Usage
  <1> QED
    BY <1>3, <1>4, <1>5, UsageEqual

-----------------------------------------------------------------------------
(* Steps that leave the books alone *)

books == <<conf, spent, billed, resp, resumed, odd, summed>>

\* Limits compare the same usage the same way.
LEMMA SameLimits ==
    ASSUME UNCHANGED <<conf, spent>>, Within(spent)
    PROVE  Within(spent)'
  BY DEF Within

\* A failed or cancelled run reports no usage.
LEMMA Stopping ==
    ASSUME IInv, UNCHANGED <<conf, resumed>>, at' = "ended", end' \in {"failed", "cancelled"},
           {spent', billed', before', resp'.usage} \subseteq Usage
    PROVE  IInv'
  BY DEF IInv, Types, Books, Known, Checked, Handling, Settled

\* From the judgement of a response to the next turn, or to an end.
LEMMA Judged ==
    ASSUME IInv, at = "judging", UNCHANGED <<books, before>>,
           \/ at' = "top" /\ end' = end
           \/ at' = "ended" /\ end' \in {"result", "deferred", "failed", "cancelled"}
    PROVE  IInv'
  <1>1. Types'
    BY DEF IInv, Types, books
  <1>2. Books'
    BY DEF IInv, Types, Books, Handling, Settled, books
  <1>3. Known'
    BY DEF Known, books
  <1>4. Checked'
    <2>1. ASSUME Within(spent) PROVE Within(spent)'
      BY <2>1, SameLimits DEF books
    <2> QED
      BY <2>1 DEF IInv, Types, Checked, books
  <1> QED
    BY <1>1, <1>2, <1>3, <1>4 DEF IInv

\* The outcomes of an output.
LEMMA ConcludeMoves ==
    ASSUME NEW q, Conclude(q)
    PROVE  \/ at' = "top" /\ end' = end
           \/ at' = "ended" /\ end' = "result"
  BY DEF Conclude, GoOn

\* The outcomes of an output that is not accepted.
LEMMA AskAgainMoves ==
    ASSUME NEW q, AskAgain(q)
    PROVE  \/ at' = "top" /\ end' = end
           \/ at' = "ended" /\ end' = "failed"
  BY DEF AskAgain, GoOn, Failed

-----------------------------------------------------------------------------
(* One lemma per action *)

\* The head of a turn.
LEMMA PrepareKeeps == ASSUME IInv, Prepare PROVE IInv'
  <1>1. /\ at = "top" /\ end' = end /\ at' \in {"prepared", "givenUp"}
        /\ UNCHANGED <<conf, spent, billed, before, resp, odd>>
        /\ resumed' = None0 /\ summed' = FALSE
    BY DEF Prepare, GoOn, ghostVars
  <1> QED
    BY <1>1 DEF IInv, Types, Books, Known, Checked, Handling, Settled

\* The wrappers.
LEMMA WrapKeeps == ASSUME IInv, Wrap PROVE IInv'
  <1>1. /\ at = "prepared" /\ end = "none" /\ resumed = None0 /\ before' = spent
        /\ UNCHANGED <<conf, spent, billed, resumed, summed>>
        /\ {spent, billed, resp.usage} \subseteq Usage /\ odd \subseteq odd'
    BY DEF Wrap, IInv, Types
  <1>2. CASE at' = "ended" /\ end' = "failed" /\ resp' = resp
    BY <1>1, <1>2, Stopping
  <1>3. CASE at' = "hooks" /\ end' = end /\ resp' = resp
    <2>1. odd' = odd
      BY <1>3 DEF Wrap
    <2> QED
      BY <1>1, <1>3, <2>1 DEF IInv, Types, Books, Known, Checked, Handling, Settled
  <1>4. CASE at' = "returned" /\ end' = end /\ resp'.usage = None0
    <2>1. Plus(spent, Beyond(None0, None0)) = spent
      BY <1>1, FreeResponse
    <2>2. "standin" \notin odd' => ~EndsSuspended(asked')
      BY <1>4 DEF Wrap
    <2>3. Types'
      BY <1>1, <1>4, UsageConstants DEF IInv, Types
    <2>4. Books'
      BY <1>1, <1>4, <2>1 DEF IInv, Types, Books, Handling, Settled
    <2>5. Known'
      BY <1>1, <1>4, <2>2 DEF Known, EndsSuspended
    <2>6. Checked'
      BY <1>1, <1>4 DEF Checked
    <2> QED
      BY <2>3, <2>4, <2>5, <2>6 DEF IInv
  <1> QED
    BY <1>2, <1>3, <1>4 DEF Wrap, GoOn, Failed

\* The hooks before the request.
LEMMA HooksKeeps == ASSUME IInv, Hooks PROVE IInv'
  <1>1. /\ at = "hooks" /\ end = "none" /\ conf.carried \in Usage
        /\ UNCHANGED <<conf, resumed, resp, before, odd>>
        /\ {spent, billed, before, resp.usage} \subseteq Usage
    BY Carried DEF Hooks, IInv, Types
  <1>2. CASE UNCHANGED <<spent, billed, summed>> /\ at' \in {"asking", "givenUp"} /\ end' = end
    BY <1>1, <1>2 DEF IInv, Types, Books, Known, Checked, Handling, Settled
  <1>3. CASE /\ spent' = Plus(spent, One) /\ billed' = Plus(billed, One) /\ summed' = TRUE
             /\ \/ at' = "asking" /\ end' = end
                \/ at' = "ended" /\ end' = "failed"
    <2>1. spent' \in Usage /\ billed' \in Usage
      BY <1>1, <1>3, UsageSums, UsageConstants
    <2>2. spent = Plus(conf.carried, billed) => spent' = Plus(conf.carried, billed')
      BY <1>1, <1>3, OneMore
    <2> QED
      BY <1>1, <1>3, <2>1, <2>2 DEF IInv, Types, Books, Known, Checked, Handling, Settled
  <1> QED
    BY <1>2, <1>3 DEF Hooks, GoOn, Failed

\* The answer of the model.
LEMMA AskKeeps == ASSUME IInv, Ask PROVE IInv'
  <1>1. /\ at = "asking" /\ at' = "answered" /\ end = "none" /\ end' = end
        /\ UNCHANGED <<conf, spent, before, asked, summed>>
        /\ resumed' = IF EndsSuspended(asked) THEN One ELSE None0
        /\ resumed' \in {None0, One} /\ resp'.usage = Answered(resumed')
        /\ {spent, billed, before} \subseteq Usage /\ conf.carried \in Usage
    BY Carried DEF Ask, Asking, GoOn, Answered, IInv, Types
  <1>2. resp'.usage \in Usage /\ Beyond(resp'.usage, resumed') = One
    BY <1>1, AnswerBeyond
  <1>3. \/ odd' = odd /\ billed' = Plus(billed, One)
        \/ ~(odd' \subseteq {"standin"}) /\ billed' = Plus(billed, [One EXCEPT !.tokens = 0])
    BY DEF Ask
  <1>4. billed' \in Usage
    <2>1. [One EXCEPT !.tokens = 0] \in Usage
      BY DEF One, Usage
    <2> QED
      BY <1>1, <1>3, <2>1, UsageSums, UsageConstants
  <1>5. Books'
    <2>1. CASE odd' = odd /\ billed' = Plus(billed, One)
      <3>1. odd \subseteq {"standin"} => spent = Plus(conf.carried, billed)
        BY <1>1 DEF IInv, Books, Settled
      <3>2. odd \subseteq {"standin"} => Plus(spent, One) = Plus(conf.carried, billed')
        BY <1>1, <2>1, <3>1, OneMore
      <3> QED
        BY <1>1, <1>2, <2>1, <3>2 DEF Books, Handling, Settled
    <2>2. CASE ~(odd' \subseteq {"standin"})
      BY <2>2 DEF Books
    <2> QED
      BY <1>3, <2>1, <2>2
  <1>6. Types' /\ Known' /\ Checked'
    BY <1>1, <1>2, <1>4 DEF IInv, Types, Known, Checked, EndsSuspended
  <1> QED
    BY <1>5, <1>6 DEF IInv

\* A request that failed, and what an error hook makes of it.
LEMMA AskFailsKeeps == ASSUME IInv, AskFails PROVE IInv'
  <1>1. /\ at = "asking" /\ end = "none" /\ end' = end
        /\ UNCHANGED <<conf, spent, billed, before, asked, summed>>
        /\ resumed' = IF EndsSuspended(asked) THEN One ELSE None0
        /\ {spent, billed, before, resp.usage} \subseteq Usage
    BY DEF AskFails, Asking, GoOn, IInv, Types
  <1>2. CASE at' = "givenUp" /\ UNCHANGED <<resp, odd>>
    BY <1>1, <1>2 DEF IInv, Types, Books, Known, Checked, Handling, Settled
  <1>3. CASE /\ at' = "answered" /\ resp'.usage = None0
             /\ odd' = IF EndsSuspended(asked) THEN odd \cup {"made"} ELSE odd
    <2>1. Plus(spent, Beyond(None0, None0)) = spent
      BY <1>1, FreeResponse
    <2>2. Types' /\ Known' /\ Checked'
      BY <1>1, <1>3, UsageConstants DEF IInv, Types, Known, Checked, EndsSuspended
    <2>3. Books'
      <3>1. CASE EndsSuspended(asked)
        <4>1. ~(odd' \subseteq {"standin"})
          BY <1>3, <3>1
        <4> QED
          BY <4>1 DEF Books
      <3>2. CASE ~EndsSuspended(asked)
        BY <1>1, <1>3, <2>1, <3>2 DEF IInv, Books, Handling, Settled
      <3> QED
        BY <3>1, <3>2
    <2> QED
      BY <2>2, <2>3 DEF IInv
  <1> QED
    BY <1>2, <1>3 DEF AskFails, GoOn

\* The hooks after the response.
LEMMA AfterKeeps == ASSUME IInv, After PROVE IInv'
  <1>1. /\ at = "answered" /\ end = "none" /\ end' = end
        /\ UNCHANGED <<conf, spent, billed, resp, resumed, before, asked, summed>>
    BY DEF After, GoOn, IInv, Types
  <1>2. CASE at' \in {"returned", "rejected"} /\ odd' = odd
    BY <1>1, <1>2 DEF IInv, Types, Books, Known, Checked, Handling, EndsSuspended, Settled
  <1>3. CASE at' = "givenUp" /\ odd' = odd \cup {"lost"}
    <2>1. ~(odd' \subseteq {"standin"})
      BY <1>3
    <2> QED
      BY <1>1, <1>3, <2>1 DEF IInv, Types, Books, Known, Checked
  <1> QED
    BY <1>2, <1>3 DEF After, GoOn

\* A step that was given up.
LEMMA GiveUpKeeps == ASSUME IInv, GiveUp PROVE IInv'
  <1>1. /\ at = "givenUp" /\ end = "none"
        /\ UNCHANGED <<conf, spent, billed, resp, resumed, odd, summed>> /\ before' = None0
        /\ \/ at' = "top" /\ end' = end
           \/ at' = "ended" /\ end' = "failed"
    BY DEF GiveUp, GoOn, Failed, Over, Rest, IInv, Types
  <1> QED
    BY <1>1, UsageConstants DEF IInv, Types, Books, Known, Checked, Handling, Settled

\* Recording a response settles the books.
LEMMA Recording ==
    ASSUME IInv, Record
    PROVE  /\ spent' \in Usage /\ billed' = billed
           /\ Handling /\ odd \subseteq {"standin"} => spent' = Plus(conf.carried, billed)
  <1>1. spent \in Usage /\ resp.usage \in Usage /\ resumed \in Usage
    BY UsageConstants DEF IInv, Types
  <1>2. spent' = Plus(spent, Beyond(resp.usage, resumed)) /\ billed' = billed
    BY DEF Record
  <1>3. spent' \in Usage
    BY <1>1, <1>2, UsageSums
  <1> QED
    BY <1>2, <1>3 DEF IInv, Books

\* A response an after hook rejected.
LEMMA RejectKeeps == ASSUME IInv, Reject PROVE IInv'
  <1>1. /\ at = "rejected" /\ end = "none" /\ Handling
        /\ UNCHANGED <<conf, resp, resumed, summed>> /\ before' = None0
        /\ {spent, billed, resp.usage} \subseteq Usage
    BY DEF Reject, Over, Rest, IInv, Types, Handling
  <1>2. CASE at' = "givenUp" /\ end' = end /\ odd' = odd \cup {"lost"}
             /\ UNCHANGED <<spent, billed>>
    <2>1. ~(odd' \subseteq {"standin"})
      BY <1>2
    <2> QED
      BY <1>1, <1>2, <2>1, UsageConstants DEF IInv, Types, Books, Known, Checked
  <1>3. CASE at' = "ended" /\ end' = "failed" /\ UNCHANGED <<spent, billed>>
    BY <1>1, <1>3, UsageConstants, Stopping
  <1>4. CASE Record /\ at' = "ended" /\ end' = "failed"
    BY <1>1, <1>4, UsageConstants, Recording, Stopping
  <1>5. CASE Record /\ at' = "top" /\ end' = end /\ odd' = odd
    <2>1. /\ spent' \in Usage /\ billed' = billed
          /\ odd \subseteq {"standin"} => spent' = Plus(conf.carried, billed)
      BY <1>1, <1>5, Recording
    <2> QED
      BY <1>1, <1>5, <2>1, UsageConstants
      DEF IInv, Types, Books, Known, Checked, Handling, Settled
  <1> QED
    BY <1>2, <1>3, <1>4, <1>5 DEF Reject, GoOn, Failed

\* An accepted response: the projection that is checked is what is recorded.
LEMMA AcceptKeeps == ASSUME IInv, Accept PROVE IInv'
  <1>1. /\ at = "returned" /\ end = "none" /\ Handling
        /\ UNCHANGED <<conf, resp, resumed, odd, summed>> /\ before' = None0
        /\ {spent, billed, resp.usage} \subseteq Usage
    BY DEF Accept, Over, Rest, IInv, Types, Handling
  <1>2. CASE at' = "ended" /\ end' = "failed" /\ UNCHANGED <<spent, billed>>
    BY <1>1, <1>2, UsageConstants, Stopping
  <1>3. CASE Record /\ at' = "ended" /\ end' = "failed"
    BY <1>1, <1>3, UsageConstants, Recording, Stopping
  <1>4. CASE /\ Record /\ at' = "judging" /\ end' = end
             /\ Limited => Within(Projected)
    <2>1. /\ spent' \in Usage /\ billed' = billed
          /\ odd \subseteq {"standin"} => spent' = Plus(conf.carried, billed)
      BY <1>1, <1>4, Recording
    <2>2. ~summed /\ "standin" \notin odd => spent' = Projected
      BY <1>1, <1>4 DEF IInv, Known, Projected, Record
    <2>3. Checked'
      <3>1. SUFFICES ASSUME ~summed, "standin" \notin odd PROVE Within(spent)'
        BY <1>1 DEF Checked
      <3>2. CASE Limited
        BY <1>1, <1>4, <2>2, <3>1, <3>2 DEF Within
      <3>3. CASE ~Limited
        <4>1. conf.limits = None0 /\ DOMAIN spent' = {"requests", "tokens"}
          BY <2>1, <3>3 DEF Limited, Usage
        <4> QED
          BY <1>1, <4>1 DEF Within, None0
      <3> QED
        BY <3>2, <3>3
    <2> QED
      BY <1>1, <1>4, <2>1, <2>3, UsageConstants
      DEF IInv, Types, Books, Known, Handling, Settled
  <1> QED
    BY <1>2, <1>3, <1>4 DEF Accept, GoOn, Failed

\* A response without calls.
LEMMA FinalizeKeeps == ASSUME IInv, Finalize PROVE IInv'
  <1>1. at = "judging" /\ UNCHANGED <<books, before>>
    <2>1. at = "judging" /\ before = before'
      BY DEF Finalize, Judging
    <2> QED
      BY <2>1 DEF Finalize, Judging, Rest, books
  <1>2. \/ at' = "top" /\ end' = end
        \/ at' = "ended" /\ end' \in {"result", "failed"}
    BY ConcludeMoves, AskAgainMoves DEF Finalize
  <1> QED
    BY <1>1, <1>2, Judged

\* An output that was streamed.
LEMMA CommitKeeps == ASSUME IInv, Commit PROVE IInv'
  <1>1. at = "judging" /\ UNCHANGED <<books, before>>
    BY DEF Commit, Judging, Rest, books
  <1>2. \/ at' = "top" /\ end' = end
        \/ at' = "ended" /\ end' \in {"result", "failed", "cancelled"}
    BY ConcludeMoves DEF Commit, Failed, Interrupt
  <1> QED
    BY <1>1, <1>2, Judged

\* A text beside calls that are skipped.
LEMMA EndEarlyKeeps == ASSUME IInv, EndEarly PROVE IInv'
  <1>1. at = "judging" /\ UNCHANGED <<books, before>>
    BY DEF EndEarly, Judging, Rest, books
  <1>2. \/ at' = "top" /\ end' = end
        \/ at' = "ended" /\ end' = "result"
    BY ConcludeMoves DEF EndEarly
  <1> QED
    BY <1>1, <1>2, Judged

\* The tool calls, whose cost is checked before the run goes on.
LEMMA ExecuteKeeps == ASSUME IInv, Execute PROVE IInv'
  <1>1. /\ at = "judging" /\ end = "none"
        /\ UNCHANGED <<conf, resp, resumed, before, odd, summed>>
        /\ {spent, billed, before, resp.usage} \subseteq Usage /\ conf.carried \in Usage
    BY Carried DEF Execute, Judging, Rest, IInv, Types
  <1>2. PICK cost \in {0, 1} :
            spent' = Costing(spent, cost) /\ billed' = Costing(billed, cost)
    BY DEF Execute, Costing
  <1>3. spent' \in Usage /\ billed' \in Usage
    <2>1. ASSUME NEW u \in Usage PROVE Costing(u, cost) \in Usage
      BY DEF Costing, Usage
    <2> QED
      BY <1>1, <1>2, <2>1
  <1>4. odd \subseteq {"standin"} => spent' = Plus(conf.carried, billed')
    BY <1>1, <1>2, ToolsCost DEF IInv, Books, Settled
  <1>5. CASE at' = "ended" /\ end' \in {"failed", "cancelled"}
    BY <1>1, <1>3, <1>5, Stopping
  <1>6. CASE /\ Within(spent')
             /\ \/ at' = "top" /\ end' = end
                \/ at' = "ended" /\ end' \in {"result", "deferred", "failed"}
    <2>1. Within(spent)'
      BY <1>1, <1>6 DEF Within
    <2> QED
      BY <1>1, <1>3, <1>4, <1>6, <2>1
      DEF IInv, Types, Books, Known, Checked, Handling, Settled
  <1> QED
    <2>1. CASE cancelled
      BY <1>5, <2>1 DEF Execute, Interrupt
    <2>2. CASE ~Within(spent')
      BY <1>5, <2>1, <2>2 DEF Execute, Failed
    <2>3. CASE ~cancelled /\ Within(spent')
      BY <1>6, <2>3, ConcludeMoves, AskAgainMoves DEF Execute, GoOn
    <2> QED
      BY <2>1, <2>2, <2>3

\* A callback that fails.
LEMMA FailKeeps == ASSUME IInv, Fail PROVE IInv'
  <1>1. /\ {spent, billed, before, resp.usage} \subseteq Usage
        /\ UNCHANGED <<conf, spent, billed, before, resp, resumed>>
        /\ at' = "ended" /\ end' = "failed"
    BY DEF Fail, Failed, workVars, ghostVars, IInv, Types
  <1> QED
    BY <1>1, Stopping

\* A cancelled run, seen at the top of a turn.
LEMMA SeeCancelKeeps == ASSUME IInv, SeeCancel PROVE IInv'
  <1>1. /\ {spent, billed, before, resp.usage} \subseteq Usage
        /\ UNCHANGED <<conf, spent, billed, before, resp, resumed>>
        /\ at' = "ended" /\ end' = "cancelled"
    BY DEF SeeCancel, workVars, ghostVars, IInv, Types
  <1> QED
    BY <1>1, Stopping

\* Steps that move nothing the invariant reads.
LEMMA StillKeeps ==
    ASSUME IInv, UNCHANGED <<books, at, end, before, asked>>
    PROVE  IInv'
  BY DEF IInv, Types, Books, Known, Checked, Handling, Settled, books, Within, Plus, Beyond,
         EndsSuspended

-----------------------------------------------------------------------------
(* The theorems *)

\* A run starts with what its conversation had been billed.
LEMMA InitKeeps == LoopInit => IInv
  <1> SUFFICES ASSUME LoopInit PROVE IInv
    OBVIOUS
  <1>1. /\ conf \in Runs /\ conf.carried \in Usage /\ at = "top" /\ end = "none"
        /\ spent = conf.carried /\ billed = None0 /\ before = None0 /\ resumed = None0
        /\ resp.usage = None0
    BY Carried DEF LoopInit
  <1>2. Plus(conf.carried, None0) = conf.carried
    <2>1. /\ Plus(conf.carried, None0) \in Usage
          /\ Plus(conf.carried, None0).requests = conf.carried.requests + 0
          /\ Plus(conf.carried, None0).tokens = conf.carried.tokens + 0
      BY <1>1, UsageSums, UsageConstants DEF None0
    <2>2. conf.carried.requests \in Int /\ conf.carried.tokens \in Int
      BY <1>1 DEF Usage
    <2> QED
      BY <1>1, <2>1, <2>2, UsageEqual
  <1> QED
    BY <1>1, <1>2, UsageConstants DEF IInv, Types, Books, Known, Checked, Handling, Settled

\* Every step of a run keeps the books.
LEMMA StepKeeps == ASSUME IInv, [LoopNext]_loopVars PROVE IInv'
  <1>1. CASE LoopStep
    BY <1>1, PrepareKeeps, WrapKeeps, HooksKeeps, AskKeeps, AskFailsKeeps, AfterKeeps,
       GiveUpKeeps, RejectKeeps, AcceptKeeps, FinalizeKeeps, CommitKeeps, EndEarlyKeeps,
       ExecuteKeeps, FailKeeps, SeeCancelKeeps, StillKeeps
    DEF LoopStep, CancelRun, workVars, ghostVars, books
  <1>2. CASE UNCHANGED loopVars
    BY <1>2, StillKeeps DEF loopVars, workVars, ghostVars, books
  <1> QED
    BY <1>1, <1>2 DEF LoopNext, LoopEnded

\* The inductive invariant holds in every reachable state: the loop and the
\* wrapper that checks the limits agree on the usage at every step of a turn.
THEOREM BooksKept == LoopSpec => []IInv
  <1>1. IInv /\ [LoopNext]_loopVars => IInv'
    BY StepKeeps
  <1> QED
    BY InitKeeps, <1>1, PTL DEF LoopSpec

\* A run reports what its providers and tools billed and what the conversation
\* had been billed before, in full and once, whatever its callbacks do: resumed
\* responses, retries and summaries are neither lost nor counted twice.
THEOREM UsageReported == LoopSpec => []UsageExact
  <1>1. IInv => UsageExact
    BY DEF IInv, Books, UsageExact, Settled
  <1> QED
    BY BooksKept, <1>1, PTL

\* A run ends with a result only within its limits: what the wrapper projects
\* before the response is recorded is what the loop then records, and what the
\* tools cost is checked before their results are used.
THEOREM LimitsKept == LoopSpec => []WithinLimits
  <1>1. IInv => WithinLimits
    BY DEF IInv, Checked, WithinLimits
  <1> QED
    BY BooksKept, <1>1, PTL

-----------------------------------------------------------------------------
(* Positions of a sequence, counted in order *)

Upto(S, i) == {j \in S : j <= i}
Rank(S, i) == Cardinality(Upto(S, i))

\* S holds positions of a sequence of n elements.
Among(S, n) == n \in Nat /\ S \subseteq 1..n

\* A nonempty set of natural numbers has a least one.
LEMMA Least ==
    ASSUME NEW S, S \subseteq Nat, S # {}
    PROVE  \E x \in S : \A y \in S : x <= y
  <1> DEFINE R == {p \in Nat \X Nat : p[1] < p[2]}
  <1>1. IsWellFoundedOn(R, Nat)
    BY NatLessThanWellFounded, Zenon DEF OpToRel
  <1> HIDE DEF R
  <1>2. PICK x \in S : \A y \in S : ~(<<y, x>> \in R)
    BY <1>1, WFMin
  <1>3. ASSUME NEW y \in S, y < x PROVE <<y, x>> \in R
    BY <1>3 DEF R
  <1>4. ASSUME NEW y \in S PROVE ~(y < x)
    BY <1>2, <1>3
  <1>5. x \in Nat /\ \A y \in S : y \in Nat
    BY <1>2
  <1> QED
    BY <1>4, <1>5

\* Positions are numbers from 1 to n, and finitely many.
LEMMA AmongFacts ==
    ASSUME NEW n, NEW S, Among(S, n)
    PROVE  /\ n \in Nat /\ \A j \in S : j \in Int /\ 1 <= j /\ j <= n
           /\ IsFiniteSet(S) /\ Cardinality(S) \in Nat
  <1>1. n \in Nat /\ \A j \in S : j \in Int /\ 1 <= j /\ j <= n
    BY DEF Among
  <1>2. IsFiniteSet(1..n) /\ S \in SUBSET (1..n)
    BY <1>1, FS_Interval DEF Among
  <1>3. IsFiniteSet(S)
    BY <1>2, FS_Subset
  <1> QED
    BY <1>1, <1>3, FS_CardinalityType

\* The positions up to i, one at a time.
LEMMA UptoIn ==
    ASSUME NEW S, NEW i, NEW j
    PROVE  j \in Upto(S, i) <=> j \in S /\ j <= i
  BY DEF Upto

\* The positions up to i are those up to i - 1, and i if it is one.
LEMMA UptoNext ==
    ASSUME NEW n, NEW S, Among(S, n), NEW i \in 1..n
    PROVE  /\ i \notin Upto(S, i - 1)
           /\ i \in S => Upto(S, i) = Upto(S, i - 1) \cup {i}
           /\ i \notin S => Upto(S, i) = Upto(S, i - 1)
  <1>1. n \in Nat /\ \A j \in S : j \in Int
    BY AmongFacts
  <1>2. i \notin Upto(S, i - 1)
    BY UptoIn
  <1>3. ASSUME NEW j
        PROVE  j \in Upto(S, i) <=> j \in Upto(S, i - 1) \/ (j = i /\ i \in S)
    <2>1. CASE j \in S
      <3>1. j <= i <=> j <= i - 1 \/ j = i
        BY <1>1, <2>1
      <3> QED
        BY <2>1, <3>1, UptoIn
    <2>2. CASE j \notin S
      BY <2>2, UptoIn
    <2> QED
      BY <2>1, <2>2
  <1>4. i \in S => Upto(S, i) = Upto(S, i - 1) \cup {i}
    BY <1>3, Zenon
  <1>5. i \notin S => Upto(S, i) = Upto(S, i - 1)
    BY <1>3, Zenon
  <1> QED
    BY <1>2, <1>4, <1>5

\* The positions up to i are positions from 1 to i, none for 0, all for the last.
LEMMA UptoBounds ==
    ASSUME NEW n, NEW S, Among(S, n), NEW i \in 0..n
    PROVE  /\ Upto(S, i) \subseteq 1..i /\ Upto(S, i) \subseteq S
           /\ Upto(S, 0) = {} /\ Upto(S, n) = S
  <1>1. n \in Nat /\ \A j \in S : j \in Int /\ 1 <= j /\ j <= n
    BY AmongFacts
  <1>2. \A j \in Upto(S, i) : j \in 1..i /\ j \in S
    BY <1>1, UptoIn
  <1>3. ASSUME NEW j \in Upto(S, 0) PROVE FALSE
    <2>1. j \in S /\ j <= 0
      BY UptoIn
    <2> QED
      BY <1>1, <2>1
  <1>4. \A j : j \in S <=> j \in Upto(S, n)
    BY <1>1, UptoIn
  <1>5. Upto(S, n) = S
    BY <1>4, Zenon
  <1> QED
    BY <1>2, <1>3, <1>5, Zenon

\* The rank of a position lies between zero and the number of positions, and
\* is one more than that of its predecessor if it is one of them.
LEMMA Ranks ==
    ASSUME NEW n, NEW S, Among(S, n), NEW i \in 0..n
    PROVE  /\ Cardinality(S) \in Nat
           /\ Rank(S, i) \in Nat /\ Rank(S, i) <= Cardinality(S) /\ Rank(S, i) <= i
           /\ Rank(S, 0) = 0 /\ Rank(S, n) = Cardinality(S)
           /\ i > 0 => Rank(S, i) = Rank(S, i - 1) + IF i \in S THEN 1 ELSE 0
  <1>1. n \in Nat /\ IsFiniteSet(S) /\ Cardinality(S) \in Nat
    BY AmongFacts
  <1>2. ASSUME NEW k \in 0..n
        PROVE  /\ IsFiniteSet(Upto(S, k)) /\ Rank(S, k) \in Nat
               /\ Rank(S, k) <= Cardinality(S)
    <2>1. Upto(S, k) \in SUBSET S
      BY UptoBounds
    <2> QED
      BY <1>1, <2>1, FS_Subset, FS_CardinalityType DEF Rank
  <1>3. Rank(S, i) <= i
    <2>1. i \in Nat /\ (1 > i <=> i = 0)
      BY <1>1
    <2>2. IsFiniteSet(1..i) /\ Cardinality(1..i) = i
      BY <2>1, FS_Interval
    <2>3. Upto(S, i) \in SUBSET (1..i)
      BY UptoBounds
    <2> QED
      BY <2>2, <2>3, FS_Subset DEF Rank
  <1>4. Rank(S, 0) = 0 /\ Rank(S, n) = Cardinality(S)
    <2>1. 0 \in 0..n
      BY <1>1
    <2> QED
      BY <2>1, UptoBounds, FS_EmptySet DEF Rank
  <1>5. ASSUME i > 0
        PROVE  Rank(S, i) = Rank(S, i - 1) + IF i \in S THEN 1 ELSE 0
    <2>1. i \in 1..n /\ i - 1 \in 0..n
      BY <1>1, <1>5
    <2>2. IsFiniteSet(Upto(S, i - 1)) /\ Rank(S, i - 1) \in Nat
      BY <1>2, <2>1
    <2>3. CASE i \in S
      <3>1. Upto(S, i) = Upto(S, i - 1) \cup {i} /\ i \notin Upto(S, i - 1)
        BY <2>1, <2>3, UptoNext
      <3>2. Cardinality(Upto(S, i)) = Cardinality(Upto(S, i - 1)) + 1
        BY <2>2, <3>1, FS_AddElement
      <3> QED
        BY <2>3, <3>2 DEF Rank
    <2>4. CASE i \notin S
      BY <2>1, <2>2, <2>4, UptoNext DEF Rank
    <2> QED
      BY <2>3, <2>4
  <1> QED
    BY <1>1, <1>2, <1>3, <1>4, <1>5

\* A later position has a higher rank.
LEMMA RankGrows ==
    ASSUME NEW n, NEW S, Among(S, n), NEW i \in 0..n, NEW j \in 0..n, i <= j
    PROVE  Rank(S, i) <= Rank(S, j) /\ (i < j /\ j \in S => Rank(S, i) < Rank(S, j))
  <1>1. n \in Nat /\ IsFiniteSet(S) /\ \A k \in S : k \in Int
    BY AmongFacts
  <1>2. IsFiniteSet(Upto(S, i)) /\ IsFiniteSet(Upto(S, j))
    <2>1. Upto(S, i) \in SUBSET S /\ Upto(S, j) \in SUBSET S
      BY UptoBounds
    <2> QED
      BY <1>1, <2>1, FS_Subset
  <1>3. Upto(S, i) \subseteq Upto(S, j)
    <2>1. ASSUME NEW k \in Upto(S, i) PROVE k \in Upto(S, j)
      <3>1. k \in S /\ k <= i
        BY UptoIn
      <3>2. k <= j
        BY <1>1, <3>1
      <3> QED
        BY <3>1, <3>2, UptoIn
    <2> QED
      BY <2>1
  <1>4. i < j /\ j \in S => Upto(S, i) # Upto(S, j)
    <2>1. ASSUME i < j, j \in S PROVE j \in Upto(S, j) /\ j \notin Upto(S, i)
      BY <1>1, <2>1, UptoIn
    <2> QED
      BY <2>1
  <1>5. Rank(S, i) \in Nat /\ Rank(S, j) \in Nat
    BY Ranks
  <1>6. Rank(S, i) <= Rank(S, j)
    BY <1>2, <1>3, FS_Subset DEF Rank
  <1>7. i < j /\ j \in S => Rank(S, i) # Rank(S, j)
    BY <1>2, <1>3, <1>4, FS_Subset DEF Rank
  <1> QED
    BY <1>5, <1>6, <1>7

\* The n-th position is one of them, and its rank is n.
LEMMA NthRank ==
    ASSUME NEW n, NEW S, Among(S, n), NEW k \in 1..Cardinality(S)
    PROVE  Nth(S, k) \in S /\ Rank(S, Nth(S, k)) = k
  <1> DEFINE T == {m \in 1..n : Rank(S, m) >= k}
  <1>1. Cardinality(S) \in Nat /\ Rank(S, n) = Cardinality(S) /\ Rank(S, 0) = 0
    <2>1. 0 \in 0..n /\ n \in 0..n
      BY AmongFacts
    <2> QED
      BY <2>1, Ranks
  <1>2. n \in T /\ T \subseteq Nat
    <2>1. n \in Nat /\ n # 0 /\ k <= Rank(S, n) /\ k \in Int
      BY <1>1, AmongFacts
    <2> QED
      BY <2>1, <1>1
  <1>3. PICK m \in T : \A y \in T : m <= y
    <2>1. T # {}
      BY <1>2
    <2> HIDE DEF T
    <2> QED
      BY <1>2, <2>1, Least
  <1>4. /\ m \in 1..n /\ m \in 0..n /\ m - 1 \in 0..n
        /\ Rank(S, m) \in Nat /\ Rank(S, m) >= k
    <2>1. m \in 1..n /\ m \in 0..n /\ m - 1 \in 0..n
      BY <1>3, AmongFacts
    <2>2. Rank(S, m) >= k
      BY <1>3
    <2> QED
      BY <2>1, <2>2, Ranks
  <1>5. Rank(S, m - 1) \in Nat /\ Rank(S, m - 1) < k
    <2>1. Rank(S, m - 1) \in Nat
      BY <1>4, Ranks
    <2>2. CASE m - 1 \in 1..n
      <3>1. m - 1 \notin T
        <4>1. ~(m <= m - 1)
          BY <1>4
        <4> HIDE DEF T
        <4> QED
          BY <1>3, <4>1
      <3>2. ~(Rank(S, m - 1) >= k)
        BY <2>2, <3>1
      <3> QED
        BY <2>1, <3>2
    <2>3. CASE m = 1
      BY <1>1, <2>1, <2>3
    <2> QED
      BY <1>4, <2>2, <2>3
  <1> HIDE DEF T
  <1>6. Rank(S, m) = Rank(S, m - 1) + IF m \in S THEN 1 ELSE 0
    <2>1. m > 0
      BY <1>4, AmongFacts
    <2> QED
      BY <1>4, <2>1, Ranks
  <1>7. m \in S /\ Rank(S, m) = k
    BY <1>4, <1>5, <1>6
  <1>8. \E i \in S : Cardinality({j \in S : j <= i}) = k
    BY <1>7 DEF Rank, Upto
  <1> QED
    BY <1>8, Zenon DEF Nth, Rank, Upto

\* A position that is one of them is the n-th, its rank being n.
LEMMA RankNth ==
    ASSUME NEW n, NEW S, Among(S, n), NEW i \in S
    PROVE  Rank(S, i) \in 1..Cardinality(S) /\ Nth(S, Rank(S, i)) = i
  <1>1. i \in 0..n /\ i > 0 /\ 0 \in 0..n /\ 0 <= i
    BY AmongFacts
  <1>2. /\ Rank(S, i) \in Nat /\ Rank(S, i) <= Cardinality(S) /\ Cardinality(S) \in Nat
        /\ Rank(S, 0) < Rank(S, i) /\ Rank(S, 0) = 0
    BY <1>1, Ranks, RankGrows
  <1>3. Rank(S, i) \in 1..Cardinality(S)
    BY <1>2
  <1>4. PICK j \in S : j = Nth(S, Rank(S, i)) /\ Rank(S, j) = Rank(S, i)
    BY <1>3, NthRank
  <1>5. j \in 0..n /\ i \in Int /\ j \in Int
    BY AmongFacts
  <1>6. ~(i < j)
    BY <1>1, <1>2, <1>4, <1>5, RankGrows
  <1>7. ~(j < i)
    BY <1>1, <1>2, <1>4, <1>5, RankGrows
  <1> QED
    BY <1>3, <1>4, <1>5, <1>6, <1>7

\* What is not removed, counted among the first m positions.
LEMMA RankKept ==
    ASSUME NEW n, NEW E, Among(E, n), NEW m \in 0..n
    PROVE  Rank((1..n) \ E, m) = m - Rank(E, m)
  <1>1. n \in Nat /\ m \in Nat /\ m <= n /\ IsFiniteSet(1..m) /\ Cardinality(1..m) = m
    <2>1. n \in Nat /\ m \in Nat /\ m <= n /\ (1 > m <=> m = 0)
      BY AmongFacts
    <2> QED
      BY <2>1, FS_Interval
  <1>2. ASSUME NEW j
        PROVE  j \in Upto((1..n) \ E, m) <=> j \in (1..m) \ Upto(E, m)
    <2>1. CASE j \in 1..n
      BY <1>1, <2>1, UptoIn
    <2>2. CASE j \notin 1..n
      BY <1>1, <2>2, UptoIn
    <2> QED
      BY <2>1, <2>2
  <1>3. Upto((1..n) \ E, m) = (1..m) \ Upto(E, m)
    BY <1>2, Zenon
  <1>4. (1..m) \cap Upto(E, m) = Upto(E, m)
    BY UptoBounds
  <1> QED
    <2>1. Cardinality((1..m) \ Upto(E, m)) =
             Cardinality(1..m) - Cardinality((1..m) \cap Upto(E, m))
      BY <1>1, FS_Difference, Zenon
    <2>2. Cardinality((1..m) \ Upto(E, m)) = m - Cardinality(Upto(E, m))
      BY <1>1, <1>4, <2>1
    <2> QED
      BY <1>3, <2>2 DEF Rank

-----------------------------------------------------------------------------
(* Sequences of messages *)

\* The messages of the run are those behind the first n.
Owning(q, n) == n \in 0..Len(q) /\ \A i \in 1..Len(q) : q[i].own <=> i > n

\* Reminders have arrived.
NumberedTo(q, k) == \A i \in 1..Len(q) : HasReminder(q[i]) => q[i].id <= k

\* A trailing request with a reminder.
Showing(q, i) == HasReminder(q[i]) /\ \A j \in i..Len(q) : IsRequest(q[j])

\* The reminders a model request shows are those of its trailing requests.
LEMMA ShownIn ==
    ASSUME NEW q \in Seq(Message), NEW x
    PROVE  x \in Shown(q) <=> \E i \in 1..Len(q) : Showing(q, i) /\ x = q[i].id
  BY DEF Shown, Trailing, Showing

\* A message of the run at the end leaves the others where they are.
LEMMA OwnAppended ==
    ASSUME NEW q \in Seq(Message), NEW m \in Message, NEW n, Owning(q, n), m.own
    PROVE  Owning(Append(q, m), n)
  <1>1. /\ Len(Append(q, m)) = Len(q) + 1 /\ Len(q) \in Nat
        /\ \A i \in 1..Len(q) : Append(q, m)[i] = q[i]
        /\ Append(q, m)[Len(q) + 1] = m
    BY AppendProperties
  <1>2. n \in 0..(Len(q) + 1) /\ ~(Len(q) + 1 <= n)
    BY <1>1 DEF Owning
  <1>3. ASSUME NEW i \in 1..(Len(q) + 1) PROVE Append(q, m)[i].own <=> i > n
    <2>1. CASE i \in 1..Len(q)
      BY <1>1, <2>1 DEF Owning
    <2>2. CASE i = Len(q) + 1
      BY <1>1, <1>2, <2>2
    <2> QED
      BY <1>1, <2>1, <2>2
  <1> QED
    BY <1>1, <1>2, <1>3 DEF Owning

\* A reminder at the end is the last that has arrived.
LEMMA NumberedAppended ==
    ASSUME NEW q \in Seq(Message), NEW m \in Message, NEW k \in Nat, NEW l \in Nat, k <= l,
           NumberedTo(q, k), HasReminder(m) => m.id <= l
    PROVE  NumberedTo(Append(q, m), l)
  <1>1. /\ Len(Append(q, m)) = Len(q) + 1 /\ Len(q) \in Nat
        /\ \A i \in 1..Len(q) : Append(q, m)[i] = q[i] /\ q[i] \in Message
        /\ Append(q, m)[Len(q) + 1] = m
    BY AppendProperties
  <1>2. ASSUME NEW i \in 1..(Len(q) + 1), HasReminder(Append(q, m)[i])
        PROVE  Append(q, m)[i].id <= l
    <2>1. CASE i \in 1..Len(q)
      <3>1. q[i].id \in Int /\ q[i].id <= k
        BY <1>1, <1>2, <2>1 DEF NumberedTo, Message
      <3> QED
        BY <1>1, <2>1, <3>1
    <2>2. CASE i = Len(q) + 1
      BY <1>1, <1>2, <2>2
    <2> QED
      BY <1>1, <2>1, <2>2
  <1> QED
    BY <1>1, <1>2 DEF NumberedTo

\* Behind a message that is not a request, nothing is left to show; a request
\* adds its own reminder.
LEMMA ShownAppended ==
    ASSUME NEW q \in Seq(Message), NEW m \in Message
    PROVE  /\ ~IsRequest(m) => Shown(Append(q, m)) = {}
           /\ IsRequest(m) /\ ~HasReminder(m) => Shown(Append(q, m)) \subseteq Shown(q)
           /\ Shown(Append(q, m)) \subseteq Shown(q) \cup {m.id}
  <1> DEFINE r == Append(q, m)
  <1>1. /\ r \in Seq(Message) /\ Len(r) = Len(q) + 1 /\ Len(q) \in Nat
        /\ \A i \in 1..Len(q) : r[i] = q[i]
        /\ r[Len(q) + 1] = m
    BY AppendProperties
  <1> HIDE DEF r
  <1>2. ASSUME NEW x \in Shown(r)
        PROVE  /\ IsRequest(m)
               /\ x \in Shown(q) \/ (HasReminder(m) /\ x = m.id)
    <2>1. PICK i \in 1..Len(r) : Showing(r, i) /\ x = r[i].id
      BY <1>1, ShownIn
    <2>2. IsRequest(m)
      <3>1. Len(q) + 1 \in i..Len(r)
        BY <1>1
      <3> QED
        BY <1>1, <2>1, <3>1 DEF Showing
    <2>3. CASE i = Len(q) + 1
      BY <1>1, <2>1, <2>2, <2>3 DEF Showing
    <2>4. CASE i \in 1..Len(q)
      <3>1. \A j \in i..Len(q) : j \in 1..Len(q) /\ j \in i..Len(r)
        BY <1>1, <2>4
      <3>2. Showing(q, i) /\ x = q[i].id
        BY <1>1, <2>1, <2>4, <3>1 DEF Showing
      <3> QED
        BY <2>2, <2>4, <3>2, ShownIn
    <2> QED
      BY <1>1, <2>3, <2>4
  <1> QED
    BY <1>2 DEF r

-----------------------------------------------------------------------------
(* What is left of a history when the reminders of a request are dropped *)

Kept(q) == (1..Len(q)) \ Emptied(q)

\* What is removed is a trailing request.
LEMMA KeptPositions ==
    ASSUME NEW q \in Seq(Message)
    PROVE  /\ Among(Emptied(q), Len(q)) /\ Among(Kept(q), Len(q))
           /\ Emptied(q) \subseteq Trailing(q)
           /\ DOMAIN q \ Emptied(q) = Kept(q)
  <1>1. Len(q) \in Nat /\ DOMAIN q = 1..Len(q)
    OBVIOUS
  <1>2. Trailing(q) \subseteq 1..Len(q)
    BY <1>1 DEF Trailing
  <1>3. Emptied(q) \subseteq Trailing(q)
    BY DEF Emptied
  <1> QED
    BY <1>1, <1>2, <1>3 DEF Among, Kept

\* A message that is left keeps all but a reminder.
LEMMA DroppedOne ==
    ASSUME NEW q \in Seq(Message), NEW n \in 1..Cardinality(Kept(q))
    PROVE  LET i == Nth(Kept(q), n) IN
           /\ i \in Kept(q) /\ Rank(Kept(q), i) = n
           /\ Dropped(q)[n] \in Message
           /\ Dropped(q)[n].own = q[i].own /\ Dropped(q)[n].id = q[i].id
           /\ Dropped(q)[n].role = q[i].role
           /\ HasReminder(Dropped(q)[n]) => HasReminder(q[i]) /\ i \notin Trailing(q)
  <1>1. PICK i \in Kept(q) : i = Nth(Kept(q), n) /\ Rank(Kept(q), i) = n
    BY KeptPositions, NthRank
  <1>2. i \in 1..Len(q)
    BY DEF Kept
  <1>3. q[i] \in Message
    BY <1>2
  <1>4. Dropped(q)[n] = IF i \in Trailing(q)
                        THEN [q[i] EXCEPT !.parts = @ \ {"reminder"}] ELSE q[i]
    BY <1>1, KeptPositions DEF Dropped
  <1> QED
    BY <1>1, <1>3, <1>4 DEF Message, HasReminder

\* What is left is a history.
LEMMA DroppedTyped ==
    ASSUME NEW q \in Seq(Message)
    PROVE  /\ Cardinality(Kept(q)) \in Nat /\ Len(Dropped(q)) = Cardinality(Kept(q))
           /\ Dropped(q) \in Seq(Message)
  <1>1. Cardinality(Kept(q)) \in Nat
    BY KeptPositions, AmongFacts
  <1>2. \A n \in 1..Cardinality(Kept(q)) : Dropped(q)[n] \in Message
    BY DroppedOne
  <1>3. Dropped(q) = [n \in 1..Cardinality(Kept(q)) |-> Dropped(q)[n]]
    BY KeptPositions DEF Dropped
  <1>4. PICK d : d = Dropped(q)
    OBVIOUS
  <1>5. d \in [1..Cardinality(Kept(q)) -> Message]
    BY <1>2, <1>3, <1>4
  <1>6. d \in Seq(Message) /\ Len(d) = Cardinality(Kept(q))
    BY <1>1, <1>5
  <1> QED
    BY <1>1, <1>4, <1>6

\* It shows no reminder: those of the trailing requests are gone, and the
\* message that another stands before is left.
LEMMA DroppedShown ==
    ASSUME NEW q \in Seq(Message)
    PROVE  Shown(Dropped(q)) = {}
  <1> SUFFICES ASSUME NEW x \in Shown(Dropped(q)) PROVE FALSE
    OBVIOUS
  <1>1. PICK n \in 1..Cardinality(Kept(q)) : Showing(Dropped(q), n)
    BY ShownIn, DroppedTyped
  <1>2. PICK i \in Kept(q) : /\ i \notin Trailing(q) /\ Rank(Kept(q), i) = n
                             /\ i \in 1..Len(q)
    BY <1>1, DroppedOne DEF Showing, Kept
  <1>3. PICK j \in i..Len(q) : ~IsRequest(q[j])
    BY <1>2 DEF Trailing
  <1>4. j \in 1..Len(q) /\ j \in 0..Len(q) /\ i \in 0..Len(q) /\ i <= j
    BY <1>2, <1>3
  <1>5. j \in Kept(q)
    <2>1. j \notin Trailing(q)
      BY <1>3, <1>4 DEF Trailing
    <2> QED
      BY <1>4, <2>1, KeptPositions DEF Kept
  <1>6. PICK p \in 1..Cardinality(Kept(q)) : p = Rank(Kept(q), j) /\ Nth(Kept(q), p) = j
    BY <1>5, KeptPositions, RankNth
  <1>7. n <= p
    BY <1>2, <1>4, <1>6, KeptPositions, RankGrows
  <1>8. ~IsRequest(Dropped(q)[p])
    BY <1>3, <1>6, DroppedOne DEF IsRequest
  <1>9. p \in n..Len(Dropped(q))
    BY <1>7, DroppedTyped
  <1> QED
    BY <1>1, <1>8, <1>9 DEF Showing

\* The messages of earlier runs are as many fewer as were removed among them.
LEMMA DroppedOwning ==
    ASSUME NEW q \in Seq(Message), NEW m, Owning(q, m)
    PROVE  Owning(Dropped(q), m - Cardinality({i \in Emptied(q) : i <= m}))
  <1>1. m \in 0..Len(q)
    BY DEF Owning
  <1>2. m - Cardinality({i \in Emptied(q) : i <= m}) = Rank(Kept(q), m)
    <2>1. Rank((1..Len(q)) \ Emptied(q), m) = m - Rank(Emptied(q), m)
      BY <1>1, KeptPositions, RankKept
    <2>2. Rank(Emptied(q), m) = Cardinality({i \in Emptied(q) : i <= m})
      BY DEF Rank, Upto
    <2> QED
      BY <2>1, <2>2 DEF Kept
  <1>3. Rank(Kept(q), m) \in 0..Len(Dropped(q))
    <2>1. /\ Rank(Kept(q), m) \in Nat /\ Rank(Kept(q), m) <= Cardinality(Kept(q))
          /\ Cardinality(Kept(q)) \in Nat
      BY <1>1, KeptPositions, Ranks
    <2> QED
      BY <2>1, DroppedTyped
  <1>4. ASSUME NEW n \in 1..Len(Dropped(q))
        PROVE  Dropped(q)[n].own <=> n > Rank(Kept(q), m)
    <2>1. n \in 1..Cardinality(Kept(q)) /\ n \in Int
      BY DroppedTyped
    <2>2. PICK i \in Kept(q) : Rank(Kept(q), i) = n /\ Dropped(q)[n].own = q[i].own
      BY <2>1, DroppedOne
    <2>3. i \in 1..Len(q) /\ i \in 0..Len(q) /\ m \in Int /\ i \in Int
      BY <1>1 DEF Kept
    <2>4. Rank(Kept(q), m) \in Int
      BY <1>3
    <2>5. q[i].own <=> i > m
      BY <2>3 DEF Owning
    <2>6. CASE i > m
      <3>1. Rank(Kept(q), m) < n
        BY <1>1, <2>2, <2>3, <2>6, KeptPositions, RankGrows
      <3> QED
        BY <2>1, <2>2, <2>4, <2>5, <2>6, <3>1
    <2>7. CASE i <= m
      <3>1. n <= Rank(Kept(q), m)
        BY <1>1, <2>2, <2>3, <2>7, KeptPositions, RankGrows
      <3> QED
        BY <2>1, <2>2, <2>3, <2>4, <2>5, <2>7, <3>1
    <2> QED
      BY <2>3, <2>6, <2>7
  <1> QED
    BY <1>2, <1>3, <1>4 DEF Owning

\* Its reminders have arrived.
LEMMA DroppedNumbered ==
    ASSUME NEW q \in Seq(Message), NEW k, NumberedTo(q, k)
    PROVE  NumberedTo(Dropped(q), k)
  <1>1. ASSUME NEW n \in 1..Len(Dropped(q)), HasReminder(Dropped(q)[n])
        PROVE  Dropped(q)[n].id <= k
    <2>1. n \in 1..Cardinality(Kept(q))
      BY DroppedTyped
    <2>2. PICK i \in Kept(q) : HasReminder(q[i]) /\ Dropped(q)[n].id = q[i].id
      BY <1>1, <2>1, DroppedOne
    <2> QED
      BY <2>2 DEF NumberedTo, Kept
  <1> QED
    BY <1>1 DEF NumberedTo

-----------------------------------------------------------------------------
(* What a run adds to its messages *)

\* Nothing left to show has been shown, and no reminder is ahead of its number.
Fresh(q, k, s) == NumberedTo(q, k) /\ Shown(q) \cap s = {}

\* The messages a run makes.
LEMMA OwnMessages ==
    /\ \A parts \in SUBSET Kinds :
           LET m == Request(parts) IN
           m \in Message /\ m.own /\ IsRequest(m) /\ m.id = 0 /\ m.parts = parts
    /\ \A parts \in SUBSET Kinds, n \in Int :
           LET m == Response(parts, n) IN
           m \in Message /\ m.own /\ ~IsRequest(m) /\ m.parts = parts
  <1>1. ASSUME NEW parts \in SUBSET Kinds, NEW m, m = Request(parts)
        PROVE  m \in Message /\ m.own /\ IsRequest(m) /\ m.id = 0 /\ m.parts = parts
    BY <1>1 DEF Request, Message, IsRequest
  <1>2. ASSUME NEW parts \in SUBSET Kinds, NEW n \in Int, NEW m, m = Response(parts, n)
        PROVE  m \in Message /\ m.own /\ ~IsRequest(m) /\ m.parts = parts
    BY <1>2 DEF Response, Message, IsRequest
  <1> QED
    BY <1>1, <1>2

\* A suspended response is a message without a reminder, and no request.
LEMMA SuspendedMessage ==
    Suspended \in Message /\ ~IsRequest(Suspended) /\ ~HasReminder(Suspended)
  BY DEF Suspended, Message, IsRequest, HasReminder, Kinds

\* A reminder carries the next number.
LEMMA ReminderMessage ==
    ASSUME arrivals \in Nat
    PROVE  /\ Reminder \in Message /\ Reminder.own /\ IsRequest(Reminder)
           /\ Reminder.id = arrivals + 1
  <1>1. {"reminder"} \in SUBSET Kinds
    BY DEF Kinds
  <1>2. PICK m \in Message : m = Request({"reminder"}) /\ m.own /\ IsRequest(m)
    BY <1>1, OwnMessages
  <1>3. Reminder = [m EXCEPT !.id = arrivals + 1]
    BY <1>2 DEF Reminder
  <1> QED
    BY <1>2, <1>3 DEF Message, IsRequest

\* Appending a message without a reminder.
LEMMA FreshAppended ==
    ASSUME NEW q \in Seq(Message), NEW k \in Nat, NEW s, Fresh(q, k, s),
           NEW m \in Message, ~HasReminder(m)
    PROVE  Fresh(Append(q, m), k, s)
  <1>1. NumberedTo(Append(q, m), k)
    BY NumberedAppended DEF Fresh
  <1>2. Shown(Append(q, m)) \subseteq Shown(q)
    BY ShownAppended
  <1> QED
    BY <1>1, <1>2 DEF Fresh

\* Delivered messages are the run's own, and a new reminder has not been shown.
LEMMA ArrivalsFit ==
    ASSUME NEW p \in Seq(Message), arrivals \in Nat, NEW q \in Arrivals(p), NEW s,
           \A x \in s : x <= arrivals
    PROVE  /\ q \in Seq(Message) /\ arrivals + Len(q) - Len(p) \in Nat
           /\ arrivals <= arrivals + Len(q) - Len(p)
           /\ \A n : Owning(p, n) => Owning(q, n)
           /\ NumberedTo(p, arrivals) => NumberedTo(q, arrivals + Len(q) - Len(p))
           /\ Fresh(p, arrivals, s) => Fresh(q, arrivals + Len(q) - Len(p), s)
  <1>1. Len(p) \in Nat
    OBVIOUS
  <1>2. CASE q = p
    BY <1>1, <1>2
  <1>3. ASSUME NEW m \in Message, q = Append(p, m), m.own,
               HasReminder(m) => m.id = arrivals + 1
        PROVE  /\ q \in Seq(Message) /\ arrivals + Len(q) - Len(p) = arrivals + 1
               /\ \A n : Owning(p, n) => Owning(q, n)
               /\ NumberedTo(p, arrivals) => NumberedTo(q, arrivals + 1)
               /\ Fresh(p, arrivals, s) => Fresh(q, arrivals + 1, s)
    <2>1. q \in Seq(Message) /\ Len(q) = Len(p) + 1
      BY <1>3, AppendProperties
    <2>2. \A n : Owning(p, n) => Owning(q, n)
      BY <1>3, OwnAppended
    <2>3. NumberedTo(p, arrivals) => NumberedTo(q, arrivals + 1)
      BY <1>3, NumberedAppended
    <2>4. Shown(p) \cap s = {} => Shown(q) \cap s = {}
      <3>1. CASE HasReminder(m)
        <4>1. m.id \notin s
          BY <1>3, <3>1
        <4>2. Shown(q) \subseteq Shown(p) \cup {m.id}
          BY <1>3, ShownAppended
        <4> QED
          BY <4>1, <4>2
      <3>2. CASE ~HasReminder(m)
        <4>1. Shown(q) \subseteq Shown(p)
          BY <1>3, <3>2, ShownAppended
        <4> QED
          BY <4>1
      <3> QED
        BY <3>1, <3>2
    <2> QED
      BY <1>1, <2>1, <2>2, <2>3, <2>4 DEF Fresh
  <1>4. CASE q = Append(p, Request({"enqueued"}))
    <2>1. /\ Request({"enqueued"}) \in Message /\ Request({"enqueued"}).own
          /\ ~HasReminder(Request({"enqueued"}))
      BY OwnMessages DEF Kinds, HasReminder
    <2> QED
      BY <1>3, <1>4, <2>1
  <1>5. CASE q = Append(p, Reminder)
    BY <1>3, <1>5, ReminderMessage
  <1> QED
    BY <1>2, <1>4, <1>5 DEF Arrivals

\* A system prompt is added to a message, which stays what it is.
LEMMA SystemFit ==
    ASSUME NEW q \in Seq(Message)
    PROVE  /\ AddSystem(q) \in Seq(Message)
           /\ \A n : Owning(q, n) => Owning(AddSystem(q), n)
           /\ \A k, s : Fresh(q, k, s) => Fresh(AddSystem(q), k, s)
           /\ \A k : NumberedTo(q, k) => NumberedTo(AddSystem(q), k)
  <1>1. PICK r : r = AddSystem(q)
    OBVIOUS
  <1>2. /\ r \in Seq(Message) /\ Len(r) = Len(q)
        /\ \A i \in 1..Len(q) : /\ r[i].own = q[i].own /\ r[i].id = q[i].id
                                /\ r[i].role = q[i].role
                                /\ HasReminder(r[i]) <=> HasReminder(q[i])
    <2>1. Len(q) \in Nat
      OBVIOUS
    <2>2. CASE Len(q) = 0
      <3>1. r = [i \in DOMAIN q |-> IF i = Len(q)
                                    THEN [q[Len(q)] EXCEPT !.parts = @ \cup {"system"}]
                                    ELSE q[i]]
        BY <1>1 DEF AddSystem
      <3>2. DOMAIN q = {} /\ q = [i \in DOMAIN q |-> q[i]]
        BY <2>2
      <3>3. r = q
        BY <3>1, <3>2
      <3> QED
        BY <3>3
    <2>3. CASE Len(q) # 0
      <3>1. PICK m : m = [q[Len(q)] EXCEPT !.parts = @ \cup {"system"}]
        OBVIOUS
      <3>2. /\ Len(q) \in 1..Len(q) /\ q[Len(q)] \in Message /\ r = [q EXCEPT ![Len(q)] = m]
        BY <1>1, <2>1, <2>3, <3>1 DEF AddSystem
      <3>3. /\ m \in Message /\ m.own = q[Len(q)].own /\ m.id = q[Len(q)].id
            /\ m.role = q[Len(q)].role /\ (HasReminder(m) <=> HasReminder(q[Len(q)]))
        BY <3>1, <3>2 DEF Message, HasReminder, Kinds
      <3> QED
        BY <3>2, <3>3, ExceptSeq
    <2> QED
      BY <2>2, <2>3
  <1>3. \A n : Owning(q, n) => Owning(r, n)
    BY <1>2 DEF Owning
  <1>4. \A k : NumberedTo(q, k) => NumberedTo(r, k)
    BY <1>2 DEF NumberedTo
  <1>5. Shown(r) \subseteq Shown(q)
    <2>1. ASSUME NEW x \in Shown(r) PROVE x \in Shown(q)
      <3>1. PICK i \in 1..Len(q) : Showing(r, i) /\ x = r[i].id
        BY <1>2, ShownIn
      <3>2. Showing(q, i)
        BY <1>2, <3>1 DEF Showing, IsRequest
      <3> QED
        BY <1>2, <3>1, <3>2, ShownIn
    <2> QED
      BY <2>1
  <1> QED
    BY <1>1, <1>2, <1>3, <1>4, <1>5 DEF Fresh

-----------------------------------------------------------------------------
(* The inductive invariant of the messages *)

\* A response of this run.
Answering(m) == m \in Message /\ m.own /\ ~IsRequest(m) /\ ~HasReminder(m)

Written ==
    /\ messages \in Seq(Message) /\ asked \in Seq(Message)
    /\ arrivals \in Nat /\ asks \in Nat /\ shown \subseteq Int
    /\ at \in {"answered", "returned", "rejected"} => Answering(resp.message)

Owned == ~replaced => Owning(messages, newMessages)

\* What a request has shown stays in the history until its answer follows it or
\* the step is given up; at any other time nothing left to show was shown.
Waiting == {"top", "prepared", "hooks", "asking", "judging"}

Unshown ==
    /\ \A x \in shown : x <= arrivals
    /\ NumberedTo(messages, arrivals) /\ NumberedTo(asked, arrivals)
    /\ at \in Waiting => Shown(messages) \cap shown = {}
    /\ at \in {"hooks", "asking"} => Shown(asked) \cap shown = {}

MInv == Written /\ Owned /\ Unshown

kept == <<newMessages, shown, replaced, asks>>

\* More reminders leave the bounds valid.
LEMMA LaterArrivals ==
    ASSUME MInv, arrivals' \in Nat, arrivals <= arrivals'
    PROVE  /\ \A x \in shown : x <= arrivals'
           /\ NumberedTo(asked, arrivals')
  <1>1. asked \in Seq(Message) /\ arrivals \in Nat /\ shown \subseteq Int
    BY DEF MInv, Written
  <1>2. \A x \in shown : x \in Int /\ x <= arrivals
    BY <1>1 DEF MInv, Unshown
  <1>3. ASSUME NEW i \in 1..Len(asked), HasReminder(asked[i])
        PROVE  asked[i].id <= arrivals'
    <2>1. asked[i] \in Message /\ asked[i].id \in Int
      <3>1. asked[i] \in Message
        BY <1>1, ElementOfSeq
      <3> QED
        BY <3>1 DEF Message
    <2>2. asked[i].id <= arrivals
      BY <1>3 DEF MInv, Unshown, NumberedTo
    <2> QED
      BY <1>1, <2>1, <2>2
  <1>4. NumberedTo(asked, arrivals')
    BY <1>3, Zenon DEF NumberedTo
  <1>5. ASSUME NEW x \in shown PROVE x <= arrivals'
    <2>1. x \in Int /\ x <= arrivals
      BY <1>2
    <2> QED
      BY <1>1, <2>1
  <1> QED
    BY <1>4, <1>5

\* The messages grow, and the request is the same or over.
LEMMA Grow ==
    ASSUME MInv, UNCHANGED kept, asked' \in {asked, <<>>},
           at' \in {"top", "judging", "ended"},
           messages' \in Seq(Message), arrivals' \in Nat, arrivals <= arrivals',
           \A n : Owning(messages, n) => Owning(messages', n),
           NumberedTo(messages', arrivals'),
           at' = "ended" \/ Shown(messages') \cap shown = {}
    PROVE  MInv'
  <1>1. /\ newMessages' = newMessages /\ shown' = shown /\ replaced' = replaced
        /\ asks' = asks
    BY DEF kept
  <1>2. asked' \in Seq(Message) /\ NumberedTo(asked', arrivals')
    <2>1. CASE asked' = asked
      BY <2>1, LaterArrivals DEF MInv, Written
    <2>2. CASE asked' = <<>>
      BY <2>2 DEF NumberedTo
    <2> QED
      BY <2>1, <2>2
  <1>3. Written'
    BY <1>1, <1>2 DEF MInv, Written
  <1>4. Owned'
    BY <1>1 DEF MInv, Owned
  <1>5. \A x \in shown' : x <= arrivals'
    BY <1>1, LaterArrivals
  <1>6. Unshown'
    BY <1>1, <1>2, <1>5 DEF Unshown, Waiting
  <1> QED
    BY <1>3, <1>4, <1>6 DEF MInv

\* An output that ends the run, or is followed by what was enqueued.
LEMMA ConcludeFit ==
    ASSUME NEW q \in Seq(Message), Fresh(q, arrivals, shown), arrivals \in Nat,
           \A x \in shown : x <= arrivals, Conclude(q)
    PROVE  /\ messages' \in Seq(Message) /\ arrivals' \in Nat /\ arrivals <= arrivals'
           /\ \A n : Owning(q, n) => Owning(messages', n)
           /\ Fresh(messages', arrivals', shown)
           /\ at' \in {"top", "ended"}
  <1>1. PICK r \in Arrivals(q) :
            /\ messages' = r /\ arrivals' = arrivals + Len(r) - Len(q)
            /\ at' \in {"top", "ended"}
    BY DEF Conclude, GoOn
  <1> QED
    BY <1>1, ArrivalsFit

\* Steps that leave the messages alone.
LEMMA Rested ==
    ASSUME MInv, UNCHANGED <<messages, asked, arrivals, kept>>,
           \/ at' \in {"ended", "givenUp"}
           \/ at' = at /\ UNCHANGED resp
           \/ at = "answered" /\ at' \in {"returned", "rejected"} /\ UNCHANGED resp
    PROVE  MInv'
  <1>1. /\ newMessages' = newMessages /\ shown' = shown /\ replaced' = replaced
        /\ messages' = messages /\ asked' = asked /\ arrivals' = arrivals /\ asks' = asks
    BY DEF kept
  <1>2. Written'
    BY <1>1 DEF MInv, Written
  <1>3. Owned' /\ Unshown'
    BY <1>1 DEF MInv, Owned, Unshown, Waiting
  <1> QED
    BY <1>2, <1>3 DEF MInv

-----------------------------------------------------------------------------
(* One lemma per action that writes messages *)

\* The head of a turn.
LEMMA PrepareFits == ASSUME MInv, Prepare PROVE MInv'
  <1>1. /\ messages \in Seq(Message) /\ arrivals \in Nat /\ at = "top" /\ asked' = asked
        /\ \A x \in shown : x <= arrivals
        /\ Fresh(messages, arrivals, shown)
    BY DEF Prepare, MInv, Written, Unshown, Waiting, Fresh
  <1>2. UNCHANGED kept
    BY DEF Prepare, kept, ghostVars
  <1>3. PICK q \in Arrivals(messages) :
            /\ arrivals' = arrivals + Len(q) - Len(messages)
            /\ messages' \in {q, AddSystem(q)}
            /\ at' \in {"prepared", "givenUp"}
    BY DEF Prepare, GoOn
  <1>4. /\ q \in Seq(Message) /\ arrivals' \in Nat /\ arrivals <= arrivals'
        /\ \A n : Owning(messages, n) => Owning(q, n)
        /\ Fresh(q, arrivals', shown)
    BY <1>1, <1>3, ArrivalsFit
  <1>5. /\ messages' \in Seq(Message)
        /\ \A n : Owning(messages, n) => Owning(messages', n)
        /\ Fresh(messages', arrivals', shown)
    <2>1. CASE messages' = q
      BY <1>4, <2>1
    <2>2. CASE messages' = AddSystem(q)
      BY <1>4, <2>2, SystemFit
    <2> QED
      BY <1>3, <2>1, <2>2
  <1>6. \A x \in shown : x <= arrivals'
    BY <1>4, LaterArrivals
  <1>7. NumberedTo(asked', arrivals')
    BY <1>1, <1>4, LaterArrivals
  <1>8. Written'
    BY <1>1, <1>2, <1>3, <1>4, <1>5 DEF MInv, Written, kept
  <1>9. Owned'
    BY <1>2, <1>5 DEF MInv, Owned, kept
  <1>10. Unshown'
    BY <1>2, <1>3, <1>5, <1>6, <1>7 DEF Unshown, Waiting, Fresh, kept
  <1> QED
    BY <1>8, <1>9, <1>10 DEF MInv

\* The wrappers: the messages of the request are those of the run, and the
\* suspended response of a resumed run.
LEMMA WrapFits == ASSUME MInv, Wrap PROVE MInv'
  <1>1. /\ messages \in Seq(Message) /\ arrivals \in Nat /\ at = "prepared"
        /\ \A x \in shown : x <= arrivals
        /\ Fresh(messages, arrivals, shown)
    BY DEF Wrap, MInv, Written, Unshown, Waiting, Fresh
  <1>2. UNCHANGED kept
    BY DEF Wrap, kept
  <1>3. PICK q \in Arrivals(messages) :
            /\ arrivals' = arrivals + Len(q) - Len(messages)
            /\ messages' = q
            /\ asked' \in {q, Append(q, Suspended)}
    BY DEF Wrap
  <1>4. /\ at' \in {"ended", "hooks", "returned"}
        /\ at' = "returned" => resp'.message = Response({"text"}, 0)
    BY DEF Wrap, GoOn, Failed
  <1>5. /\ q \in Seq(Message) /\ arrivals' \in Nat /\ arrivals <= arrivals'
        /\ \A n : Owning(messages, n) => Owning(q, n)
        /\ Fresh(q, arrivals', shown)
    BY <1>1, <1>3, ArrivalsFit
  <1>6. asked' \in Seq(Message) /\ Fresh(asked', arrivals', shown)
    <2>1. CASE asked' = q
      BY <1>5, <2>1
    <2>2. CASE asked' = Append(q, Suspended)
      <3>1. Append(q, Suspended) \in Seq(Message)
        BY <1>5, SuspendedMessage, AppendProperties
      <3> QED
        BY <1>5, <2>2, <3>1, SuspendedMessage, FreshAppended
    <2> QED
      BY <1>3, <2>1, <2>2
  <1>7. Answering(Response({"text"}, 0))
    <2>1. {"text"} \in SUBSET Kinds /\ "reminder" \notin {"text"}
      BY DEF Kinds
    <2> QED
      BY <2>1, OwnMessages DEF Answering, HasReminder
  <1>8. \A x \in shown : x <= arrivals'
    BY <1>5, LaterArrivals
  <1>9. Written'
    BY <1>2, <1>3, <1>4, <1>5, <1>6, <1>7 DEF MInv, Written, kept
  <1>10. Owned'
    BY <1>2, <1>3, <1>5 DEF MInv, Owned, kept
  <1>11. Unshown'
    BY <1>2, <1>3, <1>5, <1>6, <1>8 DEF Unshown, Fresh, kept
  <1> QED
    BY <1>9, <1>10, <1>11 DEF MInv

\* A summary in the place of what stands before a prompt shows nothing new.
LEMMA SummaryFit ==
    ASSUME NEW q \in Seq(Message), NEW r \in Summaries(q), NEW k, NEW s, Fresh(q, k, s)
    PROVE  r \in Seq(Message) /\ Fresh(r, k, s)
  <1>1. PICK i \in 1..Len(q) : i > 1 /\ r = <<Summary>> \o SubSeq(q, i, Len(q))
    <2>1. \E i \in DOMAIN q : i > 1 /\ r = <<Summary>> \o SubSeq(q, i, Len(q))
      BY Zenon DEF Summaries
    <2> QED
      BY <2>1, LenProperties
  <1>2. Len(q) \in Nat /\ i \in Int
    BY <1>1
  <1>3. Summary \in Message /\ ~IsRequest(Summary) /\ ~HasReminder(Summary)
    <2>1. {"summary"} \in SUBSET Kinds /\ "reminder" \notin {"summary"}
      BY DEF Kinds
    <2> QED
      BY <2>1, OwnMessages DEF Summary, HasReminder
  <1>4. PICK t : t = SubSeq(q, i, Len(q))
    OBVIOUS
  <1>5. /\ t \in Seq(Message) /\ Len(t) = Len(q) - i + 1
        /\ \A j \in 1..Len(t) : t[j] = q[i + j - 1]
    <2>1. \A j \in i..Len(q) : q[j] \in Message
      BY <1>1, <1>2
    <2> QED
      BY <1>1, <1>2, <1>4, <2>1, SubSeqProperties
  <1>6. /\ r \in Seq(Message) /\ Len(r) = Len(t) + 1
        /\ r[1] = Summary
        /\ \A j \in 2..Len(r) : r[j] = t[j - 1]
    BY <1>1, <1>3, <1>4, <1>5
  <1>7. \A j \in 2..Len(r) : i + j - 2 \in 1..Len(q) /\ r[j] = q[i + j - 2]
    <2>1. TAKE j \in 2..Len(r)
    <2>2. j - 1 \in 1..Len(t) /\ i + j - 2 \in 1..Len(q)
      BY <1>1, <1>2, <1>5, <1>6
    <2>3. i + (j - 1) - 1 = i + j - 2
      BY <1>2
    <2> QED
      BY <1>5, <1>6, <2>2, <2>3
  <1>8. NumberedTo(r, k)
    <2>1. ASSUME NEW j \in 1..Len(r), HasReminder(r[j]) PROVE r[j].id <= k
      <3>1. j # 1
        BY <1>3, <1>6, <2>1
      <3>2. j \in 2..Len(r)
        BY <3>1
      <3> QED
        BY <1>7, <2>1, <3>2 DEF Fresh, NumberedTo
    <2> QED
      BY <2>1 DEF NumberedTo
  <1>9. Shown(r) \subseteq Shown(q)
    <2>1. ASSUME NEW x \in Shown(r) PROVE x \in Shown(q)
      <3>1. PICK j \in 1..Len(r) : Showing(r, j) /\ x = r[j].id
        BY <1>6, ShownIn
      <3>2. j \in 2..Len(r)
        <4>1. j # 1
          BY <1>3, <1>6, <3>1 DEF Showing
        <4> QED
          BY <4>1
      <3>3. PICK p \in 1..Len(q) : p = i + j - 2 /\ r[j] = q[p]
        BY <1>7, <3>2
      <3>4. ASSUME NEW l \in p..Len(q) PROVE IsRequest(q[l])
        <4>1. PICK m \in Int : m = l - i + 2
          BY <1>2, <3>3, <3>4
        <4>2. m \in j..Len(r) /\ m \in 2..Len(r) /\ i + m - 2 = l
          BY <1>1, <1>2, <1>5, <1>6, <3>2, <3>3, <4>1
        <4> QED
          BY <1>7, <3>1, <4>2 DEF Showing
      <3>5. Showing(q, p) /\ x = q[p].id
        BY <3>1, <3>3, <3>4 DEF Showing
      <3> QED
        BY <3>5, ShownIn
    <2> QED
      BY <2>1
  <1> QED
    BY <1>6, <1>8, <1>9 DEF Fresh

\* The hooks before the request.
LEMMA HooksFits == ASSUME MInv, Hooks PROVE MInv'
  <1>1. /\ at = "hooks" /\ at' \in {"asking", "givenUp", "ended"}
        /\ UNCHANGED <<arrivals, shown, resp, asks>>
    BY DEF Hooks, GoOn, Failed
  <1>2. CASE UNCHANGED <<messages, newMessages, asked, replaced>>
    <2>1. Written' /\ Owned'
      BY <1>1, <1>2 DEF MInv, Written, Owned
    <2>2. Unshown'
      BY <1>1, <1>2 DEF MInv, Unshown, Waiting
    <2> QED
      BY <2>1, <2>2 DEF MInv
  <1>3. CASE \E q \in Summaries(asked) : messages' = q /\ asked' = q /\ replaced' = TRUE
    <2>1. PICK q \in Summaries(asked) : messages' = q /\ asked' = q /\ replaced' = TRUE
      BY <1>3
    <2>2. asked \in Seq(Message) /\ Fresh(asked, arrivals, shown)
      BY <1>1 DEF MInv, Written, Unshown, Fresh
    <2>3. q \in Seq(Message) /\ Fresh(q, arrivals, shown)
      BY <2>2, SummaryFit
    <2>4. Written' /\ Owned'
      BY <1>1, <2>1, <2>3 DEF MInv, Written, Owned
    <2>5. Unshown'
      BY <1>1, <2>1, <2>3 DEF MInv, Unshown, Fresh
    <2> QED
      BY <2>4, <2>5 DEF MInv
  <1> QED
    BY <1>2, <1>3 DEF Hooks

\* Making the request: what it shows is on record, and has arrived.
LEMMA AskingFits ==
    ASSUME MInv, Asking, at' \in {"answered", "givenUp"},
           at' = "answered" => Answering(resp'.message)
    PROVE  MInv'
  <1>1. /\ at = "asking" /\ shown' = shown \cup Shown(asked) /\ asks' = asks + 1
        /\ UNCHANGED <<messages, newMessages, asked, arrivals, replaced>>
    BY DEF Asking
  <1>2. asked \in Seq(Message) /\ NumberedTo(asked, arrivals)
    BY DEF MInv, Written, Unshown
  <1>3. ASSUME NEW x \in Shown(asked) PROVE x \in Int /\ x <= arrivals
    <2>1. PICK i \in 1..Len(asked) : Showing(asked, i) /\ x = asked[i].id
      BY <1>2, ShownIn
    <2>2. asked[i] \in Message
      BY <1>2, ElementOfSeq
    <2> QED
      BY <1>2, <2>1, <2>2 DEF NumberedTo, Showing, Message
  <1>4. shown' \subseteq Int /\ \A x \in shown' : x <= arrivals'
    BY <1>1, <1>3 DEF MInv, Written, Unshown
  <1>5. Written' /\ Owned'
    BY <1>1, <1>4 DEF MInv, Written, Owned
  <1>6. Unshown'
    BY <1>1, <1>4 DEF MInv, Unshown, Waiting
  <1> QED
    BY <1>5, <1>6 DEF MInv

\* The model answers.
LEMMA AskFits == ASSUME MInv, Ask PROVE MInv'
  <1>1. PICK parts \in Answers :
            resp' = [message |-> Response(parts, asks + 1),
                     usage |-> [One EXCEPT !.tokens = @ + resumed'.tokens]]
    BY DEF Ask
  <1>2. parts \in SUBSET Kinds /\ "reminder" \notin parts
    BY <1>1 DEF Answers, Kinds
  <1>3. resp'.message = Response(parts, asks + 1) /\ asks + 1 \in Int
    BY <1>1 DEF MInv, Written
  <1>4. Answering(resp'.message)
    BY <1>2, <1>3, OwnMessages DEF Answering, HasReminder
  <1> QED
    BY <1>4, AskingFits DEF Ask, GoOn

\* It fails.
LEMMA AskFailsFits == ASSUME MInv, AskFails PROVE MInv'
  <1>1. Answering(Response({"text"}, 0))
    <2>1. {"text"} \in SUBSET Kinds /\ "reminder" \notin {"text"}
      BY DEF Kinds
    <2> QED
      BY <2>1, OwnMessages DEF Answering, HasReminder
  <1> QED
    BY <1>1, AskingFits DEF AskFails, GoOn

\* A step that was given up: its reminders are dropped from what is left.
LEMMA GiveUpFits == ASSUME MInv, GiveUp PROVE MInv'
  <1>1. /\ messages \in Seq(Message) /\ arrivals \in Nat
        /\ NumberedTo(messages, arrivals)
    BY DEF MInv, Written, Unshown
  <1>2. asked' = <<>> /\ UNCHANGED <<arrivals, shown, replaced, asks>>
    BY DEF GiveUp, Over, Rest
  <1>3. asked' \in Seq(Message) /\ NumberedTo(asked', arrivals')
    BY <1>2 DEF NumberedTo
  <1>4. CASE at' = "ended" /\ UNCHANGED <<messages, newMessages>>
    <2>1. Written' /\ Owned'
      BY <1>2, <1>3, <1>4 DEF MInv, Written, Owned
    <2>2. Unshown'
      BY <1>2, <1>3, <1>4 DEF MInv, Unshown, Waiting
    <2> QED
      BY <2>1, <2>2 DEF MInv
  <1>5. CASE /\ at' = "top"
             /\ messages' = Append(Dropped(messages), Retry)
             /\ newMessages' = newMessages
                               - Cardinality({i \in Emptied(messages) : i <= newMessages})
    <2>1. Retry \in Message /\ Retry.own /\ ~HasReminder(Retry)
      <3>1. {"retry"} \in SUBSET Kinds /\ "reminder" \notin {"retry"}
        BY DEF Kinds
      <3> QED
        BY <3>1, OwnMessages DEF Retry, HasReminder
    <2>2. PICK d \in Seq(Message) : d = Dropped(messages)
      BY <1>1, DroppedTyped
    <2>3. Fresh(d, arrivals, shown)
      BY <1>1, <2>2, DroppedShown, DroppedNumbered DEF Fresh
    <2>4. messages' \in Seq(Message) /\ Fresh(messages', arrivals, shown)
      BY <1>1, <1>5, <2>1, <2>2, <2>3, FreshAppended, AppendProperties
    <2>5. Owning(messages, newMessages) => Owning(messages', newMessages')
      BY <1>1, <1>5, <2>1, <2>2, DroppedOwning, OwnAppended
    <2>6. Written' /\ Owned'
      BY <1>1, <1>2, <1>3, <1>5, <2>4, <2>5 DEF MInv, Written, Owned
    <2>7. Unshown'
      BY <1>2, <1>3, <1>5, <2>4 DEF MInv, Unshown, Fresh
    <2> QED
      BY <2>6, <2>7 DEF MInv
  <1> QED
    BY <1>4, <1>5 DEF GiveUp, GoOn, Failed

\* A response behind the messages: they are answered, and show nothing.
LEMMA Answer ==
    ASSUME MInv, at \in {"returned", "rejected"}
    PROVE  LET q == Append(messages, resp.message) IN
           /\ q \in Seq(Message) /\ Fresh(q, arrivals, shown)
           /\ \A n : Owning(messages, n) => Owning(q, n)
  <1>1. /\ messages \in Seq(Message) /\ arrivals \in Nat
        /\ NumberedTo(messages, arrivals) /\ Answering(resp.message)
    BY DEF MInv, Written, Unshown
  <1>2. PICK m \in Message : m = resp.message /\ m.own /\ ~IsRequest(m) /\ ~HasReminder(m)
    BY <1>1 DEF Answering
  <1>3. Append(messages, m) \in Seq(Message) /\ Shown(Append(messages, m)) = {}
    BY <1>1, <1>2, ShownAppended, AppendProperties
  <1>4. NumberedTo(Append(messages, m), arrivals)
    BY <1>1, <1>2, NumberedAppended
  <1>5. \A n : Owning(messages, n) => Owning(Append(messages, m), n)
    BY <1>1, <1>2, OwnAppended
  <1> QED
    BY <1>2, <1>3, <1>4, <1>5 DEF Fresh

\* The requests the loop makes of results and retries hold no reminder.
LEMMA PlainRequest ==
    ASSUME NEW q \in Seq(Message), NEW parts \in SUBSET {"results", "retry"},
           arrivals \in Nat, Fresh(q, arrivals, shown)
    PROVE  LET r == Append(q, Request(parts)) IN
           /\ r \in Seq(Message) /\ Fresh(r, arrivals, shown)
           /\ \A n : Owning(q, n) => Owning(r, n)
  <1>1. parts \in SUBSET Kinds /\ "reminder" \notin parts
    BY DEF Kinds
  <1>2. PICK m \in Message : m = Request(parts) /\ m.own /\ ~HasReminder(m)
    BY <1>1, OwnMessages DEF HasReminder
  <1> QED
    BY <1>2, OwnAppended, FreshAppended, AppendProperties

\* A response an after hook rejected.
LEMMA RejectFits == ASSUME MInv, Reject PROVE MInv'
  <1>1. /\ at = "rejected" /\ asked' = <<>> /\ arrivals \in Nat
        /\ UNCHANGED <<arrivals, shown, replaced, asks>>
    BY DEF Reject, Over, Rest, MInv, Written
  <1>2. CASE at' \in {"givenUp", "ended"} /\ UNCHANGED <<messages, newMessages>>
    <2>1. asked' \in Seq(Message) /\ NumberedTo(asked', arrivals')
      BY <1>1 DEF NumberedTo
    <2>2. Written' /\ Owned'
      BY <1>1, <1>2, <2>1 DEF MInv, Written, Owned
    <2>3. Unshown'
      BY <1>1, <1>2, <2>1 DEF MInv, Unshown, Waiting
    <2> QED
      BY <2>2, <2>3 DEF MInv
  <1>3. PICK q : q = Append(messages, resp.message)
    OBVIOUS
  <1>4. /\ q \in Seq(Message) /\ Fresh(q, arrivals, shown)
        /\ \A n : Owning(messages, n) => Owning(q, n)
    BY <1>1, <1>3, Answer
  <1>5. CASE at' = "ended" /\ newMessages' = newMessages /\ messages' = q
    BY <1>1, <1>4, <1>5, Grow DEF Fresh, kept
  <1>6. CASE at' = "top" /\ newMessages' = newMessages
             /\ messages' = messages \o <<resp.message, Retry>>
    <2>1. messages \o <<resp.message, Retry>> = Append(q, Request({"retry"}))
      <3>1. messages \in Seq(Message) /\ resp.message \in Message
        BY <1>1 DEF MInv, Written, Answering
      <3>2. Request({"retry"}) \in Message
        BY OwnMessages DEF Kinds
      <3> QED
        BY <1>3, <3>1, <3>2 DEF Retry
    <2>2. PICK r : r = Append(q, Request({"retry"}))
      OBVIOUS
    <2>3. /\ r \in Seq(Message) /\ Fresh(r, arrivals, shown)
          /\ \A n : Owning(q, n) => Owning(r, n)
      BY <1>1, <1>4, <2>2, PlainRequest
    <2>4. messages' = r /\ \A n : Owning(messages, n) => Owning(r, n)
      BY <1>4, <1>6, <2>1, <2>2, <2>3
    <2>5. /\ messages' \in Seq(Message) /\ arrivals' \in Nat /\ arrivals <= arrivals'
          /\ NumberedTo(messages', arrivals') /\ Shown(messages') \cap shown = {}
      BY <1>1, <2>3, <2>4 DEF Fresh
    <2>6. \A n : Owning(messages, n) => Owning(messages', n)
      BY <2>4
    <2>7. UNCHANGED kept /\ asked' = <<>> /\ at' = "top"
      BY <1>1, <1>6 DEF kept
    <2> QED
      BY <2>5, <2>6, <2>7, Grow
  <1> QED
    BY <1>2, <1>3, <1>5, <1>6 DEF Reject, GoOn, Failed, Record

\* An accepted response.
LEMMA AcceptFits == ASSUME MInv, Accept PROVE MInv'
  <1>1. /\ at = "returned" /\ asked' = <<>> /\ newMessages' = newMessages
        /\ UNCHANGED <<arrivals, shown, replaced, asks>>
        /\ messages \in Seq(Message) /\ arrivals \in Nat /\ NumberedTo(messages, arrivals)
    BY DEF Accept, Over, Rest, Record, MInv, Written, Unshown
  <1>2. CASE at' = "ended" /\ messages' = messages
    BY <1>1, <1>2, Grow DEF kept
  <1>3. CASE at' \in {"judging", "ended"} /\ messages' = Append(messages, resp.message)
    <2>1. PICK q : q = Append(messages, resp.message)
      OBVIOUS
    <2>2. /\ q \in Seq(Message) /\ Fresh(q, arrivals, shown)
          /\ \A n : Owning(messages, n) => Owning(q, n)
      BY <1>1, <2>1, Answer
    <2> QED
      BY <1>1, <1>3, <2>1, <2>2, Grow DEF Fresh, kept
  <1> QED
    BY <1>2, <1>3 DEF Accept, GoOn, Failed

\* From the judgement of a response to the next turn, or to an end: the messages,
\* with the requests the loop adds, and those that were enqueued.
LEMMA JudgedFits ==
    ASSUME MInv, at = "judging", UNCHANGED <<asked, kept>>,
           NEW q \in Seq(Message), Fresh(q, arrivals, shown),
           \A n : Owning(messages, n) => Owning(q, n),
           \/ Conclude(q)
           \/ messages' \in {messages, q} /\ at' \in {"top", "ended"} /\ UNCHANGED arrivals
    PROVE  MInv'
  <1>1. /\ messages \in Seq(Message) /\ arrivals \in Nat
        /\ \A x \in shown : x <= arrivals
        /\ Fresh(messages, arrivals, shown)
    BY DEF MInv, Written, Unshown, Waiting, Fresh
  <1>2. asked' = asked /\ UNCHANGED kept
    BY DEF kept
  <1>3. CASE Conclude(q)
    <2>1. /\ messages' \in Seq(Message) /\ arrivals' \in Nat /\ arrivals <= arrivals'
          /\ \A n : Owning(q, n) => Owning(messages', n)
          /\ Fresh(messages', arrivals', shown)
          /\ at' \in {"top", "ended"}
      BY <1>1, <1>3, ConcludeFit
    <2> QED
      BY <1>2, <2>1, Grow DEF Fresh
  <1>4. CASE messages' \in {messages, q} /\ at' \in {"top", "ended"} /\ UNCHANGED arrivals
    <2>1. /\ messages' \in Seq(Message) /\ Fresh(messages', arrivals', shown)
          /\ \A n : Owning(messages, n) => Owning(messages', n)
      BY <1>1, <1>4
    <2> QED
      BY <1>1, <1>2, <1>4, <2>1, Grow DEF Fresh
  <1> QED
    BY <1>3, <1>4

\* What the judgement of a response starts from.
LEMMA JudgingFacts ==
    ASSUME MInv, Judging
    PROVE  /\ messages \in Seq(Message) /\ arrivals \in Nat
           /\ Fresh(messages, arrivals, shown)
           /\ at = "judging" /\ UNCHANGED <<asked, kept>>
  BY DEF MInv, Written, Unshown, Waiting, Fresh, Judging, Rest, kept

\* The results of the calls, or a request to try again, behind the messages.
LEMMA JudgedRequest ==
    ASSUME MInv, Judging, NEW parts \in SUBSET {"results", "retry"},
           LET q == Append(messages, Request(parts)) IN
           \/ Conclude(q)
           \/ messages' \in {messages, q} /\ at' \in {"top", "ended"} /\ UNCHANGED arrivals
    PROVE  MInv'
  <1>1. PICK q : q = Append(messages, Request(parts))
    OBVIOUS
  <1>2. /\ q \in Seq(Message) /\ Fresh(q, arrivals, shown)
        /\ \A n : Owning(messages, n) => Owning(q, n)
    BY <1>1, JudgingFacts, PlainRequest
  <1> QED
    BY <1>1, <1>2, JudgingFacts, JudgedFits

\* The messages as they are.
LEMMA JudgedBare ==
    ASSUME MInv, Judging,
           \/ Conclude(messages)
           \/ UNCHANGED <<messages, arrivals>> /\ at' \in {"top", "ended"}
    PROVE  MInv'
  BY JudgingFacts, JudgedFits

\* A response without calls.
LEMMA FinalizeFits == ASSUME MInv, Finalize PROVE MInv'
  <1>1. Judging
    BY DEF Finalize
  <1>2. CASE Conclude(messages)
    BY <1>1, <1>2, JudgedBare
  <1>3. CASE AskAgain(Append(messages, Retry)) /\ UNCHANGED arrivals
    <2>1. /\ messages' \in {messages, Append(messages, Request({"retry"}))}
          /\ at' \in {"top", "ended"}
      BY <1>3 DEF AskAgain, Retry, GoOn, Failed
    <2> QED
      BY <1>1, <1>3, <2>1, JudgedRequest
  <1> QED
    BY <1>2, <1>3 DEF Finalize

\* An output that was streamed.
LEMMA CommitFits == ASSUME MInv, Commit PROVE MInv'
  <1>1. Judging
    BY DEF Commit
  <1>2. CASE UNCHANGED <<messages, arrivals>> /\ at' = "ended"
    BY <1>1, <1>2, JudgedBare
  <1>3. PICK q : /\ q \in {messages, Append(messages, Request({"results"}))}
                 /\ \/ Failed /\ UNCHANGED <<messages, arrivals>>
                    \/ Interrupt(q)
                    \/ Conclude(q)
    BY DEF Commit, Results
  <1>4. CASE q = messages
    BY <1>1, <1>3, <1>4, JudgedBare DEF Failed, Interrupt
  <1>5. CASE q = Append(messages, Request({"results"}))
    BY <1>1, <1>3, <1>5, JudgedRequest DEF Failed, Interrupt
  <1> QED
    BY <1>3, <1>4, <1>5

\* A text beside calls that are skipped.
LEMMA EndEarlyFits == ASSUME MInv, EndEarly PROVE MInv'
  BY JudgedRequest DEF EndEarly, Results

\* The tool calls.
LEMMA ExecuteFits == ASSUME MInv, Execute PROVE MInv'
  <1>1. Judging
    BY DEF Execute
  <1>2. PICK q : q = Append(messages, Results)
    OBVIOUS
  <1>3. \/ Interrupt(q)
        \/ Failed /\ UNCHANGED <<messages, arrivals>>
        \/ Conclude(q)
        \/ AskAgain(Append(messages, Request({"results", "retry"}))) /\ UNCHANGED arrivals
        \/ messages' = q /\ GoOn("top") /\ UNCHANGED arrivals
        \/ messages' \in {messages, q} /\ at' = "ended" /\ UNCHANGED arrivals
    BY <1>2 DEF Execute
  <1>4. CASE AskAgain(Append(messages, Request({"results", "retry"}))) /\ UNCHANGED arrivals
    <2>1. /\ messages' \in {messages, Append(messages, Request({"results", "retry"}))}
          /\ at' \in {"top", "ended"}
      BY <1>4 DEF AskAgain, GoOn, Failed
    <2> QED
      BY <1>1, <1>4, <2>1, JudgedRequest
  <1>5. CASE \/ Conclude(q)
             \/ messages' \in {messages, q} /\ at' \in {"top", "ended"} /\ UNCHANGED arrivals
    BY <1>1, <1>2, <1>5, JudgedRequest DEF Results
  <1> QED
    BY <1>3, <1>4, <1>5 DEF Interrupt, Failed, GoOn

\* A run starts with messages of earlier runs, and the prompt of its own.
LEMMA InitFits == LoopInit => MInv
  <1> SUFFICES ASSUME LoopInit PROVE MInv
    OBVIOUS
  <1>1. PICK h \in Seq(Message) :
            /\ h = conf.history /\ \A i \in 1..Len(h) : ~h[i].own /\ h[i].id <= 0
            /\ messages = h \/ messages = h \o <<Request({"prompt"})>>
    <2>1. conf.history \in Seq({m \in Message : ~m.own /\ m.id <= 0})
      BY RunsAssumption DEF LoopInit
    <2>2. PICK h : h = conf.history
      OBVIOUS
    <2>3. h \in Seq(Message)
      BY <2>1, <2>2, SeqMonotonic
    <2>4. \A i \in 1..Len(h) : ~h[i].own /\ h[i].id <= 0
      BY <2>1, <2>2, ElementOfSeq
    <2>5. messages = h \/ messages = h \o <<Request({"prompt"})>>
      <3>1. h \o <<>> = h
        BY <2>3, ConcatEmptySeq
      <3>2. CASE conf.resumes
        BY <2>2, <3>1, <3>2 DEF LoopInit
      <3>3. CASE ~conf.resumes
        BY <2>2, <3>3 DEF LoopInit
      <3> QED
        BY <3>2, <3>3
    <2> QED
      BY <2>2, <2>3, <2>4, <2>5
  <1>2. /\ newMessages = Len(h) /\ arrivals = 0 /\ asks = 0 /\ shown = {} /\ asked = <<>>
        /\ at = "top"
    BY <1>1 DEF LoopInit
  <1>3. Owning(h, newMessages) /\ NumberedTo(h, 0)
    BY <1>1, <1>2 DEF Owning, NumberedTo
  <1>4. /\ messages \in Seq(Message) /\ Owning(messages, newMessages)
        /\ NumberedTo(messages, 0)
    <2>1. CASE messages = h
      BY <1>1, <1>3, <2>1
    <2>2. CASE messages = h \o <<Request({"prompt"})>>
      <3>1. PICK m \in Message : m = Request({"prompt"}) /\ m.own /\ m.id = 0
        BY OwnMessages DEF Kinds
      <3>2. messages = Append(h, m)
        BY <1>1, <2>2, <3>1, AppendIsConcat
      <3> QED
        BY <1>1, <1>3, <3>1, <3>2, OwnAppended, NumberedAppended, AppendProperties
    <2> QED
      BY <1>1, <2>1, <2>2
  <1>5. Written /\ Owned
    BY <1>2, <1>4 DEF Written, Owned
  <1>6. Unshown
    BY <1>2, <1>4 DEF Unshown, NumberedTo
  <1> QED
    BY <1>5, <1>6 DEF MInv

\* Every step of a run keeps its messages in order.
LEMMA StepFits == ASSUME MInv, [LoopNext]_loopVars PROVE MInv'
  <1>1. CASE Fail \/ CancelRun \/ SeeCancel \/ After
    <2>1. UNCHANGED <<messages, asked, arrivals, kept>>
      BY <1>1 DEF Fail, CancelRun, SeeCancel, After, workVars, ghostVars, kept
    <2>2. \/ at' \in {"ended", "givenUp"}
          \/ at' = at /\ UNCHANGED resp
          \/ at = "answered" /\ at' \in {"returned", "rejected"} /\ UNCHANGED resp
      BY <1>1 DEF Fail, CancelRun, SeeCancel, After, Failed, GoOn, workVars
    <2> QED
      BY <2>1, <2>2, Rested
  <1>2. CASE UNCHANGED loopVars
    <2>1. UNCHANGED <<messages, asked, arrivals, kept, at, resp>>
      BY <1>2 DEF loopVars, workVars, ghostVars, kept
    <2> QED
      BY <2>1, Rested
  <1>3. CASE LoopStep /\ ~(Fail \/ CancelRun \/ SeeCancel \/ After)
    BY <1>3, PrepareFits, WrapFits, HooksFits, AskFits, AskFailsFits, GiveUpFits, RejectFits,
       AcceptFits, FinalizeFits, CommitFits, EndEarlyFits, ExecuteFits
    DEF LoopStep
  <1> QED
    BY <1>1, <1>2, <1>3 DEF LoopNext, LoopEnded

\* The inductive invariant of the messages holds in every reachable state.
THEOREM MessagesKept == LoopSpec => []MInv
  <1>1. MInv /\ [LoopNext]_loopVars => MInv'
    BY StepFits
  <1> QED
    BY InitFits, <1>1, PTL DEF LoopSpec

\* The messages of a run are those behind the first newMessages of its history,
\* whatever is removed from it when a step is given up, unless a hook replaced
\* the history.
THEOREM NewMessagesCounted == LoopSpec => []NewMessagesExact
  <1>1. MInv => NewMessagesExact
    BY LenProperties DEF MInv, Written, Owned, Owning, NewMessagesExact
  <1> QED
    BY MessagesKept, <1>1, PTL

\* A request-scoped prompt reaches one model request, however often steps are
\* given up and histories replaced.
THEOREM RemindersShownOnce == LoopSpec => ReminderOnce
  <1>1. MInv /\ [LoopNext]_loopVars => [asks' # asks => Shown(asked) \cap shown = {}]_loopVars
    <2> SUFFICES ASSUME MInv, LoopNext, asks' # asks
                 PROVE  Shown(asked) \cap shown = {}
      OBVIOUS
    <2>1. Ask \/ AskFails
      BY DEF LoopNext, LoopStep, LoopEnded, loopVars, workVars, ghostVars, Prepare, Wrap, Hooks,
             After, GiveUp, Reject, Accept, Finalize, Commit, EndEarly, Execute, Judging, Rest,
             Fail, CancelRun, SeeCancel
    <2>2. at = "asking"
      BY <2>1 DEF Ask, AskFails, Asking
    <2> QED
      BY <2>2 DEF MInv, Unshown
  <1> QED
    BY MessagesKept, <1>1, PTL DEF LoopSpec, ReminderOnce
=============================================================================
