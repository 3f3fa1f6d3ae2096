------------------------------- MODULE RunLoop -------------------------------
(***************************************************************************)
(* One run of an agent: the loop of src/ai/loop.go that asks the model,    *)
(* judges what it answers and asks again, with the capabilities around a   *)
(* model request and the usage limits of src/ai/limits.go.                 *)
(*                                                                         *)
(* A message keeps the kinds of its parts, not their contents.  What the   *)
(* model answers, what callbacks return and when an application enqueues   *)
(* or cancels are choices.  How tool calls are executed, how a response    *)
(* stays suspended over several segments and how the queue of enqueued     *)
(* messages works have modules of their own; here each is one step.        *)
(*                                                                         *)
(* One model request costs one token; the suspended response a run resumes *)
(* is a background job, whose answer repeats the token it had cost before. *)
(***************************************************************************)
EXTENDS Integers, Sequences, FiniteSets, SequencesExt

CONSTANTS
    Runs,         \* the runs considered: records, see MCRunLoop
    MaxTurns,     \* bound: responses of a run that call tools
    MaxArrivals   \* bound: messages enqueued

VARIABLES
    conf,         \* the run's options and history
    messages,     \* r.messages
    newMessages,  \* r.newMessages
    spent,        \* r.usage
    retries,      \* r.outputRetry
    seed,         \* r.resumeSeed # nil
    prepared,     \* r.systemPromptsPrepared
    cancelled,    \* r.cancelled()
    at,           \* where the loop is
    asked,        \* the messages of the model request being made
    before,       \* usage as usageLimitsCapability read it
    resp,         \* the response being handled and its usage
    resumed,      \* usage of r.resumed
    end,          \* how the run ended
    turns, arrivals,  \* counters, for the bounds
    asks,         \* history: model requests made
    billed,       \* history: what providers and tools billed
    odd,          \* history: why usage may differ from what was billed
    finished,     \* history: the job that was suspended has answered
    summed,       \* history: this step's hooks billed usage of their own
    replaced,     \* history: a hook replaced the history
    rejected,     \* history: responses an after hook rejected and returned
    shown         \* history: reminders that reached a model request

workVars  == <<messages, newMessages, spent, retries, seed, prepared, resp, resumed>>
ghostVars == <<asks, billed, odd, finished, replaced, rejected, shown>>
loopVars  == <<conf, workVars, cancelled, at, asked, before, end, turns, arrivals, summed,
               ghostVars>>

-----------------------------------------------------------------------------
(* Usage and its limits *)

None0 == [requests |-> 0, tokens |-> 0]
One   == [requests |-> 1, tokens |-> 1]

Usage == [requests : Int, tokens : Int]

Plus(u, v) == [requests |-> u.requests + v.requests, tokens |-> u.tokens + v.tokens]

\* billedBeyond: a resuming request still counts.
Beyond(u, baseline) == [u EXCEPT !.tokens = @ - baseline.tokens]

Limited == conf.limits # None0

\* UsageLimits.check
Within(u) == \A k \in DOMAIN u : conf.limits[k] = 0 \/ u[k] <= conf.limits[k]

-----------------------------------------------------------------------------
(* Messages *)

Kinds == {"prompt", "system", "enqueued", "reminder", "results", "retry", "text", "call",
          "output", "summary"}

Message == [role : {"request", "response", "suspended"}, parts : SUBSET Kinds, own : BOOLEAN,
            id : Int]

Request(parts)     == [role |-> "request", parts |-> parts, own |-> TRUE, id |-> 0]
Response(parts, n) == [role |-> "response", parts |-> parts, own |-> TRUE, id |-> n]
Reminder   == [Request({"reminder"}) EXCEPT !.id = arrivals + 1]
Suspended  == [role |-> "suspended", parts |-> {"text"}, own |-> FALSE, id |-> 0]

\* A history holds messages of earlier runs; the reminders of this run are
\* numbered from 1.
ASSUME RunsAssumption ==
    \A r \in Runs :
        /\ r.carried \in Usage /\ r.limits \in Usage
        /\ r.history \in Seq({m \in Message : ~m.own /\ m.id <= 0})

IsRequest(m)     == m.role = "request"
HasReminder(m)   == "reminder" \in m.parts
EndsSuspended(q) == q # <<>> /\ Last(q).role = "suspended"

\* deliverPendingMessages: nothing, or what was enqueued.
Arrivals(q) ==
    {q} \cup IF arrivals < MaxArrivals
             THEN {Append(q, Request({"enqueued"})), Append(q, Reminder)} ELSE {}

\* The trailing requests are those the model has not answered.
Trailing(q) == {i \in DOMAIN q : \A j \in i..Len(q) : IsRequest(q[j])}

Shown(q) == {q[i].id : i \in {k \in Trailing(q) : HasReminder(q[k])}}

\* dropUnansweredRequestScopedPrompts: a request left without parts goes,
\* unless it is the only trailing one.
Emptied(q) ==
    LET gone == {i \in Trailing(q) : q[i].parts = {"reminder"}}
    IN IF gone = Trailing(q) THEN {i \in gone : \E j \in gone : j < i} ELSE gone

\* The n-th of a set of positions.
Nth(positions, n) == CHOOSE i \in positions : Cardinality({j \in positions : j <= i}) = n

\* Mutant: only the last request is looked at.
DroppedLast(q) ==
    [q EXCEPT ![Len(q)].parts = @ \ {"reminder"}]

Dropped(q) ==
    LET kept == DOMAIN q \ Emptied(q)
    IN [n \in 1..Cardinality(kept) |->
           IF Nth(kept, n) \in Trailing(q)
           THEN [q[Nth(kept, n)] EXCEPT !.parts = @ \ {"reminder"}]
           ELSE q[Nth(kept, n)]]

-----------------------------------------------------------------------------
(* Ends *)

Failed == at' = "ended" /\ end' = "failed"
GoOn(label) == at' = label /\ UNCHANGED end

Retry == Request({"retry"})

\* The model is asked again, while the budget of output retries lasts:
\* countOutputRetry.
AskAgain(q) ==
    /\ retries' = retries + 1
    /\ IF retries + 1 > conf.budget
       THEN Failed /\ UNCHANGED messages
       ELSE messages' = q /\ GoOn("top")

\* An output ends the run, unless messages are pending: redirectPendingMessages.
Conclude(q) ==
    \E r \in Arrivals(q) :
        /\ messages' = r
        /\ arrivals' = arrivals + Len(r) - Len(q)
        /\ IF r # q THEN GoOn("top") ELSE at' = "ended" /\ end' = "result"

-----------------------------------------------------------------------------
(* A step: modelRequest *)

AddSystem(q) == [q EXCEPT ![Len(q)].parts = @ \cup {"system"}]

NeedsSystem == conf.system # "none" /\ ~prepared /\ newMessages = 0

\* The top of the loop, the first delivery of enqueued messages, and all that
\* prepares a request: any callback may ask for a retry.  A dynamic system
\* prompt that does has nevertheless been marked as prepared.
Prepare ==
    /\ at = "top" /\ ~cancelled
    /\ \E q \in Arrivals(messages) :
        /\ arrivals' = arrivals + Len(q) - Len(messages)
        /\ \/ GoOn("givenUp") /\ messages' = q /\ UNCHANGED prepared
           \/ /\ NeedsSystem /\ conf.system = "dynamic"
              /\ GoOn("givenUp") /\ messages' = q /\ prepared' = TRUE
           \/ /\ GoOn("prepared") \/ GoOn("givenUp")
              /\ messages' = IF NeedsSystem THEN AddSystem(q) ELSE q
              /\ prepared' = TRUE
    /\ resumed' = None0 /\ summed' = FALSE
    /\ UNCHANGED <<conf, newMessages, spent, retries, seed, resp, cancelled, asked, before,
                   turns, ghostVars>>

\* The second delivery, and the wrappers, outermost first: the one that checks
\* the response against the limits, those of capabilities, one of which may
\* answer by itself, and the one that checks the limits before the request.
Wrap ==
    /\ at = "prepared"
    /\ \E q \in Arrivals(messages) :
        /\ arrivals' = arrivals + Len(q) - Len(messages)
        /\ messages' = q
        /\ asked' = IF seed THEN Append(q, Suspended) ELSE q
    /\ before' = spent
    /\ \/ /\ conf.limits.requests > 0 /\ spent.requests >= conf.limits.requests
          /\ Failed /\ UNCHANGED resp
       \/ /\ conf.limits.requests = 0 \/ spent.requests < conf.limits.requests
          /\ GoOn("hooks") /\ UNCHANGED resp
       \/ /\ conf.wrapper /\ GoOn("returned")
          /\ resp' = [message |-> Response({"text"}, 0), usage |-> None0]
    /\ odd' = IF at' = "returned" /\ EndsSuspended(asked') THEN odd \cup {"standin"} ELSE odd
    /\ UNCHANGED <<conf, newMessages, spent, retries, seed, prepared, resumed, cancelled,
                   turns, summed, asks, billed, finished, replaced, rejected, shown>>

Summary == Response({"summary"}, 0)

Summaries(q) ==
    {<<Summary>> \o SubSeq(q, i, Len(q)) :
        i \in {k \in DOMAIN q : k > 1 /\ IsRequest(q[k]) /\ "prompt" \in q[k].parts}}

\* BeforeModelRequest hooks.  One of them may replace the history by a summary
\* and its recent part, and pays for the summary.
Hooks ==
    /\ at = "hooks"
    /\ \/ /\ \/ GoOn("asking") \/ GoOn("givenUp")
          /\ UNCHANGED <<messages, newMessages, asked, spent, billed, replaced, summed>>
       \/ \E q \in Summaries(asked) :
            /\ conf.summarizes /\ ~replaced
            /\ messages' = q /\ asked' = q /\ newMessages' = 0
            /\ spent' = Plus(spent, One) /\ billed' = Plus(billed, One)
            /\ replaced' = TRUE /\ summed' = TRUE
            /\ IF Within(spent') THEN GoOn("asking") ELSE Failed
    /\ UNCHANGED <<conf, retries, seed, prepared, resp, resumed, cancelled, before, turns,
                   arrivals, asks, odd, finished, rejected, shown>>

\* What a model answers, within the bound on turns with tool calls.
Answers ==
    LET kinds == IF conf.tool THEN {"text", "call", "output"} ELSE {"text", "call"}
    IN {parts \in SUBSET kinds : "call" \in parts => turns < MaxTurns}

Asking ==
    /\ at = "asking"
    /\ asks' = asks + 1
    /\ shown' = shown \cup Shown(asked)
    /\ UNCHANGED <<conf, messages, newMessages, spent, retries, seed, prepared, cancelled,
                   asked, before, arrivals, summed, replaced, rejected>>

\* doModelRequest: the model answers, or the job that was suspended does.
Ask ==
    /\ Asking
    /\ resumed' = IF EndsSuspended(asked) THEN One ELSE None0
    /\ \E parts \in Answers :
        /\ resp' = [message |-> Response(parts, asks + 1),
                    usage |-> [One EXCEPT !.tokens = @ + resumed'.tokens]]
        /\ turns' = IF "call" \in parts THEN turns + 1 ELSE turns
    /\ finished' = (finished \/ EndsSuspended(asked))
    /\ IF finished /\ EndsSuspended(asked)
       THEN billed' = Plus(billed, [One EXCEPT !.tokens = 0]) /\ odd' = odd \cup {"polled"}
       ELSE billed' = Plus(billed, One) /\ UNCHANGED odd
    /\ GoOn("answered")

\* It fails: an error that asks for a retry, or one an error hook answers for.
AskFails ==
    /\ Asking
    /\ resumed' = IF EndsSuspended(asked) THEN One ELSE None0
    /\ \/ GoOn("givenUp") /\ UNCHANGED <<resp, odd>>
       \/ /\ GoOn("answered")
          /\ resp' = [message |-> Response({"text"}, 0), usage |-> None0]
          /\ odd' = IF EndsSuspended(asked) THEN odd \cup {"made"} ELSE odd
    /\ UNCHANGED <<turns, billed, finished>>

\* AfterModelRequest hooks: they accept, or ask for a retry with or without
\* the response.  Only an accepted response settles the suspended one.
After ==
    /\ at = "answered"
    /\ \/ GoOn("returned") /\ seed' = FALSE /\ UNCHANGED <<rejected, odd>>
       \/ /\ GoOn("rejected") /\ rejected' = rejected \cup {resp.message.id}
          /\ UNCHANGED <<seed, odd>>
       \/ GoOn("givenUp") /\ odd' = odd \cup {"lost"} /\ UNCHANGED <<seed, rejected>>
    /\ UNCHANGED <<conf, messages, newMessages, spent, retries, prepared, resp, resumed,
                   cancelled, asked, before, turns, arrivals, summed, asks, billed, finished,
                   replaced, shown>>

-----------------------------------------------------------------------------
(* What the loop does with it *)

HasText == "text" \in resp.message.parts
HasCall == resp.message.parts \cap {"call", "output"} # {}

\* streamedFinalResult: RunStream has already yielded this output.
Committed == conf.streamed /\ IF conf.tool THEN "output" \in resp.message.parts ELSE HasText

\* The request is over.
Over == asked' = <<>> /\ before' = None0
Rest == UNCHANGED <<conf, seed, prepared, resp, resumed, cancelled, turns, summed, asks,
                    finished, replaced, shown>>

\* Mutant: the requests removed before the run's own messages are not counted.
GiveUpMiscount ==
    /\ at = "givenUp"
    /\ retries' = retries + 1
    /\ IF retries + 1 > conf.budget
       THEN Failed /\ UNCHANGED messages
       ELSE GoOn("top") /\ messages' = Append(Dropped(messages), Retry)
    /\ Over /\ Rest /\ UNCHANGED <<newMessages, spent, arrivals, billed, odd, rejected>>

\* A step given up without a response.
GiveUp ==
    /\ at = "givenUp"
    /\ retries' = retries + 1
    /\ IF retries + 1 > conf.budget
       THEN Failed /\ UNCHANGED <<messages, newMessages>>
       ELSE /\ GoOn("top")
            /\ messages' = Append(Dropped(messages), Retry)
            /\ newMessages' = newMessages
                              - Cardinality({i \in Emptied(messages) : i <= newMessages})
    /\ Over /\ Rest /\ UNCHANGED <<spent, arrivals, billed, odd, rejected>>

\* Mutant: what the suspended response had cost is counted again.
RecordWhole ==
    /\ spent' = Plus(spent, resp.usage)
    /\ UNCHANGED <<newMessages, billed, rejected>>

Record ==
    /\ spent' = Plus(spent, Beyond(resp.usage, resumed))
    /\ UNCHANGED <<newMessages, billed, rejected>>

\* A response an after hook rejected.  usageLimitsCapability drops it.
Reject ==
    /\ at = "rejected"
    /\ \/ /\ Limited /\ GoOn("givenUp")
          /\ odd' = odd \cup {"lost"}
          /\ UNCHANGED <<messages, newMessages, spent, retries, billed, rejected>>
       \/ /\ ~Limited /\ UNCHANGED odd
          /\ retries' = retries + 1
          /\ IF retries + 1 > conf.budget
             THEN Failed /\ UNCHANGED <<messages, newMessages, spent, billed, rejected>>
             ELSE /\ Record
                  /\ IF Committed
                     THEN Failed /\ messages' = Append(messages, resp.message)
                     ELSE GoOn("top") /\ messages' = messages \o <<resp.message, Retry>>
    /\ Over /\ Rest /\ UNCHANGED arrivals

\* Mutant: the response is checked by itself.
ProjectedAlone == Beyond(resp.usage, IF EndsSuspended(asked) THEN One ELSE None0)

\* usageLimitsCapability, after the response.
Projected ==
    Plus(before, Beyond(resp.usage, IF EndsSuspended(asked) THEN One ELSE None0))

\* An accepted response: the limits, usage, history and the content filter.
Accept ==
    /\ at = "returned"
    /\ IF Limited /\ ~Within(Projected)
       THEN Failed /\ UNCHANGED <<messages, newMessages, spent, billed, rejected>>
       ELSE /\ Record
            /\ messages' = Append(messages, resp.message)
            /\ \/ GoOn("judging")
               \/ resp.message.parts = {} /\ Failed
    /\ Over /\ Rest /\ UNCHANGED <<retries, arrivals, odd>>

Judging ==
    /\ at = "judging"
    /\ Rest /\ UNCHANGED <<asked, before, newMessages, odd, rejected>>

\* finalizeResponse: without calls, text is the output or the model is asked again.
Finalize ==
    /\ Judging /\ ~HasCall
    /\ \/ ~conf.tool /\ Conclude(messages) /\ UNCHANGED retries
       \/ ~Committed /\ AskAgain(Append(messages, Retry)) /\ UNCHANGED arrivals
    /\ UNCHANGED <<spent, billed>>

Results == Request({"results"})
Interrupt(q) == messages' = q /\ at' = "ended" /\ end' = "cancelled" /\ UNCHANGED arrivals

\* streamedOutput: what was yielded becomes the output, and the calls beside
\* it are answered; an invalid one fails the run.
Commit ==
    /\ Judging /\ Committed
    /\ \/ Failed /\ UNCHANGED <<messages, arrivals>>
       \/ LET q == IF HasCall THEN Append(messages, Results) ELSE messages
          IN IF cancelled THEN Interrupt(q) ELSE Conclude(q)
    /\ UNCHANGED <<spent, billed, retries>>

\* earlyNonToolOutput: valid text ends the run, and the calls are skipped.
EndEarly ==
    /\ Judging /\ HasCall /\ ~Committed
    /\ conf.early /\ ~conf.tool /\ HasText
    /\ Conclude(Append(messages, Results))
    /\ UNCHANGED <<spent, billed, retries>>

\* executeCalls, whose tools may have been billed themselves.
Execute ==
    /\ Judging /\ HasCall /\ ~Committed
    /\ \E cost \in {0, 1} :
        /\ spent'  = [spent  EXCEPT !.tokens = @ + cost]
        /\ billed' = [billed EXCEPT !.tokens = @ + cost]
    /\ LET q == Append(messages, Results)
           output == "output" \in resp.message.parts
       IN IF cancelled THEN Interrupt(q) /\ UNCHANGED retries
          ELSE IF ~Within(spent') THEN Failed /\ UNCHANGED <<messages, arrivals, retries>>
          ELSE \/ output /\ Conclude(q) /\ UNCHANGED retries
               \/ /\ output /\ UNCHANGED arrivals
                  /\ AskAgain(Append(messages, Request({"results", "retry"})))
               \/ ~output /\ messages' = q /\ GoOn("top") /\ UNCHANGED <<arrivals, retries>>
               \/ /\ "call" \in resp.message.parts   \* some calls are deferred
                  /\ messages' \in {messages, q}
                  /\ at' = "ended" /\ end' = "deferred" /\ UNCHANGED <<arrivals, retries>>

-----------------------------------------------------------------------------
(* The environment *)

\* Any callback may fail, and a failure ends the run.
Fail ==
    /\ at \in {"top", "prepared", "hooks", "asking", "answered", "judging"}
    /\ Failed
    /\ UNCHANGED <<conf, workVars, cancelled, asked, before, turns, arrivals, summed, ghostVars>>

\* AgentRun.Cancel, RunContext.Cancel or the context, from any goroutine.  The
\* loop looks at the top of a step and after the tools.
CancelRun ==
    /\ at \in {"top", "judging"} /\ ~cancelled /\ cancelled' = TRUE
    /\ UNCHANGED <<conf, workVars, at, asked, before, end, turns, arrivals, summed, ghostVars>>

\* The check at the top of the loop.
SeeCancel ==
    /\ at = "top" /\ cancelled
    /\ at' = "ended" /\ end' = "cancelled"
    /\ UNCHANGED <<conf, workVars, cancelled, asked, before, turns, arrivals, summed, ghostVars>>

-----------------------------------------------------------------------------

LoopInit ==
    /\ conf \in Runs
    /\ messages = conf.history \o IF conf.resumes THEN <<>> ELSE <<Request({"prompt"})>>
    /\ newMessages = Len(conf.history)
    /\ spent = conf.carried /\ retries = 0
    /\ seed = conf.resumes /\ prepared = FALSE /\ cancelled = FALSE
    /\ at = "top" /\ end = "none"
    /\ asked = <<>> /\ before = None0 /\ resumed = None0
    /\ resp = [message |-> Suspended, usage |-> None0]
    /\ turns = 0 /\ arrivals = 0 /\ asks = 0
    /\ billed = None0 /\ odd = {} /\ finished = FALSE
    /\ summed = FALSE /\ replaced = FALSE /\ rejected = {} /\ shown = {}

LoopStep ==
    \/ Prepare \/ Wrap \/ Hooks \/ Ask \/ AskFails \/ After
    \/ GiveUp \/ Reject \/ Accept
    \/ Finalize \/ Commit \/ EndEarly \/ Execute
    \/ Fail \/ CancelRun \/ SeeCancel

LoopEnded == at = "ended" /\ UNCHANGED loopVars

LoopNext == LoopStep \/ LoopEnded

LoopSpec == LoopInit /\ [][LoopNext]_loopVars

-----------------------------------------------------------------------------
(* Properties *)

\* A run that is asked for its usage reports what its providers and tools
\* billed, and what the conversation had been billed before, in full and once.
\* The exceptions are the three ways to lose this count, named in odd.
UsageExact ==
    (at = "top" \/ end \in {"result", "deferred"}) /\ odd \subseteq {"standin"} =>
        spent = Plus(conf.carried, billed)

\* NewMessages returns the messages of this run, all of them and no others,
\* unless a hook replaced the history.
NewMessagesExact ==
    ~replaced => \A i \in DOMAIN messages : messages[i].own <=> i > newMessages

\* A request-scoped prompt reaches one model request.
ReminderOnce ==
    [][asks' # asks => Shown(asked) \cap shown = {}]_loopVars

\* A run that ends with a result has stayed within its limits, unless hooks of
\* its last step billed usage of their own, or a wrapper answered in the place
\* of the suspended response, whose cost is then taken off the projection.
WithinLimits == end = "result" /\ ~summed /\ "standin" \notin odd => Within(spent)

\* Resume continues the suspended response: no request that holds an answer
\* of this run ends in it.
ResumesOnce ==
    EndsSuspended(asked) =>
        \A m \in ToSet(asked) : m.role = "response" /\ m.own => m.id = 0

\* A response an after hook rejected, and returned, stays in the history.
RejectedStays ==
    at = "top" /\ ~replaced => rejected \subseteq {m.id : m \in ToSet(messages)}
=============================================================================
