------------------------------ MODULE ToolCalls ------------------------------
(***************************************************************************)
(* How a run executes the tool calls of one model response: the three end  *)
(* strategies, sequential barriers, parallel groups of goroutines, retry   *)
(* counters, the tool call limit, deferred calls, cancellation, and the    *)
(* request that answers the response (src/ai/loop.go, executeCalls and the *)
(* code around it; src/ai/stream_commit.go for a streamed run that has     *)
(* already committed to an output).                                        *)
(*                                                                         *)
(* Calls are known by their position in the response.  A tool is known by  *)
(* the kind of its calls:                                                  *)
(*   "plain"    a function tool that may run beside others                 *)
(*   "barrier"  a function tool registered with WithSequential             *)
(*   "hidden"   a deferred-loading tool the model has not searched for yet *)
(*   "output"   the output tool                                            *)
(* What a tool does is a choice among the outcomes executeCall tells apart.*)
(***************************************************************************)
EXTENDS Integers, Sequences, FiniteSets, FiniteSetsExt

CONSTANTS
    Strategies,     \* end strategies the agents of an instance are built with
    Kinds,          \* kinds of the tools of an instance
    Sizes,          \* bounds: calls in one response and model responses, of each instance
    Streaming,      \* whether runs of an instance have an event consumer
    MaxRetries,     \* the retry limit of every tool and of the output
    ToolCallLimit   \* UsageLimits.ToolCallLimit

ASSUME ConstantsAssumption ==
    /\ Strategies \subseteq {"early", "graceful", "exhaustive"}
    /\ Kinds \subseteq {"plain", "barrier", "hidden", "output"}
    /\ Streaming \subseteq BOOLEAN
    /\ Sizes \subseteq [calls : Nat, rounds : Nat]
    /\ {MaxRetries, ToolCallLimit} \subseteq Nat

VARIABLES
    agent,      \* strategy, serial (WithSequentialToolExecution) and streamed: fixed for a run
    round,      \* model responses so far
    calls,      \* kinds of the calls of the current response
    committed,  \* RunStream has already taken an output from the response
    winner,     \* the output call that won; 0 for none, or for committed text
    phase,      \* where the run loop is
    pos,        \* the next call the loop considers
    stage,      \* of each call: idle, running, refusing, returned, settled
    outcome,    \* of each call: what executing it gave, "none" if it was not executed
    groupCtx,   \* the context of the running group is not cancelled
    ctx,        \* the run's context: live, cancelled, or detached (its consumer left)
    toolCalls,  \* r.toolCalls
    retries,    \* r.toolRetries; r.outputRetry under "output"
    refused,    \* the hidden tool is in r.availabilityRefused
    request,    \* the request answering the response: its state, and its parts by call
    deferred,   \* calls in r.pendingDeferred
    why,        \* the error executeCalls returned, "none" for no error
    ended       \* how the run ended, "none" before that

vars == <<agent, round, calls, committed, winner, phase, pos, stage, outcome, groupCtx, ctx,
          toolCalls, retries, refused, request, deferred, why, ended>>

response == <<agent, round, calls, committed>>
progress == <<pos, stage, outcome, groupCtx>>
counters == <<toolCalls, retries, refused>>

Failures      == {"error", "induced", "exhausted", "stopped"}
FunctionParts == {"return", "failed", "retry"}

Index       == DOMAIN calls
IsOutput(i) == calls[i] = "output"
Counts(i)   == calls[i] \in {"plain", "barrier"}
Running     == {i \in Index : stage[i] \in {"running", "refusing", "returned"}}
Early       == agent.strategy = "early"
Graceful    == agent.strategy = "graceful"
Nothing     == [i \in Index |-> "none"]

-----------------------------------------------------------------------------
(* A response with tool calls *)

\* The run ends; cancellation and a consumer that left prevail (wrappedLoop).
End(how) ==
    /\ phase' = "ended"
    /\ ended' = CASE ctx' = "cancelled" -> "cancelled"
                  [] ctx' = "detached"  -> "failed"
                  [] OTHER              -> how

\* The model answers with calls.  In a streamed run an output found in the
\* response, text or the first output call, is taken at once.
Respond ==
    /\ phase = "model" /\ round < agent.size.rounds /\ ctx = "live"
    /\ \E n \in 1..agent.size.calls : \E kinds \in [1..n -> Kinds] :
          /\ calls' = kinds
          /\ stage' = [i \in 1..n |-> "idle"]
          /\ outcome' = [i \in 1..n |-> "none"]
          /\ request' = [state |-> "none", parts |-> [i \in 1..n |-> "none"]]
          /\ \/ committed' = FALSE /\ winner' = 0
             \/ /\ agent.streamed /\ committed' = TRUE
                /\ winner' \in {0} \cup {i \in 1..n : kinds[i] = "output"
                                             /\ \A j \in 1..(i - 1) : kinds[j] # "output"}
    /\ round' = round + 1 /\ pos' = 1 /\ phase' = "begin"
    /\ deferred' = {} /\ why' = "none"
    /\ UNCHANGED <<agent, groupCtx, ctx, counters, ended>>

\* The loop finds the run cancelled, the model request fails, or the response
\* is a result without calls.
ModelEnds ==
    /\ phase = "model"
    /\ ctx' = ctx
    /\ \/ End("failed") \/ (ctx = "live" /\ End("text"))
    /\ UNCHANGED <<response, winner, progress, counters, request, deferred, why>>

\* Mutant: the calls already made are left out of the projection.
OverLimitForgetful == Cardinality({i \in Index : Counts(i)}) > ToolCallLimit

\* checkToolCallLimit: output calls and unavailable tools are not counted.
OverLimit == toolCalls + Cardinality({i \in Index : Counts(i)}) > ToolCallLimit

\* Mutant: the parts of failed and deferred calls are kept with the others.
CompletedVerbatim == outcome

\* completedCallParts and committedParts: what is kept when the calls are not
\* collected.
Kept == FunctionParts \cup {"skipped", "final", "unused"}
Completed == [i \in Index |->
    IF outcome[i] = "output" THEN (IF committed THEN "notFinal" ELSE "final")
    ELSE IF outcome[i] \in Kept THEN outcome[i] ELSE "none"]

\* executeCalls is about to return.
Return(error, parts) ==
    /\ phase' = "returned" /\ why' = error
    /\ request' = [request EXCEPT !.parts = parts]

\* A duplicate call ID, a consumer that refuses a call event, or too many calls
\* stop the response before anything runs.  A committed output answers its own
\* call, and in early all the others.
Begin ==
    /\ phase = "begin"
    /\ \/ ~committed /\ Return("error", Nothing) /\ UNCHANGED <<ctx, outcome>>
       \/ /\ agent.streamed /\ Return("stopped", Nothing)
          /\ ctx' = IF ctx = "live" THEN "detached" ELSE ctx
          /\ UNCHANGED outcome
       \/ ~Early /\ OverLimit /\ Return("limit", Nothing) /\ UNCHANGED <<ctx, outcome>>
       \/ /\ Early \/ ~OverLimit
          /\ outcome' = [i \in Index |->
                IF ~committed \/ Graceful THEN "none"
                ELSE IF i = winner THEN "final" ELSE IF Early THEN "skipped" ELSE "none"]
          /\ phase' = CASE Early /\ committed  -> "collect"
                        [] Early /\ ~committed -> "outputs"
                        [] OTHER               -> "scan"
          /\ UNCHANGED <<ctx, why, request>>
    /\ UNCHANGED <<response, winner, pos, stage, groupCtx, counters, deferred, ended>>

-----------------------------------------------------------------------------
(* Choosing what runs next *)

Start(group) ==
    /\ stage' = [i \in Index |-> IF i \in group THEN "running" ELSE stage[i]]
    /\ groupCtx' = TRUE /\ phase' = "group"

\* executeCallsEarly, first pass: output calls one at a time until one
\* succeeds; without a winner the function calls follow, within the limit.
TryOutputs ==
    /\ phase = "outputs"
    /\ LET left == {i \in Index : i >= pos /\ IsOutput(i)} IN
       \/ /\ winner = 0 /\ left # {}
          /\ Start({Min(left)}) /\ pos' = Min(left) + 1
          /\ UNCHANGED <<outcome, why, request>>
       \/ /\ winner # 0 /\ phase' = "collect"
          /\ outcome' = [i \in Index |-> IF outcome[i] = "none" THEN "skipped" ELSE outcome[i]]
          /\ UNCHANGED <<pos, stage, groupCtx, why, request>>
       \/ /\ winner = 0 /\ left = {} /\ OverLimit
          /\ Return("limit", Completed)
          /\ UNCHANGED <<pos, stage, groupCtx, outcome>>
       \/ /\ winner = 0 /\ left = {} /\ ~OverLimit
          /\ phase' = "scan" /\ pos' = 1
          /\ UNCHANGED <<stage, groupCtx, outcome, why, request>>
    /\ UNCHANGED <<response, winner, ctx, counters, deferred, ended>>

\* Mutant: WithSequential is forgotten.
StopsNever(i) == IsOutput(i) /\ Graceful

\* callIsBarrier, and executeCallsGraceful, which stops at every output call:
\* such a call runs alone.
Stops(i) == agent.serial \/ calls[i] = "barrier" \/ (IsOutput(i) /\ Graceful)

\* Calls the pass goes over: the second pass of early has only function calls,
\* and exhaustive leaves out a committed winner.
Visited(i) ==
    IF Early THEN ~IsOutput(i) ELSE ~(committed /\ i = winner) \/ Graceful

\* Output calls that graceful answers without running them.
Skipped(i) == Graceful /\ IsOutput(i) /\ (committed \/ winner # 0)

\* The three passes over the calls: consecutive calls that do not stop the
\* pass form a group of goroutines, the others run by themselves.
Scan ==
    /\ phase = "scan"
    /\ LET ahead == {i \in Index : i >= pos /\ Visited(i)}
           free  == {i \in ahead : \A j \in ahead : j <= i => ~Stops(j)}
           group == IF free # {} THEN free ELSE {Min(ahead)}
       IN  \/ /\ ahead = {} /\ phase' = "collect"
              /\ UNCHANGED <<progress>>
           \/ /\ ahead # {} /\ \A i \in group : ~Skipped(i)
              /\ pos' = Max(group) + 1 /\ Start(group) /\ UNCHANGED outcome
           \/ /\ ahead # {} /\ \E i \in group : Skipped(i)
              /\ pos' = Max(group) + 1
              /\ outcome' = [outcome EXCEPT ![Min(group)] =
                                IF committed /\ Min(group) = winner THEN "final" ELSE "skipped"]
              /\ UNCHANGED <<phase, stage, groupCtx>>
    /\ UNCHANGED <<response, winner, ctx, counters, request, deferred, why, ended>>

-----------------------------------------------------------------------------
(* One goroutine: executeOne, executeOneCommitted *)

\* A retry is counted under retriesMu; beyond the limit it is an error.
Retry(i) ==
    /\ retries' = [retries EXCEPT ![calls[i]] = @ + 1]
    /\ outcome' = [outcome EXCEPT ![i] =
          IF retries[calls[i]] < MaxRetries THEN "retry"
          ELSE IF committed /\ IsOutput(i) THEN "unused" ELSE "exhausted"]

\* executeCall.  A tool may ignore its context, or return the context's error.
Execute(i) ==
    /\ stage[i] = "running" /\ calls[i] # "hidden"
    /\ stage' = [stage EXCEPT ![i] = "returned"]
    /\ \/ Retry(i)
       \/ /\ \E o \in (IF IsOutput(i) THEN {"output", IF committed THEN "unused" ELSE "error"}
                                      ELSE {"return", "failed", "deferred", "error"})
                      \cup (IF groupCtx /\ ctx = "live" THEN {} ELSE {"induced"}) :
                outcome' = [outcome EXCEPT ![i] = o]
          /\ UNCHANGED retries
    /\ UNCHANGED <<response, winner, phase, pos, groupCtx, ctx, toolCalls, refused, request,
                   deferred, why, ended>>

\* executeCall for a tool the model has not searched for: it consults and
\* updates r.availabilityRefused, a map without a lock.
EnterRefusal(i) ==
    /\ stage[i] = "running" /\ calls[i] = "hidden"
    /\ stage' = [stage EXCEPT ![i] = "refusing"]
    /\ UNCHANGED <<response, winner, phase, pos, outcome, groupCtx, ctx, counters, request,
                   deferred, why, ended>>

\* The first refusal is free, later ones are counted as retries.
LeaveRefusal(i) ==
    /\ stage[i] = "refusing"
    /\ stage' = [stage EXCEPT ![i] = "returned"]
    /\ IF refused
       THEN Retry(i) /\ UNCHANGED refused
       ELSE refused' = TRUE /\ outcome' = [outcome EXCEPT ![i] = "retry"] /\ UNCHANGED retries
    /\ UNCHANGED <<response, winner, phase, pos, groupCtx, ctx, toolCalls, request, deferred,
                   why, ended>>

\* The rest of executeOne: a cancelled run drops the result; a successful call
\* is counted; the result of a function call is emitted, and the consumer may
\* refuse it.  A failure cancels the group.
Settle(i) ==
    /\ stage[i] = "returned"
    /\ stage' = [stage EXCEPT ![i] = "settled"]
    /\ LET dropped == ctx = "cancelled" /\ outcome[i] \notin Failures
           shown   == ~dropped /\ ~IsOutput(i) /\ outcome[i] \in FunctionParts
       IN  /\ toolCalls' = toolCalls + (IF ~dropped /\ outcome[i] = "return" THEN 1 ELSE 0)
           /\ \/ /\ outcome' = [outcome EXCEPT ![i] = IF dropped THEN "dropped" ELSE @]
                 /\ UNCHANGED ctx
              \/ /\ shown /\ agent.streamed
                 /\ outcome' = [outcome EXCEPT ![i] = "stopped"]
                 /\ ctx' = IF ctx = "live" THEN "detached" ELSE ctx
           /\ groupCtx' = (groupCtx /\ outcome'[i] \notin Failures)
    /\ UNCHANGED <<response, winner, phase, pos, retries, refused, request, deferred, why, ended>>

-----------------------------------------------------------------------------
(* Joining a group *)

Failed == {i \in Index : outcome[i] \in Failures}
Won    == {i \in Index : outcome[i] = "output"}

\* wg.Wait
JoinGuard == phase = "group" /\ Running = {}

\* executeIndexBatch after wg.Wait: the error of the lowest index is returned,
\* with the parts completed so far.
Join ==
    /\ JoinGuard
    /\ IF Failed # {}
       THEN /\ Return(outcome[Min(Failed)], Completed)
            /\ UNCHANGED winner
       ELSE /\ phase' = IF Early /\ \A i \in Index : IsOutput(i) \/ stage[i] = "idle"
                        THEN "outputs" ELSE "scan"
            /\ winner' = IF committed \/ Won = {} THEN winner ELSE Min(Won)
            /\ UNCHANGED <<why, request>>
    /\ UNCHANGED <<response, progress, ctx, counters, deferred, ended>>

-----------------------------------------------------------------------------
(* Answering the response *)

FunctionRetry == \E i \in Index : Counts(i) /\ outcome[i] = "retry"

\* Mutant: a retry asked for by any call, output calls included, discards the output.
RetryWinsAny == ~Early /\ \E i \in Index : outcome[i] = "retry"

\* A function tool that asks for a retry discards the output, except in early.
RetryWins == ~Early /\ FunctionRetry

\* Mutant: a deferred call is left unanswered also when an output won.
DeferredPartLost(final) == "none"

\* A deferred call beside a final output is answered as skipped.
DeferredPart(final) == IF final THEN "skipped" ELSE "none"

\* collectCallOutcomes
Part(i, final) ==
    CASE outcome[i] = "output"   -> IF i # Min(Won) THEN "notFinal"
                                    ELSE IF final THEN "final" ELSE "retryWins"
      [] outcome[i] = "deferred" -> DeferredPart(final)
      [] outcome[i] = "dropped"  -> "none"
      [] OTHER                   -> outcome[i]

\* committedCallOutcome, executeOneCommitted and committedParts: a deferred
\* call has no part, and is not kept as deferred either.
CommittedPart(i) ==
    CASE outcome[i] = "output"                   -> "notFinal"
      [] outcome[i] \in {"deferred", "dropped"} -> "none"
      [] OTHER                                   -> outcome[i]

\* The consumer may refuse a pending result, and the usage limit may be hit.
Collect ==
    /\ phase = "collect"
    /\ LET final == Won # {} /\ ~RetryWins
           parts == [i \in Index |-> IF committed THEN CommittedPart(i) ELSE Part(i, final)]
       IN  /\ winner' = IF committed THEN winner ELSE IF final THEN Min(Won) ELSE 0
           /\ deferred' = IF committed \/ final THEN {} ELSE {i \in Index : outcome[i] = "deferred"}
           /\ \/ Return("none", parts) /\ UNCHANGED ctx
              \/ ~committed /\ Return("usage", parts) /\ UNCHANGED ctx
              \/ /\ agent.streamed /\ Return("stopped", Nothing)
                 /\ ctx' = IF ctx = "live" THEN "detached" ELSE ctx
    /\ UNCHANGED <<response, progress, counters, ended>>

\* The loop after executeCalls: a cancelled run records what completed in an
\* interrupted request, an error ends the run without a request.
Returned ==
    /\ phase = "returned" /\ ctx' = ctx
    /\ \/ /\ ctx = "cancelled"
          /\ request' = [request EXCEPT !.state = "interrupted"]
          /\ End("failed")
       \/ /\ ctx # "cancelled" /\ why # "none"
          /\ UNCHANGED request /\ End("failed")
       \/ /\ ctx # "cancelled" /\ why = "none"
          /\ phase' = IF deferred # {} THEN "handlers" ELSE "answer"
          /\ UNCHANGED <<request, ended>>
    /\ UNCHANGED <<response, winner, progress, counters, deferred, why>>

\* handleDeferredToolCalls: inline handlers resolve some deferred calls, with
\* results from outside or with approvals that execute the call; an error of a
\* handler, a refused event or the limit loses the whole answer.
Handlers ==
    /\ phase = "handlers" /\ ctx' = ctx
    /\ \/ End("failed") /\ why' = "error" /\ UNCHANGED <<toolCalls, request, deferred>>
       \/ \E resolved \in SUBSET deferred : \E approved \in SUBSET resolved :
          IF toolCalls + Cardinality(approved) > ToolCallLimit
          THEN End("failed") /\ why' = "limit" /\ UNCHANGED <<toolCalls, request, deferred>>
          ELSE /\ phase' = "answer" /\ deferred' = deferred \ resolved
               /\ \E done \in SUBSET approved :
                     IF ctx = "cancelled" THEN UNCHANGED <<toolCalls, request>>
                     ELSE /\ toolCalls' = toolCalls + Cardinality(done)
                          /\ request' = [request EXCEPT !.parts = [i \in Index |->
                                IF i \in approved \ done THEN "failed"
                                ELSE IF i \in resolved THEN "return" ELSE request.parts[i]]]
               /\ UNCHANGED <<why, ended>>
    /\ UNCHANGED <<response, winner, progress, retries, refused>>

\* The answer is recorded.  A final output ends the run unless an enqueued
\* message redirects it; calls still deferred end it too.
Answer ==
    /\ phase = "answer" /\ ctx' = ctx
    /\ request' = [request EXCEPT !.state = IF request.parts = Nothing THEN @ ELSE "complete"]
    /\ \/ (committed \/ winner # 0) /\ (End("result") \/ (phase' = "model" /\ UNCHANGED ended))
       \/ ~committed /\ winner = 0 /\ deferred # {} /\ End("deferred")
       \/ ~committed /\ winner = 0 /\ deferred = {} /\ phase' = "model" /\ UNCHANGED ended
    /\ UNCHANGED <<response, winner, progress, counters, deferred, why>>

-----------------------------------------------------------------------------

\* Cancel, from a tool or any other goroutine, or the deadline of the run.
Cancel ==
    /\ phase # "ended" /\ ctx = "live" /\ ctx' = "cancelled"
    /\ UNCHANGED <<response, winner, phase, progress, counters, request, deferred, why, ended>>

Finished == phase = "ended" /\ UNCHANGED vars

Init ==
    /\ agent \in [strategy : Strategies, serial : BOOLEAN, streamed : Streaming, size : Sizes]
    /\ round = 0 /\ calls = <<>> /\ committed = FALSE /\ winner = 0
    /\ phase = "model" /\ pos = 1 /\ stage = <<>> /\ outcome = <<>> /\ groupCtx = TRUE
    /\ ctx = "live" /\ toolCalls = 0 /\ refused = FALSE
    /\ retries = [k \in Kinds |-> 0]
    /\ request = [state |-> "none", parts |-> <<>>]
    /\ deferred = {} /\ why = "none" /\ ended = "none"

Goroutine(i) == Execute(i) \/ EnterRefusal(i) \/ LeaveRefusal(i) \/ Settle(i)

Next ==
    \/ Respond \/ ModelEnds \/ Begin \/ TryOutputs \/ Scan \/ Join
    \/ Collect \/ Returned \/ Handlers \/ Answer
    \/ \E i \in Index : Goroutine(i)
    \/ Cancel \/ Finished

Spec == Init /\ [][Next]_vars

-----------------------------------------------------------------------------
(* Properties *)

Phases == {"model", "begin", "outputs", "scan", "group", "collect", "returned", "handlers",
           "answer", "ended"}
Outcomes == {"none", "output", "unused", "deferred", "dropped", "skipped", "final"}
            \cup FunctionParts \cup Failures
Contents == {"none", "notFinal", "retryWins"} \cup Kept

TypeOK ==
    /\ phase \in Phases /\ round \in 0..agent.size.rounds /\ pos \in 1..(agent.size.calls + 1)
    /\ winner \in {0} \cup Index
    /\ stage \in [Index -> {"idle", "running", "refusing", "returned", "settled"}]
    /\ outcome \in [Index -> Outcomes]
    /\ ctx \in {"live", "cancelled", "detached"}
    /\ toolCalls \in Nat /\ retries \in [Kinds -> Nat]
    /\ request.state \in {"none", "interrupted", "complete"}
    /\ request.parts \in [Index -> Contents]
    /\ deferred \subseteq Index
    /\ ended \in {"none", "text", "result", "deferred", "cancelled", "failed"}

\* Every call of a response is answered exactly once: by a part of the request
\* that answers the response, or by being reported as deferred.  Providers
\* refuse a history where this fails.  Exempt are a run cancelled meanwhile,
\* and deferred calls beside a committed output, which are not answered at all.
AnswersEveryCall ==
    request.state = "complete" /\ ctx = "live" =>
        \A i \in Index :
            \/ (request.parts[i] # "none") # (i \in deferred)
            \/ committed /\ outcome[i] = "deferred"

\* The output of a run that is not committed while streaming is the first that
\* succeeded in emission order, answered as the only final one; early ran no
\* function tool, and otherwise none asked for a retry.  In the other
\* direction an output is only discarded for a function tool's retry
\* (the comments on EndStrategy, agent.go:504).
ResultJustified ==
    phase = "answer" /\ ~committed =>
        /\ winner # 0 =>
             /\ {i \in Index : request.parts[i] = "final"} = {winner}
             /\ outcome[winner] = "output"
             /\ \A i \in 1..(winner - 1) : outcome[i] # "output"
             /\ IF Early THEN \A i \in Index : Counts(i) => stage[i] = "idle" ELSE ~FunctionRetry
        /\ winner = 0 /\ Won # {} => ~Early /\ FunctionRetry

\* While a sequential tool runs nothing else does, every function call before
\* it is finished and none after it has started (WithSequential, tool.go:576).
BarrierAlone ==
    \A i \in Running : ~IsOutput(i) /\ (agent.serial \/ calls[i] = "barrier") =>
        /\ Running = {i}
        /\ \A j \in Index : ~IsOutput(j) =>
             /\ j < i => stage[j] = "settled"
             /\ j > i => stage[j] = "idle"

\* Successful calls never exceed the limit, although it is checked once before
\* a response and the calls are counted by parallel goroutines.
LimitHeld == toolCalls <= ToolCallLimit

\* docs/history.md:341: the messages of a cancelled run hold the results of
\* tools that finished before the cancellation.  A call counts as finished here
\* when its result was counted and shown to the event consumer.
CancelKeepsFinished ==
    ended = "cancelled" =>
        \A i \in Index : outcome[i] = "return" =>
            request.state # "none" /\ request.parts[i] # "none"

\* tool.go:576: independent tools run concurrently.  The map of refused tools
\* must then not be written by two goroutines at once.
RefusalsExclusive ==
    Cardinality({i \in Index : stage[i] = "refusing"}) > 1 => refused
=============================================================================
