------------------------- MODULE SuspendedResponses -------------------------
(***************************************************************************)
(* One model request of a run, from the first segment to the last: the     *)
(* loop that resumes a suspended response (src/ai/loop.go, doModelRequest; *)
(* src/ai/continuation.go) over a chain of fallback candidates             *)
(* (src/ai/fallback.go), the consumer that may leave a streamed run in the *)
(* middle of it, and the later run that resumes what it left               *)
(* (src/ai/stream_run.go, suspendedSnapshot).                              *)
(*                                                                         *)
(* Segments are known by the provider response they report.  A response of *)
(* a candidate in Background is a job of its server: it is polled under    *)
(* one ID, which reports the usage of the whole job, and it runs until it  *)
(* completes or is cancelled.  Any other suspended response is a pause,    *)
(* continued by a segment with an ID of its own.  Each response bills one  *)
(* unit when it is made and at most one more when it is polled.            *)
(***************************************************************************)
EXTENDS Integers, Sequences

CONSTANTS
    Chain,              \* the models of the fallback chain, in order
    Background,         \* those whose suspended responses are jobs of a server
    MaxGenerations,     \* MaxGenerationContinuations
    MaxPolls,           \* MaxBackgroundPolls
    UsageLimit,         \* UsageLimits of every run, in units of usage
    MaxRuns             \* bound: runs of the conversation

Candidates == {Chain[i] : i \in DOMAIN Chain}

NoPin == ""     \* metadata that names no model

\* A chain has a model, and every model has a name.
ASSUME ChainAssumption ==
    Chain \in Seq(Candidates) /\ Chain # <<>> /\ NoPin \notin Candidates \cup Background

None == [state |-> "none"]

VARIABLES
    run,        \* the run of the conversation
    streamed,   \* the run has a consumer
    cause,      \* why the run's context ended: none, detached or cancelled
    resumed,    \* the suspended response the history of the run ends in
    response,   \* the merged response
    lastMode,   \* the mode of the last merge
    counts,     \* generationCount and pollCount
    place,      \* where the request is: top of the loop, send, ended
    asking,     \* the candidate asked, as an index of Chain
    pinned,     \* it is asked because the response is pinned to it
    rewound,    \* the suspended response was taken from the messages
    attempts,   \* usage of the attempts this segment has failed with
    usage,      \* usage the run counted
    outcome,    \* how the request ended: result, error, suspended
    detached,   \* r.detachedResponse
    jobs,       \* provider responses: model, state and usage billed
    counted,    \* usage earlier runs counted
    rejected,   \* responses a predicate rejected
    foreign,    \* responses that came with an unpinned history
    replaced    \* a merge has replaced an earlier response

requestVars == <<run, streamed, cause, resumed, response, lastMode, counts, place, asking, pinned,
                 rewound, attempts, usage, outcome, detached, jobs, counted, rejected, foreign,
                 replaced>>

conversation == <<run, streamed, resumed, counted, foreign>>
merging == <<response, lastMode, counts, replaced>>
chain == <<asking, pinned, rewound, attempts>>

Held(r) == r.state = "suspended"

(* ---- merging segments (src/ai/continuation.go) ----------------------- *)

\* modelResponseMergeMode.
MergeMode(old, new) ==
    CASE new.replace -> "replace"
      [] ~new.replace /\ old.id = new.id -> "sameID"
      [] ~new.replace /\ old.id # new.id /\ old.model # new.model -> "replace"
      [] OTHER -> "accumulate"

\* mergeModelResponses: metadata, and with it the pin, of an earlier segment stays unless
\* the new one brings its own, and the marker of a replacement is stripped.
Merge(old, new) ==
    [new EXCEPT !.usage = IF MergeMode(old, new) = "sameID" THEN @ ELSE old.usage + @,
                !.failed = old.failed + @,
                !.pin = IF @ = NoPin THEN old.pin ELSE @,
                !.replace = FALSE]

\* Mutant: what the resumed response had cost is billed again.
BilledWhole(r, seed) == r.usage + r.failed

\* billedBeyond, together with the failed attempts the callers add to it.
BilledBeyond(r, seed) ==
    IF seed = None THEN r.usage + r.failed
    ELSE (r.usage - seed.usage) + (r.failed - seed.failed)

\* Mutant: polls are not counted.
CountGenerations(mode) ==
    IF mode = "sameID" THEN counts ELSE [counts EXCEPT !.generation = @ + 1]

\* continuationLimitError, which counts the segment to come.
CountSegment(mode) ==
    IF mode = "sameID" THEN [counts EXCEPT !.poll = @ + 1]
    ELSE [counts EXCEPT !.generation = @ + 1]

OverCount(c) == c.generation > MaxGenerations \/ c.poll > MaxPolls

(* ---- the providers ---------------------------------------------------- *)

\* CancelSuspendedResponse: through the pin, or on every model when there is none, it
\* reaches the server that runs the job, and only a running job has something to cancel.
Cancelled(js, r) ==
    IF Held(r) /\ js[r.id].state = "running" THEN [js EXCEPT ![r.id].state = "cancelled"] ELSE js

\* A candidate is sent the suspended response it made and retrieves its job.
Polls(m) == /\ Held(response) /\ ~rewound
            /\ jobs[response.id].model = m /\ jobs[response.id].state # "pause"

JobState(m, state) ==
    IF state = "complete" THEN "done" ELSE IF m \in Background THEN "running" ELSE "pause"

\* What a candidate may answer with: the segment, and the provider responses after it.  A
\* cancelled job is not running any more, and what it left is its answer.
Answers(m, state) ==
    IF Polls(m)
    THEN {[id |-> response.id, usage |-> u,
           jobs |-> [jobs EXCEPT ![response.id].usage = u, ![response.id].state =
                        IF @ = "cancelled" THEN @ ELSE JobState(m, state)]] :
            u \in {v \in {jobs[response.id].usage, 2} :
                     state = "suspended" => jobs[response.id].state # "cancelled"}}
    ELSE {[id |-> Len(jobs) + 1, usage |-> 1,
           jobs |-> Append(jobs, [model |-> m, usage |-> 1, state |-> JobState(m, state)])]}

\* The answer as the chain hands it on: stampResponse and stampStream pin a suspended one,
\* mark one that follows a rewind, and attach the attempts that failed before it.
Segment(m, state, answer) ==
    [state |-> state, id |-> answer.id, usage |-> answer.usage, failed |-> attempts,
     model |-> m, pin |-> IF state = "suspended" THEN m ELSE NoPin, replace |-> rewound]

(* ---- doModelRequest --------------------------------------------------- *)

\* The histories a conversation may begin with: one that ends in a request, and one that
\* ends in a job an agent without the chain left suspended, which bears no pin.
Unpinned(m) == [state |-> "suspended", id |-> 1, usage |-> 1, failed |-> 0, model |-> m,
                pin |-> NoPin, replace |-> FALSE]

RequestInit ==
    /\ run = 1 /\ streamed \in BOOLEAN /\ cause = "none"
    /\ \/ resumed = None /\ jobs = <<>> /\ counted = 0
       \/ \E m \in Background :
            /\ resumed = Unpinned(m) /\ counted = 1
            /\ jobs = <<[model |-> m, usage |-> 1, state |-> "running"]>>
    /\ response = resumed
    /\ lastMode = "accumulate" /\ counts = [generation |-> 0, poll |-> 0]
    /\ place = "top" /\ asking = 1 /\ pinned = FALSE /\ rewound = FALSE /\ attempts = 0
    /\ usage = 0 /\ outcome = "none" /\ detached = None
    /\ rejected = {} /\ foreign = DOMAIN jobs /\ replaced = FALSE

\* The request returns an error and what is left of the response is given up.
GiveUp(r) ==
    /\ jobs' = Cancelled(jobs, r)
    /\ place' = "ended" /\ outcome' = "error"
    /\ UNCHANGED <<conversation, cause, usage, detached, rejected>>

\* The response is whole: the run counts what it billed and goes on.
Return ==
    /\ place = "top" /\ response.state = "complete"
    /\ usage' = usage + BilledBeyond(response, resumed)
    /\ place' = "ended" /\ outcome' = "result"
    /\ UNCHANGED <<conversation, cause, merging, chain, detached, jobs, rejected>>

\* Suspended once too often.
Exceed ==
    /\ place = "top" /\ Held(response)
    /\ counts' = CountSegment(lastMode) /\ OverCount(counts')
    /\ GiveUp(response)
    /\ UNCHANGED <<response, lastMode, replaced, chain>>

\* waitForContinuation is interrupted; a pause is continued without waiting.
WaitInterrupted ==
    /\ place = "top" /\ Held(response) /\ cause # "none"
    /\ jobs[response.id].model \in Background
    /\ counts' = CountSegment(lastMode) /\ ~OverCount(counts')
    /\ GiveUp(response)
    /\ UNCHANGED <<response, lastMode, replaced, chain>>

\* requestModelSegment: pinnedModel picks the first candidate asked.
PinOf(r) == {i \in DOMAIN Chain : Held(r) /\ Chain[i] = r.pin}

Ask ==
    /\ place = "top" /\ response.state # "complete"
    /\ IF Held(response)
       THEN counts' = CountSegment(lastMode) /\ ~OverCount(counts')
       ELSE counts' = counts
    /\ pinned' = (PinOf(response) # {})
    /\ asking' \in (IF pinned' THEN PinOf(response) ELSE {1})
    /\ rewound' = FALSE /\ attempts' = 0
    /\ place' = "send"
    /\ UNCHANGED <<conversation, cause, response, lastMode, replaced, usage, outcome, detached,
                   jobs, rejected>>

\* The segment is merged, and checked against the limits while it is suspended.
Accept(segment, answer) ==
    LET merged == IF response = None THEN segment ELSE Merge(response, segment)
        over == Held(merged) /\ usage + BilledBeyond(merged, resumed) > UsageLimit
    IN  /\ response' = merged
        /\ lastMode' = IF response = None THEN lastMode ELSE MergeMode(response, segment)
        /\ replaced' = (replaced \/ (response # None /\ MergeMode(response, segment) = "replace"))
        /\ jobs' = IF over THEN Cancelled(answer.jobs, merged) ELSE answer.jobs
        /\ place' = IF over THEN "ended" ELSE "top"
        /\ outcome' = IF over THEN "error" ELSE outcome
        /\ UNCHANGED <<conversation, cause, counts, chain, usage, detached, rejected>>

Answer ==
    /\ place = "send"
    /\ \E state \in {"suspended", "complete"} : \E answer \in Answers(Chain[asking], state) :
         Accept(Segment(Chain[asking], state, answer), answer)

\* The next candidate is asked, or the chain is exhausted: newFallbackExhaustedError, whose
\* attempts the run counts, and whose limit error returns before anything is cancelled.
NextCandidate(js, spent) ==
    IF asking < Len(Chain)
    THEN /\ asking' = asking + 1 /\ attempts' = spent /\ jobs' = js
         /\ UNCHANGED <<usage, place, outcome, detached>>
    ELSE /\ usage' = usage + spent
         /\ place' = "ended"
         /\ detached' = IF usage' <= UsageLimit /\ cause = "detached" /\ Held(response)
                        THEN response ELSE None
         /\ outcome' = IF detached' # None THEN "suspended" ELSE "error"
         /\ jobs' = IF usage' > UsageLimit \/ cause = "detached" THEN js
                    ELSE Cancelled(js, response)
         /\ UNCHANGED <<asking, attempts>>

\* A response predicate rejects the answer of an unpinned, unstreamed candidate.
PredicateRejects ==
    /\ place = "send" /\ ~pinned /\ ~streamed /\ cause = "none"
    /\ \E state \in {"suspended", "complete"} : \E answer \in Answers(Chain[asking], state) :
         /\ rejected' = rejected \union {answer.id}
         /\ NextCandidate(answer.jobs, attempts + answer.usage)
    /\ UNCHANGED <<conversation, cause, merging, pinned, rewound>>

\* A candidate fails with an error the chain falls back on.
CandidateFails ==
    /\ place = "send" /\ ~pinned /\ cause = "none"
    /\ NextCandidate(jobs, attempts)
    /\ UNCHANGED <<conversation, cause, merging, pinned, rewound, rejected>>

\* Mutant: the job of the candidate that failed goes on.
PinnedFailsKeeping ==
    /\ place = "send" /\ pinned /\ cause = "none"
    /\ pinned' = FALSE /\ rewound' = TRUE /\ asking' = 1
    /\ UNCHANGED <<conversation, cause, merging, attempts, usage, place, outcome, detached, jobs,
                   rejected>>

\* The pinned candidate fails so: its response is cancelled and the chain starts over
\* without it.
PinnedFails ==
    /\ place = "send" /\ pinned /\ cause = "none"
    /\ jobs' = Cancelled(jobs, response)
    /\ pinned' = FALSE /\ rewound' = TRUE /\ asking' = 1
    /\ UNCHANGED <<conversation, cause, merging, attempts, usage, place, outcome, detached,
                   rejected>>

\* The segment ends in an error the chain hands on, with the response so far when an answer
\* had begun: the run hands over what is suspended when its consumer left, or cancels it.
Fail(partial, js) ==
    LET whole == IF partial = None THEN response
                 ELSE IF response = None THEN partial ELSE Merge(response, partial)
        left == IF Held(whole) THEN whole ELSE response
    IN  /\ place' = "ended"
        /\ detached' = IF cause' = "detached" /\ Held(left) THEN left ELSE None
        /\ outcome' = IF detached' # None THEN "suspended" ELSE "error"
        /\ jobs' = IF cause' = "detached" THEN js ELSE Cancelled(js, left)
        /\ UNCHANGED <<conversation, merging, chain, usage, rejected>>

SendFails ==
    /\ place = "send" /\ cause' = cause /\ Fail(None, jobs)

\* The answer breaks off.  A Request that drains a stream (openaicodex, openaichatgpt) hands
\* on what it got as well; those keep no responses, so that it is never a suspended one.
StreamBreaks ==
    /\ place = "send"
    /\ cause' \in {cause} \union (IF streamed /\ cause = "none" THEN {"detached"} ELSE {})
    /\ \E state \in IF streamed THEN {"suspended", "complete"} ELSE {"complete"} :
         \E answer \in Answers(Chain[asking], state) :
            Fail(Segment(Chain[asking], state, answer), answer.jobs)

\* The consumer leaves, or the run is cancelled.
Interrupt ==
    /\ place # "ended" /\ cause = "none"
    /\ cause' \in IF streamed THEN {"detached", "cancelled"} ELSE {"cancelled"}
    /\ UNCHANGED <<conversation, merging, chain, place, usage, outcome, detached, jobs, rejected>>

\* suspendedSnapshot and the Resume it is for: the run that left the response counted its
\* usage, and the history of the next run ends in it.
Snapshot == usage + BilledBeyond(detached, resumed)

Resume ==
    /\ place = "ended" /\ outcome = "suspended" /\ run < MaxRuns
    /\ run' = run + 1 /\ streamed' \in BOOLEAN /\ cause' = "none"
    /\ counted' = counted + Snapshot
    /\ resumed' = detached /\ response' = detached
    /\ lastMode' = "accumulate" /\ counts' = [generation |-> 0, poll |-> 0]
    /\ place' = "top" /\ asking' = 1 /\ pinned' = FALSE /\ rewound' = FALSE /\ attempts' = 0
    /\ usage' = 0 /\ outcome' = "none" /\ detached' = None
    /\ UNCHANGED <<jobs, rejected, foreign, replaced>>

Request == \/ Return \/ Exceed \/ WaitInterrupted \/ Ask \/ Answer \/ PredicateRejects
           \/ CandidateFails \/ PinnedFails \/ SendFails \/ StreamBreaks

Over == /\ place = "ended" /\ (outcome # "suspended" \/ run = MaxRuns)
        /\ UNCHANGED requestVars

RequestNext == Request \/ Interrupt \/ Resume \/ Over

\* A provider answers or fails sooner or later, and the goroutine of the run goes on.
RequestSpec == RequestInit /\ [][RequestNext]_requestVars /\ WF_requestVars(Request)

(* ---- properties ------------------------------------------------------- *)

\* What the provider responses billed, all together.
Billed(js) ==
    LET sum[n \in 0..Len(js)] == IF n = 0 THEN 0 ELSE js[n].usage + sum[n - 1]
    IN sum[Len(js)]

\* Nobody is left to pay for work nobody waits for: when a request has ended, every job a
\* server still runs for it is the one handed over to a later run.  The exceptions are a
\* suspended response a predicate rejected (fallback.go:190) and a job that came with the
\* history of an agent without the chain, which a failing candidate passes over.
JobsAccountedFor ==
    place = "ended" =>
        \A j \in DOMAIN jobs : jobs[j].state = "running" =>
            j \in rejected \union foreign \/ (outcome = "suspended" /\ detached.id = j)

\* Nothing is counted twice across the runs of a conversation, whatever is resumed, polled,
\* replaced, rejected or left in between; and a run that was not left and whose responses
\* were not replaced counts everything its providers billed.  The exception is the poll of
\* a job from an unpinned history that a predicate rejects: the attempt reports the usage
\* of the whole job, and what an earlier run counted of it is counted again.
UsageCountedOnce ==
    LET total == counted + IF outcome = "suspended" THEN Snapshot ELSE usage
    IN  rejected \intersect foreign = {} =>
        /\ outcome \in {"result", "suspended"} => total <= Billed(jobs)
        /\ outcome = "result" /\ run = 1 /\ ~replaced => total = Billed(jobs)

\* Every request ends, however long its providers keep answering that they are not done.
RequestEnds == place # "ended" ~> place = "ended"
=============================================================================
