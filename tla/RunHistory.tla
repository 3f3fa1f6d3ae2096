----------------------------- MODULE RunHistory -----------------------------
(***************************************************************************)
(* The message history of a conversation, through its runs (src/ai/loop.go *)
(* from the history a run is started with to the messages it leaves),      *)
(* through the edits of the caller that stores it, and through the         *)
(* repairs made of it: dropping orphaned tool results, answering dangling  *)
(* calls, merging adjacent messages, and, in what a provider is sent,      *)
(* ordering results by call and fitting call IDs (src/ai/tool_call_ids.go) *)
(*                                                                         *)
(* A part of a response is the ID of a tool call; a part of a request is   *)
(* the ID of the call it is a result of, or a prompt.                      *)
(***************************************************************************)
EXTENDS Naturals, FiniteSets, SequencesExt

CONSTANTS
    Ids,            \* tool call IDs of the providers, positive numbers
    FittingIds,     \* those of the length a profile demands
    Capacity,       \* IDs of that length, 1..Capacity
    MaxMessages,    \* bound: messages of a history that is asked about
    MaxRuns,        \* bound: runs of the conversation
    MaxEdits        \* bound: edits of the stored history

Prompt == 0

VARIABLES
    history,        \* the messages of the run, or as the caller stores them
    anonymous,      \* responses name no model or provider
    repeated,       \* the provider has used an ID a second time
    deferred,       \* calls the last run left to the caller
    sent,           \* the messages the provider was sent last
    runs, edits,    \* runs and edits so far
    cut,            \* what the history has lost: none, request (parts), response (parts)
    split,          \* results of a response are in two requests
    pc              \* where it is: rest (at the caller), model, tools

vars == <<history, anonymous, repeated, deferred, sent, runs, edits, cut, split, pc>>

conversation == <<anonymous, repeated>>

Request(parts)  == [kind |-> "request", parts |-> parts]
Response(calls) == [kind |-> "response", parts |-> calls]

IsResponse(m) == m.kind = "response"
IsResult(p)   == p # Prompt
Count(s, x)   == Cardinality({i \in DOMAIN s : s[i] = x})
Distinct(s)   == FoldLeft(LAMBDA acc, x : IF Contains(acc, x) THEN acc ELSE Append(acc, x), <<>>, s)

(* ---- repairs of a history ---------------------------------------------- *)

\* dropOrphanedToolResults: a result without an earlier call of its ID goes, and so does a
\* request without parts, unless it is the last.
Dropped(h) ==
    LET Issued(i) == UNION {ToSet(h[j].parts) : j \in {k \in 1..(i - 1) : IsResponse(h[k])}}
        Kept(i)   == IF IsResponse(h[i]) THEN h[i]
                     ELSE Request(SelectSeq(h[i].parts,
                                            LAMBDA p : ~IsResult(p) \/ p \in Issued(i)))
        kept      == [i \in DOMAIN h |-> Kept(i)]
    IN  IF h = <<>> THEN h
        ELSE SelectSeq(Front(kept), LAMBDA m : IsResponse(m) \/ m.parts # <<>>) \o <<Last(kept)>>

\* Mutant: a result after a later response answers an earlier call.
DanglingToTheEnd(h, i) ==
    LET Answered(c) == \E j \in (i + 1)..Len(h) : ~IsResponse(h[j]) /\ Contains(h[j].parts, c)
    IN  IF IsResponse(h[i]) THEN SelectSeq(h[i].parts, LAMBDA c : ~Answered(c)) ELSE <<>>

\* repairDanglingToolCalls: the calls of response i without a result before the next response
\* that makes a call of the same ID.
Dangling(h, i) ==
    LET calls      == h[i].parts
        Shadows(c) == {j \in (i + 1)..Len(h) : IsResponse(h[j]) /\ Contains(h[j].parts, c)}
        Window(c)  == {j \in (i + 1)..Len(h) : ~IsResponse(h[j]) /\ \A s \in Shadows(c) : j < s}
        Results(c) == Cardinality({<<j, p>> \in Window(c) \X (1..Cardinality(Ids) + 1) :
                                     p \in DOMAIN h[j].parts /\ h[j].parts[p] = c})
        Open(p)    == Count(SubSeq(calls, 1, p), calls[p]) > Results(calls[p])
        open       == SetToSortSeq({p \in DOMAIN calls : Open(p)}, <)
    IN  IF IsResponse(h[i]) THEN [k \in DOMAIN open |-> calls[open[k]]] ELSE <<>>

AfterResults(parts, interrupted) ==
    LET at == SelectLastInSeq(parts, IsResult)
    IN  SubSeq(parts, 1, at) \o interrupted \o SubSeq(parts, at + 1, Len(parts))

\* An interrupted result goes into the request that follows the response, into one of its
\* own before the next response, or is left for the request to come.
Repaired(h) ==
    LET Before(i) == IF i = 1 THEN <<>> ELSE Dangling(h, i - 1)
    IN  FlattenSeq([i \in DOMAIN h |->
            IF ~IsResponse(h[i]) THEN <<Request(AfterResults(h[i].parts, Before(i)))>>
            ELSE IF Before(i) # <<>> THEN <<Request(Before(i)), h[i]>> ELSE <<h[i]>>])

Interrupted(h) == IF h = <<>> THEN <<>> ELSE Dangling(h, Len(h))

\* mergeConsecutiveMessages: the results of two requests come before their prompts, and
\* responses are joined unless one of them names a model or a provider.
Joined(parts) == SelectSeq(parts, IsResult) \o SelectSeq(parts, LAMBDA p : ~IsResult(p))

Merged(h, joinResponses) ==
    LET Add(acc, m) ==
            IF acc = <<>> \/ Last(acc).kind # m.kind \/ (IsResponse(m) /\ ~joinResponses)
            THEN Append(acc, m)
            ELSE Append(Front(acc),
                        IF IsResponse(m) THEN Response(Last(acc).parts \o m.parts)
                        ELSE Request(Joined(Last(acc).parts \o m.parts)))
    IN  FoldLeft(Add, <<>>, h)

\* RepairMessages (src/ai/history_repair.go).
Closed(h) == IF Interrupted(h) = <<>> THEN Repaired(h)
             ELSE Append(Repaired(h), Request(Interrupted(h)))

RepairMessages(h, preserveLastResponse) ==
    LET dropped == Dropped(h)
        last    == SelectLastInSeq(dropped, IsResponse)
    IN  Merged(IF preserveLastResponse /\ last > 0
               THEN Closed(SubSeq(dropped, 1, last - 1)) \o SubSeq(dropped, last, Len(dropped))
               ELSE Closed(dropped),
               anonymous)

\* unresolvedToolCalls: a result answers the latest open call of its ID.
Unresolved(h) ==
    LET Answer(open, p) == LET at == SelectLastInSeq(open, LAMBDA c : c = p)
                           IN  IF at = 0 THEN open ELSE RemoveAt(open, at)
        Pass(open, m) == IF IsResponse(m) THEN open \o m.parts
                         ELSE FoldLeft(Answer, open, m.parts)
    IN  FoldLeft(Pass, <<>>, h)

(* ---- what a provider is sent ------------------------------------------- *)

\* orderToolResultsByCall: the results in the request after a response trade places.
OrderedAfter(calls, parts) ==
    LET answers == SelectSeq(parts, LAMBDA p : Contains(calls, p))
        slots   == SetToSortSeq({i \in DOMAIN parts : Contains(calls, parts[i])}, <)
        sorted  == FlattenSeq([k \in DOMAIN Distinct(calls) |->
                       SelectSeq(answers, LAMBDA p : p = Distinct(calls)[k])])
    IN  [i \in DOMAIN parts |->
            IF Contains(slots, i) THEN sorted[Cardinality({s \in ToSet(slots) : s <= i})]
            ELSE parts[i]]

\* Mutant: results are sent in the order they are stored in.
AsStored(h) == h

Ordered(h) ==
    [i \in DOMAIN h |->
        IF i > 1 /\ ~IsResponse(h[i]) /\ IsResponse(h[i - 1])
        THEN Request(OrderedAfter(h[i - 1].parts, h[i].parts)) ELSE h[i]]

\* fitToolCallIDs: the replacements of the IDs, in the order of the history.
Fitted(ids) ==
    LET Fit(id, k) == IF k = 0 /\ id \in FittingIds THEN id ELSE ((id + k) % Capacity) + 1
        Assign(taken, id) ==
            LET first == CHOOSE k \in 0..Capacity : ~Contains(taken, Fit(id, k)) /\
                            \A j \in 0..(k - 1) : Contains(taken, Fit(id, j))
            IN  Append(taken, Fit(id, first))
    IN  FoldLeft(Assign, <<>>, ids)

Flat(h)     == FlattenSeq([i \in DOMAIN h |-> h[i].parts])
CallIds(h)  == Distinct(SelectSeq(Flat(h), IsResult))
Sendable(h) == Len(CallIds(h)) <= Capacity

\* prepareModelMessages, of an ordinary model.
Sent(h) ==
    LET ids     == CallIds(h)
        fitted  == Fitted(ids)
        IdOf(p) == IF IsResult(p) THEN fitted[SelectInSeq(ids, LAMBDA x : x = p)] ELSE p
        ordered == Ordered(h)
    IN  [i \in DOMAIN h |-> [kind |-> h[i].kind,
            parts |-> [k \in DOMAIN ordered[i].parts |-> IdOf(ordered[i].parts[k])]]]

(* ---- a run --------------------------------------------------------------- *)

Init ==
    /\ history = <<>> /\ anonymous \in BOOLEAN /\ repeated = FALSE
    /\ deferred = {} /\ sent = <<>>
    /\ runs = 0 /\ edits = 0 /\ cut = "none" /\ split = FALSE /\ pc = "rest"

\* modelRequest: the model is asked, or the history does not fit its profile.
Ask(h) ==
    /\ Len(h) < MaxMessages
    /\ history' = h
    /\ IF Sendable(h) THEN sent' = Sent(h) /\ pc' = "model" ELSE UNCHANGED sent /\ pc' = "rest"

Stop(h) == history' = h /\ pc' = "rest" /\ UNCHANGED sent

\* A run with a prompt: the history is repaired, and the results of calls it ends with come
\* before the prompt.
StartRun ==
    /\ pc = "rest"
    /\ LET dropped == Dropped(history)
       IN  Ask(Append(Merged(Repaired(dropped), anonymous),
                      Request(Interrupted(dropped) \o <<Prompt>>)))
    /\ runs < MaxRuns /\ runs' = runs + 1
    /\ deferred' = {}
    /\ UNCHANGED <<conversation, edits, cut, split>>

\* A run with the results of the calls the last one deferred, which must be the unresolved
\* ones.  Some of the calls may be deferred once more: no model is asked then.
ResumeDeferred ==
    /\ pc = "rest" /\ deferred # {}
    /\ LET h       == Merged(Dropped(history), anonymous)
           pending == Unresolved(h)
       IN  IF Len(pending) # Cardinality(ToSet(pending)) \/ ToSet(pending) # deferred
           THEN Stop(history) /\ deferred' = {}
           ELSE \E again \in SUBSET deferred :
                LET results == SelectSeq(pending, LAMBDA c : c \notin again)
                IN  /\ deferred' = again
                    /\ IF again = {} THEN Ask(Append(h, Request(Append(results, Prompt))))
                       ELSE Stop(IF results = <<>> THEN h ELSE Append(h, Request(results)))
    /\ runs < MaxRuns /\ runs' = runs + 1
    /\ split' = (split \/ (history # <<>> /\ ~IsResponse(Last(history))))
    /\ UNCHANGED <<conversation, edits, cut>>

\* The response is final: the run ends, or its output is refused and the model asked again.
Finish ==
    /\ pc = "model"
    /\ LET answered == Append(history, Response(<<>>))
       IN  Stop(answered) \/ Ask(Append(answered, Request(<<Prompt>>)))
    /\ UNCHANGED <<conversation, deferred, runs, edits, cut, split>>

\* A hook refuses the request: the model is asked again, by another one.
Refuse ==
    /\ pc = "model" /\ Ask(Append(history, Request(<<Prompt>>)))
    /\ UNCHANGED <<conversation, deferred, runs, edits, cut, split>>

Respond ==
    /\ pc = "model" /\ Len(history) < MaxMessages
    /\ \E used \in SUBSET Ids : \E calls \in SetToSeqs(used) :
         /\ used # {} /\ Cardinality(used) <= 2
         /\ repeated' = (repeated \/ used \intersect ToSet(Flat(history)) # {})
         /\ history' = Append(history, Response(calls))
    /\ pc' = "tools"
    /\ UNCHANGED <<anonymous, deferred, sent, runs, edits, cut, split>>

Called == Last(history).parts

\* executeCalls and handleDeferredToolCalls: the calls that are not deferred are answered
\* in their order, and then those of the others a capability resolves.
Execute ==
    /\ pc = "tools"
    /\ \E left \in SUBSET ToSet(Called) : \E resolved \in SUBSET left :
         LET results == SelectSeq(Called, LAMBDA c : c \notin left)
                        \o SelectSeq(Called, LAMBDA c : c \in resolved)
             h == IF results = <<>> THEN history ELSE Append(history, Request(results))
         IN  /\ deferred' = left \ resolved
             /\ IF deferred' = {} THEN Ask(h) \/ Stop(h) ELSE Stop(h)
    /\ UNCHANGED <<conversation, runs, edits, cut, split>>

\* The run is cancelled among its calls, or ends with an error.
CancelTools ==
    /\ pc = "tools"
    /\ \E answered \in SUBSET ToSet(Called) :
         Stop(Append(history, Request(SelectSeq(Called, LAMBDA c : c \in answered))))
    /\ UNCHANGED <<conversation, deferred, runs, edits, cut, split>>

FailRun ==
    /\ pc \in {"model", "tools"} /\ Stop(history)
    /\ UNCHANGED <<conversation, deferred, runs, edits, cut, split>>

(* ---- the caller ----------------------------------------------------------- *)

Edit == pc = "rest" /\ edits < MaxEdits /\ edits' = edits + 1

\* A client stores the results of a response in the order in which the tools completed.
Reorder ==
    /\ Edit
    /\ \E i \in DOMAIN history : \E k \in 2..Len(history[i].parts) :
         /\ ~IsResponse(history[i])
         /\ IsResult(history[i].parts[k - 1]) /\ IsResult(history[i].parts[k])
         /\ history' = [history EXCEPT ![i].parts[k] = history[i].parts[k - 1],
                                       ![i].parts[k - 1] = history[i].parts[k]]
    /\ UNCHANGED <<conversation, deferred, sent, runs, cut, split, pc>>

\* The history is cut: a message or a result is lost.
Cut ==
    /\ Edit
    /\ \E i \in DOMAIN history :
         /\ \/ history' = RemoveAt(history, i)
            \/ \E k \in DOMAIN history[i].parts :
                 history' = [history EXCEPT ![i].parts = RemoveAt(@, k)]
         /\ cut' = IF cut = "response" THEN cut ELSE history[i].kind
    /\ UNCHANGED <<conversation, deferred, sent, runs, split, pc>>

\* The caller repairs it with RepairMessages.
Repair ==
    /\ Edit
    /\ \E preserve \in BOOLEAN : history' = RepairMessages(history, preserve)
    /\ UNCHANGED <<conversation, deferred, sent, runs, cut, split, pc>>

Next == StartRun \/ ResumeDeferred \/ Finish \/ Refuse \/ Respond \/ Execute \/ CancelTools
        \/ FailRun \/ Reorder \/ Cut \/ Repair

Spec == Init /\ [][Next]_vars

(* ---- properties ------------------------------------------------------- *)

TypeOK ==
    /\ \A i \in DOMAIN history : ToSet(history[i].parts) \subseteq Ids \cup {Prompt}
    /\ deferred \subseteq Ids /\ pc \in {"rest", "model", "tools"}

\* The results a provider finds between response i and the next one.
Answers(h, i) ==
    LET next == {j \in (i + 1)..Len(h) : IsResponse(h[j])}
        block == {j \in (i + 1)..Len(h) : \A n \in next : j < n}
    IN  SelectSeq(Flat(SubSeq(h, i + 1, i + Cardinality(block))), IsResult)

\* Providers refuse a call without a result, and a result without its call.
ProviderValid(h) ==
    /\ Answers(h, 0) = <<>>
    /\ \A i \in DOMAIN h : IsResponse(h[i]) =>
         \A id \in Ids : Count(Answers(h, i), id) = Count(h[i].parts, id)

\* Whatever ended the earlier runs, and whatever the caller did to their messages, a run
\* sends a history its provider accepts: every call is answered once before the next
\* response, with a result, a retry prompt or an interrupted result.  The exception is a
\* history that has lost a call and used its ID again: the result left over is taken for a
\* second result of the other call (loop.go:552).
Traceable == ~(repeated /\ cut = "response")

SentValid == pc = "model" /\ Traceable => ProviderValid(sent)

\* RepairMessages returns a provider-valid history (history_repair.go:9) that there is
\* nothing left to repair in, and a run finds nothing to drop from or to add to it.
RepairStable ==
    LET repaired == RepairMessages(history, FALSE)
    IN  Traceable => /\ ProviderValid(repaired)
                     /\ RepairMessages(repaired, FALSE) = repaired
                     /\ Dropped(repaired) = repaired /\ Interrupted(repaired) = <<>>

\* What a provider is sent only ever grows at its end, through retries, failed and cancelled
\* runs, repairs and clients that store results as they come, and replaced IDs stay what
\* they were: the provider finds the prefix in its cache (tool_call_ids.go:13, 65).  The
\* exceptions are a history that was cut and results split over two requests.
CacheStep == sent' # sent /\ cut = "none" /\ ~split => IsPrefix(Flat(sent), Flat(sent'))
CacheStable == [][CacheStep]_vars
=============================================================================
