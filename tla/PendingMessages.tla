--------------------------- MODULE PendingMessages ---------------------------
(***************************************************************************)
(* Messages enqueued while a run is in progress: the pending message queue *)
(* of src/ai/enqueue.go, and what the run loop of src/ai/loop.go does with *)
(* it at every model request, at every way a run can end, and in the next  *)
(* run of the conversation.                                                *)
(*                                                                         *)
(* Producers are any goroutines holding a RunContext or the AgentRun; they *)
(* interleave with every step of the loop.  What the model and the tools   *)
(* answer is a choice: only the places where the loop touches the queue,   *)
(* the history or the outcome are kept.                                    *)
(*                                                                         *)
(* A history is a sequence of entries: the responses, each with the queue  *)
(* persisted in its metadata, and the enqueued messages.  The other        *)
(* requests are left out: nothing about the queue depends on them.         *)
(***************************************************************************)
EXTENDS Naturals, Sequences, SequencesExt

CONSTANTS
    Asap,          \* messages enqueued with PendingMessageASAP
    WhenIdle,      \* messages enqueued with PendingMessageWhenIdle, disjoint from Asap
    MaxResponses,  \* bound: model responses in one run
    MaxRuns        \* bound: runs of the conversation

Msgs == Asap \cup WhenIdle

VARIABLES
    pc,         \* where the run loop is
    history,    \* r.messages
    queue,      \* pendingMessages.pending, by priority
    closed,     \* pendingMessages.closed
    groups,     \* drained and not yet delivered: local to the delivering loop
    resolving,  \* r.deferredResults # nil
    cancelled,  \* the run's context is cancelled with ErrRunCancelled
    out,        \* how the run is ending, or how the last one ended
    mine,       \* messages accepted by or restored into this run
    saved,      \* the history the application holds
    responses, runs,  \* counters, for the bounds
    turn,       \* when each message was accepted, 0 for never
    accepted    \* how many messages were accepted

pendingVars == <<pc, history, queue, closed, groups, resolving, cancelled, out, mine, saved,
                 responses, runs, turn, accepted>>

loopVars == <<history, queue, closed, groups, resolving>>
envVars  == <<cancelled, mine, saved, runs, turn, accepted>>

Outs == {"none", "result", "deferred", "failed", "cancelled", "recovered", "panicked"}

-----------------------------------------------------------------------------
(* The queue.  One slice in the code, here a sequence for each priority: what   *)
(* is drained, delivered and restored depends on the order within a priority    *)
(* only.                                                                        *)

Priorities  == {"asap", "idle"}
Priority(m) == IF m \in Asap THEN "asap" ELSE "idle"

Queues == [Priorities -> Seq(Msgs)]
Empty  == [p \in Priorities |-> <<>>]
Waiting(q) == ToSet(q["asap"]) \cup ToSet(q["idle"])

Response    == [kind |-> "response", waiting |-> Empty]
Enqueued(m) == [kind |-> "enqueued", message |-> m]

Deliveries(h) == {i \in DOMAIN h : h[i].kind = "enqueued"}
Responses(h)  == {i \in DOMAIN h : h[i].kind = "response"}
Keyed(h)      == {i \in Responses(h) : h[i].waiting # Empty}
Latest(S)     == CHOOSE i \in S : \A j \in S : j <= i

Delivered(h) == {h[i].message : i \in Deliveries(h)}
Carried(h)   == UNION {Waiting(h[i].waiting) : i \in Responses(h)}

\* The history with another queue in the metadata of its i-th entry, a response.
Carrying(h, i, q) == [h EXCEPT ![i].waiting = q]

\* persistPendingMessages: the queue goes into the last response's metadata.
\* The search for that response has no lower bound: without one it panics.
CanPersist(h) == queue = Empty \/ Responses(h) # {}
Persist(h) ==
    IF queue = Empty THEN h ELSE Carrying(h, Latest(Responses(h)), queue)

\* restorePendingMessages: the last response with persisted messages.
Restored(h) == IF Keyed(h) = {} THEN Empty ELSE h[Latest(Keyed(h))].waiting
Stripped(h) == IF Keyed(h) = {} THEN h ELSE Carrying(h, Latest(Keyed(h)), Empty)

\* drain(priority ASAP)
DrainAsap ==
    /\ groups' = queue["asap"]
    /\ queue' = [queue EXCEPT !["asap"] = <<>>]

\* Mutant: the queue is closed by a later step.
DrainForRedirectOpen ==
    /\ groups' = queue["asap"] \o queue["idle"]
    /\ queue' = Empty
    /\ UNCHANGED closed

\* drainForRedirect: everything, ASAP first; an empty queue is closed.
DrainForRedirect ==
    /\ groups' = queue["asap"] \o queue["idle"]
    /\ queue' = Empty
    /\ closed' = (queue = Empty)

-----------------------------------------------------------------------------
(* Producers *)

\* Enqueue, EnqueueWhenIdle: add under the queue's mutex.  A closed queue
\* refuses, and nothing changes.
Enqueue(m) ==
    /\ pc # "idle" /\ out # "panicked" /\ turn[m] = 0 /\ ~closed
    /\ queue' = [queue EXCEPT ![Priority(m)] = Append(@, m)]
    /\ mine' = mine \cup {m}
    /\ accepted' = accepted + 1
    /\ turn' = [turn EXCEPT ![m] = accepted + 1]
    /\ UNCHANGED <<pc, history, closed, groups, resolving, cancelled, out, saved, responses, runs>>

\* Cancel, from any goroutine, while the run is active.
CancelRun ==
    /\ pc \notin {"idle", "ended"} /\ ~cancelled /\ out # "panicked"
    /\ cancelled' = TRUE
    /\ UNCHANGED <<pc, loopVars, out, mine, saved, responses, runs, turn, accepted>>

-----------------------------------------------------------------------------
(* The run loop *)

\* newRun: restore the persisted messages.  The run may
\* come with results for the calls the last run deferred.
StartRun ==
    /\ pc \in {"idle", "ended"} /\ out # "panicked" /\ runs < MaxRuns
    /\ pc' = "loop"
    /\ queue' = Restored(saved)
    /\ history' = Stripped(saved)
    /\ closed' = FALSE /\ groups' = <<>> /\ cancelled' = FALSE
    /\ resolving' \in IF out = "deferred" THEN BOOLEAN ELSE {FALSE}
    /\ out' = "none"
    /\ mine' = Waiting(Restored(saved))
    /\ responses' = 0
    /\ runs' = runs + 1
    /\ UNCHANGED <<saved, turn, accepted>>

\* The loop leaves with an error.
Leave(why) == pc' = "unwind" /\ out' = why

\* The top of the loop and the first delivery of modelRequest.
LoopTop ==
    /\ pc = "loop"
    /\ IF cancelled
       THEN /\ Leave("cancelled")
            /\ UNCHANGED loopVars
       ELSE /\ UNCHANGED <<history, closed, resolving, out>>
            /\ IF resolving
               THEN pc' = "prepare" /\ UNCHANGED <<queue, groups>>
               ELSE pc' = "deliver" /\ DrainAsap
    /\ UNCHANGED <<envVars, responses>>

\* Mutant: the messages still to deliver go back into the queue when the
\* consumer stops, behind those that arrived since.
DeliverGroupRequeue(next) ==
    /\ groups # <<>>
    /\ history' = Append(history, Enqueued(Head(groups)))
    /\ \/ groups' = Tail(groups) /\ UNCHANGED <<pc, out, queue>>
       \/ groups' = <<>> /\ Leave("failed")
          /\ queue' = [p \in Priorities |->
                          queue[p] \o SelectSeq(groups, LAMBDA m : Priority(m) = p)]

\* deliverPendingMessageGroups: append one group, then emit its event.  When
\* the consumer has stopped the rest is dropped and the run fails.
DeliverGroup(next) ==
    /\ groups # <<>>
    /\ history' = Append(history, Enqueued(Head(groups)))
    /\ UNCHANGED queue
    /\ \/ groups' = Tail(groups) /\ UNCHANGED <<pc, out>>
       \/ groups' = <<>> /\ Leave("failed")

DeliveryDone(next) ==
    /\ groups = <<>> /\ pc' = next
    /\ UNCHANGED <<history, queue, groups, out>>

Deliver ==
    /\ \E step \in {<<"deliver", "prepare">>, <<"deliverAgain", "request">>,
                    <<"redirect", "loop">>} :
          pc = step[1] /\ (DeliverGroup(step[2]) \/ DeliveryDone(step[2]))
    /\ UNCHANGED <<closed, resolving, envVars, responses>>

\* Selecting and opening the model and preparing its parameters may fail; then
\* the second delivery.  Deferred results that leave calls unresolved end the
\* run deferred again, without a request.
Prepare ==
    /\ pc = "prepare"
    /\ \/ Leave("failed") /\ UNCHANGED loopVars
       \/ /\ resolving /\ pc' = "defer" /\ resolving' = FALSE
          /\ UNCHANGED <<history, queue, closed, groups, out>>
       \/ /\ pc' = "deliverAgain" /\ DrainAsap /\ resolving' = FALSE
          /\ UNCHANGED <<history, closed, out>>
    /\ UNCHANGED <<envVars, responses>>

\* The model answers, fails, or a hook asks for a retry (with or without the
\* response in the history).
ModelRequest ==
    /\ pc = "request"
    /\ \/ Leave("failed") /\ UNCHANGED <<history, responses>>
       \/ /\ responses < MaxResponses /\ responses' = responses + 1
          /\ \/ history' = Append(history, Response) /\ pc' = "answered"
             \/ history' = Append(history, Response) /\ pc' = "loop"
             \/ UNCHANGED history /\ pc' = "loop"
          /\ UNCHANGED out
    /\ UNCHANGED <<queue, closed, groups, resolving, envVars>>

\* Tool calls run and their results are appended, a retry prompt is recorded,
\* or an error ends the run.
Continue ==
    /\ pc = "answered"
    /\ \/ Leave("failed")
       \/ ~cancelled /\ pc' = "loop" /\ UNCHANGED out
       \/ cancelled /\ Leave("cancelled")
    /\ UNCHANGED <<loopVars, envVars, responses>>

\* The response is final: finish, unless something is pending.
Finish ==
    /\ pc = "answered"
    /\ DrainForRedirect
    /\ IF queue = Empty THEN Leave("result") ELSE pc' = "redirect" /\ UNCHANGED out
    /\ UNCHANGED <<history, resolving, envVars, responses>>

\* Some tool calls stay deferred.
DeferCalls ==
    /\ pc = "answered"
    /\ pc' = "defer"
    /\ UNCHANGED <<loopVars, out, envVars, responses>>

\* deferredResult, called by the loop.
DeferResult ==
    /\ pc = "defer"
    /\ IF CanPersist(history)
       THEN history' = Persist(history) /\ Leave("deferred")
       ELSE out' = "panicked" /\ UNCHANGED <<pc, history>>
    /\ UNCHANGED <<queue, closed, groups, resolving, envVars, responses>>

\* The run hooks of wrappedLoop: an error hook may turn an error into an
\* outcome, an after hook an outcome into an error.
Unwind ==
    /\ pc = "unwind"
    /\ pc' = "conclude"
    /\ \/ out \in {"failed", "cancelled"} /\ out' \in {out, "recovered"}
       \/ out \in {"result", "deferred"} /\ out' \in {out, "failed"}
    /\ UNCHANGED <<loopVars, envVars, responses>>

\* Mutant: the cancelled run returns its messages without the queue.
ConcludeRunForgetful ==
    /\ pc = "conclude"
    /\ out' = IF cancelled THEN "cancelled" ELSE out
    /\ pc' = "close" /\ UNCHANGED history
    /\ UNCHANGED <<queue, closed, groups, resolving, envVars, responses>>

\* The end of wrappedLoop: cancellation prevails over every outcome.
ConcludeRun ==
    /\ pc = "conclude"
    /\ LET verdict == IF cancelled THEN "cancelled" ELSE out IN
       IF verdict \notin {"cancelled", "deferred"}
       THEN out' = verdict /\ pc' = "close" /\ UNCHANGED history
       ELSE IF CanPersist(history)
            THEN out' = verdict /\ pc' = "close" /\ history' = Persist(history)
            ELSE out' = "panicked" /\ UNCHANGED <<pc, history>>
    /\ UNCHANGED <<queue, closed, groups, resolving, envVars, responses>>

\* closeRunResources, after wrappedLoop has returned.
CloseRun ==
    /\ pc = "close"
    /\ closed' = TRUE
    /\ pc' = "ended"
    /\ saved' = IF out = "failed" THEN saved ELSE history
    /\ UNCHANGED <<history, queue, groups, resolving, cancelled, out, mine, responses, runs,
                   turn, accepted>>

PendingInit ==
    /\ pc = "idle" /\ out = "none"
    /\ history = <<>> /\ queue = Empty /\ groups = <<>> /\ saved = <<>>
    /\ closed = FALSE /\ resolving = FALSE /\ cancelled = FALSE
    /\ mine = {} /\ responses = 0 /\ runs = 0
    /\ turn = [m \in Msgs |-> 0] /\ accepted = 0

LoopStep ==
    /\ out # "panicked"
    /\ \/ LoopTop \/ Deliver \/ Prepare \/ ModelRequest \/ Continue \/ Finish
       \/ DeferCalls \/ DeferResult \/ Unwind \/ ConcludeRun \/ CloseRun

PendingNext == StartRun \/ LoopStep \/ CancelRun \/ \E m \in Msgs : Enqueue(m)

PendingSpec == PendingInit /\ [][PendingNext]_pendingVars

-----------------------------------------------------------------------------
(* Properties *)

Entries == [kind : {"response"}, waiting : Queues] \cup [kind : {"enqueued"}, message : Msgs]

PendingTyped ==
    /\ pc \in {"idle", "loop", "deliver", "prepare", "deliverAgain", "request", "answered",
               "redirect", "defer", "unwind", "conclude", "close", "ended"}
    /\ out \in Outs
    /\ history \in Seq(Entries) /\ saved \in Seq(Entries)
    /\ queue \in Queues /\ groups \in Seq(Msgs)
    /\ closed \in BOOLEAN /\ resolving \in BOOLEAN /\ cancelled \in BOOLEAN
    /\ mine \subseteq Msgs
    /\ responses \in Nat /\ runs \in Nat
    /\ accepted \in Nat /\ turn \in [Msgs -> Nat]
    /\ groups # <<>> => pc \in {"deliver", "deliverAgain", "redirect"}

\* A run that finishes with a result has delivered every message it accepted
\* or restored: no producer was told "accepted" for nothing, although it may
\* enqueue at any moment of the final drain (drainForRedirect, enqueue.go:176).
ResultDeliversAll ==
    pc = "ended" /\ out = "result" => mine \subseteq Delivered(history)

\* Messages waiting when a run ended deferred or cancelled reach the next run:
\* what was in the queue when the run was concluded is delivered or carried by
\* the history the caller gets (persistPendingMessages, enqueue.go:225).
\* Only messages accepted after that step may be missing.
HandedOn(h) == Delivered(h) \cup Carried(h)
ConcludeStep ==
    ConcludeRun /\ out' \in {"deferred", "cancelled"} => Waiting(queue) \subseteq HandedOn(history')
ConcludeKeepsQueue == [][ConcludeStep]_pendingVars

\* What is accepted is delivered once and in order, across deferrals,
\* cancellations, failures and resumptions: the messages of one priority enter
\* a history in the order of their acceptance, none of them twice, and what is
\* still to be delivered, waiting in the queue or carried by a response of the
\* conversation, has not been delivered (deliverPendingMessageGroups,
\* persistPendingMessages, restorePendingMessages; enqueue.go:194-308).
Earlier(m, n) == Priority(m) = Priority(n) => turn[m] < turn[n]
Ascending(h) == \A i, j \in Deliveries(h) : i < j => Earlier(h[i].message, h[j].message)
OnceInOrder ==
    /\ \A h \in {history, saved} :
          /\ Ascending(h)
          /\ Delivered(h) \cap Carried(h) = {}
          /\ \A i, j \in Keyed(h) : i = j
    /\ Delivered(history) \cap (Waiting(queue) \cup ToSet(groups)) = {}

\* The comment at enqueue.go:241: the queue is reachable only from a run
\* context created after a model response, so persisting always finds one.
PersistFindsResponse == out # "panicked"
=============================================================================
