---------------------------- MODULE DeferredCalls ----------------------------
(***************************************************************************)
(* The calls of one model response that need an approval or are executed   *)
(* elsewhere (src/ai/loop.go, src/ai/deferred.go): how they are deferred   *)
(* by tools and by hooks, resolved by the handlers among the capabilities, *)
(* reported to the caller, answered by it in a later run, executed, and    *)
(* deferred once more.                                                     *)
(*                                                                         *)
(* Only function calls are considered: outputs, limits, barriers and       *)
(* cancellation are in ToolCalls, messages and reused IDs in RunHistory.   *)
(* A later run has the same tools and capabilities.                        *)
(***************************************************************************)
EXTENDS Integers

CONSTANTS
    Calls,        \* the calls of the response
    Deferrers,    \* what may defer a call besides its tool, in the instance
    HandlerCount, \* capabilities that are DeferredToolCallHandlers
    MaxResumes    \* bound: later runs

VARIABLES
    tool,         \* the definition of the tool of each call
    deferrer,     \* none, hook, or wrapper: no hook but a ToolValidationWrapper
    answered,     \* results of each call in r.messages
    kind,         \* DeferredToolKindsMetadataKey of the response in r.messages
    parts,        \* results of each call not yet in r.messages
    pending,      \* r.pendingDeferred: how each call is deferred
    resolution,   \* r.resolvingDeferred
    fate,         \* each call of the batch: todo, result, or how it was deferred
    handler,      \* handlers consulted
    at,           \* where the run is: tools, handlers, caller, model, failed
    resuming,     \* this run has deferred results
    kept,         \* the conversation the caller resumed
    resumes,      \* later runs so far
    credit,       \* history: approvals of each guarded call, less its executions
    lost          \* history: a handler made the loop retry, and results were lost

conversation == <<answered, kind, pending>>
ghosts       == <<credit, lost>>
deferralVars == <<tool, deferrer, conversation, parts, resolution, fate, handler, at, resuming,
                  kept, resumes, ghosts>>

Nowhere == [c \in Calls |-> "none"]
Zero    == [c \in Calls |-> 0]

\* Definitions that prepareModelParams does not reject.
Tools ==
    {t \in [external : BOOLEAN, approval : BOOLEAN, mayExternal : BOOLEAN, mayApproval : BOOLEAN] :
        /\ ~(t.external /\ (t.approval \/ t.mayApproval))
        /\ ~(t.approval /\ t.mayApproval)
        /\ ~(t.external /\ t.mayExternal)}

\* Calls that never run in the process unless approved.
Guarded(c) == tool[c].external \/ tool[c].approval

Deferred   == {c \in Calls : pending[c] # "none"}
Unresolved == {c \in Calls : answered[c] = 0}
Todo       == {c \in Calls : fate[c] = "todo"}

Snapshot == [answered |-> answered, kind |-> kind, pending |-> pending]

-----------------------------------------------------------------------------
(* Answers of a caller or a handler: results, and decisions *)

Answers == [Calls -> {"none", "result", "approved", "denied", "both"}]

\* The hooks a stored kind may come from.
HookDeferred(c) == kind[c] # "none" /\ deferrer = "hook"

Deferrable(c) ==
    \/ tool[c].external \/ tool[c].mayExternal
    \/ tool[c].approval \/ tool[c].mayApproval
    \/ HookDeferred(c)

Fits(c, answer) ==
    \/ answer = "none"
    \/ /\ answer = "result" /\ kind[c] # "approval"
       /\ HookDeferred(c) \/ tool[c].external \/ tool[c].mayExternal
    \/ /\ answer \in {"approved", "denied"} /\ kind[c] # "external"
       /\ HookDeferred(c) \/ tool[c].approval \/ tool[c].mayApproval

\* applyDeferredToolResults, up to the execution of what is selected.
Accepts(answer, asked, requireAll) ==
    /\ \A c \in Calls \ asked : answer[c] = "none"
    /\ \A c \in asked : Deferrable(c) /\ Fits(c, answer[c])
    /\ requireAll => \A c \in asked : answer[c] # "none"

Select(answer) ==
    /\ resolution' = answer
    /\ fate' = [c \in Calls |-> IF answer[c] # "none" THEN "todo" ELSE "none"]
    /\ credit' = [c \in Calls |->
                    credit[c] + (IF answer[c] = "approved" /\ Guarded(c) THEN 1 ELSE 0)]
    /\ at' = "tools"

-----------------------------------------------------------------------------
(* Executing a batch: the calls of the response, or those resolved *)

\* executeCall reaches callTool, also for an external tool whose call a hook had approved.
Local(c) ==
    \/ resolution[c] = "approved"
    \/ resolution[c] = "none" /\ ~Guarded(c)

Settled(c, how) == fate' = [fate EXCEPT ![c] = how]

InBatch(c) ==
    /\ at = "tools" /\ c \in Todo
    /\ UNCHANGED <<tool, deferrer, conversation, parts, resolution, handler, at, resuming, kept,
                   resumes, lost>>

Ran(set) == credit' = [c \in Calls |-> credit[c] - (IF c \in set /\ Guarded(c) THEN 1 ELSE 0)]

\* The result that was brought, a denial, or arguments that do not validate.
Resolve(c) == InBatch(c) /\ Settled(c, "result") /\ UNCHANGED credit

\* Validation hooks and wrappers come first, then the definition of the tool.
Defer(c) ==
    /\ InBatch(c) /\ UNCHANGED credit
    /\ \/ /\ deferrer \in {"hook", "wrapper"} /\ resolution[c] \in {"none", "approved"}
          /\ \E k \in {"external", "approval"} : Settled(c, k)
       \/ resolution[c] = "none" /\ tool[c].external /\ Settled(c, "external")
       \/ resolution[c] = "none" /\ tool[c].approval /\ Settled(c, "approval")

\* callTool: the tool returns, or it or a hook after it asks for a deferral.
CallTool(c) ==
    /\ InBatch(c) /\ Local(c)
    /\ Ran({c})
    /\ \/ Settled(c, "result")
       \/ (tool[c].mayExternal \/ deferrer = "hook") /\ Settled(c, "external")
       \/ (tool[c].mayApproval \/ deferrer = "hook") /\ Settled(c, "approval")

\* The run ends with an error; what the caller has is the conversation it came with.
Fail ==
    /\ at' = IF resuming THEN "caller" ELSE "failed"
    /\ answered' = kept.answered /\ kind' = kept.kind /\ pending' = kept.pending
    /\ parts' = Zero /\ resolution' = Nowhere /\ fate' = Nowhere
    /\ UNCHANGED <<tool, deferrer, handler, resuming, kept, resumes, lost>>

\* A call fails while others of its group run or have yet to, or the batch is over a limit.
BatchFails ==
    /\ at = "tools" /\ Fail
    /\ \E ran \in SUBSET {c \in Todo : Local(c)} : Ran(ran)

WasDeferred(c) == fate[c] \in {"external", "approval"}

\* Mutant: a kind that is stored already stays.
PersistedFirst == [c \in Calls |-> IF WasDeferred(c) /\ kind[c] = "none" THEN fate[c] ELSE kind[c]]

\* persistDeferredToolKinds
Persisted == [c \in Calls |-> IF WasDeferred(c) THEN fate[c] ELSE kind[c]]

\* Mutant: what was resolved remains.
RemainingAll == [c \in Calls |-> IF WasDeferred(c) THEN fate[c] ELSE pending[c]]

\* remainingDeferredToolRequests and appendDeferredToolRequests: what was not in the batch, and
\* what was deferred in it.
Remaining ==
    [c \in Calls |-> IF WasDeferred(c) THEN fate[c]
                     ELSE IF fate[c] = "none" THEN pending[c] ELSE "none"]

\* collectCallOutcomes, and what its callers make of the parts and the deferred calls.
Gather ==
    /\ at = "tools" /\ Todo = {}
    /\ kind' = Persisted /\ pending' = Remaining
    /\ parts' = [c \in Calls |-> parts[c] + (IF fate[c] = "result" THEN 1 ELSE 0)]
    /\ resolution' = Nowhere /\ fate' = Nowhere /\ at' = "handlers"
    /\ UNCHANGED <<tool, deferrer, answered, handler, resuming, kept, resumes, ghosts>>

-----------------------------------------------------------------------------
(* The handlers, one after the other *)

Consults == at = "handlers" /\ Deferred # {} /\ handler < HandlerCount

\* A handler leaves all to the others, or answers some.
Handle ==
    /\ Consults
    /\ \/ /\ handler' = handler + 1
          /\ UNCHANGED <<tool, deferrer, conversation, parts, resolution, fate, at, resuming,
                         kept, resumes, ghosts>>
       \/ \E answer \in Answers :
            \/ /\ Accepts(answer, Deferred, FALSE)
               /\ Select(answer) /\ handler' = handler + 1
               /\ UNCHANGED <<tool, deferrer, conversation, parts, resuming, kept, resumes, lost>>
            \/ ~Accepts(answer, Deferred, FALSE) /\ Fail /\ UNCHANGED credit

\* A handler fails.  With a RetryError in a resumed run, modelRequest returns it to the loop,
\* which asks the model at once: deferredResults is nil by then.
HandlerFails ==
    /\ Consults
    /\ \/ Fail /\ UNCHANGED credit
       \/ /\ resuming /\ at' = "model" /\ lost' = TRUE /\ parts' = Zero
          /\ UNCHANGED <<tool, deferrer, conversation, resolution, fate, handler, resuming, kept,
                         resumes, credit>>

\* The results enter the history; what is still deferred ends the run.
Conclude ==
    /\ at = "handlers" /\ (Deferred = {} \/ handler >= HandlerCount)
    /\ answered' = [c \in Calls |-> answered[c] + parts[c]] /\ parts' = Zero
    /\ at' = IF Deferred = {} THEN "model" ELSE "caller"
    /\ UNCHANGED <<tool, deferrer, kind, pending, resolution, fate, handler, resuming, kept,
                   resumes, ghosts>>

-----------------------------------------------------------------------------

\* A later run with answers, which must be complete.  It may also fail before it executes any.
Resume ==
    /\ at = "caller" /\ resumes < MaxResumes /\ resumes' = resumes + 1
    /\ \/ UNCHANGED <<tool, deferrer, conversation, parts, resolution, fate, handler, at,
                      resuming, kept, ghosts>>
       \/ \E answer \in Answers :
            /\ Accepts(answer, Unresolved, TRUE) /\ Select(answer)
            /\ kept' = Snapshot /\ pending' = Nowhere /\ handler' = 0 /\ resuming' = TRUE
            /\ UNCHANGED <<tool, deferrer, answered, kind, parts, lost>>

\* The model has answered with the calls.
DeferralInit ==
    /\ tool \in [Calls -> Tools] /\ deferrer \in Deferrers
    /\ answered = Zero /\ kind = Nowhere /\ pending = Nowhere /\ parts = Zero
    /\ resolution = Nowhere /\ fate = [c \in Calls |-> "todo"]
    /\ handler = 0 /\ at = "tools" /\ resuming = FALSE /\ kept = Snapshot /\ resumes = 0
    /\ credit = Zero /\ lost = FALSE

DeferralEnded ==
    /\ at \in {"model", "failed"} \/ (at = "caller" /\ resumes = MaxResumes)
    /\ UNCHANGED deferralVars

DeferralNext ==
    \/ \E c \in Calls : Resolve(c) \/ Defer(c) \/ CallTool(c)
    \/ BatchFails \/ Gather \/ Handle \/ HandlerFails \/ Conclude \/ Resume
    \/ DeferralEnded

DeferralSpec == DeferralInit /\ [][DeferralNext]_deferralVars

-----------------------------------------------------------------------------
(* Properties *)

Ways == {"none", "external", "approval"}

Conversations == [answered : [Calls -> Nat], kind : [Calls -> Ways], pending : [Calls -> Ways]]

\* The variables have their types, and a batch is under way only when tools run.
DeferralTyped ==
    /\ tool \in [Calls -> Tools]
    /\ answered \in [Calls -> Nat] /\ kind \in [Calls -> Ways] /\ pending \in [Calls -> Ways]
    /\ kept \in Conversations
    /\ parts \in [Calls -> Nat] /\ credit \in [Calls -> Int]
    /\ resolution \in [Calls -> {"none", "result", "approved", "denied"}]
    /\ fate \in [Calls -> Ways \cup {"todo", "result"}]
    /\ at \in {"tools", "handlers", "caller", "model", "failed"}
    /\ at # "tools" => fate = Nowhere
    /\ handler \in Nat /\ resumes \in Nat /\ resuming \in BOOLEAN /\ lost \in BOOLEAN

\* Whoever answered, and however often a call was deferred: when the model is asked again each
\* call of its response has one result, and when the caller is each has one result or is
\* reported, as the kind stored in the history.  A retry from a handler loses results
\* (handleDeferredToolCalls, prependLatestRequestParts, persistDeferredToolKinds).
EachCallOnce ==
    /\ at = "model" /\ ~lost => \A c \in Calls : answered[c] = 1
    /\ at = "caller" => \A c \in Calls :
          \/ answered[c] = 1 /\ pending[c] = "none"
          \/ answered[c] = 0 /\ pending[c] # "none" /\ kind[c] = pending[c]

\* Answers of the kinds the requests ask for, for any of the calls.
InKind(answer, asked) ==
    \A c \in Calls : answer[c] \in {"none"} \cup
        IF c \notin asked THEN {}
        ELSE IF pending[c] = "external" THEN {"result"} ELSE {"approved", "denied"}

\* Who answers as it was asked is not refused: a handler that answers any of the requests, and
\* a caller that answers all.  A tool that needs an approval, or is executed elsewhere, never
\* runs more often than its call was approved.  Calls a validation wrapper deferred are refused
\* (applyDeferredToolResults, executeCall).
DecisionsHonoured ==
    /\ deferrer # "wrapper" =>
          /\ at = "handlers" => \A answer \in Answers :
                InKind(answer, Deferred) => Accepts(answer, Deferred, FALSE)
          /\ at = "caller" => \A answer \in Answers :
                InKind(answer, Unresolved) /\ (\A c \in Unresolved : answer[c] # "none")
                    => Accepts(answer, Unresolved, TRUE)
    /\ \A c \in Calls : credit[c] >= 0
=============================================================================
