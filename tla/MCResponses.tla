----------------------------- MODULE MCResponses -----------------------------
(***************************************************************************)
(* What becomes of a model response, checked side by side: its tool calls, *)
(* the calls among them that are deferred and resolved, and the messages   *)
(* enqueued while it is handled.  `part' is chosen once and for all, and   *)
(* only the variables of that component are in use.                        *)
(***************************************************************************)
EXTENDS MCToolCalls, DeferredCalls, PendingMessages, TLC

CONSTANTS
    a1, a2, i1,  \* messages of PendingMessages
    c1, c2       \* calls of DeferredCalls

VARIABLE part

allVars == <<part, vars, pendingVars, deferralVars>>

MCAsap  == {a1, a2}
MCIdle  == {i1}
MCCalls == {c1, c2}
MCSymmetry == Permutations(MCAsap) \cup Permutations(MCCalls)

-----------------------------------------------------------------------------

NoDeferrals ==
    /\ deferrer = "none"
    /\ tool = [c \in Calls |-> [external |-> FALSE, approval |-> FALSE, mayExternal |-> FALSE,
                                mayApproval |-> FALSE]]

\* The variables of a part that is not in use keep one initial value.  A second response
\* is only asked for in runs without an event consumer.
PartsInit ==
    /\ part \in {"calls", "messages", "deferrals"}
    /\ Init /\ PendingInit /\ DeferralInit
    /\ part # "deferrals" => NoDeferrals
    /\ part # "calls" => agent.strategy = "early" /\ ~agent.serial /\ ~agent.streamed
                         /\ agent.size = [calls |-> 3, rounds |-> 1]
    /\ agent.size.rounds = 2 => ~agent.streamed

\* The messages may stop at any moment; the others go on until the run has ended.
PartsNext ==
    \/ part = "calls" /\ Next /\ UNCHANGED <<part, pendingVars, deferralVars>>
    \/ part = "messages" /\ PendingNext /\ UNCHANGED <<part, vars, deferralVars>>
    \/ part = "messages" /\ UNCHANGED allVars
    \/ part = "deferrals" /\ DeferralNext /\ UNCHANGED <<part, vars, pendingVars>>

PartsSpec == PartsInit /\ [][PartsNext]_allVars

-----------------------------------------------------------------------------
(* The variables of the components have their types; the other properties are in *)
(* the modules they come from.                                                   *)
TypesOK == TypeOK /\ PendingTyped /\ DeferralTyped
=============================================================================
