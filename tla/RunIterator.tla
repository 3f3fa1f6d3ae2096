----------------------------- MODULE RunIterator -----------------------------
(***************************************************************************)
(* What src/ai/agent_run.go promises to the goroutines that drive a run by *)
(* hand: Next hands out events while the run lasts, reports an error at    *)
(* most once, and says that the run is over only when Result and Err have  *)
(* their final values.                                                     *)
(***************************************************************************)
EXTENDS Naturals

VARIABLES
    delivered,  \* events Next has returned
    told,       \* what Next has said: open, failed (an error), over (ok is false)
    verdict     \* what Result and Err say: none, result, error, nothing (both nil)

vars == <<delivered, told, verdict>>

Init == delivered = 0 /\ told = "open" /\ verdict = "none"

\* Next returns an event.
Deliver ==
    /\ told = "open" /\ delivered' = delivered + 1
    /\ UNCHANGED <<told, verdict>>

\* The run ends: the outcome is published.
Settle ==
    /\ verdict = "none" /\ verdict' \in {"result", "error", "nothing"}
    /\ UNCHANGED <<delivered, told>>

\* Next returns an error, the only time it does.
Fail ==
    /\ told = "open" /\ verdict \notin {"none", "result"}
    /\ told' = "failed"
    /\ UNCHANGED <<delivered, verdict>>

\* Next returns ok = false and no error.
Over ==
    /\ verdict # "none" /\ told' = "over"
    /\ UNCHANGED <<delivered, verdict>>

Next == Deliver \/ Settle \/ Fail \/ Over

Spec == Init /\ [][Next]_vars
=============================================================================
