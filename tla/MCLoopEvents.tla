----------------------------- MODULE MCLoopEvents -----------------------------
(***************************************************************************)
(* The run loop and the queue of its events, checked side by side: `part'  *)
(* is chosen once and for all, and the variables of the other component    *)
(* keep their initial values.                                              *)
(***************************************************************************)
EXTENDS MCEventQueue, MCRunLoop

VARIABLE part

allVars == <<part, vars, loopVars>>

PartsInit == part \in {"loop", "events"} /\ Init /\ LoopInit /\ (part = "events" => conf = Plain)

\* Only the loop is expected to go on until it has ended.
PartsNext ==
    \/ part = "loop" /\ LoopNext /\ UNCHANGED <<part, vars>>
    \/ part = "events" /\ Next /\ UNCHANGED <<part, loopVars>>
    \/ part = "events" /\ UNCHANGED allVars

PartsSpec == PartsInit /\ [][PartsNext]_allVars
=============================================================================
