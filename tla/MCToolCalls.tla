----------------------------- MODULE MCToolCalls -----------------------------
(* Small instances of ToolCalls for TLC. *)
EXTENDS ToolCalls

MCAll == {"early", "graceful", "exhaustive"}
MCGraceful == {"graceful"}
MCAllKinds == {"plain", "barrier", "hidden", "output"}
MCPlain == {"plain"}
MCHidden == {"hidden"}
MCQuiet == {FALSE}
MCBoth == BOOLEAN
MCSizes == {[calls |-> 3, rounds |-> 1], [calls |-> 2, rounds |-> 2]}
MCSmall == {[calls |-> 2, rounds |-> 1]}
=============================================================================
