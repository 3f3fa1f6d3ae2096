---------------------------- MODULE MCEventQueue ----------------------------
(* Small instances of EventQueue for TLC. *)
EXTENDS EventQueue, TLC

CONSTANTS t1, t2, o1

MCTools == {t1, t2}
MCOutside == {o1}
MCNobody == {}
MCSymmetry == Permutations(MCTools)
=============================================================================
