-------------------------- MODULE MCPendingMessages --------------------------
(* Small instances of PendingMessages for TLC. *)
EXTENDS PendingMessages

CONSTANTS a1, i1

MCIdle == {i1}
MCOneAsap == {a1}
=============================================================================
