------------------------ MODULE MCConcurrencyLimiter ------------------------
(* A small instance of ConcurrencyLimiter for TLC. *)
EXTENDS ConcurrencyLimiter

CONSTANTS o1, o2, o3, o4

MCOps == {o1, o2, o3, o4}
MCStreams == {o4}
MCWatched == {o3}   \* o1 and o2 are like it, and o4 acquires its slot alike
=============================================================================
