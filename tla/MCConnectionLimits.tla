------------------------- MODULE MCConnectionLimits -------------------------
(* TLC instances of ConnectionLimits. *)
EXTENDS ConnectionLimits, TLC

Symmetry == Permutations(Threads) \cup Permutations(IPs)
=============================================================================
