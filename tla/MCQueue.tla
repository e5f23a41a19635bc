------------------------------ MODULE MCQueue -------------------------------
(***************************************************************************)
(* A ring of two slots, as many blocks as slots, indices modulo 4: the     *)
(* indices wrap and the ring fills up, with two threads at each end.       *)
(***************************************************************************)
EXTENDS Queue, TLC

Symmetric == Permutations(Blocks) \cup Permutations(Producers) \cup Permutations(Consumers)
=============================================================================
