-------------------------- MODULE MCNodeAllocator --------------------------
(* NodeAllocator for TLC: which worker is which does not matter. *)
EXTENDS NodeAllocator

Symmetry == Permutations(Hands)
=============================================================================
