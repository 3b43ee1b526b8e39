---------------------------- MODULE MCTaskQueue ----------------------------
(* TaskQueue for TLC: a queue of four slots, cursors that wrap after two     *)
(* rounds, the owner and two thieves.                                       *)
EXTENDS TaskQueue, TLC

Symmetry == Permutations(Threads \ {Owner}) \union Permutations(Items)
=============================================================================
