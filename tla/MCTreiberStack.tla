--------------------------- MODULE MCTreiberStack ----------------------------
(* Instances of TreiberStack for TLC. *)
EXTENDS TreiberStack, TLC

Symmetry == Permutations(Threads) \cup Permutations(Nodes)
=============================================================================
