---------------------------- MODULE MCSpanDeque ------------------------------
(* Instances of SpanDeque for TLC. *)
EXTENDS SpanDeque, TLC

Symmetry == Permutations(Threads \ {Driver}) \cup Permutations(Nodes)
=============================================================================
