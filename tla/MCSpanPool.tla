----------------------------- MODULE MCSpanPool ------------------------------
(* Instances of SpanPool for TLC. *)
EXTENDS SpanPool, TLC

Symmetry ==
  Permutations(Spans) \cup Permutations(Users \ {First})
    \cup Permutations(Threads \ (Users \cup {First}))
=============================================================================
