--------------------------- MODULE MCSpanProtocol ----------------------------
(* Instances of SpanProtocol for TLC. *)
EXTENDS SpanProtocol, TLC

Symmetry == Permutations(Cores) \cup Permutations(Spans)
=============================================================================
