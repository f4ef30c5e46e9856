---------------------------- MODULE MCHeapLimits -----------------------------
(* An instance of Heap within the limits: Arena::Contains is right about   *)
(* all spans but the last, which is never used.                            *)
EXTENDS MCHeap

ASSUME WithinLimits ==
  /\ Limits
  /\ \A s \in Bases : s + kVirtualSpanSize < end => XorBelow(s, start, end - start)
=============================================================================
