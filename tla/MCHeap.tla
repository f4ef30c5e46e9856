------------------------------- MODULE MCHeap --------------------------------
(* Instances of Heap for TLC. *)
EXTENDS Heap, TLC
LOCAL INSTANCE Bitwise

(* A small, a medium and a large size.  Aligned to 64 the medium one needs *)
(* a span with one object, and the product of the second pair wraps to 16. *)
MCSizes == {16, 193, 2^19, 2^20 + 1}
MCCounts == {<< 2, 8 >>, << 2^22 + 1, 16 >>}
(* In front of the object space, which starts at 6 * 2^21 *)
MCAreas == {5 * 2^21}
MCWordSize == 2^WordBits
MCMaxMapping == 2^22

(* Whatever malloc is asked for then, below the size of a large object *)
MCRequests ==
  { n \in MCSizes \cup { a + s : a \in Aligns, s \in MCSizes }
          \cup { n[1] * n[2] : n \in MCCounts } : n <= kMaxMediumSize }

(* Bit by bit or by Bitwise, it is the same exclusive-or. *)
ASSUME XorAgrees ==
  \A i, m \in 0 .. 15, n \in 1 .. 5, low \in {0, 1, 2^21 - 1} :
    LET x == i * 2^21 + low
        y == m * 2^21 IN
    XorBelow(x, y, n * 2^21) <=> (x ^^ y) < n * 2^21
=============================================================================
