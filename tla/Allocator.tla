------------------------------ MODULE Allocator ------------------------------
(***************************************************************************)
(* What a program relies on when it calls malloc, calloc, realloc, free    *)
(* and the functions that align: an address it gets stands for as many     *)
(* bytes as it asked for, aligned as it asked, and until it gives them     *)
(* back no other address stands for any of them.                           *)
(***************************************************************************)
EXTENDS Naturals

VARIABLE allocated  \* the regions [ptr, size, align] that the program holds

Apart(r, q) == r.ptr + r.size <= q.ptr \/ q.ptr + q.size <= r.ptr

Init == allocated = {}

Malloc(r) ==
  /\ r.ptr % r.align = 0
  /\ \A q \in allocated : Apart(r, q)
  /\ allocated' = allocated \cup {r}

(* realloc that returns the address it was given *)
Resize(r, s) ==
  /\ s.ptr = r.ptr
  /\ \A q \in allocated \ {r} : Apart(s, q)
  /\ allocated' = (allocated \ {r}) \cup {s}

Free(r) == allocated' = allocated \ {r}

Next ==
  \/ \E r \in allocated' : Malloc(r)
  \/ \E r \in allocated : Free(r) \/ \E s \in allocated' : Resize(r, s)

Spec == Init /\ [][Next]_allocated
=============================================================================
