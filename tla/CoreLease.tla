------------------------------ MODULE CoreLease ------------------------------
(***************************************************************************)
(* What spans, deques and the span pool rely on from src/lab.h: a thread   *)
(* drives a core under an identity of its own, no two threads drive the    *)
(* same core, and an identity comes back only after as many threads as     *)
(* there are tags, so that an owner noted down earlier is told from a      *)
(* thread that took over the core since.                                   *)
(***************************************************************************)
EXTENDS Naturals, Sequences

CONSTANTS
  Threads,
  TagSize,
  NoLease

VARIABLES
  lease,   \* the identity [core, tag] under which each thread drives a core
  issued   \* all identities so far, in order

Init ==
  /\ lease = [t \in Threads |-> NoLease]
  /\ issued = << >>

Driven == { lease[t].core : t \in { u \in Threads : lease[u] # NoLease } }

(* The latest identities, one less than there are tags *)
Recent == { issued[k] : k \in { j \in DOMAIN issued : Len(issued) - j + 1 < TagSize } }

Acquire(t, i) ==
  /\ lease[t] = NoLease
  /\ i # NoLease
  /\ i.core \notin Driven
  /\ i \notin Recent
  /\ lease' = [lease EXCEPT ![t] = i]
  /\ issued' = Append(issued, i)

Release(t) ==
  /\ lease[t] # NoLease
  /\ lease' = [lease EXCEPT ![t] = NoLease]
  /\ UNCHANGED issued

Next == \E t \in Threads : Acquire(t, lease'[t]) \/ Release(t)

Spec == Init /\ [][Next]_<< lease, issued >>
=============================================================================
