------------------------------ MODULE SpanDeque ------------------------------
(***************************************************************************)
(* src/deque.h with the lock of src/lock.h: the list of reusable spans of  *)
(* one core and size class, a ring of nodes through a sentinel.            *)
(*                                                                         *)
(* Any thread pushes and removes nodes; only the thread that drives the    *)
(* core takes nodes from the ends, opens the list when it starts and       *)
(* closes and empties it when it ends.  Open and Close write owner_        *)
(* without the lock, so they may fall between any two steps of another     *)
(* thread's critical section.                                              *)
(***************************************************************************)
EXTENDS Integers, Sequences, FiniteSets, SequencesExt

CONSTANTS
  Threads,
  Driver,    \* the thread that drives the core
  Nodes,
  Sentinel,  \* &sentinel_
  Null,      \* nullptr
  MaxId      \* bound: how many times the list is opened

ASSUME DriverAssumption == Driver \in Threads
ASSUME NodesAssumption ==
  Sentinel \notin Nodes /\ Null \notin Nodes /\ Sentinel # Null
ASSUME BoundAssumption == MaxId \in Nat

VARIABLES
  next, prev,  \* the links of every node and of the sentinel
  owner,       \* owner_: an identity of the core, 0 for kTerminated
  lock,        \* lock_ is taken
  ids,         \* identities given out so far
  phase,       \* of the driver: "open", "closed" (ending) or "empty" (ended)
  pc, op,      \* the next step of each thread, and the operation it is in
  node, as,    \* its arguments: the node and the owner
  ret,         \* the node that the last operation returned
  list         \* history: the nodes in the list, front first

vars == << next, prev, owner, lock, ids, phase, pc, op, node, as, ret, list >>

kTerminated == 0

Links == Nodes \cup {Sentinel, Null}

Init ==
  /\ next = [n \in Nodes \cup {Sentinel} |-> IF n = Sentinel THEN Sentinel ELSE Null]
  /\ prev = next
  /\ owner = kTerminated
  /\ lock = FALSE
  /\ ids = 0
  /\ phase = "empty"
  /\ pc = [t \in Threads |-> "idle"]
  /\ op = [t \in Threads |-> "none"]
  /\ node = [t \in Threads |-> Null]
  /\ as = [t \in Threads |-> 0]
  /\ ret = [t \in Threads |-> Null]
  /\ list = << >>

Goto(t, label) == pc' = [pc EXCEPT ![t] = label]

-----------------------------------------------------------------------------
(* owner_ *)

(* Mutant of Open: the identity is incremented twice. *)
OpenTwice ==
  /\ phase = "empty" /\ pc[Driver] = "idle"
  /\ ids < MaxId
  /\ ids' = ids + 1
  /\ owner' = ids + 2
  /\ phase' = "open"
  /\ UNCHANGED << next, prev, lock, pc, op, node, as, ret, list >>

Open ==
  /\ phase = "empty" /\ pc[Driver] = "idle"
  /\ ids < MaxId
  /\ ids' = ids + 1
  /\ owner' = ids + 1
  /\ phase' = "open"
  /\ UNCHANGED << next, prev, lock, pc, op, node, as, ret, list >>

(* Core::Destroy: Close, then RemoveAll *)
Close ==
  /\ phase = "open" /\ pc[Driver] = "idle"
  /\ owner' = kTerminated
  /\ phase' = "closed"
  /\ op' = [op EXCEPT ![Driver] = "RemoveAll"]
  /\ Goto(Driver, "lock")
  /\ UNCHANGED << next, prev, lock, ids, node, as, ret, list >>

-----------------------------------------------------------------------------
(* Calls *)

Pushes == {"PushFront", "PushBack"}

(* Free pushes a span that it has just marked reusable, so no two threads   *)
(* push the same node and the node is in no list; it removes a span that    *)
(* may be in the list, on its way into it, or already taken.  The owner     *)
(* they pass may have ended since they read it.                             *)
Call(t, o, n, i) ==
  /\ pc[t] = "idle"
  /\ o \in Pushes =>
       /\ ~Contains(list, n)
       /\ \A u \in Threads : op[u] \in Pushes => node[u] # n
  /\ op' = [op EXCEPT ![t] = o]
  /\ node' = [node EXCEPT ![t] = n]
  /\ as' = [as EXCEPT ![t] = i]
  /\ Goto(t, "lock")
  /\ UNCHANGED << next, prev, owner, lock, ids, phase, ret, list >>

CallRemoveBack ==
  /\ phase = "open" /\ pc[Driver] = "idle"
  /\ op' = [op EXCEPT ![Driver] = "RemoveBack"]
  /\ Goto(Driver, "lock")
  /\ UNCHANGED << next, prev, owner, lock, ids, phase, node, as, ret, list >>

(* SpinLock::Lock: the iteration whose exchange finds 0 *)
Acquire(t) ==
  /\ pc[t] = "lock"
  /\ ~lock
  /\ lock' = TRUE
  /\ Goto(t, "check")
  /\ UNCHANGED << next, prev, owner, ids, phase, op, node, as, ret, list >>

-----------------------------------------------------------------------------
(* Inside the lock: first the early returns, ... *)

(* Mutant of Refused: only a closed list refuses, not one of a later owner. *)
RefusedWhenClosed(t) ==
  \/ op[t] = "Remove" /\ next[node[t]] = Null /\ prev[node[t]] = Null
  \/ owner = kTerminated

Refused(t) ==
  \/ op[t] = "Remove" /\ next[node[t]] = Null /\ prev[node[t]] = Null
  \/ as[t] # owner

(* Mutant of Refuse: the early return does not unlock. *)
RefuseKeepsLock(t) ==
  /\ pc[t] = "check"
  /\ op[t] \in Pushes \cup {"Remove"}
  /\ Refused(t)
  /\ Goto(t, "idle")
  /\ UNCHANGED << next, prev, owner, lock, ids, phase, op, node, as, ret, list >>

Refuse(t) ==
  /\ pc[t] = "check"
  /\ op[t] \in Pushes \cup {"Remove"}
  /\ Refused(t)
  /\ Goto(t, "unlock")
  /\ UNCHANGED << next, prev, owner, lock, ids, phase, op, node, as, ret, list >>

(* The point at which the operation takes effect: owner_ is not read again. *)
Accept(t) ==
  /\ pc[t] = "check"
  /\ op[t] \in Pushes \cup {"Remove"}
  /\ ~Refused(t)
  /\ list' = CASE op[t] = "PushFront" -> Cons(node[t], list)
               [] op[t] = "PushBack" -> Append(list, node[t])
               [] op[t] = "Remove" ->
                    RemoveAt(list, CHOOSE i \in DOMAIN list : list[i] = node[t])
  /\ Goto(t, "link")
  /\ UNCHANGED << next, prev, owner, lock, ids, phase, op, node, as, ret >>

(* ... then the links; the node's own first (push) or last (remove). *)
LinkNode(t) ==
  LET n == node[t] IN
  /\ pc[t] = "link"
  /\ op[t] \in Pushes
  /\ IF op[t] = "PushFront"
       THEN /\ prev' = [prev EXCEPT ![n] = Sentinel]
            /\ next' = [next EXCEPT ![n] = next[Sentinel]]
       ELSE /\ prev' = [prev EXCEPT ![n] = prev[Sentinel]]
            /\ next' = [next EXCEPT ![n] = Sentinel]
  /\ Goto(t, "link_ring")
  /\ UNCHANGED << owner, lock, ids, phase, op, node, as, ret, list >>

(* Mutant of LinkRing: the old first node keeps pointing at the sentinel. *)
LinkRingHalf(t) ==
  LET n == node[t] IN
  /\ pc[t] = "link_ring"
  /\ prev' = [prev EXCEPT ![Sentinel] = IF op[t] = "PushBack" THEN n ELSE @]
  /\ next' = [next EXCEPT ![prev[n]] = n]
  /\ Goto(t, "unlock")
  /\ UNCHANGED << owner, lock, ids, phase, op, node, as, ret, list >>

LinkRing(t) ==
  LET n == node[t] IN
  /\ pc[t] = "link_ring"
  /\ prev' = [prev EXCEPT ![next[n]] = n]
  /\ next' = [next EXCEPT ![prev[n]] = n]
  /\ Goto(t, "unlock")
  /\ UNCHANGED << owner, lock, ids, phase, op, node, as, ret, list >>

EndNode(t) == IF op[t] = "RemoveBack" THEN prev[Sentinel] ELSE next[Sentinel]

(* RemoveFront, also as an iteration of RemoveAll, and RemoveBack *)
TakeEnd(t) ==
  LET n == EndNode(t) IN
  /\ pc[t] = "check"
  /\ op[t] \in {"RemoveBack", "RemoveAll"}
  /\ IF op[t] = "RemoveBack"
       THEN /\ prev' = [prev EXCEPT ![Sentinel] = prev[n]]
            /\ next' = [next EXCEPT ![prev[n]] = Sentinel]
       ELSE /\ next' = [next EXCEPT ![Sentinel] = next[n]]
            /\ prev' = [prev EXCEPT ![next[n]] = Sentinel]
  /\ IF n = Sentinel
       THEN /\ Goto(t, "unlock")
            /\ ret' = [ret EXCEPT ![t] = Null]
            /\ UNCHANGED << node, list >>
       ELSE /\ Goto(t, "clear")
            /\ ret' = [ret EXCEPT ![t] = n]
            /\ node' = [node EXCEPT ![t] = n]
            /\ list' = IF op[t] = "RemoveBack" THEN Front(list) ELSE Tail(list)
  /\ UNCHANGED << owner, lock, ids, phase, op, as >>

UnlinkRing(t) ==
  LET n == node[t] IN
  /\ pc[t] = "link"
  /\ op[t] = "Remove"
  /\ prev' = [prev EXCEPT ![next[n]] = prev[n]]
  /\ next' = [next EXCEPT ![prev[n]] = next[n]]
  /\ Goto(t, "clear")
  /\ UNCHANGED << owner, lock, ids, phase, op, node, as, ret, list >>

ClearNode(t) ==
  /\ pc[t] = "clear"
  /\ prev' = [prev EXCEPT ![node[t]] = Null]
  /\ next' = [next EXCEPT ![node[t]] = Null]
  /\ Goto(t, "unlock")
  /\ UNCHANGED << owner, lock, ids, phase, op, node, as, ret, list >>

(* Mutant of Unlock: RemoveAll stops after one node. *)
UnlockOnce(t) ==
  /\ pc[t] = "unlock"
  /\ lock' = FALSE
  /\ Goto(t, "idle")
  /\ op' = [op EXCEPT ![t] = "none"]
  /\ phase' = IF op[t] = "RemoveAll" THEN "empty" ELSE phase
  /\ node' = [node EXCEPT ![t] = Null]
  /\ as' = [as EXCEPT ![t] = 0]
  /\ UNCHANGED << next, prev, owner, ids, ret, list >>

(* ~LockHolder, and the loop of RemoveAll *)
Unlock(t) ==
  LET again == op[t] = "RemoveAll" /\ ret[t] # Null IN
  /\ pc[t] = "unlock"
  /\ lock' = FALSE
  /\ Goto(t, IF again THEN "lock" ELSE "idle")
  /\ op' = [op EXCEPT ![t] = IF again THEN @ ELSE "none"]
  /\ phase' = IF op[t] = "RemoveAll" /\ ~again THEN "empty" ELSE phase
  /\ node' = [node EXCEPT ![t] = Null]
  /\ as' = [as EXCEPT ![t] = 0]
  /\ UNCHANGED << next, prev, owner, ids, ret, list >>

-----------------------------------------------------------------------------

(* The driver frees objects too, while its list is open. *)
Caller(t) == t = Driver => phase = "open"

Inside(t) ==
  \/ Refuse(t) \/ Accept(t) \/ LinkNode(t) \/ LinkRing(t) \/ TakeEnd(t)
  \/ UnlinkRing(t) \/ ClearNode(t) \/ Unlock(t)

Next ==
  \/ Open \/ Close \/ CallRemoveBack
  \/ \E t \in Threads :
       \/ Caller(t) /\ \E o \in Pushes \cup {"Remove"}, n \in Nodes, i \in 1 .. ids :
            Call(t, o, n, i)
       \/ Acquire(t)
       \/ Inside(t)

Spec == Init /\ [][Next]_vars

(* A thread that holds the lock is scheduled again. *)
FairSpec == Spec /\ \A t \in Threads : WF_vars(Inside(t))

-----------------------------------------------------------------------------

TypeOK ==
  /\ next \in [Nodes \cup {Sentinel} -> Links]
  /\ prev \in [Nodes \cup {Sentinel} -> Links]
  /\ owner \in 0 .. MaxId
  /\ lock \in BOOLEAN
  /\ ids \in 0 .. MaxId
  /\ phase \in {"open", "closed", "empty"}
  /\ pc \in [Threads -> {"idle", "lock", "check", "link", "link_ring", "clear",
                         "unlock"}]
  /\ op \in [Threads -> Pushes \cup {"none", "Remove", "RemoveBack", "RemoveAll"}]
  /\ node \in [Threads -> Nodes \cup {Null}]
  /\ as \in [Threads -> 0 .. MaxId]
  /\ ret \in [Threads -> Nodes \cup {Null}]
  /\ list \in Seq(Nodes)

Ring == << Sentinel >> \o list \o << Sentinel >>

(* Whenever the lock is free, the links of the nodes form the ring of the  *)
(* list, forwards and backwards, and a node that is in no list has null    *)
(* links, which is how Remove and Span::Delete recognise it.               *)
RingIntact ==
  ~lock =>
    /\ \A i \in 1 .. Len(Ring) - 1 :
         next[Ring[i]] = Ring[i + 1] /\ prev[Ring[i + 1]] = Ring[i]
    /\ \A n \in Nodes \ ToSet(list) : next[n] = Null /\ prev[n] = Null
    /\ IsInjective(list)

(* Core::Destroy leaves an empty list behind, and it stays empty until the *)
(* core's next thread opens it: a push whose owner check came before Close *)
(* is over when RemoveAll gets the lock, and later ones are refused.       *)
ClosedStaysEmpty == phase = "empty" => list = << >>

(* The pushes and removals that have not got past their owner check yet *)
Pending ==
  [t \in Threads |->
    IF pc[t] \in {"lock", "check"} /\ op[t] \in Pushes \cup {"Remove"}
      THEN [op |-> op[t], node |-> node[t], owner |-> as[t]]
      ELSE [op |-> "none", node |-> Null, owner |-> 0]]

Deque == INSTANCE OwnedDeque WITH call <- Pending

(* The links and the lock implement a list whose operations are atomic,    *)
(* including the unlocked Open and Close.  A node enters and leaves only   *)
(* for the owner that the call named, while that owner has the list: one   *)
(* that ended before is refused also when the list has been opened again.  *)
(* No other call is refused, RemoveBack returns the node that is           *)
(* last, and the list is empty when it is opened.                          *)
Atomic == Deque!Spec

(* Every path out of a critical section releases the lock. *)
LockReleased == lock ~> ~lock
=============================================================================
