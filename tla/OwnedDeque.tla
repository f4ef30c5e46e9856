----------------------------- MODULE OwnedDeque ------------------------------
(***************************************************************************)
(* What the users of deque.h rely on: a double-ended list whose operations *)
(* take effect at one instant.  A push or a removal is done on behalf of   *)
(* an owner: it takes effect only while that owner has the list, and it is *)
(* in vain only when that owner has it no more, or when the node that it   *)
(* was to remove is not in the list.                                       *)
(***************************************************************************)
EXTENDS Naturals, Sequences, SequencesExt

CONSTANTS Threads, Nodes, Null, MaxId

VARIABLES
  list,   \* the nodes, front first
  owner,  \* the owner, 0 when the list is closed
  ids,    \* how many owners the list has had
  call,   \* the push or removal of each thread that has not taken effect yet
  ret     \* the node that the last take of each thread returned

vars == << list, owner, ids, call, ret >>

NoCall == [op |-> "none", node |-> Null, owner |-> 0]

Init ==
  /\ list = << >>
  /\ owner = 0
  /\ ids = 0
  /\ call = [t \in Threads |-> NoCall]
  /\ ret = [t \in Threads |-> Null]

(* An owner never returns. *)
Open ==
  /\ owner = 0 /\ list = << >>
  /\ ids < MaxId
  /\ ids' = ids + 1
  /\ owner' = ids + 1
  /\ UNCHANGED << list, call, ret >>

Close ==
  /\ owner # 0
  /\ owner' = 0
  /\ UNCHANGED << list, ids, call, ret >>

(* On behalf of any owner that the list has or had *)
Call(t, o, n, i) ==
  /\ call[t] = NoCall
  /\ call' = [call EXCEPT ![t] = [op |-> o, node |-> n, owner |-> i]]
  /\ UNCHANGED << list, owner, ids, ret >>

Done(t) == call' = [call EXCEPT ![t] = NoCall]

PushFront(t) ==
  /\ call[t].op = "PushFront"
  /\ call[t].owner = owner /\ owner # 0
  /\ ~Contains(list, call[t].node)
  /\ list' = Cons(call[t].node, list)
  /\ Done(t)
  /\ UNCHANGED << owner, ids, ret >>

PushBack(t) ==
  /\ call[t].op = "PushBack"
  /\ call[t].owner = owner /\ owner # 0
  /\ ~Contains(list, call[t].node)
  /\ list' = Append(list, call[t].node)
  /\ Done(t)
  /\ UNCHANGED << owner, ids, ret >>

Withdraw(t) ==
  /\ call[t].op = "Remove"
  /\ call[t].owner = owner /\ owner # 0
  /\ \E i \in DOMAIN list : list[i] = call[t].node /\ list' = RemoveAt(list, i)
  /\ Done(t)
  /\ UNCHANGED << owner, ids, ret >>

Refuse(t) ==
  /\ call[t].op # "none"
  /\ \/ call[t].owner # owner
     \/ call[t].op = "Remove" /\ ~Contains(list, call[t].node)
  /\ Done(t)
  /\ UNCHANGED << list, owner, ids, ret >>

(* Nodes are taken from the back while the list is open, and from the front *)
(* once it is closed.                                                       *)
TakeBack(t) ==
  /\ owner # 0 /\ list # << >>
  /\ list' = Front(list)
  /\ ret' = [ret EXCEPT ![t] = Last(list)]
  /\ UNCHANGED << owner, ids, call >>

TakeFront(t) ==
  /\ owner = 0 /\ list # << >>
  /\ list' = Tail(list)
  /\ ret' = [ret EXCEPT ![t] = Head(list)]
  /\ UNCHANGED << owner, ids, call >>

TakeNothing(t) ==
  /\ list = << >>
  /\ ret' = [ret EXCEPT ![t] = Null]
  /\ UNCHANGED << list, owner, ids, call >>

Next ==
  \/ Open \/ Close
  \/ \E t \in Threads :
       \/ \E o \in {"PushFront", "PushBack", "Remove"}, n \in Nodes, i \in 1 .. ids :
            Call(t, o, n, i)
       \/ PushFront(t) \/ PushBack(t) \/ Withdraw(t) \/ Refuse(t)
       \/ TakeBack(t) \/ TakeFront(t) \/ TakeNothing(t)

Spec == Init /\ [][Next]_vars
=============================================================================
