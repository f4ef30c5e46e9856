--------------------------- MODULE SpanDequeProofs ---------------------------
(***************************************************************************)
(* Proofs about SpanDeque, for any number of threads and nodes and however *)
(* often the list is opened: the ring of links is intact whenever the lock *)
(* is free, the list of an ended core stays empty, and the links and the   *)
(* lock implement OwnedDeque.                                              *)
(***************************************************************************)
EXTENDS SpanDeque, ListFacts, SequenceTheorems, TLAPS

(* The i-th place of the ring of seq: the sentinel stands at both ends. *)
At(seq, i) == IF i \in 1 .. Len(seq) THEN seq[i] ELSE Sentinel

(* The i-th place and the one after it point at each other. *)
Arc(i) ==
  /\ next[At(list, i)] = At(list, i + 1)
  /\ prev[At(list, i + 1)] = At(list, i)

(* n is still linked between the i-th place and the one after it. *)
Via(i, n) ==
  /\ next[At(list, i)] = n /\ prev[n] = At(list, i)
  /\ prev[At(list, i + 1)] = n /\ next[n] = At(list, i + 1)

(* The place after which t is to link its node, and whether the links of   *)
(* the ring still pass over that node                                      *)
Before(t) == IF op[t] = "PushFront" THEN 0 ELSE Len(list) - 1

Skipped(t) ==
  LET b == Before(t) IN
  /\ list # << >>
  /\ At(list, b + 1) = node[t]
  /\ next[At(list, b)] = At(list, b + 2)
  /\ prev[At(list, b + 2)] = At(list, b)
  /\ \A i \in 0 .. Len(list) : i # b /\ i # b + 1 => Arc(i)

InSection == {"check", "link", "link_ring", "clear", "unlock"}
Linking == {"link", "link_ring", "clear"}

-----------------------------------------------------------------------------
(* The inductive invariant *)

(* One thread at a time is between Lock and Unlock, and the lock is taken. *)
LockInv ==
  \A t \in Threads : pc[t] \in InSection =>
    /\ lock
    /\ \A u \in Threads : pc[u] \in InSection => u = t

(* What the calls that are under way were given *)
CallInv ==
  /\ \A t \in Threads :
       /\ pc[t] = "idle" <=> op[t] = "none"
       /\ op[t] \in Pushes \cup {"Remove"} => node[t] \in Nodes /\ as[t] # 0
       /\ op[t] \in {"RemoveBack", "RemoveAll"} => t = Driver
       /\ pc[t] = "link" => op[t] \in Pushes \cup {"Remove"}
       /\ pc[t] = "link_ring" => op[t] \in Pushes
       /\ pc[t] = "clear" => op[t] \notin Pushes /\ node[t] \in Nodes
       /\ op[t] \in Pushes /\ pc[t] \in {"lock", "check"} => ~Contains(list, node[t])
  /\ \A t, u \in Threads :
       op[t] \in Pushes /\ op[u] \in Pushes /\ node[t] = node[u] => t = u

(* What the driver is doing, and whose the list is *)
OwnerInv ==
  /\ phase = "open" <=> owner # 0
  /\ op[Driver] = "RemoveBack" => phase = "open"
  /\ op[Driver] = "RemoveAll" => phase = "closed"
  /\ owner <= ids

(* RemoveAll is over only after a look at an empty list. *)
EmptyInv ==
  /\ op[Driver] = "RemoveAll" /\ pc[Driver] = "clear" => ret[Driver] # Null
  /\ op[Driver] = "RemoveAll" /\ pc[Driver] = "unlock" /\ ret[Driver] = Null
       => list = << >>

(* What the links are, step by step through a critical section *)
RingInv ==
  /\ IsInjective(list)
  /\ (\A t \in Threads : pc[t] \notin {"link", "link_ring"}) =>
       \A i \in 0 .. Len(list) : Arc(i)
  /\ \A t \in Threads :
       /\ pc[t] = "link" /\ op[t] \in Pushes => Skipped(t)
       /\ pc[t] = "link_ring" =>
            /\ Skipped(t)
            /\ next[node[t]] = At(list, Before(t) + 2)
            /\ prev[node[t]] = At(list, Before(t))
       /\ pc[t] = "link" /\ op[t] = "Remove" =>
            \E k \in 0 .. Len(list) :
              Via(k, node[t]) /\ \A i \in 0 .. Len(list) : i # k => Arc(i)
       /\ pc[t] \in {"link", "clear"} /\ op[t] \notin Pushes =>
            ~Contains(list, node[t])

(* Nodes outside the list have null links, but for the one that is leaving. *)
NullInv ==
  \A n \in Nodes :
    \/ Contains(list, n)
    \/ next[n] = Null /\ prev[n] = Null
    \/ \E t \in Threads : pc[t] \in {"link", "clear"} /\ op[t] \notin Pushes /\ node[t] = n

IInv ==
  /\ TypeOK /\ LockInv /\ CallInv /\ OwnerInv /\ EmptyInv /\ ClosedStaysEmpty
  /\ RingInv /\ NullInv

-----------------------------------------------------------------------------
(* Sequences *)

(* The places of a ring that lost one element *)
LEMMA DropsAt ==
  ASSUME NEW S, NEW s \in Seq(S), NEW r \in Seq(S), NEW k \in Nat, Drops(r, s, k)
  PROVE  \A i \in 0 .. Len(r) + 1 :
           At(r, i) = IF i < k THEN At(s, i) ELSE At(s, i + 1)
<1>0. Len(s) \in Nat /\ Len(r) \in Nat /\ k \in 1 .. Len(s) /\ Len(r) = Len(s) - 1
  BY DEF Drops
<1>1. \A i \in 1 .. Len(r) : r[i] = IF i < k THEN s[i] ELSE s[i + 1]
  BY DEF Drops
<1> TAKE i \in 0 .. Len(r) + 1
<1>2. CASE i \in 1 .. Len(r)
  BY <1>0, <1>1, <1>2 DEF At
<1>3. CASE i \notin 1 .. Len(r)
  BY <1>0, <1>3 DEF At
<1> QED
  BY <1>2, <1>3

(* No node stands at two places; the sentinel stands at both ends only. *)
LEMMA AtDistinct ==
  ASSUME NEW s \in Seq(Nodes), IsInjective(s)
  PROVE  /\ \A i, j \in 0 .. Len(s) : At(s, i) = At(s, j) => i = j
         /\ \A i, j \in 1 .. Len(s) + 1 : At(s, i) = At(s, j) => i = j
<1>0. Len(s) \in Nat /\ DOMAIN s = 1 .. Len(s)
  OBVIOUS
<1>1. \A i \in 1 .. Len(s) : At(s, i) = s[i] /\ s[i] \in Nodes /\ s[i] # Sentinel
  BY NodesAssumption DEF At
<1>2. At(s, 0) = Sentinel /\ At(s, Len(s) + 1) = Sentinel
  BY <1>0 DEF At
<1>3. \A i, j \in 1 .. Len(s) : s[i] = s[j] => i = j
  BY <1>0 DEF IsInjective
<1>4. \A i \in 0 .. Len(s) : i = 0 \/ i \in 1 .. Len(s)
  BY <1>0
<1>5. \A i \in 1 .. Len(s) + 1 : i = Len(s) + 1 \/ i \in 1 .. Len(s)
  BY <1>0
<1>6. \A i, j \in 0 .. Len(s) : At(s, i) = At(s, j) => i = j
  BY <1>1, <1>2, <1>3, <1>4
<1>7. \A i, j \in 1 .. Len(s) + 1 : At(s, i) = At(s, j) => i = j
  BY <1>1, <1>2, <1>3, <1>5
<1> QED
  BY <1>6, <1>7

(* Every place holds the sentinel or a node of the list. *)
LEMMA AtType ==
  ASSUME NEW s \in Seq(Nodes), NEW i
  PROVE  /\ At(s, i) \in Nodes \cup {Sentinel}
         /\ At(s, i) = Sentinel \/ Contains(s, At(s, i))
         /\ i \in 1 .. Len(s) => At(s, i) = s[i]
         /\ i \notin 1 .. Len(s) => At(s, i) = Sentinel
BY DEF At, Contains

-----------------------------------------------------------------------------
(* What the steps that change the list do to it *)

(* A thread that has just got the lock finds the ring intact. *)
LEMMA IntactAtCheck ==
  ASSUME IInv, NEW t \in Threads, pc[t] \in {"check", "unlock", "clear"}
  PROVE  \A i \in 0 .. Len(list) : Arc(i)
<1>1. \A u \in Threads : pc[u] \notin {"link", "link_ring"}
  BY DEF IInv, LockInv, InSection
<1> QED
  BY <1>1 DEF IInv, RingInv

(* The links of the sentinel lead to the ends of the list. *)
LEMMA EndNodeIs ==
  ASSUME IInv, NEW t \in Threads, TakeEnd(t)
  PROVE  /\ list = << >> => next[Sentinel] = Sentinel /\ prev[Sentinel] = Sentinel
         /\ list # << >> =>
              /\ next[Sentinel] = Head(list) /\ next[Sentinel] = list[1]
              /\ prev[Sentinel] = Last(list) /\ prev[Sentinel] = list[Len(list)]
              /\ next[Sentinel] \in Nodes /\ prev[Sentinel] \in Nodes
<1>1. \A i \in 0 .. Len(list) : Arc(i)
  BY IntactAtCheck DEF TakeEnd
<1>2. list \in Seq(Nodes) /\ Len(list) \in Nat
  BY DEF IInv, TypeOK
<1>3. next[At(list, 0)] = At(list, 1) /\ prev[At(list, Len(list) + 1)] = At(list, Len(list))
  BY <1>1, <1>2 DEF Arc
<1>4. At(list, 0) = Sentinel /\ At(list, Len(list) + 1) = Sentinel
  BY <1>2 DEF At
<1>5. CASE list = << >>
  BY <1>3, <1>4, <1>5 DEF At
<1>6. CASE list # << >>
  <2>1. 1 \in 1 .. Len(list) /\ Len(list) \in 1 .. Len(list)
    BY <1>2, <1>6
  <2>2. Head(list) = list[1] /\ list[1] \in Nodes /\ list[Len(list)] \in Nodes
    BY <1>2, <1>6, <2>1
  <2> QED
    BY <1>3, <1>4, <1>6, <2>1, <2>2 DEF At, Last
<1> QED
  BY <1>5, <1>6

(* It takes an end of a list that has one, and otherwise nothing. *)
LEMMA TakeEndList ==
  ASSUME IInv, NEW t \in Threads, TakeEnd(t)
  PROVE  \/ /\ list = << >> /\ list' = list /\ next' = next /\ prev' = prev
            /\ node' = node /\ pc' = [pc EXCEPT ![t] = "unlock"]
            /\ ret' = [ret EXCEPT ![t] = Null]
         \/ /\ list # << >> /\ EndNode(t) \in Nodes
            /\ \E k \in 1 .. Len(list) :
                 /\ k = (IF op[t] = "RemoveBack" THEN Len(list) ELSE 1)
                 /\ EndNode(t) = list[k]
                 /\ list' \in Seq(Nodes) /\ Drops(list', list, k)
            /\ list' = IF op[t] = "RemoveBack" THEN Front(list) ELSE Tail(list)
            /\ pc' = [pc EXCEPT ![t] = "clear"]
            /\ node' = [node EXCEPT ![t] = EndNode(t)]
            /\ ret' = [ret EXCEPT ![t] = EndNode(t)]
<1>1. /\ list \in Seq(Nodes) /\ Len(list) \in Nat
      /\ next \in [Nodes \cup {Sentinel} -> Links] /\ prev \in [Nodes \cup {Sentinel} -> Links]
  BY DEF IInv, TypeOK
<1>2. CASE list = << >>
  <2>1. next[Sentinel] = Sentinel /\ prev[Sentinel] = Sentinel
    BY EndNodeIs, <1>2
  <2>2. EndNode(t) = Sentinel
    BY <2>1 DEF EndNode
  <2>3. next' = next /\ prev' = prev
    BY <2>1, <2>2, <1>1 DEF TakeEnd
  <2> QED
    BY <2>2, <2>3, <1>2 DEF TakeEnd, Goto
<1>3. CASE list # << >>
  <2> DEFINE k == IF op[t] = "RemoveBack" THEN Len(list) ELSE 1
  <2>1. k \in 1 .. Len(list)
    BY <1>1, <1>3
  <2>2. EndNode(t) = list[k] /\ EndNode(t) \in Nodes /\ EndNode(t) # Sentinel
    BY EndNodeIs, <1>3, NodesAssumption DEF EndNode
  <2>3. /\ list' = IF op[t] = "RemoveBack" THEN Front(list) ELSE Tail(list)
        /\ pc' = [pc EXCEPT ![t] = "clear"]
        /\ node' = [node EXCEPT ![t] = EndNode(t)]
        /\ ret' = [ret EXCEPT ![t] = EndNode(t)]
    BY <2>2 DEF TakeEnd, Goto
  <2>4. list' \in Seq(Nodes) /\ Drops(list', list, k)
    BY <2>3, <1>1, <1>3, FrontDrops, TailDrops
  <2> HIDE DEF k
  <2>5. \E j \in 1 .. Len(list) :
          /\ j = k /\ EndNode(t) = list[j] /\ list' \in Seq(Nodes) /\ Drops(list', list, j)
    BY <2>1, <2>2, <2>4
  <2> QED
    BY <2>2, <2>3, <2>5, <1>3 DEF k
<1> QED
  BY <1>2, <1>3

(* Accept adds the node at an end, ... *)
LEMMA AcceptPush ==
  ASSUME IInv, NEW t \in Threads, Accept(t), op[t] \in Pushes
  PROVE  /\ as[t] = owner /\ owner # 0
         /\ node[t] \in Nodes /\ ~Contains(list, node[t])
         /\ list' \in Seq(Nodes) /\ list' # << >>
         /\ Before(t)' \in 0 .. Len(list)
         /\ Drops(list, list', Before(t)' + 1)
         /\ list'[Before(t)' + 1] = node[t]
<1>1. list \in Seq(Nodes) /\ Len(list) \in Nat
  BY DEF IInv, TypeOK
<1>2. node[t] \in Nodes /\ as[t] # 0 /\ ~Contains(list, node[t])
  BY DEF IInv, CallInv, Accept
<1>3. as[t] = owner
  BY DEF Accept, Refused
<1>4. op' = op
  BY DEF Accept
<1>5. CASE op[t] = "PushFront"
  <2>1. list' = Cons(node[t], list) /\ Before(t)' = 0
    BY <1>4, <1>5 DEF Accept, Before
  <2>2. Before(t)' + 1 = 1 /\ Before(t)' \in 0 .. Len(list)
    BY <2>1, <1>1
  <2>3. /\ list' \in Seq(Nodes) /\ Drops(list, list', 1)
        /\ list'[1] = node[t] /\ list' # << >>
    BY <2>1, <1>1, <1>2, ConsAdds
  <2> QED
    BY <2>2, <2>3, <1>2, <1>3
<1>6. CASE op[t] = "PushBack"
  <2>1. list' = Append(list, node[t])
    BY <1>6 DEF Accept
  <2>2. /\ list' \in Seq(Nodes) /\ Drops(list, list', Len(list) + 1)
        /\ list'[Len(list) + 1] = node[t] /\ list' # << >>
        /\ Len(list') = Len(list) + 1
    BY <2>1, <1>1, <1>2, AppendAdds
  <2>3. Before(t)' = Len(list)
    BY <2>2, <1>1, <1>4, <1>6 DEF Before
  <2> QED
    BY <2>2, <2>3, <1>1, <1>2, <1>3
<1> QED
  BY <1>5, <1>6 DEF Pushes

(* ... or removes it from where it is. *)
LEMMA AcceptRemove ==
  ASSUME IInv, NEW t \in Threads, Accept(t), op[t] = "Remove"
  PROVE  /\ as[t] = owner /\ owner # 0
         /\ node[t] \in Nodes
         /\ \E k \in 1 .. Len(list) :
              /\ list[k] = node[t]
              /\ list' \in Seq(Nodes) /\ Drops(list', list, k)
              /\ list' = RemoveAt(list, k)
<1>1. list \in Seq(Nodes) /\ Len(list) \in Nat /\ DOMAIN list = 1 .. Len(list)
  BY DEF IInv, TypeOK
<1>2. node[t] \in Nodes /\ as[t] # 0
  BY DEF IInv, CallInv
<1>3. as[t] = owner /\ ~(next[node[t]] = Null /\ prev[node[t]] = Null)
  BY DEF Accept, Refused
<1>4. \A u \in Threads : pc[u] \notin {"link", "clear"}
  BY DEF IInv, LockInv, InSection, Accept
<1>5. Contains(list, node[t])
  BY <1>2, <1>3, <1>4 DEF IInv, NullInv
<1> DEFINE k == CHOOSE i \in DOMAIN list : list[i] = node[t]
<1>6. k \in 1 .. Len(list) /\ list[k] = node[t]
  BY <1>1, <1>5 DEF Contains
<1>7. list' = RemoveAt(list, k)
  BY DEF Accept, Pushes
<1> HIDE DEF k
<1>8. list' \in Seq(Nodes) /\ Drops(list', list, k)
  BY <1>1, <1>6, <1>7, RemoveAtDrops
<1> QED
  BY <1>2, <1>3, <1>6, <1>7, <1>8

-----------------------------------------------------------------------------
(* The invariant is preserved, part by part. *)

(* Types: the links of the sentinel are where a node comes from. *)
LEMMA TypeStep ==
  ASSUME IInv, [Next]_vars
  PROVE  TypeOK'
<1> USE DEF IInv, TypeOK
<1>0. 0 \in 0 .. MaxId
  BY BoundAssumption
<1>1. CASE Open
  <2>1. ids < MaxId => ids + 1 \in 0 .. MaxId
    BY BoundAssumption
  <2>2. ids' \in 0 .. MaxId /\ owner' \in 0 .. MaxId
    BY <1>1, <2>1 DEF Open
  <2> QED
    BY <1>1, <2>2 DEF Open
<1>2. CASE Close
  BY <1>0, <1>2 DEF Close, Goto, kTerminated, Pushes
<1>3. CASE CallRemoveBack
  BY <1>3 DEF CallRemoveBack, Goto, Pushes
<1>4. ASSUME NEW t \in Threads, NEW o \in Pushes \cup {"Remove"}, NEW n \in Nodes,
             NEW i \in 1 .. ids, Call(t, o, n, i)
      PROVE  TypeOK'
  <2>1. i \in 0 .. MaxId
    BY BoundAssumption
  <2> QED
    BY <1>4, <2>1 DEF Call, Goto, Pushes
<1>5. ASSUME NEW t \in Threads, Acquire(t)
      PROVE  TypeOK'
  BY <1>5 DEF Acquire, Goto
<1>6. ASSUME NEW t \in Threads, Refuse(t)
      PROVE  TypeOK'
  BY <1>6 DEF Refuse, Goto
<1>7. ASSUME NEW t \in Threads, Accept(t)
      PROVE  TypeOK'
  <2>1. list' \in Seq(Nodes)
    BY <1>7, AcceptPush, AcceptRemove DEF Accept
  <2> QED
    BY <1>7, <2>1 DEF Accept, Goto
<1>8. ASSUME NEW t \in Threads, LinkNode(t)
      PROVE  TypeOK'
  BY <1>8 DEF LinkNode, Goto, Links
<1>9. ASSUME NEW t \in Threads, LinkRing(t)
      PROVE  TypeOK'
  <2>1. node[t] \in Links
    BY DEF Links
  <2> QED
    BY <1>9, <2>1 DEF LinkRing, Goto
<1>10. ASSUME NEW t \in Threads, TakeEnd(t)
       PROVE  TypeOK'
  <2>1. EndNode(t) \in Nodes \cup {Sentinel}
    BY <1>10, EndNodeIs DEF EndNode
  <2>2. /\ next' \in [Nodes \cup {Sentinel} -> Links]
        /\ prev' \in [Nodes \cup {Sentinel} -> Links]
    BY <1>10, <2>1 DEF TakeEnd, Links
  <2>3. /\ list' \in Seq(Nodes)
        /\ pc' \in [Threads -> {"idle", "lock", "check", "link", "link_ring", "clear",
                                "unlock"}]
        /\ node' \in [Threads -> Nodes \cup {Null}]
        /\ ret' \in [Threads -> Nodes \cup {Null}]
    <3>1. \/ /\ list' = list /\ node' = node /\ pc' = [pc EXCEPT ![t] = "unlock"]
             /\ ret' = [ret EXCEPT ![t] = Null]
          \/ /\ EndNode(t) \in Nodes /\ list' \in Seq(Nodes)
             /\ pc' = [pc EXCEPT ![t] = "clear"]
             /\ node' = [node EXCEPT ![t] = EndNode(t)]
             /\ ret' = [ret EXCEPT ![t] = EndNode(t)]
      <4> HIDE DEF IInv
      <4> QED
        BY <1>10, TakeEndList
    <3> QED
      BY <3>1
  <2> QED
    BY <1>10, <2>2, <2>3 DEF TakeEnd
<1>11. ASSUME NEW t \in Threads, UnlinkRing(t)
       PROVE  TypeOK'
  <2>1. node[t] \in Nodes
    BY <1>11 DEF CallInv, UnlinkRing
  <2> QED
    BY <1>11, <2>1 DEF UnlinkRing, Goto
<1>12. ASSUME NEW t \in Threads, ClearNode(t)
       PROVE  TypeOK'
  BY <1>12 DEF ClearNode, Goto, Links
<1>13. ASSUME NEW t \in Threads, Unlock(t)
       PROVE  TypeOK'
  <2>1. /\ op' \in [Threads -> Pushes \cup {"none", "Remove", "RemoveBack", "RemoveAll"}]
        /\ phase' \in {"open", "closed", "empty"}
        /\ pc' \in [Threads -> {"idle", "lock", "check", "link", "link_ring", "clear",
                                "unlock"}]
    BY <1>13 DEF Unlock, Goto
  <2>2. node' \in [Threads -> Nodes \cup {Null}] /\ as' \in [Threads -> 0 .. MaxId]
    BY <1>0, <1>13 DEF Unlock
  <2> QED
    BY <1>13, <2>1, <2>2 DEF Unlock
<1>14. CASE UNCHANGED vars
  BY <1>14 DEF vars
<1> QED
  BY <1>1, <1>2, <1>3, <1>4, <1>5, <1>6, <1>7, <1>8, <1>9, <1>10, <1>11, <1>12, <1>13,
     <1>14 DEF Next, Inside

(* Mutual exclusion *)
LEMMA LockStep ==
  ASSUME IInv, [Next]_vars
  PROVE  LockInv'
<1> USE DEF IInv, TypeOK, LockInv, InSection, Goto
<1>1. CASE Open
  BY <1>1 DEF Open
<1>2. CASE Close
  BY <1>2 DEF Close
<1>3. CASE CallRemoveBack
  BY <1>3 DEF CallRemoveBack
<1>4. ASSUME NEW t \in Threads, NEW o \in Pushes \cup {"Remove"}, NEW n \in Nodes,
             NEW i \in 1 .. ids, Call(t, o, n, i)
      PROVE  LockInv'
  BY <1>4 DEF Call
<1>5. ASSUME NEW t \in Threads, Acquire(t)
      PROVE  LockInv'
  BY <1>5 DEF Acquire
<1>6. ASSUME NEW t \in Threads, Inside(t), ~Unlock(t)
      PROVE  LockInv'
  <2>1. pc[t] \in InSection /\ lock' = lock
    BY <1>6 DEF Inside, Refuse, Accept, LinkNode, LinkRing, TakeEnd, UnlinkRing, ClearNode
  <2>2. \A u \in Threads : u # t => pc'[u] = pc[u]
    BY <1>6 DEF Inside, Refuse, Accept, LinkNode, LinkRing, TakeEnd, UnlinkRing, ClearNode
  <2> QED
    BY <2>1, <2>2
<1>7. ASSUME NEW t \in Threads, Unlock(t)
      PROVE  LockInv'
  BY <1>7 DEF Unlock
<1>8. CASE UNCHANGED vars
  BY <1>8 DEF vars
<1> QED
  BY <1>1, <1>2, <1>3, <1>4, <1>5, <1>6, <1>7, <1>8 DEF Next

(* The arguments of the calls; a push keeps its node out of the list till then. *)
LEMMA CallStep ==
  ASSUME IInv, [Next]_vars
  PROVE  CallInv'
<1>0. /\ pc \in [Threads -> {"idle", "lock", "check", "link", "link_ring", "clear",
                             "unlock"}]
      /\ op \in [Threads -> Pushes \cup {"none", "Remove", "RemoveBack", "RemoveAll"}]
      /\ node \in [Threads -> Nodes \cup {Null}] /\ as \in [Threads -> 0 .. MaxId]
      /\ Pushes = {"PushFront", "PushBack"} /\ Driver \in Threads
  BY DriverAssumption DEF IInv, TypeOK, Pushes
<1>00. CallInv
  BY DEF IInv
<1>1. CASE Open
  BY <1>0, <1>00, <1>1 DEF Open, CallInv, Contains
<1>2. CASE Close
  BY <1>0, <1>00, <1>2, ZenonT(60) DEF Close, Goto, CallInv, Contains
<1>3. CASE CallRemoveBack
  BY <1>0, <1>00, <1>3, ZenonT(60) DEF CallRemoveBack, Goto, CallInv, Contains
<1>4. ASSUME NEW t \in Threads, NEW o \in Pushes \cup {"Remove"}, NEW n \in Nodes,
             NEW i \in 1 .. ids, Call(t, o, n, i)
      PROVE  CallInv'
  <2>1. i # 0
    BY DEF IInv, TypeOK
  <2> QED
    BY <1>0, <1>00, <1>4, <2>1, ZenonT(60) DEF Call, Goto, CallInv, Contains
<1>5. ASSUME NEW t \in Threads, Acquire(t)
      PROVE  CallInv'
  BY <1>0, <1>00, <1>5 DEF Acquire, Goto, CallInv, Contains
<1>6. ASSUME NEW t \in Threads, Refuse(t)
      PROVE  CallInv'
  BY <1>0, <1>00, <1>6 DEF Refuse, Goto, CallInv, Contains
<1>7. ASSUME NEW t \in Threads, Accept(t)
      PROVE  CallInv'
  <2>0. op[t] \in Pushes \cup {"Remove"}
    BY <1>7 DEF Accept
  <2>1. \A n : Contains(list', n) => Contains(list, n) \/ (op[t] \in Pushes /\ n = node[t])
    <3>1. CASE op[t] \in Pushes
      <4> DEFINE k == Before(t)' + 1
      <4>1. list' \in Seq(Nodes) /\ Drops(list, list', k) /\ list'[k] = node[t]
        BY <1>7, <3>1, AcceptPush
      <4>2. list \in Seq(Nodes)
        BY DEF IInv, TypeOK
      <4> HIDE DEF k
      <4>3. k \in Nat
        BY <4>1 DEF Drops
      <4>4. \A e : Contains(list', e) <=> Contains(list, e) \/ e = list'[k]
        BY <4>1, <4>2, <4>3, DropsElements
      <4> QED
        BY <4>1, <4>4, <3>1
    <3>2. CASE op[t] = "Remove"
      <4>1. PICK k \in 1 .. Len(list) : list' \in Seq(Nodes) /\ Drops(list', list, k)
        BY <1>7, <3>2, AcceptRemove
      <4>2. list \in Seq(Nodes) /\ k \in Nat
        BY DEF IInv, TypeOK
      <4>3. \A e : Contains(list, e) <=> Contains(list', e) \/ e = list[k]
        BY <4>1, <4>2, DropsElements
      <4> QED
        BY <4>3
    <3> QED
      BY <2>0, <3>1, <3>2
  <2>2. /\ op' = op /\ node' = node /\ as' = as
        /\ pc' = [pc EXCEPT ![t] = "link"]
    BY <1>7 DEF Accept, Goto
  <2>3. pc[t] = "check"
    BY <1>7 DEF Accept
  <2> HIDE DEF Contains
  <2>4. ASSUME NEW u \in Threads, op'[u] \in Pushes, pc'[u] \in {"lock", "check"}
        PROVE  ~Contains(list', node'[u])
    <3>1. u # t /\ pc[u] = pc'[u] /\ op[u] \in Pushes
      BY <1>0, <2>2, <2>4
    <3>2. ~Contains(list, node[u])
      BY <1>00, <2>4, <3>1 DEF CallInv
    <3>3. op[t] \in Pushes => node[t] # node[u]
      BY <1>00, <3>1 DEF CallInv
    <3> QED
      BY <2>1, <2>2, <3>2, <3>3
  <2> QED
    BY <1>0, <1>00, <2>0, <2>2, <2>3, <2>4 DEF CallInv
<1>8. ASSUME NEW t \in Threads, LinkNode(t)
      PROVE  CallInv'
  BY <1>0, <1>00, <1>8 DEF LinkNode, Goto, CallInv, Contains
<1>9. ASSUME NEW t \in Threads, LinkRing(t)
      PROVE  CallInv'
  BY <1>0, <1>00, <1>9 DEF LinkRing, Goto, CallInv, Contains
<1>10. ASSUME NEW t \in Threads, TakeEnd(t)
       PROVE  CallInv'
  <2>1. op' = op /\ as' = as /\ pc[t] = "check" /\ op[t] \in {"RemoveBack", "RemoveAll"}
    BY <1>10 DEF TakeEnd
  <2>2. \A n : Contains(list', n) => Contains(list, n)
    <3>1. CASE list' = list
      BY <3>1
    <3>2. CASE list' # list
      <4>1. PICK k \in 1 .. Len(list) : list' \in Seq(Nodes) /\ Drops(list', list, k)
        BY <1>10, <3>2, TakeEndList
      <4>2. list \in Seq(Nodes) /\ k \in Nat
        BY DEF IInv, TypeOK
      <4> QED
        BY <4>1, <4>2, DropsElements
    <3> QED
      BY <3>1, <3>2
  <2>3. \/ pc' = [pc EXCEPT ![t] = "unlock"] /\ node' = node
        \/ /\ EndNode(t) \in Nodes
           /\ pc' = [pc EXCEPT ![t] = "clear"] /\ node' = [node EXCEPT ![t] = EndNode(t)]
    BY <1>10, TakeEndList
  <2>4. ASSUME NEW u \in Threads, op'[u] \in Pushes, pc'[u] \in {"lock", "check"}
        PROVE  ~Contains(list', node'[u])
    <3>1. u # t /\ pc[u] = pc'[u] /\ op[u] \in Pushes /\ node'[u] = node[u]
      BY <1>0, <2>1, <2>3, <2>4
    <3> QED
      BY <1>00, <2>2, <2>4, <3>1 DEF CallInv
  <2> QED
    BY <1>0, <1>00, <2>1, <2>3, <2>4, ZenonT(60) DEF CallInv
<1>11. ASSUME NEW t \in Threads, UnlinkRing(t)
       PROVE  CallInv'
  BY <1>0, <1>00, <1>11 DEF UnlinkRing, Goto, CallInv, Contains
<1>12. ASSUME NEW t \in Threads, ClearNode(t)
       PROVE  CallInv'
  BY <1>0, <1>00, <1>12 DEF ClearNode, Goto, CallInv, Contains
<1>13. ASSUME NEW t \in Threads, Unlock(t)
       PROVE  CallInv'
  <2> DEFINE again == op[t] = "RemoveAll" /\ ret[t] # Null
  <2>1. /\ pc[t] = "unlock" /\ list' = list
        /\ pc' = [pc EXCEPT ![t] = IF again THEN "lock" ELSE "idle"]
        /\ op' = [op EXCEPT ![t] = IF again THEN "RemoveAll" ELSE "none"]
        /\ node' = [node EXCEPT ![t] = Null] /\ as' = [as EXCEPT ![t] = 0]
    BY <1>0, <1>13 DEF Unlock, Goto
  <2>2. again => t = Driver
    BY <1>00 DEF CallInv
  <2> HIDE DEF again
  <2>3. ASSUME NEW u \in Threads, u # t
        PROVE  pc'[u] = pc[u] /\ op'[u] = op[u] /\ node'[u] = node[u] /\ as'[u] = as[u]
    BY <1>0, <2>1, <2>3
  <2>4. op'[t] \notin Pushes \cup {"Remove", "RemoveBack"} /\ pc'[t] \in {"lock", "idle"}
    BY <1>0, <2>1
  <2>5. pc'[t] = "idle" <=> op'[t] = "none"
    BY <1>0, <2>1
  <2>6. op'[t] \in {"RemoveBack", "RemoveAll"} => t = Driver
    BY <1>0, <2>1, <2>2
  <2>7. \A v, u \in Threads :
          op'[v] \in Pushes /\ op'[u] \in Pushes /\ node'[v] = node'[u] => v = u
    BY <1>0, <1>00, <2>3, <2>4 DEF CallInv
  <2>8. ASSUME NEW u \in Threads
        PROVE  op'[u] \in Pushes /\ pc'[u] \in {"lock", "check"} => ~Contains(list', node'[u])
    BY <1>0, <1>00, <2>1, <2>3, <2>4 DEF CallInv
  <2> QED
    BY <1>0, <1>00, <2>3, <2>4, <2>5, <2>6, <2>7, <2>8, ZenonT(60) DEF CallInv
<1>14. CASE UNCHANGED vars
  BY <1>00, <1>14 DEF vars, CallInv, Contains
<1> QED
  BY <1>1, <1>2, <1>3, <1>4, <1>5, <1>6, <1>7, <1>8, <1>9, <1>10, <1>11, <1>12, <1>13,
     <1>14 DEF Next, Inside

(* owner_ is written by the driver only, which is then in no operation. *)
LEMMA OwnerStep ==
  ASSUME IInv, [Next]_vars
  PROVE  OwnerInv'
<1>0. /\ op \in [Threads -> Pushes \cup {"none", "Remove", "RemoveBack", "RemoveAll"}]
      /\ pc \in [Threads -> {"idle", "lock", "check", "link", "link_ring", "clear",
                             "unlock"}]
      /\ ids \in Nat /\ owner \in Nat /\ Driver \in Threads
      /\ (pc[Driver] = "idle" => op[Driver] = "none")
      /\ \A t \in Threads : op[t] = "RemoveAll" => t = Driver
      /\ Pushes = {"PushFront", "PushBack"}
  <2>1. ids \in Nat /\ owner \in Nat
    BY BoundAssumption DEF IInv, TypeOK
  <2> QED
    BY <2>1, DriverAssumption DEF IInv, TypeOK, CallInv, Pushes
<1>00. OwnerInv
  BY DEF IInv
<1>1. CASE Open
  BY <1>0, <1>00, <1>1 DEF Open, OwnerInv
<1>2. CASE Close
  BY <1>0, <1>00, <1>2 DEF Close, OwnerInv, kTerminated
<1>3. CASE CallRemoveBack
  BY <1>0, <1>00, <1>3 DEF CallRemoveBack, OwnerInv
<1>4. ASSUME NEW t \in Threads, NEW o \in Pushes \cup {"Remove"}, NEW n \in Nodes,
             NEW i \in 1 .. ids, Call(t, o, n, i)
      PROVE  OwnerInv'
  BY <1>0, <1>00, <1>4 DEF Call, OwnerInv
<1>5. ASSUME NEW t \in Threads, Unlock(t)
      PROVE  OwnerInv'
  <2>1. CASE op[t] = "RemoveAll" /\ ret[t] = Null
    <3>1. t = Driver
      BY <1>0, <2>1
    <3>2. op'[Driver] = "none" /\ phase' = "empty" /\ phase = "closed"
      BY <1>0, <1>00, <1>5, <2>1, <3>1 DEF Unlock, OwnerInv
    <3> QED
      BY <1>00, <1>5, <3>2 DEF Unlock, OwnerInv
  <2>2. CASE ~(op[t] = "RemoveAll" /\ ret[t] = Null)
    <3>1. phase' = phase /\ (op'[Driver] = op[Driver] \/ op'[Driver] = "none")
      BY <1>0, <1>5, <2>2 DEF Unlock
    <3> QED
      BY <1>00, <1>5, <3>1 DEF Unlock, OwnerInv
  <2> QED
    BY <2>1, <2>2
<1>6. ASSUME NEW t \in Threads, Acquire(t) \/ (Inside(t) /\ ~Unlock(t))
      PROVE  OwnerInv'
  <2>1. UNCHANGED << phase, owner, op, ids >>
    BY <1>6 DEF Acquire, Inside, Refuse, Accept, LinkNode, LinkRing, TakeEnd, UnlinkRing,
                ClearNode
  <2> QED
    BY <1>00, <2>1 DEF OwnerInv
<1>7. CASE UNCHANGED vars
  BY <1>00, <1>7 DEF vars, OwnerInv
<1> QED
  BY <1>1, <1>2, <1>3, <1>4, <1>5, <1>6, <1>7 DEF Next

(* The list changes only under the lock, and only for the current owner. *)
LEMMA ListChanges ==
  ASSUME IInv, [Next]_vars, list' # list
  PROVE  \E t \in Threads : Accept(t) \/ TakeEnd(t)
BY DEF Next, Inside, vars, Open, Close, CallRemoveBack, Call, Acquire, Refuse, LinkNode,
       LinkRing, UnlinkRing, ClearNode, Unlock

(* Nobody pushes between the last look of RemoveAll and its unlock. *)
LEMMA EmptyStep ==
  ASSUME IInv, [Next]_vars
  PROVE  EmptyInv'
<1>0. /\ op \in [Threads -> Pushes \cup {"none", "Remove", "RemoveBack", "RemoveAll"}]
      /\ pc \in [Threads -> {"idle", "lock", "check", "link", "link_ring", "clear",
                             "unlock"}]
      /\ ret \in [Threads -> Nodes \cup {Null}]
      /\ Driver \in Threads /\ Null \notin Nodes
      /\ \A t \in Threads : op[t] = "RemoveAll" => t = Driver
      /\ \A t \in Threads : pc[t] = "link" => op[t] # "RemoveAll"
      /\ \A t \in Threads : pc[t] = "link_ring" => op[t] # "RemoveAll"
      /\ Pushes = {"PushFront", "PushBack"}
  BY DriverAssumption, NodesAssumption DEF IInv, TypeOK, CallInv, Pushes
<1>00. EmptyInv
  BY DEF IInv
<1>1. CASE Open
  BY <1>00, <1>1 DEF Open, EmptyInv
<1>2. CASE Close
  BY <1>0, <1>00, <1>2 DEF Close, Goto, EmptyInv
<1>3. CASE CallRemoveBack
  BY <1>0, <1>00, <1>3 DEF CallRemoveBack, Goto, EmptyInv
<1>4. ASSUME NEW t \in Threads, NEW o \in Pushes \cup {"Remove"}, NEW n \in Nodes,
             NEW i \in 1 .. ids, Call(t, o, n, i)
      PROVE  EmptyInv'
  BY <1>0, <1>00, <1>4 DEF Call, Goto, EmptyInv
<1>5. ASSUME NEW t \in Threads, Acquire(t)
      PROVE  EmptyInv'
  BY <1>0, <1>00, <1>5 DEF Acquire, Goto, EmptyInv
<1>6. ASSUME NEW t \in Threads, Refuse(t)
      PROVE  EmptyInv'
  BY <1>0, <1>00, <1>6 DEF Refuse, Goto, EmptyInv
<1>7. ASSUME NEW t \in Threads, Accept(t)
      PROVE  EmptyInv'
  <2>1. pc[Driver] \in InSection => t = Driver
    BY <1>0, <1>7 DEF IInv, LockInv, Accept, InSection
  <2>2. op' = op /\ ret' = ret /\ pc' = [pc EXCEPT ![t] = "link"]
    BY <1>7 DEF Accept, Goto
  <2> QED
    BY <1>0, <1>00, <2>1, <2>2 DEF EmptyInv, InSection
<1>8. ASSUME NEW t \in Threads, LinkNode(t) \/ LinkRing(t) \/ UnlinkRing(t)
      PROVE  EmptyInv'
  BY <1>0, <1>00, <1>8 DEF LinkNode, LinkRing, UnlinkRing, Goto, EmptyInv
<1>9. ASSUME NEW t \in Threads, TakeEnd(t)
      PROVE  EmptyInv'
  <2>1. pc[Driver] \in InSection => t = Driver
    BY <1>0, <1>9 DEF IInv, LockInv, TakeEnd, InSection
  <2>2. \/ list' = << >> /\ pc' = [pc EXCEPT ![t] = "unlock"]
        \/ /\ pc' = [pc EXCEPT ![t] = "clear"] /\ ret' = [ret EXCEPT ![t] = EndNode(t)]
           /\ EndNode(t) \in Nodes
    BY <1>9, TakeEndList
  <2>3. op' = op /\ op[t] \in {"RemoveBack", "RemoveAll"}
    BY <1>9 DEF TakeEnd
  <2>4. t = Driver
    BY <2>3, <1>0 DEF IInv, CallInv
  <2> QED
    BY <1>0, <1>00, <2>2, <2>3, <2>4 DEF EmptyInv
<1>10. ASSUME NEW t \in Threads, ClearNode(t)
       PROVE  EmptyInv'
  BY <1>0, <1>00, <1>10 DEF ClearNode, Goto, EmptyInv
<1>11. ASSUME NEW t \in Threads, Unlock(t)
       PROVE  EmptyInv'
  BY <1>0, <1>00, <1>11 DEF Unlock, Goto, EmptyInv
<1>12. CASE UNCHANGED vars
  BY <1>00, <1>12 DEF vars, EmptyInv
<1> QED
  BY <1>1, <1>2, <1>3, <1>4, <1>5, <1>6, <1>7, <1>8, <1>9, <1>10, <1>11, <1>12
     DEF Next, Inside

(* An accepted push finds owner_ set, so the list is not one of an ended core. *)
LEMMA ClosedStep ==
  ASSUME IInv, [Next]_vars
  PROVE  ClosedStaysEmpty'
<1>0. ClosedStaysEmpty /\ OwnerInv /\ EmptyInv
  BY DEF IInv
<1>1. CASE list' = list
  <2>1. CASE phase' = "empty" /\ phase # "empty"
    <3>1. PICK t \in Threads : Unlock(t) /\ op[t] = "RemoveAll" /\ ret[t] = Null
      BY <2>1 DEF Next, Inside, vars, Open, Close, CallRemoveBack, Call, Acquire, Refuse,
                  Accept, TakeEnd, LinkNode, LinkRing, UnlinkRing, ClearNode, Unlock
    <3>2. t = Driver /\ pc[t] = "unlock"
      BY <3>1 DEF IInv, CallInv, Unlock
    <3> QED
      BY <1>0, <1>1, <3>1, <3>2 DEF EmptyInv, ClosedStaysEmpty
  <2>2. CASE ~(phase' = "empty" /\ phase # "empty")
    BY <1>0, <1>1, <2>2 DEF ClosedStaysEmpty
  <2> QED
    BY <2>1, <2>2
<1>2. CASE list' # list
  <2>1. PICK t \in Threads : Accept(t) \/ TakeEnd(t)
    BY <1>2, ListChanges
  <2>2. phase' = phase
    BY <2>1 DEF Accept, TakeEnd
  <2>3. CASE Accept(t)
    <3>1. owner # 0
      BY <2>3, AcceptPush, AcceptRemove DEF Accept
    <3>2. phase = "open"
      BY <3>1, <1>0 DEF OwnerInv
    <3> QED
      BY <3>2, <2>2 DEF ClosedStaysEmpty
  <2>4. CASE TakeEnd(t)
    <3>1. op[t] \in {"RemoveBack", "RemoveAll"} /\ t = Driver
      BY <2>4 DEF TakeEnd, IInv, CallInv
    <3>2. phase \in {"open", "closed"}
      BY <3>1, <1>0 DEF OwnerInv
    <3> QED
      BY <3>2, <2>2 DEF ClosedStaysEmpty
  <2> QED
    BY <2>1, <2>3, <2>4
<1> QED
  BY <1>1, <1>2

(* While a thread is in its critical section, no other one is linking. *)
LEMMA Alone ==
  ASSUME IInv, NEW t \in Threads, pc[t] \in InSection, NEW u \in Threads, u # t
  PROVE  pc[u] \notin Linking
BY DEF IInv, LockInv, InSection, Linking

(* What the proofs about the links need to know of the types *)
LEMMA RingTypes ==
  ASSUME IInv
  PROVE  /\ list \in Seq(Nodes) /\ Len(list) \in Nat
         /\ next \in [Nodes \cup {Sentinel} -> Links] /\ prev \in [Nodes \cup {Sentinel} -> Links]
         /\ pc \in [Threads -> {"idle", "lock", "check", "link", "link_ring", "clear",
                                "unlock"}]
         /\ op \in [Threads -> Pushes \cup {"none", "Remove", "RemoveBack", "RemoveAll"}]
         /\ node \in [Threads -> Nodes \cup {Null}]
BY DEF IInv, TypeOK

(* A step that touches no link, no list and no thread that is linking *)
LEMMA QuietStep ==
  ASSUME IInv,
         next' = next, prev' = prev, list' = list,
         \A t \in Threads :
           \/ pc[t] \notin Linking /\ pc'[t] \notin Linking
           \/ pc'[t] = pc[t] /\ op'[t] = op[t] /\ node'[t] = node[t]
  PROVE  RingInv' /\ NullInv'
<1>0. RingInv /\ NullInv
  BY DEF IInv
<1>1. \A i : At(list', i) = At(list, i)
  BY DEF At
<1>2. \A i : Arc(i)' <=> Arc(i)
  BY <1>1 DEF Arc
<1>3. \A t \in Threads : pc[t] \in Linking \/ pc'[t] \in Linking =>
        pc'[t] = pc[t] /\ op'[t] = op[t] /\ node'[t] = node[t]
  OBVIOUS
<1>4. ASSUME NEW t \in Threads, pc'[t] \in Linking
      PROVE  /\ Before(t)' = Before(t) /\ (Skipped(t)' <=> Skipped(t))
             /\ \A k : Via(k, node[t])' <=> Via(k, node[t])
  <2>1. Before(t)' = Before(t)
    BY <1>3, <1>4 DEF Before
  <2>2. Skipped(t)' <=> Skipped(t)
    BY <1>1, <1>2, <1>3, <1>4, <2>1 DEF Skipped
  <2>3. \A k : Via(k, node[t])' <=> Via(k, node[t])
    BY <1>1, <1>3, <1>4 DEF Via
  <2> QED
    BY <2>1, <2>2, <2>3
<1>5. IsInjective(list')
  BY <1>0 DEF RingInv
<1>6. (\A t \in Threads : pc'[t] \notin {"link", "link_ring"}) =>
        \A i \in 0 .. Len(list') : Arc(i)'
  BY <1>0, <1>2, <1>3 DEF RingInv, Linking
<1>7. ASSUME NEW t \in Threads, pc'[t] = "link", op'[t] \in Pushes
      PROVE  Skipped(t)'
  BY <1>0, <1>3, <1>4, <1>7 DEF RingInv, Linking
<1>8. ASSUME NEW t \in Threads, pc'[t] = "link_ring"
      PROVE  /\ Skipped(t)'
             /\ next'[node'[t]] = At(list', Before(t)' + 2)
             /\ prev'[node'[t]] = At(list', Before(t)')
  BY <1>0, <1>1, <1>3, <1>4, <1>8 DEF RingInv, Linking
<1>9. ASSUME NEW t \in Threads, pc'[t] = "link", op'[t] = "Remove"
      PROVE  \E k \in 0 .. Len(list') :
               Via(k, node[t])' /\ \A i \in 0 .. Len(list') : i # k => Arc(i)'
  BY <1>0, <1>2, <1>3, <1>4, <1>9 DEF RingInv, Linking
<1>10. ASSUME NEW t \in Threads, pc'[t] \in {"link", "clear"}, op'[t] \notin Pushes
       PROVE  ~Contains(list', node'[t])
  BY <1>0, <1>3, <1>10 DEF RingInv, Linking
<1>11. RingInv'
  BY <1>5, <1>6, <1>7, <1>8, <1>9, <1>10 DEF RingInv
<1>12. NullInv'
  BY <1>0, <1>3 DEF NullInv, Linking
<1> QED
  BY <1>11, <1>12

(* What a step of the one linking thread has to establish *)
LEMMA StageStep ==
  ASSUME IInv, NEW t \in Threads, pc[t] \in InSection,
         \A u \in Threads \ {t} : pc'[u] = pc[u],
         IsInjective(list'),
         pc'[t] \notin {"link", "link_ring"} => \A i \in 0 .. Len(list') : Arc(i)',
         pc'[t] = "link" /\ op'[t] \in Pushes => Skipped(t)',
         pc'[t] = "link_ring" =>
            /\ Skipped(t)'
            /\ next'[node'[t]] = At(list', Before(t)' + 2)
            /\ prev'[node'[t]] = At(list', Before(t)'),
         pc'[t] = "link" /\ op'[t] = "Remove" =>
            \E k \in 0 .. Len(list') :
              Via(k, node[t])' /\ \A i \in 0 .. Len(list') : i # k => Arc(i)',
         pc'[t] \in {"link", "clear"} /\ op'[t] \notin Pushes => ~Contains(list', node'[t])
  PROVE  RingInv'
<1>1. \A u \in Threads : u # t => pc'[u] \notin {"link", "link_ring", "clear"}
  BY Alone DEF Linking
<1> QED
  BY <1>1 DEF RingInv

(* A node that is to be linked in is passed over by the ring, ... *)
LEMMA AcceptPushRing ==
  ASSUME IInv, NEW t \in Threads, Accept(t), op[t] \in Pushes
  PROVE  Skipped(t)' /\ IsInjective(list')
<1> DEFINE b == Before(t)'
<1>0. list \in Seq(Nodes) /\ Len(list) \in Nat /\ next' = next /\ prev' = prev /\ node' = node
  BY RingTypes DEF Accept
<1>1. /\ node[t] \in Nodes /\ ~Contains(list, node[t])
      /\ list' \in Seq(Nodes) /\ list' # << >> /\ b \in 0 .. Len(list)
      /\ Drops(list, list', b + 1) /\ list'[b + 1] = node[t]
  BY AcceptPush
<1> HIDE DEF b
<1>2. b \in Nat /\ b + 1 \in Nat /\ Len(list') = Len(list) + 1 /\ b + 1 \in 1 .. Len(list')
  BY <1>0, <1>1 DEF Drops
<1>3. \A i \in 0 .. Len(list) + 1 :
        At(list, i) = IF i < b + 1 THEN At(list', i) ELSE At(list', i + 1)
  BY <1>0, <1>1, <1>2, DropsAt
<1>4. \A i \in 0 .. Len(list) : Arc(i)
  BY IntactAtCheck DEF Accept
<1>5. IsInjective(list')
  <2>1. IsInjective(list)
    BY DEF IInv, RingInv
  <2> QED
    BY <2>1, <1>0, <1>1, <1>2, DropsElements
<1>6. At(list', b + 1) = node[t]
  BY <1>1, <1>2 DEF At
<1>7. At(list', b) = At(list, b) /\ At(list', b + 2) = At(list, b + 1)
  <2>1. b \in 0 .. Len(list) + 1 /\ b + 1 \in 0 .. Len(list) + 1 /\ b < b + 1
        /\ ~(b + 1 < b + 1) /\ (b + 1) + 1 = b + 2
    BY <1>0, <1>1, <1>2
  <2> QED
    BY <1>3, <2>1
<1>8. next[At(list', b)] = At(list', b + 2) /\ prev[At(list', b + 2)] = At(list', b)
  BY <1>1, <1>4, <1>7 DEF Arc
<1>9. ASSUME NEW i \in 0 .. Len(list'), i # b, i # b + 1
      PROVE  next[At(list', i)] = At(list', i + 1) /\ prev[At(list', i + 1)] = At(list', i)
  <2>1. CASE i < b
    <3>1. i \in 0 .. Len(list) /\ i \in 0 .. Len(list) + 1 /\ i + 1 \in 0 .. Len(list) + 1
          /\ i < b + 1 /\ i + 1 < b + 1
      BY <2>1, <1>0, <1>1, <1>2
    <3> QED
      BY <3>1, <1>3, <1>4 DEF Arc
  <2>2. CASE i > b + 1
    <3>1. i - 1 \in 0 .. Len(list) /\ i - 1 \in 0 .. Len(list) + 1 /\ i \in 0 .. Len(list) + 1
          /\ ~(i - 1 < b + 1) /\ ~(i < b + 1) /\ (i - 1) + 1 = i
      BY <2>2, <1>0, <1>1, <1>2
    <3>2. At(list, i - 1) = At(list', i) /\ At(list, i) = At(list', i + 1)
      BY <3>1, <1>3
    <3> QED
      BY <3>1, <3>2, <1>4 DEF Arc
  <2> QED
    BY <2>1, <2>2, <1>2, <1>9
<1>10. \A i \in 0 .. Len(list') : i # b /\ i # b + 1 => Arc(i)'
  BY <1>0, <1>9 DEF Arc
<1> QED
  BY <1>0, <1>1, <1>5, <1>6, <1>8, <1>10 DEF Skipped, b

(* ... and one that is to be unlinked stands between two places of it. *)
LEMMA AcceptRemoveRing ==
  ASSUME IInv, NEW t \in Threads, Accept(t), op[t] = "Remove"
  PROVE  /\ IsInjective(list') /\ ~Contains(list', node[t])
         /\ \E k \in 0 .. Len(list') :
              Via(k, node[t])' /\ \A i \in 0 .. Len(list') : i # k => Arc(i)'
<1>0. list \in Seq(Nodes) /\ Len(list) \in Nat /\ next' = next /\ prev' = prev /\ node' = node
  BY RingTypes DEF Accept
<1>1. PICK k \in 1 .. Len(list) :
        list[k] = node[t] /\ list' \in Seq(Nodes) /\ Drops(list', list, k)
  BY AcceptRemove
<1>2. k \in Nat /\ Len(list') = Len(list) - 1 /\ Len(list') \in Nat
  BY <1>0, <1>1 DEF Drops
<1>3. \A i \in 0 .. Len(list') + 1 :
        At(list', i) = IF i < k THEN At(list, i) ELSE At(list, i + 1)
  BY <1>0, <1>1, <1>2, DropsAt
<1>4. \A i \in 0 .. Len(list) : Arc(i)
  BY IntactAtCheck DEF Accept
<1>5. IsInjective(list') /\ ~Contains(list', node[t])
  <2>1. IsInjective(list)
    BY DEF IInv, RingInv
  <2> QED
    BY <2>1, <1>0, <1>1, <1>2, DropsElements
<1>6. At(list, k) = node[t]
  BY <1>1 DEF At
<1>7. /\ k - 1 \in 0 .. Len(list') /\ k - 1 \in 0 .. Len(list) /\ k \in 0 .. Len(list)
      /\ k - 1 \in 0 .. Len(list') + 1 /\ k \in 0 .. Len(list') + 1
      /\ k - 1 < k /\ ~(k < k) /\ (k - 1) + 1 = k
  BY <1>0, <1>1, <1>2
<1>8. At(list', k - 1) = At(list, k - 1) /\ At(list', k) = At(list, k + 1)
  BY <1>3, <1>7
<1>9. Via(k - 1, node[t])'
  <2>1. Arc(k - 1) /\ Arc(k)
    BY <1>4, <1>7
  <2> QED
    BY <1>0, <1>6, <1>7, <1>8, <2>1 DEF Arc, Via
<1>10. ASSUME NEW i \in 0 .. Len(list'), i # k - 1
       PROVE  Arc(i)'
  <2>1. CASE i < k - 1
    <3>1. i \in 0 .. Len(list) /\ i \in 0 .. Len(list') + 1 /\ i + 1 \in 0 .. Len(list') + 1
          /\ i < k /\ i + 1 < k
      BY <2>1, <1>0, <1>1, <1>2
    <3> QED
      BY <3>1, <1>0, <1>3, <1>4 DEF Arc
  <2>2. CASE i > k - 1
    <3>1. i + 1 \in 0 .. Len(list) /\ i \in 0 .. Len(list') + 1 /\ i + 1 \in 0 .. Len(list') + 1
          /\ ~(i < k) /\ ~(i + 1 < k)
      BY <2>2, <1>0, <1>1, <1>2
    <3>2. At(list', i) = At(list, i + 1) /\ At(list', i + 1) = At(list, (i + 1) + 1)
      BY <3>1, <1>3
    <3> QED
      BY <3>1, <3>2, <1>0, <1>4 DEF Arc
  <2> QED
    BY <2>1, <2>2, <1>2, <1>10
<1> QED
  BY <1>5, <1>7, <1>9, <1>10

(* The place after which the node of a push goes, and its neighbours *)
LEMMA BeforeIn ==
  ASSUME IInv, NEW t \in Threads, Skipped(t), op[t] \in Pushes
  PROVE  /\ Before(t) \in 0 .. Len(list) /\ Before(t) + 1 \in 0 .. Len(list)
         /\ Before(t) + 1 \in 1 .. Len(list) /\ Before(t) + 1 \in 1 .. Len(list) + 1
         /\ Before(t) + 2 \in 1 .. Len(list) + 1
         /\ Before(t) # Before(t) + 1 /\ Before(t) + 1 # Before(t) + 2
         /\ (Before(t) + 1) + 1 = Before(t) + 2
         /\ op[t] = "PushFront" => At(list, Before(t)) = Sentinel
         /\ op[t] = "PushBack" => At(list, Before(t) + 2) = Sentinel
<1>1. list \in Seq(Nodes) /\ Len(list) \in Nat /\ Len(list) # 0
  BY RingTypes DEF Skipped
<1>2. CASE op[t] = "PushFront"
  BY <1>1, <1>2 DEF Before, At
<1>3. CASE op[t] = "PushBack"
  BY <1>1, <1>3 DEF Before, At
<1> QED
  BY <1>2, <1>3 DEF Pushes

(* The node gets its own links: no link of the ring is touched. *)
LEMMA LinkNodeRing ==
  ASSUME IInv, NEW t \in Threads, LinkNode(t)
  PROVE  RingInv' /\ NullInv'
<1> DEFINE b == Before(t)
           n == node[t]
<1>0. /\ list \in Seq(Nodes) /\ Len(list) \in Nat
      /\ next \in [Nodes \cup {Sentinel} -> Links] /\ prev \in [Nodes \cup {Sentinel} -> Links]
      /\ list' = list /\ op' = op /\ node' = node
      /\ pc' = [pc EXCEPT ![t] = "link_ring"] /\ pc[t] = "link" /\ op[t] \in Pushes
      /\ pc'[t] = "link_ring"
  BY RingTypes DEF LinkNode, Goto
<1>1. Skipped(t) /\ IsInjective(list)
  BY <1>0 DEF IInv, RingInv
<1>2. /\ b \in 0 .. Len(list) /\ b + 1 \in 0 .. Len(list)
      /\ b + 1 \in 1 .. Len(list) + 1 /\ b + 2 \in 1 .. Len(list) + 1
      /\ b # b + 1 /\ b + 1 # b + 2
  BY <1>0, <1>1, BeforeIn
<1>3. /\ At(list, b + 1) = n
      /\ next[At(list, b)] = At(list, b + 2) /\ prev[At(list, b + 2)] = At(list, b)
      /\ \A i \in 0 .. Len(list) : i # b /\ i # b + 1 => Arc(i)
  BY <1>1 DEF Skipped
<1>4. n \in Nodes
  BY <1>0 DEF IInv, CallInv
<1>5. next' = [next EXCEPT ![n] = At(list, b + 2)] /\ prev' = [prev EXCEPT ![n] = At(list, b)]
  <2>1. CASE op[t] = "PushFront"
    <3>1. At(list, b) = Sentinel
      BY <1>0, <1>1, <2>1, BeforeIn
    <3> QED
      BY <3>1, <2>1, <1>3 DEF LinkNode
  <2>2. CASE op[t] = "PushBack"
    <3>1. At(list, b + 2) = Sentinel
      BY <1>0, <1>1, <2>2, BeforeIn
    <3> QED
      BY <3>1, <2>2, <1>3 DEF LinkNode
  <2> QED
    BY <2>1, <2>2, <1>0 DEF Pushes
<1>6. Before(t)' = b /\ \A i : At(list', i) = At(list, i)
  BY <1>0 DEF Before, At
<1> HIDE DEF b, n
<1>7. /\ \A i, j \in 0 .. Len(list) : At(list, i) = At(list, j) => i = j
      /\ \A i, j \in 1 .. Len(list) + 1 : At(list, i) = At(list, j) => i = j
      /\ \A i : At(list, i) \in Nodes \cup {Sentinel}
  BY <1>0, <1>1, AtDistinct, AtType
<1>8. At(list, b) # n /\ At(list, b + 2) # n
  BY <1>2, <1>3, <1>7
<1>9. next'[At(list, b)] = At(list, b + 2) /\ prev'[At(list, b + 2)] = At(list, b)
  BY <1>0, <1>3, <1>5, <1>7, <1>8
<1>10. next'[n] = At(list, b + 2) /\ prev'[n] = At(list, b)
  BY <1>0, <1>4, <1>5
<1>11. ASSUME NEW i \in 0 .. Len(list), i # b, i # b + 1
       PROVE  Arc(i)'
  <2>1. i + 1 \in 1 .. Len(list) + 1 /\ i + 1 # b + 1
    BY <1>0, <1>2, <1>11
  <2>2. At(list, i) # n /\ At(list, i + 1) # n
    BY <2>1, <1>2, <1>3, <1>7, <1>11
  <2>3. next'[At(list, i)] = next[At(list, i)] /\ prev'[At(list, i + 1)] = prev[At(list, i + 1)]
    BY <2>2, <1>0, <1>5, <1>7
  <2> QED
    BY <2>3, <1>3, <1>6, <1>11 DEF Arc
<1>12. Skipped(t)'
  BY <1>0, <1>1, <1>3, <1>6, <1>9, <1>11 DEF Skipped, n
<1>13. RingInv'
  <2>1. \A u \in Threads \ {t} : pc'[u] = pc[u]
    BY <1>0
  <2>2. next'[node'[t]] = At(list', Before(t)' + 2) /\ prev'[node'[t]] = At(list', Before(t)')
    BY <1>0, <1>6, <1>10 DEF n
  <2> QED
    BY <2>1, <2>2, <1>0, <1>1, <1>12, StageStep DEF InSection
<1>14. NullInv'
  <2>1. Contains(list, n)
    BY <1>1, <1>3, AtType, BeforeIn, <1>0, <1>4, NodesAssumption DEF b, n
  <2>2. \A m \in Nodes : m # n => next'[m] = next[m] /\ prev'[m] = prev[m]
    BY <1>0, <1>5
  <2>3. \A u \in Threads : pc[u] \in {"link", "clear"} /\ op[u] \notin Pushes =>
          pc'[u] = pc[u] /\ op'[u] = op[u] /\ node'[u] = node[u]
    BY <1>0
  <2>4. NullInv
    BY DEF IInv
  <2> SUFFICES ASSUME NEW m \in Nodes
               PROVE  \/ Contains(list', m)
                      \/ next'[m] = Null /\ prev'[m] = Null
                      \/ \E u \in Threads :
                           pc'[u] \in {"link", "clear"} /\ op'[u] \notin Pushes /\ node'[u] = m
    BY DEF NullInv
  <2>5. CASE m = n
    BY <2>1, <2>5, <1>0
  <2>6. CASE m # n
    BY <2>2, <2>3, <2>4, <2>6, <1>0 DEF NullInv
  <2> QED
    BY <2>5, <2>6
<1> QED
  BY <1>13, <1>14

(* Then its neighbours get theirs: the ring is intact with the node in it. *)
LEMMA LinkRingRing ==
  ASSUME IInv, NEW t \in Threads, LinkRing(t)
  PROVE  RingInv' /\ NullInv'
<1> DEFINE b == Before(t)
           n == node[t]
<1>0. /\ list \in Seq(Nodes) /\ Len(list) \in Nat
      /\ next \in [Nodes \cup {Sentinel} -> Links] /\ prev \in [Nodes \cup {Sentinel} -> Links]
      /\ list' = list /\ op' = op /\ node' = node
      /\ pc' = [pc EXCEPT ![t] = "unlock"] /\ pc[t] = "link_ring" /\ pc'[t] = "unlock"
      /\ op[t] \in Pushes
  BY RingTypes DEF LinkRing, Goto, IInv, CallInv
<1>1. /\ Skipped(t) /\ IsInjective(list)
      /\ next[n] = At(list, b + 2) /\ prev[n] = At(list, b)
  BY <1>0 DEF IInv, RingInv
<1>2. /\ b \in 0 .. Len(list) /\ b + 1 \in 0 .. Len(list)
      /\ b + 1 \in 1 .. Len(list) + 1 /\ b + 2 \in 1 .. Len(list) + 1
      /\ b # b + 1 /\ b + 1 # b + 2 /\ (b + 1) + 1 = b + 2
  BY <1>0, <1>1, BeforeIn
<1>3. /\ At(list, b + 1) = n
      /\ \A i \in 0 .. Len(list) : i # b /\ i # b + 1 => Arc(i)
  BY <1>1 DEF Skipped
<1>4. next' = [next EXCEPT ![At(list, b)] = n] /\ prev' = [prev EXCEPT ![At(list, b + 2)] = n]
  BY <1>1 DEF LinkRing
<1>5. \A i : At(list', i) = At(list, i)
  BY <1>0 DEF At
<1> HIDE DEF b, n
<1>7. /\ \A i, j \in 0 .. Len(list) : At(list, i) = At(list, j) => i = j
      /\ \A i, j \in 1 .. Len(list) + 1 : At(list, i) = At(list, j) => i = j
      /\ \A i : At(list, i) \in Nodes \cup {Sentinel}
  BY <1>0, <1>1, AtDistinct, AtType
<1>8. ASSUME NEW i \in 0 .. Len(list)
      PROVE  Arc(i)'
  <2>1. i + 1 \in 1 .. Len(list) + 1
    BY <1>0
  <2>2. CASE i = b
    <3>1. At(list, b + 1) # At(list, b + 2)
      BY <1>2, <1>7
    <3>2. next'[At(list, b)] = n /\ prev'[At(list, b + 1)] = prev[n]
      BY <3>1, <1>0, <1>3, <1>4, <1>7
    <3> QED
      BY <3>2, <2>2, <1>1, <1>3, <1>5 DEF Arc
  <2>3. CASE i = b + 1
    <3>1. At(list, b + 1) # At(list, b)
      BY <1>2, <1>7
    <3>2. next'[At(list, b + 1)] = next[n] /\ prev'[At(list, b + 2)] = n
      BY <3>1, <1>0, <1>3, <1>4, <1>7
    <3> QED
      BY <3>2, <2>3, <1>1, <1>2, <1>3, <1>5 DEF Arc
  <2>4. CASE i # b /\ i # b + 1
    <3>1. i + 1 # b + 2
      BY <2>4, <1>0, <1>2
    <3>2. At(list, i) # At(list, b) /\ At(list, i + 1) # At(list, b + 2)
      BY <3>1, <2>1, <2>4, <1>2, <1>7
    <3>3. next'[At(list, i)] = next[At(list, i)] /\ prev'[At(list, i + 1)] = prev[At(list, i + 1)]
      BY <3>2, <1>0, <1>4, <1>7
    <3> QED
      BY <3>3, <2>4, <1>3, <1>5 DEF Arc
  <2> QED
    BY <2>2, <2>3, <2>4
<1>9. RingInv'
  <2>1. \A u \in Threads \ {t} : pc'[u] = pc[u]
    BY <1>0
  <2> QED
    BY <2>1, <1>0, <1>1, <1>8, StageStep DEF InSection
<1>10. NullInv'
  <2>1. ASSUME NEW m \in Nodes, ~Contains(list, m)
        PROVE  next'[m] = next[m] /\ prev'[m] = prev[m]
    <3>1. \A i : At(list, i) # m
      BY <2>1, <1>0, AtType, NodesAssumption
    <3> QED
      BY <3>1, <1>0, <1>4
  <2>2. \A u \in Threads : pc[u] \in {"link", "clear"} /\ op[u] \notin Pushes =>
          pc'[u] = pc[u] /\ op'[u] = op[u] /\ node'[u] = node[u]
    BY <1>0
  <2> QED
    BY <2>1, <2>2, <1>0 DEF IInv, NullInv
<1> QED
  BY <1>9, <1>10

(* The neighbours of the node are linked to each other: the ring is intact. *)
LEMMA UnlinkRingRing ==
  ASSUME IInv, NEW t \in Threads, UnlinkRing(t)
  PROVE  RingInv' /\ NullInv'
<1> DEFINE n == node[t]
<1>0. /\ list \in Seq(Nodes) /\ Len(list) \in Nat
      /\ next \in [Nodes \cup {Sentinel} -> Links] /\ prev \in [Nodes \cup {Sentinel} -> Links]
      /\ list' = list /\ op' = op /\ node' = node
      /\ pc' = [pc EXCEPT ![t] = "clear"] /\ pc[t] = "link" /\ pc'[t] = "clear"
      /\ op[t] = "Remove" /\ op[t] \notin Pushes
  BY RingTypes DEF UnlinkRing, Goto, Pushes
<1>1. IsInjective(list) /\ ~Contains(list, n)
  BY <1>0 DEF IInv, RingInv
<1>2. PICK k \in 0 .. Len(list) :
        Via(k, n) /\ \A i \in 0 .. Len(list) : i # k => Arc(i)
  BY <1>0 DEF IInv, RingInv
<1>3. /\ next' = [next EXCEPT ![At(list, k)] = At(list, k + 1)]
      /\ prev' = [prev EXCEPT ![At(list, k + 1)] = At(list, k)]
  BY <1>2 DEF UnlinkRing, Via
<1>4. \A i : At(list', i) = At(list, i)
  BY <1>0 DEF At
<1>5. /\ \A i, j \in 0 .. Len(list) : At(list, i) = At(list, j) => i = j
      /\ \A i, j \in 1 .. Len(list) + 1 : At(list, i) = At(list, j) => i = j
      /\ \A i : At(list, i) \in Nodes \cup {Sentinel}
  BY <1>0, <1>1, AtDistinct, AtType
<1>6. k + 1 \in 1 .. Len(list) + 1
  BY <1>0
<1>7. ASSUME NEW i \in 0 .. Len(list)
      PROVE  Arc(i)'
  <2>1. i + 1 \in 1 .. Len(list) + 1 /\ (i # k => i + 1 # k + 1)
    BY <1>0
  <2>2. CASE i = k
    BY <2>2, <1>0, <1>3, <1>4, <1>5 DEF Arc
  <2>3. CASE i # k
    <3>1. At(list, i) # At(list, k) /\ At(list, i + 1) # At(list, k + 1)
      BY <2>1, <2>3, <1>5, <1>6
    <3>2. next'[At(list, i)] = next[At(list, i)] /\ prev'[At(list, i + 1)] = prev[At(list, i + 1)]
      BY <3>1, <1>0, <1>3, <1>5
    <3> QED
      BY <3>2, <2>3, <1>2, <1>4 DEF Arc
  <2> QED
    BY <2>2, <2>3
<1>8. RingInv'
  <2>1. \A u \in Threads \ {t} : pc'[u] = pc[u]
    BY <1>0
  <2>2. ~Contains(list', node'[t])
    BY <1>0, <1>1
  <2> QED
    BY <2>1, <2>2, <1>0, <1>1, <1>7, StageStep DEF InSection
<1>9. NullInv'
  <2>1. ASSUME NEW m \in Nodes, ~Contains(list, m)
        PROVE  next'[m] = next[m] /\ prev'[m] = prev[m]
    <3>1. \A i : At(list, i) # m
      BY <2>1, <1>0, AtType, NodesAssumption
    <3> QED
      BY <3>1, <1>0, <1>3
  <2>2. \A u \in Threads : pc[u] \in {"link", "clear"} /\ op[u] \notin Pushes =>
          pc'[u] \in {"link", "clear"} /\ op'[u] = op[u] /\ node'[u] = node[u]
    BY <1>0
  <2> QED
    BY <2>1, <2>2, <1>0 DEF IInv, NullInv
<1> QED
  BY <1>8, <1>9

(* The links of a node that has left are cleared. *)
LEMMA ClearNodeRing ==
  ASSUME IInv, NEW t \in Threads, ClearNode(t)
  PROVE  RingInv' /\ NullInv'
<1> DEFINE n == node[t]
<1>0. /\ list \in Seq(Nodes) /\ Len(list) \in Nat
      /\ next \in [Nodes \cup {Sentinel} -> Links] /\ prev \in [Nodes \cup {Sentinel} -> Links]
      /\ list' = list /\ op' = op /\ node' = node
      /\ pc' = [pc EXCEPT ![t] = "unlock"] /\ pc[t] = "clear" /\ pc'[t] = "unlock"
      /\ op[t] \notin Pushes /\ n \in Nodes
      /\ next' = [next EXCEPT ![n] = Null] /\ prev' = [prev EXCEPT ![n] = Null]
  BY RingTypes DEF ClearNode, Goto, IInv, CallInv
<1>1. IsInjective(list) /\ ~Contains(list, n)
  BY <1>0 DEF IInv, RingInv
<1>2. \A i \in 0 .. Len(list) : Arc(i)
  BY <1>0, IntactAtCheck
<1>3. \A i : At(list', i) = At(list, i) /\ At(list, i) # n /\ At(list, i) \in Nodes \cup {Sentinel}
  <2>1. \A i : At(list, i) # n /\ At(list, i) \in Nodes \cup {Sentinel}
    BY <1>0, <1>1, AtType, NodesAssumption
  <2>2. \A i : At(list', i) = At(list, i)
    BY <1>0 DEF At
  <2> QED
    BY <2>1, <2>2
<1> HIDE DEF n
<1>4. ASSUME NEW i \in 0 .. Len(list)
      PROVE  Arc(i)'
  <2>1. next'[At(list, i)] = next[At(list, i)] /\ prev'[At(list, i + 1)] = prev[At(list, i + 1)]
    BY <1>0, <1>3
  <2> QED
    BY <2>1, <1>2, <1>3 DEF Arc
<1>5. RingInv'
  <2>1. \A u \in Threads \ {t} : pc'[u] = pc[u]
    BY <1>0
  <2> QED
    BY <2>1, <1>0, <1>1, <1>4, StageStep DEF InSection
<1>6. NullInv'
  <2>1. next'[n] = Null /\ prev'[n] = Null
    BY <1>0
  <2>2. \A m \in Nodes : m # n => next'[m] = next[m] /\ prev'[m] = prev[m]
    BY <1>0
  <2>3. \A u \in Threads : pc[u] \in {"link", "clear"} => u = t
    BY <1>0 DEF IInv, LockInv, InSection
  <2>4. NullInv
    BY DEF IInv
  <2> QED
    BY <2>1, <2>2, <2>3, <2>4, <1>0 DEF NullInv, n
<1> QED
  BY <1>5, <1>6

(* The same for a node taken from an end, in one step. *)
LEMMA TakeEndRing ==
  ASSUME IInv, NEW t \in Threads, TakeEnd(t), list # << >>
  PROVE  RingInv' /\ NullInv'
<1> DEFINE n == EndNode(t)
<1>0. /\ list \in Seq(Nodes) /\ Len(list) \in Nat
      /\ next \in [Nodes \cup {Sentinel} -> Links] /\ prev \in [Nodes \cup {Sentinel} -> Links]
      /\ op' = op /\ op[t] \in {"RemoveBack", "RemoveAll"} /\ op[t] \notin Pushes
      /\ pc[t] = "check" /\ n \in Nodes
      /\ pc' = [pc EXCEPT ![t] = "clear"] /\ pc'[t] = "clear"
      /\ node' = [node EXCEPT ![t] = n] /\ node'[t] = n
  <2>1. n \in Nodes /\ pc' = [pc EXCEPT ![t] = "clear"] /\ node' = [node EXCEPT ![t] = n]
    BY TakeEndList
  <2> QED
    BY <2>1, RingTypes DEF TakeEnd, Pushes
<1>1. PICK k \in 1 .. Len(list) :
        /\ k = (IF op[t] = "RemoveBack" THEN Len(list) ELSE 1)
        /\ n = list[k] /\ list' \in Seq(Nodes) /\ Drops(list', list, k)
  BY TakeEndList
<1>2. k \in Nat /\ Len(list') = Len(list) - 1 /\ Len(list') \in Nat
  BY <1>0, <1>1 DEF Drops
<1>3. \A i \in 0 .. Len(list') + 1 :
        At(list', i) = IF i < k THEN At(list, i) ELSE At(list, i + 1)
  BY <1>0, <1>1, <1>2, DropsAt
<1>4. \A i \in 0 .. Len(list) : Arc(i)
  BY <1>0, IntactAtCheck
<1>5. IsInjective(list)
  BY DEF IInv, RingInv
<1>6. /\ IsInjective(list') /\ ~Contains(list', n)
      /\ \A e : Contains(list, e) <=> Contains(list', e) \/ e = n
  BY <1>0, <1>1, <1>2, <1>5, DropsElements
<1>7. /\ \A i, j \in 0 .. Len(list) : At(list, i) = At(list, j) => i = j
      /\ \A i, j \in 1 .. Len(list) + 1 : At(list, i) = At(list, j) => i = j
      /\ \A i : At(list, i) \in Nodes \cup {Sentinel}
  BY <1>0, <1>5, AtDistinct, AtType
<1>8. /\ k - 1 \in 0 .. Len(list) /\ k \in 0 .. Len(list) /\ k + 1 \in 1 .. Len(list) + 1
      /\ (k - 1) + 1 = k
  BY <1>0, <1>1, <1>2
<1>9. next[n] = At(list, k + 1) /\ prev[n] = At(list, k - 1)
  <2>1. At(list, k) = n
    BY <1>1 DEF At
  <2> QED
    BY <2>1, <1>4, <1>8 DEF Arc
<1>10. /\ next' = [next EXCEPT ![At(list, k - 1)] = At(list, k + 1)]
       /\ prev' = [prev EXCEPT ![At(list, k + 1)] = At(list, k - 1)]
  <2>1. CASE op[t] = "RemoveBack"
    <3>1. At(list, k + 1) = Sentinel
      BY <2>1, <1>0, <1>1 DEF At
    <3> QED
      BY <3>1, <2>1, <1>9 DEF TakeEnd
  <2>2. CASE op[t] # "RemoveBack"
    <3>1. At(list, k - 1) = Sentinel
      BY <2>2, <1>0, <1>1 DEF At
    <3> QED
      BY <3>1, <2>2, <1>9 DEF TakeEnd
  <2> QED
    BY <2>1, <2>2
<1> HIDE DEF n
<1>11. ASSUME NEW i \in 0 .. Len(list')
       PROVE  Arc(i)'
  <2>0. i \in 0 .. Len(list') + 1 /\ i + 1 \in 0 .. Len(list') + 1
    BY <1>2
  <2>1. CASE i < k - 1
    <3>1. i \in 0 .. Len(list) /\ i + 1 \in 1 .. Len(list) + 1 /\ i < k /\ i + 1 < k
          /\ i # k - 1 /\ i + 1 # k + 1
      BY <2>1, <1>0, <1>1, <1>2
    <3>2. At(list', i) = At(list, i) /\ At(list', i + 1) = At(list, i + 1)
      BY <2>0, <3>1, <1>3
    <3>3. At(list, i) # At(list, k - 1) /\ At(list, i + 1) # At(list, k + 1)
      BY <3>1, <1>7, <1>8
    <3>4. next'[At(list, i)] = next[At(list, i)] /\ prev'[At(list, i + 1)] = prev[At(list, i + 1)]
      BY <3>3, <1>0, <1>7, <1>10
    <3> QED
      BY <3>1, <3>2, <3>4, <1>4 DEF Arc
  <2>2. CASE i = k - 1
    <3>1. i < k /\ i + 1 = k /\ ~(i + 1 < k)
      BY <2>2, <1>2
    <3>2. At(list', i) = At(list, k - 1) /\ At(list', i + 1) = At(list, k + 1)
      BY <2>0, <2>2, <3>1, <1>3
    <3> QED
      BY <3>2, <1>0, <1>7, <1>10 DEF Arc
  <2>3. CASE i > k - 1
    <3>1. i + 1 \in 0 .. Len(list) /\ (i + 1) + 1 \in 1 .. Len(list) + 1
          /\ ~(i < k) /\ ~(i + 1 < k) /\ i + 1 # k - 1 /\ (i + 1) + 1 # k + 1
      BY <2>3, <1>0, <1>1, <1>2
    <3>2. At(list', i) = At(list, i + 1) /\ At(list', i + 1) = At(list, (i + 1) + 1)
      BY <2>0, <3>1, <1>3
    <3>3. At(list, i + 1) # At(list, k - 1) /\ At(list, (i + 1) + 1) # At(list, k + 1)
      BY <3>1, <1>7, <1>8
    <3>4. /\ next'[At(list, i + 1)] = next[At(list, i + 1)]
          /\ prev'[At(list, (i + 1) + 1)] = prev[At(list, (i + 1) + 1)]
      BY <3>3, <1>0, <1>7, <1>10
    <3> QED
      BY <3>1, <3>2, <3>4, <1>4 DEF Arc
  <2> QED
    BY <2>1, <2>2, <2>3, <1>2
<1>12. RingInv'
  <2>1. \A u \in Threads \ {t} : pc'[u] = pc[u]
    BY <1>0
  <2> QED
    BY <2>1, <1>0, <1>6, <1>11, StageStep DEF InSection
<1>13. NullInv'
  <2>1. ASSUME NEW m \in Nodes, ~Contains(list, m)
        PROVE  next'[m] = next[m] /\ prev'[m] = prev[m]
    <3>1. \A i : At(list, i) # m
      BY <2>1, <1>0, AtType, NodesAssumption
    <3> QED
      BY <3>1, <1>0, <1>10
  <2>2. \A u \in Threads : pc[u] \notin {"link", "clear"}
    BY <1>0 DEF IInv, LockInv, InSection
  <2>3. NullInv
    BY DEF IInv
  <2>4. \A m \in Nodes : ~Contains(list, m) => next'[m] = Null /\ prev'[m] = Null
    BY <2>1, <2>2, <2>3 DEF NullInv
  <2> QED
    BY <2>4, <1>0, <1>6 DEF NullInv
<1> QED
  BY <1>12, <1>13

(* Both kinds of Accept *)
LEMMA AcceptRing ==
  ASSUME IInv, NEW t \in Threads, Accept(t)
  PROVE  RingInv' /\ NullInv'
<1>0. /\ list \in Seq(Nodes) /\ Len(list) \in Nat
      /\ op' = op /\ node' = node /\ next' = next /\ prev' = prev
      /\ pc[t] = "check" /\ pc' = [pc EXCEPT ![t] = "link"] /\ pc'[t] = "link"
      /\ op[t] \in Pushes \cup {"Remove"} /\ "Remove" \notin Pushes
      /\ \A u \in Threads \ {t} : pc'[u] = pc[u]
  BY RingTypes DEF Accept, Goto, Pushes
<1>1. \A m \in Nodes : ~Contains(list, m) => next[m] = Null /\ prev[m] = Null
  <2>1. \A u \in Threads : pc[u] \notin {"link", "clear"}
    BY <1>0 DEF IInv, LockInv, InSection
  <2> QED
    BY <2>1 DEF IInv, NullInv
<1>2. CASE op[t] \in Pushes
  <2>1. RingInv'
    BY <1>0, <1>2, AcceptPushRing, StageStep DEF InSection
  <2>2. \A m : Contains(list, m) => Contains(list', m)
    <3> DEFINE k == Before(t)' + 1
    <3>1. list' \in Seq(Nodes) /\ Drops(list, list', k)
      BY <1>2, AcceptPush
    <3> HIDE DEF k
    <3>2. k \in Nat
      BY <3>1 DEF Drops
    <3> QED
      BY <3>1, <3>2, <1>0, DropsElements
  <2> QED
    BY <2>1, <2>2, <1>0, <1>1 DEF NullInv
<1>3. CASE op[t] = "Remove"
  <2>1. RingInv'
    BY <1>0, <1>3, AcceptRemoveRing, StageStep DEF InSection
  <2>2. \A m : Contains(list, m) => Contains(list', m) \/ m = node[t]
    <3>1. PICK k \in 1 .. Len(list) :
            list[k] = node[t] /\ list' \in Seq(Nodes) /\ Drops(list', list, k)
      BY <1>3, AcceptRemove
    <3>2. k \in Nat
      BY <1>0
    <3> QED
      BY <3>1, <3>2, <1>0, DropsElements
  <2> QED
    BY <2>1, <2>2, <1>0, <1>1, <1>3 DEF NullInv
<1> QED
  BY <1>0, <1>2, <1>3

(* Every step keeps the ring and the null links in order. *)
LEMMA RingStep ==
  ASSUME IInv, [Next]_vars
  PROVE  RingInv' /\ NullInv'
<1>0. /\ pc \in [Threads -> {"idle", "lock", "check", "link", "link_ring", "clear",
                             "unlock"}]
      /\ op \in [Threads -> Pushes \cup {"none", "Remove", "RemoveBack", "RemoveAll"}]
      /\ node \in [Threads -> Nodes \cup {Null}] /\ Driver \in Threads
  BY RingTypes, DriverAssumption
<1>1. CASE Open \/ Close \/ CallRemoveBack
  BY <1>0, <1>1, QuietStep DEF Open, Close, CallRemoveBack, Goto, Linking
<1>2. ASSUME NEW t \in Threads, NEW o \in Pushes \cup {"Remove"}, NEW n \in Nodes,
             NEW i \in 1 .. ids, Call(t, o, n, i)
      PROVE  RingInv' /\ NullInv'
  BY <1>0, <1>2, QuietStep DEF Call, Goto, Linking
<1>3. ASSUME NEW t \in Threads, Acquire(t) \/ Refuse(t)
      PROVE  RingInv' /\ NullInv'
  BY <1>0, <1>3, QuietStep DEF Acquire, Refuse, Goto, Linking
<1>4. ASSUME NEW t \in Threads, Unlock(t)
      PROVE  RingInv' /\ NullInv'
  <2>1. /\ next' = next /\ prev' = prev /\ list' = list
        /\ pc[t] \notin Linking /\ pc'[t] \notin Linking
        /\ \A u \in Threads : u # t =>
             pc'[u] = pc[u] /\ op'[u] = op[u] /\ node'[u] = node[u]
    BY <1>0, <1>4 DEF Unlock, Goto, Linking
  <2> QED
    BY <2>1, QuietStep
<1>5. ASSUME NEW t \in Threads, TakeEnd(t), list = << >>
      PROVE  RingInv' /\ NullInv'
  <2>1. /\ next' = next /\ prev' = prev /\ list' = list /\ node' = node /\ op' = op
        /\ pc[t] = "check" /\ pc' = [pc EXCEPT ![t] = "unlock"]
    BY <1>5, TakeEndList DEF TakeEnd
  <2> QED
    BY <1>0, <2>1, QuietStep DEF Linking
<1>6. CASE UNCHANGED vars
  BY <1>6, QuietStep DEF vars
<1> QED
  BY <1>1, <1>2, <1>3, <1>4, <1>5, <1>6, AcceptRing, LinkNodeRing, LinkRingRing, TakeEndRing,
     UnlinkRingRing, ClearNodeRing DEF Next, Inside

-----------------------------------------------------------------------------
(* Theorems *)

(* The invariant holds at the start. *)
LEMMA InvInit == Init => IInv
<1> SUFFICES ASSUME Init
             PROVE  IInv
  OBVIOUS
<1>0. 0 \in 0 .. MaxId
  BY BoundAssumption
<1>1. TypeOK
  <2>1. /\ next \in [Nodes \cup {Sentinel} -> Links] /\ prev \in [Nodes \cup {Sentinel} -> Links]
    BY DEF Init, Links
  <2>2. /\ pc \in [Threads -> {"idle", "lock", "check", "link", "link_ring", "clear", "unlock"}]
        /\ op \in [Threads -> Pushes \cup {"none", "Remove", "RemoveBack", "RemoveAll"}]
    BY DEF Init
  <2>4. phase \in {"open", "closed", "empty"} /\ lock \in BOOLEAN
    BY DEF Init
  <2>5. list \in Seq(Nodes)
    BY EmptySeq DEF Init
  <2>3. /\ owner \in 0 .. MaxId /\ ids \in 0 .. MaxId /\ as \in [Threads -> 0 .. MaxId]
        /\ node \in [Threads -> Nodes \cup {Null}] /\ ret \in [Threads -> Nodes \cup {Null}]
    BY <1>0 DEF Init, kTerminated
  <2> QED
    BY <2>1, <2>2, <2>3, <2>4, <2>5 DEF TypeOK
<1>2. /\ list = << >> /\ Len(list) = 0 /\ next[Sentinel] = Sentinel /\ prev[Sentinel] = Sentinel
      /\ \A t \in Threads : pc[t] = "idle" /\ op[t] = "none"
      /\ Driver \in Threads
      /\ phase = "empty" /\ owner = 0 /\ ids = 0
  BY DriverAssumption DEF Init, kTerminated
<1>3. LockInv /\ CallInv /\ OwnerInv /\ EmptyInv /\ ClosedStaysEmpty
  <2>1. LockInv
    BY <1>2 DEF LockInv, InSection
  <2>2. CallInv
    BY <1>2 DEF CallInv, Pushes
  <2>3. OwnerInv /\ EmptyInv /\ ClosedStaysEmpty
    BY <1>2 DEF OwnerInv, EmptyInv, ClosedStaysEmpty
  <2> QED
    BY <2>1, <2>2, <2>3
<1>4. RingInv
  <2>1. \A i \in 0 .. Len(list) : Arc(i)
    BY <1>2 DEF Arc, At
  <2>2. IsInjective(list)
    BY <1>2 DEF IsInjective
  <2> QED
    BY <2>1, <2>2, <1>2 DEF RingInv
<1>5. NullInv
  BY NodesAssumption DEF Init, NullInv
<1> QED
  BY <1>1, <1>3, <1>4, <1>5 DEF IInv

(* The invariant holds of every behaviour of deque.h. *)
THEOREM DequeInvariant == Spec => []IInv
<1>1. IInv /\ [Next]_vars => IInv'
  <2> SUFFICES ASSUME IInv, [Next]_vars
               PROVE  IInv'
    OBVIOUS
  <2> QED
    BY TypeStep, LockStep, CallStep, OwnerStep, EmptyStep, ClosedStep, RingStep DEF IInv
<1> QED
  BY InvInit, <1>1, PTL DEF Spec

(* Every variable keeps its type; above all, what is read through the     *)
(* links and returned as a node is one.                                   *)
THEOREM DequeTypes == Spec => []TypeOK
<1>1. IInv => TypeOK
  BY DEF IInv
<1> QED
  BY <1>1, DequeInvariant, PTL

(* Whenever lock_ is free, the links form the ring of the list in both     *)
(* directions, and nodes in no list have null links.                       *)
THEOREM DequeRingIntact == Spec => []RingIntact
<1>1. IInv => RingIntact
  <2> SUFFICES ASSUME IInv, ~lock
               PROVE  /\ \A i \in 1 .. Len(Ring) - 1 :
                           next[Ring[i]] = Ring[i + 1] /\ prev[Ring[i + 1]] = Ring[i]
                      /\ \A n \in Nodes \ ToSet(list) : next[n] = Null /\ prev[n] = Null
                      /\ IsInjective(list)
    BY DEF RingIntact
  <2>0. list \in Seq(Nodes) /\ Len(list) \in Nat /\ DOMAIN list = 1 .. Len(list)
    BY RingTypes
  <2>1. \A t \in Threads : pc[t] \notin InSection
    BY DEF IInv, LockInv
  <2>2. IsInjective(list) /\ \A i \in 0 .. Len(list) : Arc(i)
    BY <2>1 DEF IInv, RingInv, InSection
  <2>3. \A n \in Nodes \ ToSet(list) : next[n] = Null /\ prev[n] = Null
    BY <2>0, <2>1 DEF IInv, NullInv, InSection, ToSet, Contains
  <2>4. Len(Ring) = Len(list) + 2 /\ \A i \in 1 .. Len(list) + 2 : Ring[i] = At(list, i - 1)
    <3> DEFINE S == Nodes \cup {Sentinel}
               one == << Sentinel >>
    <3>1. one \in Seq(S) /\ Len(one) = 1 /\ one[1] = Sentinel /\ list \in Seq(S)
      BY <2>0
    <3>2. /\ one \o list \in Seq(S) /\ Len(one \o list) = 1 + Len(list)
          /\ \A i \in 1 .. 1 + Len(list) :
               (one \o list)[i] = IF i <= 1 THEN one[i] ELSE list[i - 1]
      BY <3>1, ConcatProperties
    <3> DEFINE two == one \o list
    <3> HIDE DEF two
    <3>3. /\ Len(two \o one) = Len(two) + 1
          /\ \A i \in 1 .. Len(two) + 1 :
               (two \o one)[i] = IF i <= Len(two) THEN two[i] ELSE one[i - Len(two)]
      <4>1. two \in Seq(S)
        BY <3>2 DEF two
      <4> QED
        BY <4>1, <3>1, ConcatProperties
    <3>4. Ring = two \o one
      BY DEF Ring, two
    <3>5. Len(two) = 1 + Len(list) /\ Len(two) + 1 = Len(list) + 2
      BY <3>2, <2>0 DEF two
    <3>6. ASSUME NEW i \in 1 .. Len(list) + 2
          PROVE  Ring[i] = At(list, i - 1)
      <4>1. Ring[i] = IF i <= 1 + Len(list) THEN two[i] ELSE one[i - (1 + Len(list))]
        BY <3>3, <3>4, <3>5
      <4>2. CASE i = 1
        BY <4>1, <4>2, <3>1, <3>2, <2>0 DEF At, two
      <4>3. CASE i \in 2 .. 1 + Len(list)
        <5>1. two[i] = list[i - 1]
          BY <4>3, <3>2, <2>0 DEF two
        <5>2. i - 1 \in 1 .. Len(list) /\ i <= 1 + Len(list)
          BY <4>3, <2>0
        <5> QED
          BY <5>1, <5>2, <4>1 DEF At
      <4>4. CASE i = Len(list) + 2
        <5>1. i - (1 + Len(list)) = 1 /\ ~(i <= 1 + Len(list)) /\ i - 1 \notin 1 .. Len(list)
          BY <4>4, <2>0
        <5> QED
          BY <5>1, <4>1, <3>1 DEF At
      <4> QED
        BY <4>2, <4>3, <4>4, <2>0
    <3> QED
      BY <3>3, <3>4, <3>5, <3>6
  <2>5. ASSUME NEW i \in 1 .. Len(Ring) - 1
        PROVE  next[Ring[i]] = Ring[i + 1] /\ prev[Ring[i + 1]] = Ring[i]
    <3>1. /\ i \in 1 .. Len(list) + 2 /\ i + 1 \in 1 .. Len(list) + 2
          /\ i - 1 \in 0 .. Len(list) /\ (i + 1) - 1 = (i - 1) + 1
      BY <2>0, <2>4
    <3>2. Ring[i] = At(list, i - 1) /\ Ring[i + 1] = At(list, (i - 1) + 1)
      BY <2>4, <3>1
    <3> QED
      BY <2>2, <3>1, <3>2 DEF Arc
  <2> QED
    BY <2>2, <2>3, <2>5
<1> QED
  BY <1>1, DequeInvariant, PTL

(* Core::Destroy leaves an empty list, and no late push gets into it. *)
THEOREM DequeClosedStaysEmpty == Spec => []ClosedStaysEmpty
<1>1. IInv => ClosedStaysEmpty
  BY DEF IInv
<1> QED
  BY <1>1, DequeInvariant, PTL

-----------------------------------------------------------------------------
(* The refinement *)

(* t has called a push or a removal that is not past its owner check. *)
Waits(t) == pc[t] \in {"lock", "check"} /\ op[t] \in Pushes \cup {"Remove"}

(* The calls that have not taken effect are the same after a step that     *)
(* lets nobody start or stop waiting.                                      *)
LEMMA PendingKept ==
  ASSUME \A u \in Threads :
           /\ Waits(u)' <=> Waits(u)
           /\ Waits(u) => op'[u] = op[u] /\ node'[u] = node[u] /\ as'[u] = as[u]
  PROVE  Pending' = Pending
<1>1. \A u \in Threads : Pending'[u] = Pending[u]
  BY DEF Pending, Waits
<1> QED
  BY <1>1 DEF Pending

(* A call is over for OwnedDeque when it leaves its check.                 *)
LEMMA PendingDone ==
  ASSUME IInv, NEW t \in Threads, NEW l, l \notin {"lock", "check"}, Goto(t, l),
         UNCHANGED << op, node, as >>
  PROVE  Pending' = [Pending EXCEPT ![t] = Deque!NoCall]
<1>0. pc \in [Threads -> {"idle", "lock", "check", "link", "link_ring", "clear", "unlock"}]
  BY DEF IInv, TypeOK
<1>1. Pending'[t] = Deque!NoCall
  BY <1>0 DEF Pending, Goto, Deque!NoCall
<1>2. \A u \in Threads \ {t} : Pending'[u] = Pending[u]
  BY <1>0 DEF Pending, Goto
<1> QED
  BY <1>1, <1>2 DEF Pending

(* The call that waits at its check is the one that OwnedDeque knows of.   *)
LEMMA PendingAtCheck ==
  ASSUME NEW t \in Threads, pc[t] = "check", op[t] \in Pushes \cup {"Remove"}
  PROVE  /\ Pending[t].op = op[t] /\ Pending[t].node = node[t]
         /\ Pending[t].owner = as[t]
BY DEF Pending

(* A removal that finds null links has nothing to remove. *)
LEMMA RefusedRemove ==
  ASSUME IInv, NEW t \in Threads, Refuse(t), op[t] = "Remove",
         next[node[t]] = Null, prev[node[t]] = Null
  PROVE  ~Contains(list, node[t])
<1> SUFFICES ASSUME Contains(list, node[t])
             PROVE  FALSE
  OBVIOUS
<1>1. list \in Seq(Nodes) /\ Len(list) \in Nat /\ DOMAIN list = 1 .. Len(list)
  BY DEF IInv, TypeOK
<1>2. PICK k \in 1 .. Len(list) : list[k] = node[t]
  BY <1>1 DEF Contains
<1>3. Arc(k)
  BY <1>1, <1>2, IntactAtCheck DEF Refuse
<1>4. At(list, k) = node[t] /\ k + 1 \in Int
  BY <1>2 DEF At
<1>5. At(list, k + 1) \in Nodes \cup {Sentinel}
  BY <1>1, <1>4, AtType
<1> QED
  BY <1>3, <1>4, <1>5, NodesAssumption DEF Arc

(* An operation that passes its check takes effect in OwnedDeque. *)
LEMMA AcceptAtomic ==
  ASSUME IInv, NEW t \in Threads, Accept(t)
  PROVE  Deque!Next
<1>0. list \in Seq(Nodes) /\ DOMAIN list = 1 .. Len(list)
  BY DEF IInv, TypeOK
<1>1. Pending' = [Pending EXCEPT ![t] = Deque!NoCall] /\ UNCHANGED << owner, ids, ret >>
  BY PendingDone DEF Accept
<1>2. Deque!Done(t)
  BY <1>1 DEF Deque!Done
<1>3. /\ Pending[t].op = op[t] /\ Pending[t].node = node[t]
      /\ Pending[t].owner = as[t]
  BY PendingAtCheck DEF Accept
<1>4. CASE op[t] \in Pushes
  <2>1. as[t] = owner /\ owner # 0 /\ ~Contains(list, node[t])
    BY <1>4, AcceptPush
  <2>2. CASE op[t] = "PushFront"
    <3>1. list' = Cons(node[t], list)
      BY <2>2 DEF Accept
    <3>2. Deque!PushFront(t)
      BY <1>1, <1>2, <1>3, <2>1, <2>2, <3>1
         DEF Deque!PushFront, Deque!Contains, Contains, Deque!Cons, Cons
    <3> QED
      BY <3>2 DEF Deque!Next
  <2>3. CASE op[t] = "PushBack"
    <3>1. list' = Append(list, node[t])
      BY <2>3 DEF Accept
    <3>2. Deque!PushBack(t)
      BY <1>1, <1>2, <1>3, <2>1, <2>3, <3>1
         DEF Deque!PushBack, Deque!Contains, Contains
    <3> QED
      BY <3>2 DEF Deque!Next
  <2> QED
    BY <1>4, <2>2, <2>3 DEF Pushes
<1>5. CASE op[t] = "Remove"
  <2>1. as[t] = owner /\ owner # 0
    BY <1>5, AcceptRemove
  <2>2. \E k \in DOMAIN list : list[k] = node[t] /\ list' = RemoveAt(list, k)
    BY <1>0, <1>5, AcceptRemove
  <2>3. Deque!Withdraw(t)
    BY <1>1, <1>2, <1>3, <1>5, <2>1, <2>2
       DEF Deque!Withdraw, Deque!RemoveAt, RemoveAt
  <2> QED
    BY <2>3 DEF Deque!Next
<1> QED
  BY <1>4, <1>5 DEF Accept

(* One that is turned away there has no claim to the list, or no node in   *)
(* it.                                                                     *)
LEMMA RefuseAtomic ==
  ASSUME IInv, NEW t \in Threads, Refuse(t)
  PROVE  Deque!Next
<1>1. Deque!Done(t) /\ UNCHANGED << list, owner, ids, ret >>
  BY PendingDone DEF Refuse, Deque!Done
<1>2. /\ Pending[t].op = op[t] /\ Pending[t].node = node[t]
      /\ Pending[t].owner = as[t]
  BY PendingAtCheck DEF Refuse
<1>3. Pending[t].op # "none"
  BY <1>2 DEF Refuse, Pushes
<1>4. as[t] # owner \/ (op[t] = "Remove" /\ ~Contains(list, node[t]))
  BY RefusedRemove DEF Refuse, Refused
<1>5. Deque!Refuse(t)
  BY <1>1, <1>2, <1>3, <1>4 DEF Deque!Refuse, Deque!Contains, Contains
<1> QED
  BY <1>5 DEF Deque!Next

(* Every step is a step of OwnedDeque or leaves its variables alone. *)
LEMMA AtomicStep ==
  ASSUME IInv, [Next]_vars
  PROVE  [Deque!Next]_(Deque!vars)
<1>0. /\ list \in Seq(Nodes) /\ DOMAIN list = 1 .. Len(list)
      /\ ids \in Nat /\ MaxId \in Nat /\ Driver \in Threads
      /\ pc \in [Threads -> {"idle", "lock", "check", "link", "link_ring", "clear",
                             "unlock"}]
      /\ op \in [Threads -> Pushes \cup {"none", "Remove", "RemoveBack", "RemoveAll"}]
      /\ node \in [Threads -> Nodes \cup {Null}] /\ as \in [Threads -> 0 .. MaxId]
  <2>1. list \in Seq(Nodes) /\ ids \in 0 .. MaxId
    BY DEF IInv, TypeOK
  <2>2. DOMAIN list = 1 .. Len(list) /\ ids \in Nat /\ MaxId \in Nat
    BY <2>1, BoundAssumption
  <2> QED
    BY <2>1, <2>2, DriverAssumption DEF IInv, TypeOK
<1>1. CASE Open
  <2>1. owner = 0 /\ list = << >>
    BY <1>1 DEF Open, IInv, OwnerInv, ClosedStaysEmpty
  <2>2. Pending' = Pending
    BY <1>1, PendingKept DEF Open, Waits
  <2>3. Deque!Open
    BY <2>1, <2>2, <1>1 DEF Open, Deque!Open
  <2> QED
    BY <2>3 DEF Deque!Next
<1>2. CASE Close
  <2>1. owner # 0 /\ owner' = 0 /\ UNCHANGED << list, ids, ret >>
    BY <1>2 DEF Close, kTerminated, IInv, OwnerInv
  <2>2. Pending' = Pending
    BY <1>0, <1>2, PendingKept DEF Close, Goto, Waits, Pushes
  <2>3. Deque!Close
    BY <2>1, <2>2 DEF Deque!Close
  <2> QED
    BY <2>3 DEF Deque!Next
<1>3. ASSUME NEW t \in Threads, Accept(t)
      PROVE  Deque!Next
  BY <1>3, AcceptAtomic
<1>4. ASSUME NEW t \in Threads, Refuse(t)
      PROVE  Deque!Next
  BY <1>4, RefuseAtomic
<1>5. ASSUME NEW t \in Threads, TakeEnd(t)
      PROVE  Deque!Next
  <2>0. op[t] \in {"RemoveBack", "RemoveAll"} /\ owner' = owner /\ ids' = ids
    BY <1>5 DEF TakeEnd
  <2>9. Pending' = Pending
    <3>1. /\ op' = op /\ as' = as /\ ~Waits(t) /\ ~Waits(t)'
          /\ \A u \in Threads \ {t} : pc'[u] = pc[u] /\ node'[u] = node[u]
      BY <1>0, <1>5, <2>0 DEF TakeEnd, Goto, Waits, Pushes
    <3> QED
      BY <3>1, PendingKept DEF Waits
  <2>1. CASE list = << >>
    <3>1. list' = list /\ ret' = [ret EXCEPT ![t] = Null]
      BY <1>5, <2>1, TakeEndList
    <3>2. Deque!TakeNothing(t)
      BY <3>1, <2>0, <2>1, <2>9 DEF Deque!TakeNothing
    <3> QED
      BY <3>2 DEF Deque!Next
  <2>2. CASE list # << >>
    <3>1. /\ list' = IF op[t] = "RemoveBack" THEN Front(list) ELSE Tail(list)
          /\ ret' = [ret EXCEPT ![t] = EndNode(t)]
      BY <1>5, <2>2, TakeEndList
    <3>2. next[Sentinel] = Head(list) /\ prev[Sentinel] = Last(list)
      BY <1>5, <2>2, EndNodeIs
    <3>3. t = Driver
      BY <2>0 DEF IInv, CallInv
    <3>4. CASE op[t] = "RemoveBack"
      <4>1. owner # 0
        BY <3>3, <3>4 DEF IInv, OwnerInv
      <4>2. Deque!TakeBack(t)
        BY <4>1, <3>1, <3>2, <3>4, <2>0, <2>2, <2>9
           DEF EndNode, Deque!TakeBack, Deque!Front, Front, Deque!Last, Last
      <4> QED
        BY <4>2 DEF Deque!Next
    <3>5. CASE op[t] = "RemoveAll"
      <4>1. owner = 0
        BY <3>3, <3>5 DEF IInv, OwnerInv
      <4>2. Deque!TakeFront(t)
        BY <4>1, <3>1, <3>2, <3>5, <2>0, <2>2, <2>9 DEF EndNode, Deque!TakeFront
      <4> QED
        BY <4>2 DEF Deque!Next
    <3> QED
      BY <2>0, <3>4, <3>5
  <2> QED
    BY <2>1, <2>2
<1>6. ASSUME NEW t \in Threads,
             LinkNode(t) \/ LinkRing(t) \/ UnlinkRing(t) \/ ClearNode(t)
      PROVE  UNCHANGED Deque!vars
  <2>1. UNCHANGED << list, owner, ids, ret, op, node, as >>
    BY <1>6 DEF LinkNode, LinkRing, UnlinkRing, ClearNode
  <2>2. pc[t] \notin {"lock", "check"} /\ pc'[t] \notin {"lock", "check"}
    BY <1>0, <1>6 DEF LinkNode, LinkRing, UnlinkRing, ClearNode, Goto
  <2>3. \A u \in Threads \ {t} : pc'[u] = pc[u]
    BY <1>0, <1>6 DEF LinkNode, LinkRing, UnlinkRing, ClearNode, Goto
  <2>4. Pending' = Pending
    BY <2>1, <2>2, <2>3, PendingKept DEF Waits
  <2> QED
    BY <2>1, <2>4 DEF Deque!vars
<1>7. ASSUME NEW t \in Threads, Unlock(t)
      PROVE  UNCHANGED Deque!vars
  <2>1. UNCHANGED << list, owner, ids, ret >>
    BY <1>7 DEF Unlock
  <2>2. ~Waits(t) /\ ~Waits(t)'
    BY <1>0, <1>7 DEF Unlock, Goto, Waits, Pushes
  <2>3. \A u \in Threads \ {t} :
          pc'[u] = pc[u] /\ op'[u] = op[u] /\ node'[u] = node[u] /\ as'[u] = as[u]
    BY <1>0, <1>7 DEF Unlock, Goto
  <2>4. Pending' = Pending
    BY <2>2, <2>3, PendingKept DEF Waits
  <2> QED
    BY <2>1, <2>4 DEF Deque!vars
<1>8. CASE CallRemoveBack
  <2>1. Pending' = Pending
    BY <1>0, <1>8, PendingKept DEF CallRemoveBack, Goto, Waits, Pushes
  <2> QED
    BY <2>1, <1>8 DEF CallRemoveBack, Deque!vars
<1>9. ASSUME NEW t \in Threads, NEW o \in Pushes \cup {"Remove"}, NEW n \in Nodes,
             NEW i \in 1 .. ids, Call(t, o, n, i)
      PROVE  Deque!Next
  <2> DEFINE new == [op |-> o, node |-> n, owner |-> i]
  <2>1. Pending[t] = Deque!NoCall
    BY <1>9 DEF Call, Pending, Deque!NoCall
  <2>2. Pending'[t] = new
    BY <1>0, <1>9 DEF Call, Goto, Pending
  <2>3. \A u \in Threads \ {t} : Pending'[u] = Pending[u]
    BY <1>0, <1>9 DEF Call, Goto, Pending
  <2>4. Pending' = [Pending EXCEPT ![t] = new]
    BY <2>2, <2>3 DEF Pending
  <2>5. Deque!Call(t, o, n, i)
    BY <1>9, <2>1, <2>4 DEF Call, Deque!Call
  <2> QED
    BY <2>5 DEF Deque!Next, Pushes
<1>10. ASSUME NEW t \in Threads, Acquire(t)
       PROVE  UNCHANGED Deque!vars
  <2>1. Pending' = Pending
    BY <1>0, <1>10, PendingKept DEF Acquire, Goto, Waits
  <2> QED
    BY <2>1, <1>10 DEF Acquire, Deque!vars
<1>11. CASE UNCHANGED vars
  <2>1. Pending' = Pending
    BY <1>11, PendingKept DEF vars, Waits
  <2> QED
    BY <2>1, <1>11 DEF vars, Deque!vars
<1> QED
  BY <1>1, <1>2, <1>3, <1>4, <1>5, <1>6, <1>7, <1>8, <1>9, <1>10, <1>11 DEF Next, Inside

(* The links and the lock of deque.h implement the list of OwnedDeque: a   *)
(* push or a removal takes effect for the owner that the call named only,  *)
(* and is refused only when that owner has the list no more or the node is *)
(* not in it.                                                              *)
THEOREM DequeAtomic == Spec => Atomic
<1>1. Init => Deque!Init
  <2> SUFFICES ASSUME Init PROVE Deque!Init
    OBVIOUS
  <2>1. Pending = [t \in Threads |-> Deque!NoCall]
    BY DEF Init, Pending, Deque!NoCall
  <2> QED
    BY <2>1 DEF Init, kTerminated, Deque!Init
<1>2. IInv /\ [Next]_vars => [Deque!Next]_(Deque!vars)
  BY AtomicStep
<1> QED
  BY <1>1, <1>2, DequeInvariant, PTL DEF Spec, Atomic, Deque!Spec

=============================================================================
