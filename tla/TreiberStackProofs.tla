-------------------------- MODULE TreiberStackProofs --------------------------
(***************************************************************************)
(* The stack is linearizable for every set of threads and blocks and every *)
(* tag width.  The chain of blocks (StackIntact) is not inductive by       *)
(* itself: a Pop swaps in a first word that it read earlier.  PopInv says  *)
(* why that word is still right when the swap succeeds (the tag of top_    *)
(* has advanced by exactly the number of swaps since the load, so an equal *)
(* tag means no swap), and PushInv that a block being pushed is nobody     *)
(* else's.                                                                 *)
(***************************************************************************)
EXTENDS TreiberStack, FiniteSetTheorems, TLAPS

(* A tag after n more swaps. *)
Advanced(tag, n) ==
  IF tag + n < TagSize THEN tag + n ELSE tag + n - TagSize

PushInv ==
  /\ \A t \in Threads : InPush(t) => arg[t] \in out
  /\ \A t, u \in Threads :
       InPush(t) /\ InPush(u) /\ arg[t] = arg[u] => t = u
  /\ \A t \in Threads :
       pc[t] = "push_swap" => next[arg[t]] = old[t].value

PopInv ==
  \A t \in Threads :
    /\ InPop(t) => /\ Discipline = "pool"
                   /\ old[t].value \in Nodes
                   /\ top.tag = Advanced(old[t].tag, lag[t])
                   /\ lag[t] = 0 => top = old[t]
    /\ pc[t] = "pop_swap" /\ lag[t] = 0 => succ[t] = next[old[t].value]
    /\ ~InPop(t) => lag[t] = 0
    /\ pc[t] = "popall_swap" => Discipline = "remote" /\ old[t].value \in Nodes

IInv == TypeOK /\ StackIntact /\ TagIsLength /\ PushInv /\ PopInv

-----------------------------------------------------------------------------

(* A sequence of different blocks is no longer than there are blocks. *)
LEMMA DistinctBlocksFit ==
  ASSUME NEW s \in Seq(Nodes),
         \A i, j \in 1 .. Len(s) : s[i] = s[j] => i = j
  PROVE  Len(s) \in Nat /\ Len(s) <= Cardinality(Nodes)
<1>1. Len(s) \in Nat /\ s \in Injection(1 .. Len(s), Nodes)
  BY DEF Injection, IsInjective
<1>2. Cardinality(1 .. Len(s)) <= Cardinality(Nodes)
  BY <1>1, FS_Injection, NodesAssumption
<1>3. Cardinality(1 .. Len(s)) = Len(s)
  <2>1. 1 \in Int /\ Len(s) \in Int
    BY <1>1
  <2>2. Cardinality(1 .. Len(s)) = IF 1 > Len(s) THEN 0 ELSE Len(s) - 1 + 1
    BY <2>1, FS_Interval
  <2> QED
    BY <1>1, <2>2
<1> QED
  BY <1>1, <1>2, <1>3

(* Advancing a tag once more, and what equal tags mean. *)
LEMMA TagArithmetic ==
  ASSUME NEW g \in Tags, NEW n \in Tags
  PROVE  /\ IncTag(g) \in Tags
         /\ Advanced(g, 0) = g
         /\ n < TagSize - 1 => Advanced(g, n + 1) = IncTag(Advanced(g, n))
         /\ Advanced(g, n) = g => n = 0
BY TagSizeAssumption DEF Tags, IncTag, Advanced

(* The locals after an operation returned. *)
LEMMA ReturnTypes ==
  ASSUME TypeOK, NEW t \in Threads, NEW v \in Ptr, NEW k \in Nat, Return(t, v, k)
  PROVE  /\ pc' = [pc EXCEPT ![t] = "idle"]
         /\ pc' \in [Threads -> {"idle", "push_load", "push_link", "push_swap",
                                 "pop_load", "pop_read", "pop_swap",
                                 "popall_load", "popall_swap"}]
         /\ arg' \in [Threads -> Ptr]
         /\ old' \in [Threads -> [value : Ptr, tag : Tags]]
         /\ succ' \in [Threads -> Ptr]
         /\ ret' \in [Threads -> [value : Ptr, len : Nat]]
         /\ \A u \in Threads \ {t} : /\ arg'[u] = arg[u]
                                     /\ old'[u] = old[u]
                                     /\ succ'[u] = succ[u]
<1>1. Nothing \in [value : Ptr, tag : Tags]
  BY TagSizeAssumption DEF Nothing, TaggedValue, Ptr, Tags
<1>2. Null \in Ptr
  BY DEF Ptr
<1>3. [value |-> v, len |-> k] \in [value : Ptr, len : Nat]
  OBVIOUS
<1> QED
  BY <1>1, <1>2, <1>3 DEF Return, TypeOK

LEMMA InitIInv == Init => IInv
<1> SUFFICES ASSUME Init PROVE IInv
  OBVIOUS
<1>1. TypeOK
  BY TagSizeAssumption
  DEF Init, TypeOK, Nothing, NoResult, TaggedValue, Ptr, Tags
<1>2. StackIntact /\ TagIsLength
  BY DEF Init, StackIntact, TagIsLength, Nothing, TaggedValue
<1>3. PushInv /\ PopInv
  BY DEF Init, PushInv, PopInv, InPush, InPop
<1> QED
  BY <1>1, <1>2, <1>3 DEF IInv

-----------------------------------------------------------------------------
(* Steps that leave top_ and the contents alone. *)

LEMMA PushCallIInv ==
  ASSUME IInv, NEW t \in Threads, NEW n \in Nodes, PushCall(t, n)
  PROVE  IInv'
<1> USE DEF IInv, PushCall
<1>1. TypeOK'
  BY DEF TypeOK, Ptr
<1>2. StackIntact' /\ TagIsLength'
  BY DEF StackIntact, TagIsLength
<1>3. PushInv'
  BY DEF PushInv, InPush, Pushing, TypeOK
<1>4. PopInv'
  BY DEF PopInv, InPop, TypeOK
<1> QED
  BY <1>1, <1>2, <1>3, <1>4

LEMMA PushLoadIInv ==
  ASSUME IInv, NEW t \in Threads, PushLoad(t)
  PROVE  IInv'
<1> USE DEF IInv, PushLoad
<1>1. TypeOK'
  BY DEF TypeOK
<1>2. StackIntact' /\ TagIsLength'
  BY DEF StackIntact, TagIsLength
<1>3. PushInv'
  BY DEF PushInv, InPush, TypeOK
<1>4. PopInv'
  BY DEF PopInv, InPop, TypeOK
<1> QED
  BY <1>1, <1>2, <1>3, <1>4

LEMMA PushLinkIInv ==
  ASSUME IInv, NEW t \in Threads, PushLink(t)
  PROVE  IInv'
<1> USE DEF IInv, PushLink
<1>1. arg[t] \in Nodes /\ arg[t] \in out
  BY DEF PushInv, InPush, TypeOK
<1>2. TypeOK'
  BY <1>1 DEF TypeOK
<1>3. StackIntact' /\ TagIsLength'
  BY <1>1 DEF StackIntact, TagIsLength, TypeOK
<1>4. PushInv'
  BY <1>1 DEF PushInv, InPush, TypeOK
<1>5. PopInv'
  <2>1. \A u \in Threads : InPop(u) /\ lag[u] = 0 => old[u].value # arg[t]
    BY <1>1, NullAssumption DEF PopInv, StackIntact, TypeOK
  <2> QED
    BY <1>1, <2>1 DEF PopInv, InPop, TypeOK
<1> QED
  BY <1>2, <1>3, <1>4, <1>5

LEMMA WriteIInv ==
  ASSUME IInv, NEW n \in Nodes, NEW v \in Ptr, Write(n, v)
  PROVE  IInv'
<1> USE DEF IInv, Write
<1>1. TypeOK'
  BY DEF TypeOK
<1>2. StackIntact' /\ TagIsLength'
  BY DEF StackIntact, TagIsLength, TypeOK
<1>3. PushInv'
  BY DEF PushInv, InPush, Pushing, TypeOK
<1>4. PopInv'
  <2>1. \A u \in Threads : InPop(u) /\ lag[u] = 0 => old[u].value # n
    BY NullAssumption DEF PopInv, StackIntact, TypeOK
  <2> QED
    BY <2>1 DEF PopInv, InPop, TypeOK
<1> QED
  BY <1>1, <1>2, <1>3, <1>4

LEMMA PopReadIInv ==
  ASSUME IInv, NEW t \in Threads, PopRead(t)
  PROVE  IInv'
<1> USE DEF IInv, PopRead
<1>1. old[t].value \in Nodes
  BY DEF PopInv, InPop
<1>2. TypeOK'
  BY <1>1 DEF TypeOK
<1>3. StackIntact' /\ TagIsLength'
  BY DEF StackIntact, TagIsLength
<1>4. PushInv'
  BY DEF PushInv, InPush, TypeOK
<1>5. PopInv'
  BY DEF PopInv, InPop, TypeOK
<1> QED
  BY <1>2, <1>3, <1>4, <1>5

(* The load of top_ that starts a Pop, or finds the stack empty. *)
LEMMA PopLoadIInv ==
  ASSUME IInv, NEW t \in Threads, PopLoad(t)
  PROVE  IInv'
<1>0. /\ TypeOK /\ StackIntact /\ TagIsLength /\ PushInv /\ PopInv
      /\ UNCHANGED << top, next, contents, out, lag >>
      /\ Discipline = "pool"
  BY DEF IInv, PopLoad
<1>1. TypeOK'
  <2>1. CASE top.value = Null
    <3>1. Return(t, Null, 0)
      BY <2>1 DEF PopLoad
    <3>2. Null \in Ptr /\ 0 \in Nat
      BY <1>0, TagSizeAssumption DEF TypeOK, Tags, Ptr
    <3> QED
      BY <1>0, <3>1, <3>2, ReturnTypes DEF TypeOK
  <2>2. CASE top.value # Null
    BY <1>0, <2>2, ZenonT(60) DEF TypeOK, PopLoad
  <2> QED
    BY <2>1, <2>2
<1>5. /\ pc'[t] \in {"idle", "pop_read"}
      /\ pc'[t] = "idle" \/ (top.value # Null /\ old'[t] = top)
      /\ \A u \in Threads \ {t} : /\ pc'[u] = pc[u]
                                  /\ arg'[u] = arg[u]
                                  /\ old'[u] = old[u]
                                  /\ succ'[u] = succ[u]
  <2>1. CASE top.value = Null
    BY <1>0, <2>1 DEF Return, TypeOK, PopLoad
  <2>2. CASE top.value # Null
    BY <1>0, <2>2 DEF TypeOK, PopLoad
  <2> QED
    BY <2>1, <2>2
<1>2. StackIntact' /\ TagIsLength'
  BY <1>0 DEF StackIntact, TagIsLength
<1>3. PushInv'
  <2>1. \A u \in Threads : InPush(u)' => /\ InPush(u)
                                         /\ u # t
                                         /\ arg'[u] = arg[u]
    BY <1>5 DEF InPush
  <2>2. \A u \in Threads : pc'[u] = "push_swap" =>
          pc[u] = "push_swap" /\ old'[u] = old[u] /\ arg'[u] = arg[u]
    BY <1>5
  <2>3. next' = next /\ out' = out
    BY <1>0
  <2> QED
    BY <1>0, <2>1, <2>2, <2>3 DEF PushInv
<1>4. PopInv'
  <2>1. top.tag = Advanced(top.tag, 0)
    BY <1>0, TagArithmetic, TagSizeAssumption DEF TypeOK, Tags
  <2>2. lag[t] = 0
    BY <1>0 DEF PopInv, InPop, PopLoad
  <2> QED
    BY <1>5, <1>0, <2>1, <2>2 DEF PopInv, InPop, TypeOK, Ptr
<1> QED
  BY <1>1, <1>2, <1>3, <1>4 DEF IInv

LEMMA PopAllLoadIInv ==
  ASSUME IInv, NEW t \in Threads, PopAllLoad(t)
  PROVE  IInv'
<1>0. /\ TypeOK /\ StackIntact /\ TagIsLength /\ PushInv /\ PopInv
      /\ UNCHANGED << top, next, contents, out, lag >>
      /\ Discipline = "remote"
  BY DEF IInv, PopAllLoad
<1>1. TypeOK'
  <2>1. CASE top.value = Null
    <3>1. Return(t, top.value, top.tag)
      BY <2>1 DEF PopAllLoad
    <3>2. top.value \in Ptr /\ top.tag \in Nat
      BY <1>0, TagSizeAssumption DEF TypeOK, Tags, Ptr
    <3> QED
      BY <1>0, <3>1, <3>2, ReturnTypes DEF TypeOK
  <2>2. CASE top.value # Null
    BY <1>0, <2>2, ZenonT(60) DEF TypeOK, PopAllLoad
  <2> QED
    BY <2>1, <2>2
<1>5. /\ pc'[t] \in {"idle", "popall_swap"}
      /\ pc'[t] = "idle" \/ (top.value # Null /\ old'[t] = top)
      /\ \A u \in Threads \ {t} : /\ pc'[u] = pc[u]
                                  /\ arg'[u] = arg[u]
                                  /\ old'[u] = old[u]
                                  /\ succ'[u] = succ[u]
  <2>1. CASE top.value = Null
    BY <1>0, <2>1 DEF Return, TypeOK, PopAllLoad
  <2>2. CASE top.value # Null
    BY <1>0, <2>2 DEF TypeOK, PopAllLoad
  <2> QED
    BY <2>1, <2>2
<1>2. StackIntact' /\ TagIsLength'
  BY <1>0 DEF StackIntact, TagIsLength
<1>3. PushInv'
  <2>1. \A u \in Threads : InPush(u)' => /\ InPush(u)
                                         /\ u # t
                                         /\ arg'[u] = arg[u]
    BY <1>5 DEF InPush
  <2>2. \A u \in Threads : pc'[u] = "push_swap" =>
          pc[u] = "push_swap" /\ old'[u] = old[u] /\ arg'[u] = arg[u]
    BY <1>5
  <2>3. next' = next /\ out' = out
    BY <1>0
  <2> QED
    BY <1>0, <2>1, <2>2, <2>3 DEF PushInv
<1>4. PopInv'
  BY <1>5, <1>0 DEF PopInv, InPop, TypeOK, Ptr
<1> QED
  BY <1>1, <1>2, <1>3, <1>4 DEF IInv

(* A swap that fails leaves the stack alone. *)
LEMMA SwapFailsIInv ==
  ASSUME IInv, NEW t \in Threads,
         NEW retry \in {"push_load", "pop_load", "popall_load"},
         retry = "push_load" => InPush(t),
         SwapFails(t, retry)
  PROVE  IInv'
<1> USE DEF IInv, SwapFails
<1>1. TypeOK'
  BY TagSizeAssumption DEF TypeOK, Ptr, Tags, Nothing, TaggedValue
<1>2. StackIntact' /\ TagIsLength'
  BY DEF StackIntact, TagIsLength
<1>3. PushInv'
  BY DEF PushInv, InPush, TypeOK
<1>4. PopInv'
  BY DEF PopInv, InPop, TypeOK
<1> QED
  BY <1>1, <1>2, <1>3, <1>4

-----------------------------------------------------------------------------
(* The three swaps. *)

(* After a swap that advances the tag, every other Pop knows how far its   *)
(* copy of top_ is behind.                                                 *)
LEMMA SwapCounted ==
  ASSUME IInv, NEW t \in Threads, NEW v \in Ptr, Discipline = "pool",
         Swap(t, TaggedValue(v, IncTag(old[t].tag)))
  PROVE  /\ lag' \in [Threads -> Tags]
         /\ \A u \in Threads \ {t} : InPop(u) =>
              /\ lag'[u] # 0
              /\ top'.tag = Advanced(old[u].tag, lag'[u])
         /\ \A u \in Threads : u = t \/ ~InPop(u) => lag'[u] = 0
<1>1. /\ top = old[t]
      /\ top' = TaggedValue(v, IncTag(top.tag))
      /\ top'.tag = IncTag(top.tag)
      /\ \A u \in Threads \ {t} : InPop(u) => lag[u] < TagSize - 1
      /\ lag' = [u \in Threads |-> IF u = t \/ ~InPop(u) THEN 0 ELSE lag[u] + 1]
  BY DEF Swap, SwapBound, CountSwap, TaggedValue
<1>2. TypeOK /\ PopInv
  BY DEF IInv
<1>3. \A u \in Threads : lag[u] \in Tags /\ old[u].tag \in Tags
  BY <1>2 DEF TypeOK
<1>4. \A u \in Threads \ {t} : InPop(u) =>
        /\ lag'[u] = lag[u] + 1
        /\ lag'[u] # 0
        /\ lag'[u] \in Tags
        /\ top'.tag = Advanced(old[u].tag, lag'[u])
  <2> SUFFICES ASSUME NEW u \in Threads \ {t}, InPop(u)
               PROVE  /\ lag'[u] = lag[u] + 1
                      /\ lag'[u] # 0
                      /\ lag'[u] \in Tags
                      /\ top'.tag = Advanced(old[u].tag, lag'[u])
    OBVIOUS
  <2>1. lag'[u] = lag[u] + 1 /\ lag[u] < TagSize - 1
    BY <1>1
  <2>2. lag'[u] # 0 /\ lag'[u] \in Tags
    BY <1>3, <2>1, TagSizeAssumption DEF Tags
  <2>3. top.tag = Advanced(old[u].tag, lag[u])
    BY <1>2 DEF PopInv
  <2>4. Advanced(old[u].tag, lag[u] + 1) = IncTag(Advanced(old[u].tag, lag[u]))
    BY <1>3, <2>1, TagArithmetic
  <2> QED
    BY <1>1, <2>1, <2>2, <2>3, <2>4
<1>5. \A u \in Threads : u = t \/ ~InPop(u) => lag'[u] = 0
  BY <1>1
<1>6. lag' \in [Threads -> Tags]
  BY <1>1, <1>4, <1>5, TagSizeAssumption DEF Tags
<1> QED
  BY <1>4, <1>5, <1>6

(* With PopAll in use nobody is in a Pop, and nobody is behind. *)
LEMMA RemoteSwapCounted ==
  ASSUME IInv, NEW t \in Threads, NEW new, Discipline = "remote", Swap(t, new)
  PROVE  /\ lag' \in [Threads -> Tags]
         /\ \A u \in Threads : ~InPop(u) /\ lag'[u] = 0
<1>1. lag' = [u \in Threads |-> 0]
  BY DEF Swap, CountSwap
<1>2. \A u \in Threads : ~InPop(u)
  BY DEF IInv, PopInv
<1> QED
  BY <1>1, <1>2, TagSizeAssumption DEF Tags

LEMMA PushSwapIInv ==
  ASSUME IInv, NEW t \in Threads, PushSwap(t)
  PROVE  IInv'
<1> DEFINE a == arg[t]
           g == IncTag(old[t].tag)
           k == IF Discipline = "remote" THEN g ELSE 0
<1>1. TypeOK /\ StackIntact /\ TagIsLength /\ PushInv /\ PopInv
  BY DEF IInv
<1>2. /\ pc[t] = "push_swap"
      /\ top = old[t]
      /\ top' = TaggedValue(a, g)
      /\ top'.value = a /\ top'.tag = g
      /\ Swap(t, TaggedValue(a, g))
      /\ Return(t, a, k)
      /\ contents' = << a >> \o contents
      /\ out' = out \ {a}
      /\ next' = next
  BY DEF PushSwap, Swap, TaggedValue
<1>3. /\ a \in Nodes /\ a \in out /\ a \in Ptr
      /\ next[a] = top.value
      /\ old[t].tag \in Tags
  BY <1>1, <1>2 DEF PushInv, InPush, TypeOK, Ptr
<1>4. g \in Tags /\ k \in Nat
  BY <1>3, TagArithmetic, TagSizeAssumption DEF Tags
<1>5. /\ lag' \in [Threads -> Tags]
      /\ \A u \in Threads \ {t} : InPop(u) =>
           /\ Discipline = "pool"
           /\ lag'[u] # 0
           /\ top'.tag = Advanced(old[u].tag, lag'[u])
      /\ \A u \in Threads : u = t \/ ~InPop(u) => lag'[u] = 0
  <2>1. CASE Discipline = "pool"
    BY <2>1, <1>2, <1>3, SwapCounted
  <2>2. CASE Discipline = "remote"
    BY <2>2, <1>2, RemoteSwapCounted
  <2> QED
    BY <2>1, <2>2, DisciplineAssumption
<1>6. /\ pc'[t] = "idle"
      /\ \A u \in Threads \ {t} : /\ pc'[u] = pc[u]
                                  /\ arg'[u] = arg[u]
                                  /\ old'[u] = old[u]
                                  /\ succ'[u] = succ[u]
  BY <1>1, <1>2 DEF Return, TypeOK
<1>7. /\ contents' \in Seq(Nodes)
      /\ Len(contents') = Len(contents) + 1
      /\ Len(contents) \in Nat
      /\ contents'[1] = a
      /\ \A i \in 1 .. Len(contents) : contents'[i + 1] = contents[i]
      /\ \A i \in 2 .. Len(contents') : contents'[i] = contents[i - 1]
  BY <1>1, <1>2, <1>3 DEF TypeOK
<1>8. TypeOK'
  <2>1. top' \in [value : Ptr, tag : Tags]
    BY <1>2, <1>3, <1>4 DEF TaggedValue
  <2>2. next' \in [Nodes -> Ptr] /\ out' \in SUBSET Nodes
    BY <1>1, <1>2 DEF TypeOK
  <2> QED
    BY <2>1, <2>2, <1>1, <1>2, <1>3, <1>4, <1>5, <1>7, ReturnTypes DEF TypeOK
<1>9. StackIntact'
  <2>1. top'.value = contents'[1] /\ contents' # << >>
    BY <1>2, <1>7
  <2>2. \A i \in 1 .. Len(contents') : contents'[i] \notin out'
    BY <1>1, <1>2, <1>7 DEF StackIntact
  <2>3. \A i \in 2 .. Len(contents') : contents'[i] # a
    BY <1>1, <1>3, <1>7 DEF StackIntact
  <2>4. \A i, j \in 1 .. Len(contents') : contents'[i] = contents'[j] => i = j
    <3> SUFFICES ASSUME NEW i \in 1 .. Len(contents'),
                        NEW j \in 1 .. Len(contents'),
                        contents'[i] = contents'[j]
                 PROVE  i = j
      OBVIOUS
    <3>1. CASE i = 1 \/ j = 1
      BY <3>1, <2>3, <1>7
    <3>2. CASE i # 1 /\ j # 1
      <4>1. /\ i - 1 \in 1 .. Len(contents) /\ j - 1 \in 1 .. Len(contents)
            /\ contents[i - 1] = contents[j - 1]
        BY <3>2, <1>7
      <4>2. i - 1 = j - 1
        BY <4>1, <1>1 DEF StackIntact
      <4> QED
        BY <4>2
    <3> QED
      BY <3>1, <3>2
  <2>5. \A i \in 1 .. Len(contents') :
          next'[contents'[i]] =
            IF i = Len(contents') THEN Null ELSE contents'[i + 1]
    <3> SUFFICES ASSUME NEW i \in 1 .. Len(contents')
                 PROVE  next'[contents'[i]] =
                          IF i = Len(contents') THEN Null ELSE contents'[i + 1]
      OBVIOUS
    <3>1. CASE i = 1
      <4>1. next'[contents'[i]] = top.value
        BY <3>1, <1>2, <1>3, <1>7
      <4>2. CASE contents = << >>
        BY <3>1, <4>1, <4>2, <1>1, <1>7 DEF StackIntact
      <4>3. CASE contents # << >>
        <5>1. Len(contents) >= 1
          BY <4>3, <1>1, <1>7 DEF TypeOK
        <5>2. top.value = contents[1]
          BY <4>3, <1>1 DEF StackIntact
        <5> QED
          BY <3>1, <4>1, <5>1, <5>2, <1>7
      <4> QED
        BY <4>2, <4>3
    <3>2. CASE i # 1
      <4>1. i - 1 \in 1 .. Len(contents) /\ contents'[i] = contents[i - 1]
        BY <3>2, <1>7
      <4>2. next[contents[i - 1]] =
              IF i - 1 = Len(contents) THEN Null ELSE contents[i]
        BY <4>1, <1>1 DEF StackIntact
      <4> QED
        BY <3>2, <4>1, <4>2, <1>2, <1>7
    <3> QED
      BY <3>1, <3>2
  <2> QED
    BY <2>1, <2>2, <2>4, <2>5 DEF StackIntact
<1>10. TagIsLength'
  <2> SUFFICES ASSUME Discipline = "remote" PROVE g = Len(contents')
    BY <1>2 DEF TagIsLength
  <2>1. Len(contents') < TagSize
    <3>1. \A i, j \in 1 .. Len(contents') : contents'[i] = contents'[j] => i = j
      BY <1>9 DEF StackIntact
    <3>2. Len(contents') <= Cardinality(Nodes)
      BY <3>1, <1>7, DistinctBlocksFit
    <3>3. Cardinality(Nodes) \in Nat /\ Cardinality(Nodes) < TagSize
      BY NodesAssumption, FS_CardinalityType
    <3> QED
      BY <3>2, <3>3, <1>7, TagSizeAssumption
  <2>2. old[t].tag = Len(contents)
    BY <1>1, <1>2 DEF TagIsLength
  <2> QED
    BY <2>1, <2>2, <1>7, TagSizeAssumption DEF IncTag
<1>11. PushInv'
  <2>1. \A u \in Threads : InPush(u)' =>
          /\ InPush(u) /\ u # t
          /\ arg'[u] = arg[u] /\ arg[u] # a
    BY <1>1, <1>2, <1>6 DEF InPush, PushInv
  <2>2. \A u \in Threads : pc'[u] = "push_swap" =>
          pc[u] = "push_swap" /\ old'[u] = old[u] /\ arg'[u] = arg[u]
    BY <1>6
  <2> QED
    BY <1>1, <1>2, <2>1, <2>2 DEF PushInv
<1>12. PopInv'
  <2>1. \A u \in Threads : InPop(u)' => u # t /\ InPop(u) /\ lag'[u] # 0
    BY <1>5, <1>6 DEF InPop
  <2>2. \A u \in Threads : ~InPop(u)' => lag'[u] = 0
    BY <1>5, <1>6 DEF InPop
  <2>3. \A u \in Threads : pc'[u] = "pop_swap" => InPop(u)'
    BY DEF InPop
  <2> QED
    BY <1>1, <1>5, <1>6, <2>1, <2>2, <2>3 DEF PopInv
<1> QED
  BY <1>8, <1>9, <1>10, <1>11, <1>12 DEF IInv

(* A Pop whose swap succeeds was not overtaken, so the first word that it  *)
(* read is still the successor of the block on top.                        *)
LEMMA PopSeesTop ==
  ASSUME IInv, NEW t \in Threads, pc[t] = "pop_swap", top = old[t]
  PROVE  /\ contents # << >>
         /\ Len(contents) \in Nat /\ Len(contents) >= 1
         /\ old[t].value = contents[1] /\ contents[1] \in Nodes
         /\ succ[t] = next[contents[1]]
<1>1. TypeOK /\ StackIntact /\ PopInv
  BY DEF IInv
<1>2. /\ old[t].value \in Nodes
      /\ top.tag = Advanced(old[t].tag, lag[t])
  BY <1>1 DEF PopInv, InPop
<1>3. lag[t] \in Tags /\ old[t].tag \in Tags
  BY <1>1 DEF TypeOK
<1>4. lag[t] = 0
  BY <1>2, <1>3, TagArithmetic
<1>5. succ[t] = next[old[t].value]
  BY <1>1, <1>4 DEF PopInv
<1>6. contents # << >> /\ old[t].value = contents[1]
  BY <1>1, <1>2, NullAssumption DEF StackIntact
<1> QED
  BY <1>1, <1>2, <1>5, <1>6 DEF TypeOK

LEMMA PopSwapIInv ==
  ASSUME IInv, NEW t \in Threads, PopSwap(t)
  PROVE  IInv'
<1> DEFINE b == contents[1]
           g == IncTag(old[t].tag)
<1>1. TypeOK /\ StackIntact /\ TagIsLength /\ PushInv /\ PopInv
  BY DEF IInv
<1>2. /\ pc[t] = "pop_swap"
      /\ top = old[t]
      /\ top' = TaggedValue(succ[t], g)
      /\ top'.value = succ[t] /\ top'.tag = g
      /\ Swap(t, TaggedValue(succ[t], g))
      /\ Return(t, old[t].value, 0)
      /\ contents' = Tail(contents)
      /\ out' = out \cup {old[t].value}
      /\ next' = next
  BY DEF PopSwap, Swap, TaggedValue
<1>3. /\ contents # << >>
      /\ Len(contents) \in Nat /\ Len(contents) >= 1
      /\ old[t].value = b /\ b \in Nodes
      /\ succ[t] = next[b] /\ succ[t] \in Ptr
  BY <1>1, <1>2, PopSeesTop DEF TypeOK
<1>4. g \in Tags /\ 0 \in Nat /\ b \in Ptr
  BY <1>1, <1>3, TagArithmetic, TagSizeAssumption DEF TypeOK, Tags, Ptr
<1>5. /\ Discipline = "pool"
      /\ lag' \in [Threads -> Tags]
      /\ \A u \in Threads \ {t} : InPop(u) =>
           /\ lag'[u] # 0
           /\ top'.tag = Advanced(old[u].tag, lag'[u])
      /\ \A u \in Threads : u = t \/ ~InPop(u) => lag'[u] = 0
  <2>1. Discipline = "pool"
    BY <1>1, <1>2 DEF PopInv, InPop
  <2> QED
    BY <2>1, <1>2, <1>3, SwapCounted
<1>6. /\ pc'[t] = "idle"
      /\ \A u \in Threads \ {t} : /\ pc'[u] = pc[u]
                                  /\ arg'[u] = arg[u]
                                  /\ old'[u] = old[u]
                                  /\ succ'[u] = succ[u]
  BY <1>1, <1>2 DEF Return, TypeOK
<1>7. /\ contents' \in Seq(Nodes)
      /\ Len(contents') = Len(contents) - 1
      /\ \A i \in 1 .. Len(contents') :
           contents'[i] = contents[i + 1] /\ i + 1 \in 1 .. Len(contents)
  BY <1>1, <1>2, <1>3 DEF TypeOK
<1>8. TypeOK'
  <2>1. top' \in [value : Ptr, tag : Tags]
    BY <1>2, <1>3, <1>4 DEF TaggedValue
  <2>2. next' \in [Nodes -> Ptr] /\ out' \in SUBSET Nodes
    BY <1>1, <1>2, <1>3 DEF TypeOK
  <2> QED
    BY <2>1, <2>2, <1>1, <1>2, <1>3, <1>4, <1>5, <1>7, ReturnTypes DEF TypeOK
<1>9. StackIntact'
  <2>1. top'.value = IF Len(contents) = 1 THEN Null ELSE contents[2]
    <3>1. 1 \in 1 .. Len(contents)
      BY <1>3
    <3>2. next[contents[1]] = IF 1 = Len(contents) THEN Null ELSE contents[1 + 1]
      BY <1>1, <3>1 DEF StackIntact
    <3> QED
      BY <1>2, <1>3, <3>2
  <2>2. top'.value = IF contents' = << >> THEN Null ELSE contents'[1]
    <3>1. contents' = << >> <=> Len(contents) = 1
      BY <1>3, <1>7
    <3>2. Len(contents) # 1 => contents'[1] = contents[2]
      BY <1>3, <1>7
    <3> QED
      BY <2>1, <3>1, <3>2
  <2>3. \A i \in 1 .. Len(contents') : contents'[i] \notin out'
    <3> SUFFICES ASSUME NEW i \in 1 .. Len(contents')
                 PROVE  contents'[i] \notin out'
      OBVIOUS
    <3>1. i + 1 \in 1 .. Len(contents) /\ 1 \in 1 .. Len(contents) /\ i + 1 # 1
      BY <1>3, <1>7
    <3>2. contents[i + 1] \notin out /\ contents[i + 1] # contents[1]
      BY <1>1, <3>1 DEF StackIntact
    <3> QED
      BY <1>2, <1>3, <1>7, <3>2
  <2>4. \A i, j \in 1 .. Len(contents') : contents'[i] = contents'[j] => i = j
    <3> SUFFICES ASSUME NEW i \in 1 .. Len(contents'),
                        NEW j \in 1 .. Len(contents'),
                        contents'[i] = contents'[j]
                 PROVE  i = j
      OBVIOUS
    <3>1. i + 1 = j + 1
      BY <1>1, <1>7 DEF StackIntact
    <3> QED
      BY <3>1
  <2>5. \A i \in 1 .. Len(contents') :
          next'[contents'[i]] =
            IF i = Len(contents') THEN Null ELSE contents'[i + 1]
    <3> SUFFICES ASSUME NEW i \in 1 .. Len(contents')
                 PROVE  next'[contents'[i]] =
                          IF i = Len(contents') THEN Null ELSE contents'[i + 1]
      OBVIOUS
    <3>1. next[contents[i + 1]] =
            IF i + 1 = Len(contents) THEN Null ELSE contents[(i + 1) + 1]
      BY <1>1, <1>7 DEF StackIntact
    <3>2. i # Len(contents') => contents'[i + 1] = contents[(i + 1) + 1]
      BY <1>3, <1>7
    <3>3. next'[contents'[i]] = next[contents[i + 1]]
      BY <1>2, <1>7
    <3>4. i = Len(contents') <=> i + 1 = Len(contents)
      BY <1>3, <1>7
    <3> QED
      BY <3>1, <3>2, <3>3, <3>4
  <2> QED
    BY <2>2, <2>3, <2>4, <2>5 DEF StackIntact
<1>10. TagIsLength'
  BY <1>5 DEF TagIsLength
<1>11. PushInv'
  <2>1. \A u \in Threads : InPush(u)' => InPush(u) /\ u # t /\ arg'[u] = arg[u]
    BY <1>6 DEF InPush
  <2>2. \A u \in Threads : pc'[u] = "push_swap" =>
          pc[u] = "push_swap" /\ old'[u] = old[u] /\ arg'[u] = arg[u]
    BY <1>6
  <2> QED
    BY <1>1, <1>2, <2>1, <2>2 DEF PushInv
<1>12. PopInv'
  <2>1. \A u \in Threads : InPop(u)' => u # t /\ InPop(u) /\ lag'[u] # 0
    BY <1>5, <1>6 DEF InPop
  <2>2. \A u \in Threads : ~InPop(u)' => lag'[u] = 0
    BY <1>5, <1>6 DEF InPop
  <2>3. \A u \in Threads : pc'[u] = "pop_swap" => InPop(u)'
    BY DEF InPop
  <2> QED
    BY <1>1, <1>5, <1>6, <2>1, <2>2, <2>3 DEF PopInv
<1> QED
  BY <1>8, <1>9, <1>10, <1>11, <1>12 DEF IInv

LEMMA PopAllSwapIInv ==
  ASSUME IInv, NEW t \in Threads, PopAllSwap(t)
  PROVE  IInv'
<1>1. TypeOK /\ StackIntact /\ TagIsLength /\ PushInv /\ PopInv
  BY DEF IInv
<1>2. /\ pc[t] = "popall_swap"
      /\ top' = TaggedValue(Null, 0)
      /\ top'.value = Null /\ top'.tag = 0
      /\ Swap(t, TaggedValue(Null, 0))
      /\ Return(t, old[t].value, old[t].tag)
      /\ contents' = << >>
      /\ out' = out \cup Blocks(contents)
      /\ next' = next
  BY DEF PopAllSwap, PopAllTop, Swap, TaggedValue
<1>3. Discipline = "remote" /\ old[t].value \in Ptr /\ old[t].tag \in Nat
  BY <1>1, <1>2, TagSizeAssumption DEF PopInv, TypeOK, Ptr, Tags
<1>4. /\ lag' \in [Threads -> Tags]
      /\ \A u \in Threads : ~InPop(u) /\ lag'[u] = 0
  BY <1>2, <1>3, RemoteSwapCounted
<1>5. /\ pc'[t] = "idle"
      /\ \A u \in Threads \ {t} : /\ pc'[u] = pc[u]
                                  /\ arg'[u] = arg[u]
                                  /\ old'[u] = old[u]
  BY <1>1, <1>2 DEF Return, TypeOK
<1>6. TypeOK'
  <2>1. top' \in [value : Ptr, tag : Tags]
    BY <1>2, TagSizeAssumption DEF TaggedValue, Ptr, Tags
  <2>2. next' \in [Nodes -> Ptr] /\ contents' \in Seq(Nodes)
    BY <1>1, <1>2 DEF TypeOK
  <2>3. out' \in SUBSET Nodes
    BY <1>1, <1>2 DEF TypeOK, Blocks
  <2> QED
    BY <2>1, <2>2, <2>3, <1>1, <1>2, <1>3, <1>4, ReturnTypes DEF TypeOK
<1>7. StackIntact' /\ TagIsLength'
  BY <1>2 DEF StackIntact, TagIsLength
<1>8. PushInv'
  <2>1. \A u \in Threads : InPush(u)' => InPush(u) /\ u # t /\ arg'[u] = arg[u]
    BY <1>5 DEF InPush
  <2>2. \A u \in Threads : pc'[u] = "push_swap" =>
          pc[u] = "push_swap" /\ old'[u] = old[u] /\ arg'[u] = arg[u]
    BY <1>5
  <2> QED
    BY <1>1, <1>2, <2>1, <2>2 DEF PushInv
<1>9. PopInv'
  <2>1. \A u \in Threads : ~InPop(u)' /\ pc'[u] # "pop_swap"
    BY <1>4, <1>5 DEF InPop
  <2> QED
    BY <1>1, <1>3, <1>4, <1>5, <2>1 DEF PopInv
<1> QED
  BY <1>6, <1>7, <1>8, <1>9 DEF IInv

-----------------------------------------------------------------------------

LEMMA NextIInv == IInv /\ [Next]_vars => IInv'
<1> SUFFICES ASSUME IInv, [Next]_vars PROVE IInv'
  OBVIOUS
<1>1. ASSUME NEW t \in Threads, NEW n \in Nodes, PushCall(t, n) PROVE IInv'
  BY <1>1, PushCallIInv
<1>2. ASSUME NEW t \in Threads, PushLoad(t) PROVE IInv'
  BY <1>2, PushLoadIInv
<1>3. ASSUME NEW t \in Threads, PushLink(t) PROVE IInv'
  BY <1>3, PushLinkIInv
<1>4. ASSUME NEW t \in Threads, PushSwap(t) PROVE IInv'
  BY <1>4, PushSwapIInv
<1>5. ASSUME NEW t \in Threads, PushRetry(t) PROVE IInv'
  BY <1>5, SwapFailsIInv DEF PushRetry, InPush
<1>6. ASSUME NEW t \in Threads, PopLoad(t) PROVE IInv'
  BY <1>6, PopLoadIInv
<1>7. ASSUME NEW t \in Threads, PopRead(t) PROVE IInv'
  BY <1>7, PopReadIInv
<1>8. ASSUME NEW t \in Threads, PopSwap(t) PROVE IInv'
  BY <1>8, PopSwapIInv
<1>9. ASSUME NEW t \in Threads, PopRetry(t) PROVE IInv'
  BY <1>9, SwapFailsIInv DEF PopRetry
<1>10. ASSUME NEW t \in Threads, PopAllLoad(t) PROVE IInv'
  BY <1>10, PopAllLoadIInv
<1>11. ASSUME NEW t \in Threads, PopAllSwap(t) PROVE IInv'
  BY <1>11, PopAllSwapIInv
<1>12. ASSUME NEW t \in Threads, PopAllRetry(t) PROVE IInv'
  BY <1>12, SwapFailsIInv DEF PopAllRetry
<1>13. ASSUME NEW n \in Nodes, NEW v \in Ptr, Write(n, v) PROVE IInv'
  BY <1>13, WriteIInv
<1>14. CASE UNCHANGED vars
  BY <1>14 DEF vars, IInv, TypeOK, StackIntact, TagIsLength, PushInv, PopInv,
               InPush, InPop
<1> QED
  BY <1>1, <1>2, <1>3, <1>4, <1>5, <1>6, <1>7, <1>8, <1>9, <1>10, <1>11,
     <1>12, <1>13, <1>14 DEF Next, Call, Continue

(* The inductive invariant holds in every state, whatever the threads, the *)
(* blocks and the width of the tag.                                        *)
THEOREM StackInvariant == Spec => []IInv
<1>1. Init => IInv
  BY InitIInv
<1>2. IInv /\ [Next]_vars => IInv'
  BY NextIInv
<1> QED
  BY <1>1, <1>2, PTL DEF Spec

(* Every word of the stack keeps its type: the tag stays within its width, *)
(* and what a thread has read of top_ is a block or null.                  *)
THEOREM StackTypes == Spec => []TypeOK
<1>1. IInv => TypeOK
  BY DEF IInv
<1> QED
  BY <1>1, StackInvariant, PTL

(* Stack<PAD>: the chain of first words that starts at top_ is the         *)
(* sequence of blocks that were pushed and not popped.                     *)
THEOREM StackStaysIntact == Spec => []StackIntact
<1>1. IInv => StackIntact
  BY DEF IInv
<1> QED
  BY <1>1, StackInvariant, PTL

(* PushReturnTag and PopAll: the tag counts the blocks of a remote list.   *)
THEOREM TagCountsBlocks == Spec => []TagIsLength
<1>1. IInv => TagIsLength
  BY DEF IInv
<1> QED
  BY <1>1, StackInvariant, PTL

-----------------------------------------------------------------------------
(* The refinement: a swap that succeeds is the operation of the abstract   *)
(* stack, a load that finds nullptr is an operation on the empty stack,    *)
(* and every other step changes nothing that the abstract stack shows.     *)

LEMMA EmptyIsNull ==
  ASSUME IInv, top.value = Null
  PROVE  contents = << >> /\ (Discipline = "remote" => top.tag = 0)
<1>1. contents = << >>
  <2>1. TypeOK /\ StackIntact
    BY DEF IInv
  <2>2. contents # << >> => contents[1] \in Nodes
    BY <2>1 DEF TypeOK
  <2> QED
    BY <2>1, <2>2, NullAssumption DEF StackIntact
<1> QED
  BY <1>1 DEF IInv, TagIsLength

LEMMA PushSwapRefines ==
  ASSUME IInv, NEW t \in Threads, PushSwap(t)
  PROVE  LIFO!Next
<1>1. IInv'
  BY PushSwapIInv
<1>2. arg[t] \in Nodes /\ arg[t] \in out
  BY DEF IInv, PushInv, InPush, PushSwap, TypeOK
<1>3. Len(contents') = Len(contents) + 1
  BY <1>2 DEF PushSwap, IInv, TypeOK
<1>4. top'.tag = IncTag(old[t].tag)
  BY DEF PushSwap, Swap, TaggedValue
<1>5. Discipline = "remote" => IncTag(old[t].tag) = Len(contents) + 1
  BY <1>1, <1>3, <1>4 DEF IInv, TagIsLength
<1>6. LIFO!Push(t, arg[t])
  BY <1>2, <1>5 DEF LIFO!Push, LIFO!Result, PushSwap, Return
<1> QED
  BY <1>2, <1>6 DEF LIFO!Next

LEMMA PopSwapRefines ==
  ASSUME IInv, NEW t \in Threads, PopSwap(t)
  PROVE  LIFO!Next
<1>1. contents # << >> /\ old[t].value = contents[1]
  BY PopSeesTop DEF PopSwap, Swap
<1>2. Discipline = "pool"
  BY DEF IInv, PopInv, InPop, PopSwap
<1>3. Head(contents) = contents[1]
  BY <1>1 DEF IInv, TypeOK
<1>4. LIFO!Pop(t)
  BY <1>1, <1>3 DEF LIFO!Pop, LIFO!Result, PopSwap, Return
<1> QED
  BY <1>2, <1>4 DEF LIFO!Next

LEMMA PopAllSwapRefines ==
  ASSUME IInv, NEW t \in Threads, PopAllSwap(t)
  PROVE  LIFO!Next
<1>1. /\ Discipline = "remote"
      /\ old[t].value \in Nodes
      /\ top = old[t]
  BY DEF IInv, PopInv, PopAllSwap, Swap
<1>2. contents # << >> /\ old[t].value = contents[1]
  BY <1>1, NullAssumption DEF IInv, StackIntact
<1>3. old[t].tag = Len(contents)
  BY <1>1 DEF IInv, TagIsLength
<1>4. Head(contents) = contents[1]
  BY <1>2 DEF IInv, TypeOK
<1>5. LIFO!PopAll(t)
  BY <1>2, <1>3, <1>4
  DEF LIFO!PopAll, LIFO!Result, LIFO!Blocks, Blocks, PopAllSwap, Return
<1> QED
  BY <1>1, <1>5 DEF LIFO!Next

LEMMA PopLoadRefines ==
  ASSUME IInv, NEW t \in Threads, PopLoad(t) \/ PopAllLoad(t)
  PROVE  LIFO!Next \/ UNCHANGED LIFO!vars
<1>1. CASE top.value = Null
  <2>1. contents = << >> /\ (Discipline = "remote" => top.tag = 0)
    BY <1>1, EmptyIsNull
  <2>2. Return(t, Null, 0)
    BY <1>1, <2>1 DEF PopLoad, PopAllLoad
  <2>3. UNCHANGED << contents, out >>
    BY DEF PopLoad, PopAllLoad
  <2>4. LIFO!PopEmpty(t)
    BY <2>1, <2>2, <2>3 DEF LIFO!PopEmpty, LIFO!NoResult, LIFO!Result, Return
  <2> QED
    BY <2>4 DEF LIFO!Next
<1>2. CASE top.value # Null
  BY <1>2 DEF PopLoad, PopAllLoad, LIFO!vars
<1> QED
  BY <1>1, <1>2

LEMMA NextRefines == IInv /\ [Next]_vars => [LIFO!Next]_(LIFO!vars)
<1> SUFFICES ASSUME IInv, [Next]_vars
             PROVE  LIFO!Next \/ UNCHANGED LIFO!vars
  OBVIOUS
<1>1. ASSUME NEW t \in Threads,
             PushSwap(t) \/ PopSwap(t) \/ PopAllSwap(t)
      PROVE  LIFO!Next
  BY <1>1, PushSwapRefines, PopSwapRefines, PopAllSwapRefines
<1>2. ASSUME NEW t \in Threads, PopLoad(t) \/ PopAllLoad(t)
      PROVE  LIFO!Next \/ UNCHANGED LIFO!vars
  BY <1>2, PopLoadRefines
<1>3. ASSUME NEW t \in Threads, NEW n \in Nodes, PushCall(t, n)
      PROVE  UNCHANGED LIFO!vars
  BY <1>3 DEF PushCall, LIFO!vars
<1>4. ASSUME NEW t \in Threads,
             \/ PushLoad(t) \/ PushLink(t) \/ PushRetry(t) \/ PopRead(t)
             \/ PopRetry(t) \/ PopAllRetry(t)
      PROVE  UNCHANGED LIFO!vars
  BY <1>4 DEF PushLoad, PushLink, PushRetry, PopRead, PopRetry, PopAllRetry,
              SwapFails, LIFO!vars
<1>5. ASSUME NEW n \in Nodes, NEW v \in Ptr, Write(n, v)
      PROVE  UNCHANGED LIFO!vars
  BY <1>5 DEF Write, LIFO!vars
<1>6. CASE UNCHANGED vars
  BY <1>6 DEF vars, LIFO!vars
<1> QED
  BY <1>1, <1>2, <1>3, <1>4, <1>5, <1>6 DEF Next, Call, Continue

(* The stack of stack.h is linearizable: it implements the atomic stack,   *)
(* results of its operations included, as long as no Pop is overtaken by   *)
(* TagSize swaps (SwapBound).                                              *)
THEOREM StackIsLinearizable == Spec => Linearizable
<1>1. Init => LIFO!Init
  BY DEF Init, LIFO!Init, NoResult, LIFO!NoResult, LIFO!Result
<1>2. IInv /\ [Next]_vars => [LIFO!Next]_(LIFO!vars)
  BY NextRefines
<1> QED
  BY <1>1, <1>2, StackInvariant, PTL DEF Spec, Linearizable, LIFO!Spec

=============================================================================
