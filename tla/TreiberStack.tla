---------------------------- MODULE TreiberStack -----------------------------
(***************************************************************************)
(* src/stack.h on top of src/atomic_value.h: the Treiber stack behind the  *)
(* span pool's backends, the list of free allocation buffers and the       *)
(* remote free list of every span.  One action is one access to shared     *)
(* memory: a load of top_, a read or write of a block's first word, or the *)
(* compare-and-swap of top_.                                               *)
(*                                                                         *)
(* The repository uses a stack in two ways and never mixes them:           *)
(*   "pool"    Push and Pop              (SpanPool::spans_, free_abs_)     *)
(*   "remote"  PushReturnTag and PopAll  (Span::remote_free_list_)         *)
(* Pop makes the tag of top_ a version number; PopAll resets the tag to 0  *)
(* and makes it the length of the list.                                    *)
(***************************************************************************)
EXTENDS Naturals, Sequences, FiniteSets

CONSTANTS
  Threads,
  Nodes,       \* the blocks that may be pushed
  Null,        \* nullptr
  TagSize,     \* the number of values of a uint16_t tag: 65536 in the code
  Discipline   \* "pool" or "remote"

ASSUME NullAssumption == Null \notin Nodes
ASSUME TagSizeAssumption == TagSize \in Nat /\ TagSize >= 2
ASSUME DisciplineAssumption == Discipline \in {"pool", "remote"}
(* A span has at most 2040 objects, far fewer than there are tags.  A pool *)
(* may hold any number of spans.                                           *)
ASSUME NodesAssumption ==
  /\ IsFiniteSet(Nodes)
  /\ Discipline = "remote" => Cardinality(Nodes) < TagSize

VARIABLES
  top,       \* top_: a block or Null, and a tag
  next,      \* the first word of every block
  pc,        \* the next shared access of each thread
  arg,       \* p, the block a thread is pushing
  old,       \* top_old
  succ,      \* the first word of top_old.value() as Pop read it
  ret,       \* the result of each thread's last completed operation
  contents,  \* history: the blocks in the stack, top first
  out,       \* history: the blocks that belong to the program
  lag        \* history: successful swaps since a thread in Pop loaded top_

vars == << top, next, pc, arg, old, succ, ret, contents, out, lag >>

Ptr == Nodes \cup {Null}
Tags == 0 .. TagSize - 1

TaggedValue(value, tag) == [value |-> value, tag |-> tag]

Nothing == TaggedValue(Null, 0)

NoResult == [value |-> Null, len |-> 0]

Blocks(s) == { s[i] : i \in DOMAIN s }

InPop(t) == pc[t] \in {"pop_read", "pop_swap"}

InPush(t) == pc[t] \in {"push_load", "push_link", "push_swap"}

(* Blocks that some thread is pushing: no longer the program's to use. *)
Pushing == { arg[t] : t \in { u \in Threads : InPush(u) } }

Init ==
  /\ top = Nothing
  /\ next = [n \in Nodes |-> Null]
  /\ pc = [t \in Threads |-> "idle"]
  /\ arg = [t \in Threads |-> Null]
  /\ old = [t \in Threads |-> Nothing]
  /\ succ = [t \in Threads |-> Null]
  /\ ret = [t \in Threads |-> NoResult]
  /\ contents = << >>
  /\ out = Nodes
  /\ lag = [t \in Threads |-> 0]

-----------------------------------------------------------------------------

(* Mutants of IncTag: the tag is not advanced; it is not truncated. *)
IncTagStuck(tag) == tag
IncTagWide(tag) == tag + 1

(* top_old.tag() + 1, truncated to a uint16_t by TaggedValue's constructor *)
IncTag(tag) == IF tag = TagSize - 1 THEN 0 ELSE tag + 1

(* The blocks of one stack are popped by tag, so a Pop that is overtaken by *)
(* TagSize swaps between its load and its swap cannot notice them.  The     *)
(* model assumes that this does not happen: SwapBound is the one assumption *)
(* on scheduling that the results about the "pool" discipline rest on.      *)
SwapBound(t) ==
  \A u \in Threads \ {t} : InPop(u) => lag[u] < TagSize - 1

CountSwap(t) ==
  lag' = [u \in Threads |->
            IF u = t \/ ~InPop(u) \/ Discipline = "remote" THEN 0 ELSE lag[u] + 1]

(* AtomicTaggedValue::swap: succeeds iff top_ still is top_old. *)
Swap(t, new) ==
  /\ top = old[t]
  /\ Discipline = "pool" => SwapBound(t)
  /\ top' = new
  /\ CountSwap(t)

SwapFails(t, retry) ==
  /\ top # old[t]
  /\ pc' = [pc EXCEPT ![t] = retry]
  /\ old' = [old EXCEPT ![t] = Nothing]
  /\ succ' = [succ EXCEPT ![t] = Null]
  /\ lag' = [lag EXCEPT ![t] = 0]
  /\ UNCHANGED << top, next, arg, ret, contents, out >>

(* The locals of an operation die with it. *)
Return(t, value, len) ==
  /\ pc' = [pc EXCEPT ![t] = "idle"]
  /\ arg' = [arg EXCEPT ![t] = Null]
  /\ old' = [old EXCEPT ![t] = Nothing]
  /\ succ' = [succ EXCEPT ![t] = Null]
  /\ ret' = [ret EXCEPT ![t] = [value |-> value, len |-> len]]

-----------------------------------------------------------------------------
(* Push and PushReturnTag *)

PushCall(t, n) ==
  /\ pc[t] = "idle"
  /\ n \in out \ Pushing
  /\ arg' = [arg EXCEPT ![t] = n]
  /\ pc' = [pc EXCEPT ![t] = "push_load"]
  /\ UNCHANGED << top, next, old, succ, ret, contents, out, lag >>

PushLoad(t) ==
  /\ pc[t] = "push_load"
  /\ old' = [old EXCEPT ![t] = top]
  /\ pc' = [pc EXCEPT ![t] = "push_link"]
  /\ UNCHANGED << top, next, arg, succ, ret, contents, out, lag >>

PushLink(t) ==
  /\ pc[t] = "push_link"
  /\ next' = [next EXCEPT ![arg[t]] = old[t].value]
  /\ pc' = [pc EXCEPT ![t] = "push_swap"]
  /\ UNCHANGED << top, arg, old, succ, ret, contents, out, lag >>

PushSwap(t) ==
  /\ pc[t] = "push_swap"
  /\ LET tag == IncTag(old[t].tag) IN
     /\ Swap(t, TaggedValue(arg[t], tag))
     /\ Return(t, arg[t], IF Discipline = "remote" THEN tag ELSE 0)
  /\ contents' = << arg[t] >> \o contents
  /\ out' = out \ {arg[t]}
  /\ UNCHANGED next

(* Mutant of PushRetry: the loop does not load top_ again. *)
PushRetryStale(t) ==
  /\ pc[t] = "push_swap"
  /\ top # old[t]
  /\ pc' = [pc EXCEPT ![t] = "push_link"]
  /\ UNCHANGED << top, next, arg, old, succ, ret, contents, out, lag >>

PushRetry(t) ==
  /\ pc[t] = "push_swap"
  /\ SwapFails(t, "push_load")

-----------------------------------------------------------------------------
(* Pop *)

PopLoad(t) ==
  /\ Discipline = "pool"
  /\ pc[t] \in {"idle", "pop_load"}
  /\ IF top.value = Null
       THEN Return(t, Null, 0)
       ELSE /\ old' = [old EXCEPT ![t] = top]
            /\ pc' = [pc EXCEPT ![t] = "pop_read"]
            /\ UNCHANGED << arg, succ, ret >>
  /\ UNCHANGED << top, next, contents, out, lag >>

(* The block may have been popped, and rewritten, by another thread. *)
PopRead(t) ==
  /\ pc[t] = "pop_read"
  /\ succ' = [succ EXCEPT ![t] = next[old[t].value]]
  /\ pc' = [pc EXCEPT ![t] = "pop_swap"]
  /\ UNCHANGED << top, next, arg, old, ret, contents, out, lag >>

(* Mutant of PopSwap: the successor is returned. *)
PopSwapReturnsNext(t) ==
  /\ pc[t] = "pop_swap"
  /\ Swap(t, TaggedValue(succ[t], IncTag(old[t].tag)))
  /\ Return(t, succ[t], 0)
  /\ contents' = Tail(contents)
  /\ out' = out \cup {old[t].value}
  /\ UNCHANGED next

PopSwap(t) ==
  /\ pc[t] = "pop_swap"
  /\ Swap(t, TaggedValue(succ[t], IncTag(old[t].tag)))
  /\ Return(t, old[t].value, 0)
  /\ contents' = Tail(contents)
  /\ out' = out \cup {old[t].value}
  /\ UNCHANGED next

PopRetry(t) ==
  /\ pc[t] = "pop_swap"
  /\ SwapFails(t, "pop_load")

-----------------------------------------------------------------------------
(* PopAll *)

PopAllLoad(t) ==
  /\ Discipline = "remote"
  /\ pc[t] \in {"idle", "popall_load"}
  /\ IF top.value = Null
       THEN Return(t, top.value, top.tag)
       ELSE /\ old' = [old EXCEPT ![t] = top]
            /\ pc' = [pc EXCEPT ![t] = "popall_swap"]
            /\ UNCHANGED << arg, succ, ret >>
  /\ UNCHANGED << top, next, contents, out, lag >>

(* Mutant of PopAllTop: the tag goes on counting as in Pop. *)
PopAllTopKeepsTag(t) == TaggedValue(Null, IncTag(old[t].tag))

PopAllTop(t) == TaggedValue(Null, 0)

PopAllSwap(t) ==
  /\ pc[t] = "popall_swap"
  /\ Swap(t, PopAllTop(t))
  /\ Return(t, old[t].value, old[t].tag)
  /\ contents' = << >>
  /\ out' = out \cup Blocks(contents)
  /\ UNCHANGED next

PopAllRetry(t) ==
  /\ pc[t] = "popall_swap"
  /\ SwapFails(t, "popall_load")

-----------------------------------------------------------------------------

(* The program writes to a block that it owns: a span's constructor clears *)
(* span_link_, an allocated object holds user data.                         *)
Write(n, v) ==
  /\ n \in out \ Pushing
  /\ next' = [next EXCEPT ![n] = v]
  /\ UNCHANGED << top, pc, arg, old, succ, ret, contents, out, lag >>

(* The steps of an operation that a thread is in the middle of ... *)
Continue(t) ==
  /\ pc[t] # "idle"
  /\ \/ PushLoad(t) \/ PushLink(t) \/ PushSwap(t) \/ PushRetry(t)
     \/ PopLoad(t) \/ PopRead(t) \/ PopSwap(t) \/ PopRetry(t)
     \/ PopAllLoad(t) \/ PopAllSwap(t) \/ PopAllRetry(t)

(* ... and the first step of an operation, which is the program's choice. *)
Call(t) ==
  /\ pc[t] = "idle"
  /\ \/ \E n \in Nodes : PushCall(t, n)
     \/ PopLoad(t)
     \/ PopAllLoad(t)

Next ==
  \/ \E t \in Threads : Call(t) \/ Continue(t)
  \/ \E n \in Nodes, v \in Ptr : Write(n, v)

Spec == Init /\ [][Next]_vars

(* Every thread that is inside an operation is scheduled again. *)
FairSpec == Spec /\ \A t \in Threads : WF_vars(Continue(t))

-----------------------------------------------------------------------------

TypeOK ==
  /\ top \in [value : Ptr, tag : Tags]
  /\ next \in [Nodes -> Ptr]
  /\ pc \in [Threads -> {"idle", "push_load", "push_link", "push_swap",
                         "pop_load", "pop_read", "pop_swap",
                         "popall_load", "popall_swap"}]
  /\ arg \in [Threads -> Ptr]
  /\ old \in [Threads -> [value : Ptr, tag : Tags]]
  /\ succ \in [Threads -> Ptr]
  /\ ret \in [Threads -> [value : Ptr, len : Nat]]
  /\ contents \in Seq(Nodes)
  /\ out \in SUBSET Nodes
  /\ lag \in [Threads -> Tags]

(* The chain of first words that starts at top_ runs through exactly the   *)
(* blocks that were pushed and not popped, in order, and ends in nullptr;   *)
(* none of these blocks is in the hands of the program.                     *)
StackIntact ==
  /\ top.value = IF contents = << >> THEN Null ELSE contents[1]
  /\ \A i \in 1 .. Len(contents) :
       next[contents[i]] = IF i = Len(contents) THEN Null ELSE contents[i + 1]
  /\ \A i, j \in 1 .. Len(contents) : contents[i] = contents[j] => i = j
  /\ \A i \in 1 .. Len(contents) : contents[i] \notin out

(* Length() and Empty() of a remote free list, and the length that PopAll   *)
(* returns, count its blocks: the tag of top_ is the length of the list.    *)
TagIsLength == Discipline = "remote" => top.tag = Len(contents)

LIFO == INSTANCE LifoStack

(* Every operation of the concurrent stack takes effect, with its result,   *)
(* at one instant between its call and its return.                          *)
Linearizable == LIFO!Spec

(* Lock freedom: while operations are under way, operations complete.       *)
(* A swap only fails because another one succeeded.                         *)
Completes(t) == pc[t] # "idle" /\ pc'[t] = "idle"

LockFree ==
  \/ []<><< \E t \in Threads : Completes(t) >>_vars
  \/ <>[](\A t \in Threads : pc[t] = "idle")
=============================================================================
