---------------------------- MODULE SpanProtocol -----------------------------
(***************************************************************************)
(* The life of a span: src/core.h, src/span.h, src/free_list.h and the     *)
(* part of src/lab.h that starts and ends the use of a core.               *)
(*                                                                         *)
(* A core is driven by one thread at a time, so the processes of this      *)
(* module are the cores: "dead" between two threads, and otherwise idle or *)
(* inside malloc, free or the thread's destructor.  One action is one      *)
(* access to memory that other threads use (a load, a compare-and-swap, a  *)
(* deque operation under its lock) with the private work around it.        *)
(*                                                                         *)
(* Objects of a span are interchangeable, so a span keeps their numbers;   *)
(* deques and the span pool appear as what SpanDeque and TreiberStack show *)
(* them to be, a sequence and a set.  There is one size class: classes     *)
(* share nothing but the pool.                                             *)
(***************************************************************************)
EXTENDS Integers, Sequences, FiniteSets, SequencesExt

CONSTANTS
  Cores,
  Spans,
  NoCore,       \* nullptr as a Core*
  NoSpan,       \* nullptr as a Span*
  K,            \* ClassToObjects of the size class
  Threshold,    \* ClassToReuseThreshold of the size class
  StoreBuffer,  \* TRUE: a plain store may become visible late (x86)
  MaxEpoch,     \* bound: the largest epoch value
  MaxThreads    \* bound: the number of threads ever started

ASSUME NullAssumption == NoCore \notin Cores /\ NoSpan \notin Spans
ASSUME CoresAssumption == IsFiniteSet(Cores)
ASSUME ObjectsAssumption ==
  /\ K \in Nat /\ Threshold \in Nat
  /\ Threshold < K
ASSUME BoundsAssumption ==
  /\ MaxEpoch \in Nat /\ MaxThreads \in Nat
  /\ StoreBuffer \in BOOLEAN

VARIABLES
  (* spans *)
  epoch,    \* epoch_: the one mark that is set, if any, and a value
  owner,    \* owner_
  local,    \* local_free_list_.len_, as its owner sees it
  visible,  \* local_free_list_.len_, as the other threads see it
  remote,   \* the length of remote_free_list_
  live,     \* how many objects of the span the program holds
  pool,     \* the spans in the span pool
  fresh,    \* the part of the arena that was never used
  (* cores *)
  id,       \* id_
  hot,      \* hot_span_
  rspans,   \* r_spans_, front first
  opened,   \* r_spans_.owner_
  threads,  \* thread_ids_
  (* the operation a core is in *)
  pc,
  op,       \* "malloc"; "last": malloc's final attempt; "free"; "exit"
  sp,       \* the span at hand
  ep,       \* old_epoch
  ow,       \* old_owner
  cnt,      \* free_objects
  broken    \* the promise the code broke; the model ends there

spanVars == << epoch, owner, local, visible, remote, live, pool, fresh >>
coreVars == << id, hot, rspans, opened, threads >>
opVars == << pc, op, sp, ep, ow, cnt >>
vars == << spanVars, coreVars, opVars, broken >>

Epoch(mark, value) == [mark |-> mark, value |-> value]

NoEpoch == Epoch("none", 0)

CoreId(core, tag) == [core |-> core, tag |-> tag]

kTerminated == CoreId(NoCore, 0)

Linked(s) == \E c \in Cores : Contains(rspans[c], s)

Init ==
  /\ epoch = [s \in Spans |-> NoEpoch]
  /\ owner = [s \in Spans |-> kTerminated]
  /\ local = [s \in Spans |-> 0]
  /\ visible = [s \in Spans |-> 0]
  /\ remote = [s \in Spans |-> 0]
  /\ live = [s \in Spans |-> 0]
  /\ pool = {}
  /\ fresh = Spans
  /\ id = [c \in Cores |-> kTerminated]
  /\ hot = [c \in Cores |-> NoSpan]
  /\ rspans = [c \in Cores |-> << >>]
  /\ opened = [c \in Cores |-> kTerminated]
  /\ threads = 0
  /\ pc = [c \in Cores |-> "dead"]
  /\ op = [c \in Cores |-> "none"]
  /\ sp = [c \in Cores |-> NoSpan]
  /\ ep = [c \in Cores |-> NoEpoch]
  /\ ow = [c \in Cores |-> kTerminated]
  /\ cnt = [c \in Cores |-> 0]
  /\ broken = "nothing"

-----------------------------------------------------------------------------
(* Epochs.  At most one of the three bits is ever set: every NewMark...     *)
(* masks all others.                                                        *)

IsHot(e) == e.mark = "hot"
IsFull(e) == e.mark = "full"
IsReusable(e) == e.mark = "reuse"
IsFloatingOrReusable(e) == ~IsFull(e) /\ ~IsHot(e)

(* Mutant of OnlyValue: no bit is masked. *)
OnlyValueUnmasked(e) == e

(* & kEpochOnlyValuesMask, & kEpochReuseMask *)
OnlyValue(e) == Epoch("none", e.value)
OnlyReuse(e) == IF IsReusable(e) THEN e ELSE OnlyValue(e)

(* What a successful NewMark... stores.  The value wraps at 2^28 in the     *)
(* code; here runs end before MaxEpoch.                                     *)
Marked(e, mark) == Epoch(mark, e.value + 1)
EpochBound(e) == e.value < MaxEpoch

(* Mutant of Exchange: the swap does not compare. *)
ExchangeBlind(s, expected, new) == epoch' = [epoch EXCEPT ![s] = new]

(* compare_exchange_strong of epoch_ *)
Exchange(s, expected, new) ==
  /\ epoch[s] = expected
  /\ epoch' = [epoch EXCEPT ![s] = new]

ExchangeFails(s, expected) ==
  /\ epoch[s] # expected
  /\ UNCHANGED epoch

-----------------------------------------------------------------------------
(* len_ is a plain field that the owner writes and all other threads read.  *)
(* Its last store may still be in the store buffer of the owner; an atomic  *)
(* instruction of the owner drains the buffer.                              *)

Fence(c) ==
  visible' = [s \in Spans |-> IF owner[s] = id[c] THEN local[s] ELSE visible[s]]

StoreLen(s, n) ==
  /\ local' = [local EXCEPT ![s] = n]
  /\ visible' = [visible EXCEPT ![s] = IF StoreBuffer THEN local[s] ELSE n]

Drain(c) ==
  /\ id[c] # kTerminated
  /\ Fence(c)
  /\ visible' # visible
  /\ UNCHANGED << epoch, owner, local, remote, live, pool, fresh,
                  coreVars, opVars, broken >>

-----------------------------------------------------------------------------

Goto(c, label) == pc' = [pc EXCEPT ![c] = label]

(* The locals of an operation die with it. *)
Done(c) ==
  /\ pc' = [pc EXCEPT ![c] = "idle"]
  /\ op' = [op EXCEPT ![c] = "none"]
  /\ sp' = [sp EXCEPT ![c] = NoSpan]
  /\ ep' = [ep EXCEPT ![c] = NoEpoch]
  /\ ow' = [ow EXCEPT ![c] = kTerminated]
  /\ cnt' = [cnt EXCEPT ![c] = 0]

(* Core::Init *)
InitCore(c, i) ==
  /\ id' = [id EXCEPT ![c] = i]
  /\ opened' = [opened EXCEPT ![c] = i]

(* ThreadLocalAllocationBuffer::GetMeALAB: a thread takes a free or a new   *)
(* core and gives it an identity that was never used.                       *)
GetMeALAB(c) ==
  /\ pc[c] = "dead"
  /\ threads < MaxThreads
  /\ threads' = threads + 1
  /\ InitCore(c, CoreId(c, threads + 1))
  /\ Goto(c, "idle")
  /\ UNCHANGED << spanVars, hot, rspans, op, sp, ep, ow, cnt, broken >>

-----------------------------------------------------------------------------
(* Core::Allocate *)

(* hot_span_[sc]->Allocate() takes an object from the local free list *)
TakeObject(c) ==
  LET s == hot[c] IN
  /\ s # NoSpan
  /\ local[s] > 0
  /\ StoreLen(s, local[s] - 1)
  /\ live' = [live EXCEPT ![s] = @ + 1]
  /\ Done(c)
  /\ UNCHANGED << epoch, owner, remote, pool, fresh, coreVars, broken >>

(* The start of malloc with no hot span *)
MallocNoSpan(c) ==
  /\ pc[c] = "idle"
  /\ hot[c] = NoSpan
  /\ op' = [op EXCEPT ![c] = "malloc"]
  /\ Goto(c, "get_remove")
  /\ UNCHANGED << spanVars, coreVars, sp, ep, ow, cnt, broken >>

(* The first attempt, at the start of malloc or after its first GetSpan *)
MallocFast(c) ==
  /\ pc[c] \in {"idle", "alloc"}
  /\ TakeObject(c)

NrFreeObjects(s) == local[s] + remote[s]

(* The hot span has no local object: are enough remote ones waiting? *)
MallocSlow(c) ==
  /\ pc[c] \in {"idle", "alloc"}
  /\ hot[c] # NoSpan
  /\ local[hot[c]] = 0
  /\ op' = [op EXCEPT ![c] = "malloc"]
  /\ Goto(c, IF NrFreeObjects(hot[c]) > Threshold
               THEN "refill" ELSE "float_load")
  /\ UNCHANGED << spanVars, coreVars, sp, ep, ow, cnt, broken >>

(* MoveRemoteToLocalObjects: SetList, as the local list is empty *)
MallocRefill(c) ==
  LET s == hot[c] IN
  /\ pc[c] = "refill"
  /\ remote' = [remote EXCEPT ![s] = 0]
  /\ StoreLen(s, local[s] + remote[s])
  /\ Goto(c, "alloc_last")
  /\ UNCHANGED << epoch, owner, live, pool, fresh, coreVars, op, sp, ep, ow,
                  cnt, broken >>

(* The last attempt, after MoveRemoteToLocalObjects or the second GetSpan,  *)
(* returns nullptr, with errno as it was, if it fails.                      *)
MallocLast(c) ==
  /\ pc[c] = "alloc_last"
  /\ TakeObject(c)

MallocNull(c) ==
  /\ pc[c] = "alloc_last"
  /\ local[hot[c]] = 0
  /\ Done(c)
  /\ UNCHANGED << spanVars, coreVars, broken >>

(* Span::NewMarkFloating is a load and a store. *)
FloatLoad(c) ==
  /\ pc[c] = "float_load"
  /\ ep' = [ep EXCEPT ![c] = epoch[hot[c]]]
  /\ Goto(c, "float_store")
  /\ UNCHANGED << spanVars, coreVars, op, sp, ow, cnt, broken >>

FloatStore(c) ==
  /\ pc[c] = "float_store"
  /\ epoch' = [epoch EXCEPT ![hot[c]] = OnlyValue(ep[c])]
  /\ hot' = [hot EXCEPT ![c] = NoSpan]
  /\ ep' = [ep EXCEPT ![c] = NoEpoch]
  /\ Fence(c)
  /\ IF op[c] = "malloc"
       THEN op' = [op EXCEPT ![c] = "last"] /\ Goto(c, "get_remove")
       ELSE UNCHANGED op /\ Goto(c, "drain")
  /\ UNCHANGED << owner, local, remote, live, pool, fresh, id, rspans, opened,
                  threads, sp, ow, cnt, broken >>

-----------------------------------------------------------------------------
(* Core::GetSpan *)

(* Deque::RemoveBack *)
GetRemove(c) ==
  /\ pc[c] = "get_remove"
  /\ IF rspans[c] = << >>
       THEN Goto(c, "get_new") /\ UNCHANGED << rspans, sp >>
       ELSE /\ sp' = [sp EXCEPT ![c] = Last(rspans[c])]
            /\ rspans' = [rspans EXCEPT ![c] = Front(@)]
            /\ Goto(c, "get_epoch")
  /\ Fence(c)
  /\ UNCHANGED << epoch, owner, local, remote, live, pool, fresh, id, hot,
                  opened, threads, op, ep, ow, cnt, broken >>

GetEpoch(c) ==
  /\ pc[c] = "get_epoch"
  /\ ep' = [ep EXCEPT ![c] = epoch[sp[c]]]
  /\ Goto(c, "get_hot")
  /\ UNCHANGED << spanVars, coreVars, op, sp, ow, cnt, broken >>

(* NewMarkHot, and the assertion that the span belongs to this core *)
GetHot(c) ==
  LET s == sp[c]
      old == OnlyReuse(ep[c]) IN
  /\ pc[c] = "get_hot"
  /\ EpochBound(old)
  /\ \/ /\ Exchange(s, old, Marked(old, "hot"))
        /\ IF owner[s] = id[c]
             THEN /\ hot' = [hot EXCEPT ![c] = s]
                  /\ Goto(c, "get_move")
                  /\ UNCHANGED broken
             ELSE broken' = "foreign hot span" /\ UNCHANGED << hot, pc >>
     \/ /\ ExchangeFails(s, old)
        /\ Goto(c, "get_remove")
        /\ UNCHANGED << hot, broken >>
  /\ Fence(c)
  /\ sp' = [sp EXCEPT ![c] = NoSpan]
  /\ ep' = [ep EXCEPT ![c] = NoEpoch]
  /\ UNCHANGED << owner, local, remote, live, pool, fresh, id, rspans, opened,
                  threads, op, ow, cnt >>

(* Where malloc goes on after GetSpan *)
Resume(c) == Goto(c, IF op[c] = "last" THEN "alloc_last" ELSE "alloc")

(* MoveRemoteToLocalObjects *)
GetMove(c) ==
  LET s == hot[c] IN
  /\ pc[c] = "get_move"
  /\ remote' = [remote EXCEPT ![s] = 0]
  /\ IF remote[s] = 0 THEN UNCHANGED << local, visible >>
                      ELSE StoreLen(s, local[s] + remote[s])
  /\ Resume(c)
  /\ UNCHANGED << epoch, owner, live, pool, fresh, coreVars, op, sp, ep, ow,
                  cnt, broken >>

(* Mutant of NewSpanEpoch: the constructor starts the epoch from zero. *)
NewSpanEpochReset(e) == Epoch("hot", 1)

(* Span::Span: NewMarkHot(epoch()), whose result is ignored *)
NewSpanEpoch(e) == IF e = OnlyReuse(e) THEN Marked(e, "hot") ELSE e

(* Span::New: a span of the pool, or of the arena if the scan of the pool   *)
(* finds none (it may miss one that is pushed behind it).                   *)
GetNew(c) ==
  /\ pc[c] = "get_new"
  /\ \E s \in pool \cup fresh :
       /\ NewSpanEpoch(epoch[s]).value <= MaxEpoch
       /\ pool' = pool \ {s}
       /\ fresh' = fresh \ {s}
       /\ owner' = [owner EXCEPT ![s] = id[c]]
       /\ local' = [local EXCEPT ![s] = K]
       /\ visible' = [t \in Spans |->
                        IF t = s THEN K
                        ELSE IF owner[t] = id[c] THEN local[t] ELSE visible[t]]
       /\ remote' = [remote EXCEPT ![s] = 0]
       /\ epoch' = [epoch EXCEPT ![s] = NewSpanEpoch(@)]
       /\ hot' = [hot EXCEPT ![c] = s]
  /\ Resume(c)
  /\ UNCHANGED << live, id, rspans, opened, threads, op, sp, ep, ow, cnt, broken >>

-----------------------------------------------------------------------------
(* Core::Free *)

(* The program gives up an object; old_epoch is read. *)
FreeStart(c, s) ==
  /\ pc[c] = "idle"
  /\ live[s] > 0
  /\ live' = [live EXCEPT ![s] = @ - 1]
  /\ op' = [op EXCEPT ![c] = "free"]
  /\ sp' = [sp EXCEPT ![c] = s]
  /\ ep' = [ep EXCEPT ![c] = epoch[s]]
  /\ Goto(c, "free_owner")
  /\ UNCHANGED << epoch, owner, local, visible, remote, pool, fresh, coreVars,
                  ow, cnt, broken >>

FreeOwner(c) ==
  /\ pc[c] = "free_owner"
  /\ ow' = [ow EXCEPT ![c] = owner[sp[c]]]
  /\ Goto(c, "free_push")
  /\ UNCHANGED << spanVars, coreVars, op, sp, ep, cnt, broken >>

(* Span::Free, first operand: the object goes to a free list of the span. *)
FreePush(c) ==
  LET s == sp[c] IN
  /\ pc[c] = "free_push"
  /\ IF owner[s] = id[c]
       THEN /\ StoreLen(s, local[s] + 1)
            /\ cnt' = [cnt EXCEPT ![c] = local[s] + 1]
            /\ UNCHANGED remote
       ELSE /\ remote' = [remote EXCEPT ![s] = @ + 1]
            /\ cnt' = [cnt EXCEPT ![c] = remote[s] + 1]
            /\ Fence(c)
            /\ UNCHANGED local
  /\ Goto(c, "free_count")
  /\ UNCHANGED << epoch, owner, live, pool, fresh, coreVars, op, sp, ep, ow,
                  broken >>

(* Span::Free, second operand: the length of the other free list. *)
FreeCount(c) ==
  LET s == sp[c] IN
  /\ pc[c] = "free_count"
  /\ cnt' = [cnt EXCEPT ![c] = @ + IF owner[s] = id[c] THEN remote[s]
                                                       ELSE visible[s]]
  /\ Goto(c, "free_alive")
  /\ UNCHANGED << spanVars, coreVars, op, sp, ep, ow, broken >>

(* Has the thread that owned the span ended? *)
FreeAlive(c) ==
  /\ pc[c] = "free_alive"
  /\ Goto(c, IF id[ow[c].core] = ow[c] THEN "free_mark" ELSE "free_revive")
  /\ UNCHANGED << spanVars, coreVars, op, sp, ep, ow, cnt, broken >>

(* Span::TryReviveNew *)
FreeRevive(c) ==
  LET s == sp[c] IN
  /\ pc[c] = "free_revive"
  /\ IF owner[s] = ow[c]
       THEN /\ owner' = [owner EXCEPT ![s] = id[c]]
            /\ ow' = [ow EXCEPT ![c] = id[c]]
            /\ Goto(c, "free_unmark")
       ELSE /\ Goto(c, "free_mark")
            /\ UNCHANGED << owner, ow >>
  /\ Fence(c)
  /\ UNCHANGED << epoch, local, remote, live, pool, fresh, coreVars, op, sp,
                  ep, cnt, broken >>

(* Span::TryMarkFloating *)
FreeUnmark(c) ==
  /\ pc[c] = "free_unmark"
  /\ \/ Exchange(sp[c], ep[c], OnlyValue(ep[c]))
     \/ ExchangeFails(sp[c], ep[c])
  /\ Goto(c, "free_mark")
  /\ Fence(c)
  /\ UNCHANGED << owner, local, remote, live, pool, fresh, coreVars, op, sp,
                  ep, ow, cnt, broken >>

(* Mutant of AllFree: one object too few. *)
AllFreeTooEarly(c) == cnt[c] >= K - 1 /\ IsFloatingOrReusable(ep[c])

AllFree(c) == cnt[c] = K /\ IsFloatingOrReusable(ep[c])

EnoughFree(c) == cnt[c] > Threshold /\ ~IsReusable(ep[c])

(* Nothing to do: the object stays in its span. *)
FreeNothing(c) ==
  /\ pc[c] = "free_mark"
  /\ ~AllFree(c) /\ ~EnoughFree(c)
  /\ Done(c)
  /\ UNCHANGED << spanVars, coreVars, broken >>

(* Span::NewMarkFull *)
FreeFull(c) ==
  LET old == OnlyReuse(ep[c]) IN
  /\ pc[c] = "free_mark"
  /\ AllFree(c)
  /\ EpochBound(old)
  /\ \/ /\ Exchange(sp[c], old, Marked(old, "full"))
        /\ Goto(c, IF IsReusable(ep[c]) THEN "free_unlink" ELSE "free_delete")
        /\ UNCHANGED << op, sp, ep, ow, cnt >>
     \/ /\ ExchangeFails(sp[c], old)
        /\ Done(c)
  /\ Fence(c)
  /\ UNCHANGED << owner, local, remote, live, pool, fresh, coreVars, broken >>

(* Mutant of ListAccepts: the lists are never closed. *)
ListAcceptsAny(c) == TRUE

(* Deque::Remove and PushFront compare old_owner with the deque's owner_. *)
ListAccepts(c) == opened[ow[c].core] = ow[c]

(* Removal joins the neighbours of the span, whichever list they are in. *)
Unlink(s) ==
  \E d \in Cores : \E i \in DOMAIN rspans[d] :
    /\ rspans[d][i] = s
    /\ rspans' = [rspans EXCEPT ![d] = RemoveAt(@, i)]

(* Mutant of FreeUnlink: a free whose removal is refused goes no further. *)
FreeUnlinkGivesUp(c) ==
  LET s == sp[c] IN
  /\ pc[c] = "free_unlink"
  /\ IF Linked(s) /\ ListAccepts(c) THEN Unlink(s) ELSE UNCHANGED rspans
  /\ IF ListAccepts(c)
       THEN Goto(c, "free_delete") /\ UNCHANGED << op, sp, ep, ow, cnt >>
       ELSE Done(c)
  /\ Fence(c)
  /\ UNCHANGED << epoch, owner, local, remote, live, pool, fresh, id, hot,
                  opened, threads, broken >>

(* Deque::Remove on the list of the owner, unless the span is in no list or *)
(* the list has been closed.                                                *)
FreeUnlink(c) ==
  LET s == sp[c] IN
  /\ pc[c] = "free_unlink"
  /\ IF Linked(s) /\ ListAccepts(c) THEN Unlink(s) ELSE UNCHANGED rspans
  /\ Goto(c, "free_delete")
  /\ Fence(c)
  /\ UNCHANGED << epoch, owner, local, remote, live, pool, fresh, id, hot,
                  opened, threads, op, sp, ep, ow, cnt, broken >>

(* Span::Delete asserts that the span is in no list. *)
FreeDelete(c) ==
  LET s == sp[c] IN
  /\ pc[c] = "free_delete"
  /\ IF Linked(s)
       THEN /\ broken' = "linked span deleted"
            /\ UNCHANGED << visible, pool, opVars >>
       ELSE /\ pool' = pool \cup {s}
            /\ Fence(c)
            /\ Done(c)
            /\ UNCHANGED broken
  /\ UNCHANGED << epoch, owner, local, remote, live, fresh, coreVars >>

(* Span::NewMarkReuse *)
FreeReuse(c) ==
  LET old == OnlyValue(ep[c]) IN
  /\ pc[c] = "free_mark"
  /\ ~AllFree(c) /\ EnoughFree(c)
  /\ EpochBound(old)
  /\ \/ /\ Exchange(sp[c], old, Marked(old, "reuse"))
        /\ Goto(c, "free_link")
        /\ UNCHANGED << op, sp, ep, ow, cnt >>
     \/ /\ ExchangeFails(sp[c], old)
        /\ Done(c)
  /\ Fence(c)
  /\ UNCHANGED << owner, local, remote, live, pool, fresh, coreVars, broken >>

Deleting(c, s) == sp[c] = s /\ pc[c] \in {"free_unlink", "free_delete"}

(* The free that deletes the span that c marked has reached the span pool:  *)
(* the span's first word now links it in the pool, or in another life.      *)
DeletedSince(c) ==
  LET now == epoch[sp[c]] IN
  /\ now # Marked(ep[c], "reuse")
  /\ ~ \E d \in Cores : Deleting(d, sp[c]) /\ now.value = ep[c].value + 2

(* Deque::PushFront on the list of the owner, unless it has been closed *)
FreeLink(c) ==
  LET s == sp[c]
      list == ow[c].core IN
  /\ pc[c] = "free_link"
  /\ IF ~ListAccepts(c)
       THEN Done(c) /\ UNCHANGED << rspans, broken >>
       ELSE IF DeletedSince(c)
         THEN /\ broken' = "deleted span linked"
              /\ UNCHANGED << rspans, opVars >>
         ELSE /\ rspans' = [rspans EXCEPT ![list] = Cons(s, @)]
              /\ Done(c)
              /\ UNCHANGED broken
  /\ Fence(c)
  /\ UNCHANGED << epoch, owner, local, remote, live, pool, fresh, id, hot,
                  opened, threads >>

-----------------------------------------------------------------------------
(* ThreadDestructor and Core::Destroy *)

(* Deque::Close *)
DestroyClose(c) ==
  /\ pc[c] = "idle"
  /\ opened' = [opened EXCEPT ![c] = kTerminated]
  /\ op' = [op EXCEPT ![c] = "exit"]
  /\ Goto(c, IF hot[c] # NoSpan THEN "float_load" ELSE "drain")
  /\ UNCHANGED << spanVars, id, hot, rspans, threads, sp, ep, ow, cnt, broken >>

(* One iteration of Deque::RemoveAll *)
DestroyRemove(c) ==
  /\ pc[c] = "drain"
  /\ IF rspans[c] = << >>
       THEN Goto(c, "terminate") /\ UNCHANGED rspans
       ELSE rspans' = [rspans EXCEPT ![c] = Tail(@)] /\ UNCHANGED pc
  /\ Fence(c)
  /\ UNCHANGED << epoch, owner, local, remote, live, pool, fresh, id, hot,
                  opened, threads, op, sp, ep, ow, cnt, broken >>

DestroyEnd(c) ==
  /\ pc[c] = "terminate"
  /\ id' = [id EXCEPT ![c] = kTerminated]
  /\ op' = [op EXCEPT ![c] = "none"]
  /\ Goto(c, "dead")
  /\ UNCHANGED << spanVars, hot, rspans, opened, threads, sp, ep, ow, cnt, broken >>

-----------------------------------------------------------------------------

Malloc(c) ==
  \/ MallocNoSpan(c) \/ MallocFast(c) \/ MallocSlow(c) \/ MallocRefill(c)
  \/ MallocLast(c) \/ MallocNull(c) \/ FloatLoad(c) \/ FloatStore(c)
  \/ GetRemove(c) \/ GetEpoch(c) \/ GetHot(c) \/ GetMove(c) \/ GetNew(c)

Free(c) ==
  \/ \E s \in Spans : FreeStart(c, s)
  \/ FreeOwner(c) \/ FreePush(c) \/ FreeCount(c) \/ FreeAlive(c)
  \/ FreeRevive(c) \/ FreeUnmark(c) \/ FreeNothing(c) \/ FreeFull(c)
  \/ FreeUnlink(c) \/ FreeDelete(c) \/ FreeReuse(c) \/ FreeLink(c)

Thread(c) ==
  \/ GetMeALAB(c) \/ DestroyClose(c) \/ DestroyRemove(c) \/ DestroyEnd(c)

Next ==
  /\ broken = "nothing"
  /\ \E c \in Cores : Malloc(c) \/ Free(c) \/ Thread(c) \/ Drain(c)

Spec == Init /\ [][Next]_vars

-----------------------------------------------------------------------------

Marks == {"none", "hot", "full", "reuse"}
Epochs == [mark : Marks, value : 0 .. MaxEpoch]
CoreIds == [core : Cores, tag : 1 .. MaxThreads] \cup {kTerminated}
Labels ==
  {"dead", "idle", "alloc", "alloc_last", "refill", "float_load", "float_store",
   "get_remove", "get_epoch", "get_hot", "get_move", "get_new",
   "free_owner", "free_push", "free_count", "free_alive", "free_revive",
   "free_unmark", "free_mark", "free_unlink", "free_delete", "free_link",
   "drain", "terminate"}

TypeOK ==
  /\ epoch \in [Spans -> Epochs]
  /\ owner \in [Spans -> CoreIds]
  /\ local \in [Spans -> 0 .. K]
  /\ visible \in [Spans -> 0 .. K]
  /\ remote \in [Spans -> 0 .. K]
  /\ live \in [Spans -> 0 .. K]
  /\ pool \in SUBSET Spans
  /\ fresh \in SUBSET Spans
  /\ id \in [Cores -> CoreIds]
  /\ hot \in [Cores -> Spans \cup {NoSpan}]
  /\ rspans \in [Cores -> Seq(Spans)]
  /\ opened \in [Cores -> CoreIds]
  /\ threads \in 0 .. MaxThreads
  /\ pc \in [Cores -> Labels]
  /\ op \in [Cores -> {"none", "malloc", "last", "free", "exit"}]
  /\ sp \in [Cores -> Spans \cup {NoSpan}]
  /\ ep \in [Cores -> Epochs]
  /\ ow \in [Cores -> CoreIds]
  /\ cnt \in [Cores -> 0 .. 2 * K]
  /\ broken \in {"nothing", "foreign hot span", "linked span deleted",
                 "deleted span linked"}

(* Frees that have taken an object of s from the program and not yet put   *)
(* it into a free list.                                                    *)
InFlight(s) ==
  Cardinality({c \in Cores : sp[c] = s /\ pc[c] \in {"free_owner", "free_push"}})

(* No object of a span is lost, and none exists twice: each is in one of   *)
(* the two free lists, with the program, or on its way into a free list.   *)
(* In particular a span is built anew from the pool only when the program  *)
(* holds nothing of it.                                                    *)
ObjectsConserved ==
  \A s \in Spans \ fresh : local[s] + remote[s] + live[s] + InFlight(s) = K

(* The hot span of a core is its alone: the core owns it, nobody else      *)
(* allocates from it, and neither a list nor the pool offers it to others. *)
HotIsExclusive ==
  \A c \in Cores : hot[c] # NoSpan =>
    /\ owner[hot[c]] = id[c]
    /\ hot[c] \notin pool
    /\ ~Linked(hot[c])
    /\ \A d \in Cores \ {c} : hot[d] # hot[c]

(* One free at most deletes a span, and a span in the pool stays out of    *)
(* all lists and is no longer being deleted.                               *)
DeletedOnce ==
  /\ \A c, d \in Cores, s \in Spans : Deleting(c, s) /\ Deleting(d, s) => c = d
  /\ \A s \in pool : /\ ~Linked(s)
                     /\ IsFull(epoch[s])
                     /\ \A c \in Cores : ~Deleting(c, s)

(* Deque::Remove and PushFront of a span lock the list of the span's owner *)
(* (core.h:196, 211): a span is in that list or in none, and once.         *)
ListedByOwner ==
  \A c \in Cores : \A i \in DOMAIN rspans[c] :
    /\ owner[rspans[c][i]] = id[c]
    /\ \A j \in DOMAIN rspans[c] : rspans[c][i] = rspans[c][j] => i = j

(* span.h:242: "There's no race in this one as we always go through the    *)
(* hot state which is already exclusive."  Nothing changes the epoch       *)
(* between the load and the store of NewMarkFloating.                      *)
FloatHasNoRace ==
  \A c \in Cores : pc[c] = "float_store" => epoch[hot[c]] = ep[c]

(* span.h:115: the epoch survives a span's way through the pool.  An epoch *)
(* that a span has left never comes back, so a compare-and-swap with an    *)
(* old epoch fails.                                                        *)
EpochRank(e) == 2 * e.value + (IF e.mark = "none" THEN 1 ELSE 0)

EpochAdvances ==
  [][\A s \in Spans : epoch'[s] # epoch[s] => EpochRank(epoch'[s]) > EpochRank(epoch[s])]_vars

(* core.h:193: the free that marks a span full deletes it, whatever other  *)
(* frees, owners and ending threads do: once nobody is inside malloc or    *)
(* free, a full span is in the pool, or came from there and is hot.        *)
FullIsDeleted ==
  (\A c \in Cores : pc[c] \in {"idle", "dead"}) =>
    \A s \in Spans : IsFull(epoch[s]) => s \in pool \/ \E c \in Cores : hot[c] = s

-----------------------------------------------------------------------------
(* What comments and assertions of the code say, and the code does not do. *)

(* core.h:112: ScallocAssert(newspan->owner() == id()) *)
GetSpanOwnsSpan == broken # "foreign hot span"

(* span.h:109: a list of a core links a span by the word that the pool     *)
(* links it by, so the two never hold a span at the same time; span.h:154  *)
(* asserts that a span is in no list when it is deleted.                   *)
FirstWordHasOneUse ==
  broken \notin {"linked span deleted", "deleted span linked"}

(* glue.h:35: malloc returns nullptr only if the request cannot be served, *)
(* and then errno is set.                                                  *)
MallocServes == \A c \in Cores : pc[c] = "alloc_last" => local[hot[c]] > 0
=============================================================================
