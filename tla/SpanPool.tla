------------------------------ MODULE SpanPool -------------------------------
(***************************************************************************)
(* src/span_pool.h: the global pool of free spans, one stack per slot of   *)
(* size classes and backend.  The number of backends in use, limit_, grows *)
(* with the threads that announce themselves and is read again and again   *)
(* by scans that are under way; it may grow between the computation of an  *)
(* index and its use, too.                                                 *)
(*                                                                         *)
(* A backend is an atomic stack (TreiberStack); which of its spans a pop   *)
(* returns is left open.  The first thread has announced itself from       *)
(* ScallocInit before there is a second one.                               *)
(***************************************************************************)
EXTENDS Naturals, FiniteSets

CONSTANTS
  Threads,
  First,        \* the thread that runs ScallocInit
  Spans,
  Cpus,         \* CpusOnline()
  HardLimit,    \* kHardLimit
  FineClasses,  \* kFineClasses
  Slots,        \* kSizeClassSlots
  Users,        \* bound: the threads that allocate
  MaxTag        \* bound: the number of threads ever started

ASSUME ConstantsAssumption ==
  /\ First \in Threads /\ IsFiniteSet(Threads)
  /\ Cpus \in Nat \ {0} /\ HardLimit \in Nat \ {0}
  /\ FineClasses \in Nat \ {0} /\ Slots \in Nat \ {0}
  /\ MaxTag \in Nat

VARIABLES
  current,  \* current_threads_
  limit,    \* limit_
  pooled,   \* spans_: the spans of every slot and backend
  fresh,    \* spans of the arena that were never used
  class,    \* the size class of the spans in use, 0 for all others
  tags,     \* thread_ids_
  tag,      \* the tag of each thread's core
  pc,
  want,     \* new_limit, or the size class that is asked for
  seen,     \* old_limit
  step,     \* _i and _j, the loop counters of a scan
  start,    \* start, its random first backend
  at,       \* the backend whose stack is used next
  given,    \* the span that is being freed
  peak,     \* history: the largest value of current_threads_
  stayed    \* history: spans that have been in the pool since the scan began

vars == << current, limit, pooled, fresh, class, tags, tag, pc, want, seen,
           step, start, at, given, peak, stayed >>

Classes == 1 .. FineClasses + Slots - 1
Backends == 0 .. Cpus - 1

InPool == UNION { pooled[i][b] : i \in 0 .. Slots - 1, b \in Backends }

Init ==
  /\ current = 1 /\ limit = 1 /\ peak = 1 /\ tags = 1
  /\ pooled = [i \in 0 .. Slots - 1 |-> [b \in Backends |-> {}]]
  /\ fresh = Spans
  /\ class = [s \in Spans |-> 0]
  /\ tag = [t \in Threads |-> IF t = First THEN 1 ELSE 0]
  /\ pc = [t \in Threads |-> IF t = First THEN "ready" ELSE "new"]
  /\ want = [t \in Threads |-> 0]
  /\ seen = [t \in Threads |-> 0]
  /\ step = [t \in Threads |-> << 0, 0 >>]
  /\ start = [t \in Threads |-> 0]
  /\ at = [t \in Threads |-> 0]
  /\ given = [t \in Threads |-> {}]
  /\ stayed = [t \in Threads |-> {}]

Goto(t, label) == pc' = [pc EXCEPT ![t] = label]

(* The locals of a call die with it. *)
Done(t) ==
  /\ Goto(t, "ready")
  /\ want' = [want EXCEPT ![t] = 0]
  /\ seen' = [seen EXCEPT ![t] = 0]
  /\ step' = [step EXCEPT ![t] = << 0, 0 >>]
  /\ start' = [start EXCEPT ![t] = 0]
  /\ at' = [at EXCEPT ![t] = 0]
  /\ given' = [given EXCEPT ![t] = {}]

poolVars == << pooled, fresh, class >>
scanVars == << step, start, at, given >>

-----------------------------------------------------------------------------
(* AnnounceNewThread, AnnounceLeavingThread *)

Announce(t) ==
  /\ pc[t] = "new"
  /\ tags < MaxTag
  /\ tags' = tags + 1
  /\ tag' = [tag EXCEPT ![t] = tags + 1]
  /\ current' = current + 1
  /\ peak' = IF current + 1 > peak THEN current + 1 ELSE peak
  /\ IF current + 1 > Cpus \/ current + 1 > HardLimit
       THEN Goto(t, "ready") /\ UNCHANGED want
       ELSE Goto(t, "raise") /\ want' = [want EXCEPT ![t] = current + 1]
  /\ UNCHANGED << limit, poolVars, seen, scanVars, stayed >>

(* Mutant of Enough: every thread raises the limit. *)
EnoughNever(t) == FALSE

Enough(t) == want[t] <= limit

AnnounceLoad(t) ==
  /\ pc[t] = "raise"
  /\ IF Enough(t)
       THEN Done(t)
       ELSE /\ seen' = [seen EXCEPT ![t] = limit]
            /\ Goto(t, "raise_swap")
            /\ UNCHANGED << want, scanVars >>
  /\ UNCHANGED << current, limit, poolVars, tags, tag, peak, stayed >>

AnnounceSwap(t) ==
  /\ pc[t] = "raise_swap"
  /\ limit = seen[t]
  /\ limit' = seen[t] + 1
  /\ Done(t)
  /\ UNCHANGED << current, poolVars, tags, tag, peak, stayed >>

(* compare_exchange_weak may also fail for no reason. *)
AnnounceRetry(t) ==
  /\ pc[t] = "raise_swap"
  /\ Goto(t, "raise")
  /\ seen' = [seen EXCEPT ![t] = 0]
  /\ UNCHANGED << current, limit, poolVars, tags, tag, want, scanVars, peak, stayed >>

(* Mutant of Leave: the thread is taken off twice. *)
LeaveTwice(t) ==
  /\ pc[t] = "ready"
  /\ current' = current - 2
  /\ Goto(t, "new")
  /\ tag' = [tag EXCEPT ![t] = 0]
  /\ UNCHANGED << limit, poolVars, tags, want, seen, scanVars, peak, stayed >>

Leave(t) ==
  /\ pc[t] = "ready"
  /\ current' = current - 1
  /\ Goto(t, "new")
  /\ tag' = [tag EXCEPT ![t] = 0]
  /\ UNCHANGED << limit, poolVars, tags, want, seen, scanVars, peak, stayed >>

-----------------------------------------------------------------------------
(* Allocate *)

(* Mutant of Home: all backends are used, also those above the limit. *)
HomeOfAll(id) == id % Cpus

(* The backend of a thread's own spans *)
Home(id) == id % limit

Slot(sc) == IF sc <= FineClasses THEN 0 ELSE sc - FineClasses

Allocate(t, sc) ==
  /\ pc[t] = "ready"
  /\ want' = [want EXCEPT ![t] = sc]
  /\ at' = [at EXCEPT ![t] = Home(tag[t])]
  /\ Goto(t, "own")
  /\ UNCHANGED << current, limit, poolVars, tags, tag, seen, step, start, given,
                  peak, stayed >>

(* Stack::Pop of a backend that is not empty ends the call. *)
Pop(t, i) ==
  /\ \E s \in pooled[i][at[t]] :
       /\ pooled' = [pooled EXCEPT ![i][at[t]] = @ \ {s}]
       /\ class' = [class EXCEPT ![s] = want[t]]
       /\ stayed' = [u \in Threads |-> IF u = t THEN {} ELSE stayed[u] \ {s}]
  /\ Done(t)
  /\ UNCHANGED << current, limit, fresh, tags, tag, peak >>

PopOwn(t) ==
  /\ pc[t] = "own"
  /\ \/ Pop(t, Slot(want[t]))
     \/ /\ pooled[Slot(want[t])][at[t]] = {}
        /\ stayed' = [stayed EXCEPT ![t] = InPool]
        /\ Goto(t, "slot")
        /\ UNCHANGED << current, limit, poolVars, tags, tag, want, seen, scanVars, peak >>

(* Mutant of MoreSlots: the last slot is left out. *)
MoreSlotsButOne(t) == step[t][1] < Slots - 1

MoreSlots(t) == step[t][1] < Slots

ScanSlot(t) ==
  /\ pc[t] = "slot"
  /\ MoreSlots(t)
  /\ \E r \in 0 .. limit - 1 : start' = [start EXCEPT ![t] = r]
  /\ Goto(t, "backend")
  /\ UNCHANGED << current, limit, poolVars, tags, tag, want, seen, step, at, given,
                  peak, stayed >>

(* Slots are visited downwards from the one of the size class, and around. *)
SlotAt(t) ==
  LET slot == Slot(want[t]) IN
  IF step[t][1] <= slot THEN slot - step[t][1] ELSE slot + Slots - step[t][1]

(* The loop reads limit_ twice, for its condition and for the index.  If    *)
(* the limit grows in between, the condition holds all the more.            *)
ScanBackend(t) ==
  /\ pc[t] = "backend"
  /\ step[t][2] < limit
  /\ at' = [at EXCEPT ![t] = (start[t] + step[t][2]) % limit]
  /\ Goto(t, "pop")
  /\ UNCHANGED << current, limit, poolVars, tags, tag, want, seen, step, start, given,
                  peak, stayed >>

ScanPop(t) ==
  /\ pc[t] = "pop"
  /\ \/ Pop(t, SlotAt(t))
     \/ /\ pooled[SlotAt(t)][at[t]] = {}
        /\ step' = [step EXCEPT ![t] = << @[1], @[2] + 1 >>]
        /\ Goto(t, "backend")
        /\ UNCHANGED << current, limit, poolVars, tags, tag, want, seen, start, at, given,
                        peak, stayed >>

ScanNext(t) ==
  /\ pc[t] = "backend"
  /\ step[t][2] >= limit
  /\ step' = [step EXCEPT ![t] = << @[1] + 1, 0 >>]
  /\ start' = [start EXCEPT ![t] = 0]
  /\ Goto(t, "slot")
  /\ UNCHANGED << current, limit, poolVars, tags, tag, want, seen, at, given, peak,
                  stayed >>

(* Arena::AllocateVirtualSpan *)
AllocateFresh(t) ==
  /\ pc[t] = "slot"
  /\ ~MoreSlots(t)
  /\ \E s \in fresh :
       /\ fresh' = fresh \ {s}
       /\ class' = [class EXCEPT ![s] = want[t]]
  /\ stayed' = [stayed EXCEPT ![t] = {}]
  /\ Done(t)
  /\ UNCHANGED << current, limit, pooled, tags, tag, peak >>

(* Free, for a span of any thread that ever was: the index, ... *)
Free(t, s, id) ==
  /\ pc[t] = "ready"
  /\ class[s] # 0
  /\ want' = [want EXCEPT ![t] = class[s]]
  /\ at' = [at EXCEPT ![t] = Home(id)]
  /\ given' = [given EXCEPT ![t] = {s}]
  /\ class' = [class EXCEPT ![s] = 0]
  /\ Goto(t, "push")
  /\ UNCHANGED << current, limit, pooled, fresh, tags, tag, seen, step, start, peak,
                  stayed >>

(* ... then Stack::Push. *)
FreePush(t) ==
  /\ pc[t] = "push"
  /\ pooled' = [pooled EXCEPT ![Slot(want[t])][at[t]] = @ \cup given[t]]
  /\ Done(t)
  /\ UNCHANGED << current, limit, fresh, class, tags, tag, peak, stayed >>

-----------------------------------------------------------------------------

Next ==
  \E t \in Threads :
    \/ Announce(t) \/ AnnounceLoad(t) \/ AnnounceSwap(t) \/ AnnounceRetry(t)
    \/ Leave(t)
    \/ t \in Users /\ \E sc \in Classes : Allocate(t, sc)
    \/ PopOwn(t)
    \/ ScanSlot(t) \/ ScanBackend(t) \/ ScanPop(t) \/ ScanNext(t) \/ AllocateFresh(t)
    \/ \E s \in Spans, id \in 1 .. tags : Free(t, s, id)
    \/ FreePush(t)

Spec == Init /\ [][Next]_vars

-----------------------------------------------------------------------------

TypeOK ==
  /\ current \in 0 .. Cardinality(Threads)
  /\ peak \in 1 .. Cardinality(Threads)
  /\ limit \in Nat /\ tags \in Nat
  /\ pooled \in [0 .. Slots - 1 -> [Backends -> SUBSET Spans]]
  /\ fresh \in SUBSET Spans
  /\ class \in [Spans -> Classes \cup {0}]
  /\ tag \in [Threads -> Nat]
  /\ pc \in [Threads -> {"new", "raise", "raise_swap", "ready", "own", "slot",
                         "backend", "pop", "push"}]
  /\ want \in [Threads -> Nat]
  /\ seen \in [Threads -> Nat]
  /\ step \in [Threads -> Nat \X Nat]
  /\ start \in [Threads -> Nat]
  /\ at \in [Threads -> Nat]
  /\ given \in [Threads -> SUBSET Spans]
  /\ stayed \in [Threads -> SUBSET Spans]

(* A backend index is taken modulo limit_ and used on an array of          *)
(* CpusOnline() stacks: the limit is never 0 (the assertion in Allocate    *)
(* and Free) and never exceeds the array, however announcements and        *)
(* departures of threads interleave.  It never exceeds the number of       *)
(* threads that were once announced together either.                       *)
LimitInRange ==
  /\ 1 <= limit /\ limit <= Cpus /\ limit <= HardLimit
  /\ limit <= peak

(* Every span of the pool is in a backend below the limit, where scans     *)
(* look, also when the limit was raised after the span was put there, or   *)
(* after Free had computed where.                                          *)
PooledInReach ==
  \A i \in 0 .. Slots - 1, b \in Backends : pooled[i][b] # {} => b < limit

(* Memory is reused before more is taken from the arena: Allocate goes to  *)
(* the arena only if no span stayed in the pool during its whole scan,     *)
(* also if the limit, modulo which the scan counts, grew under way.        *)
PoolBeforeArena ==
  \A t \in Threads : pc[t] = "slot" /\ ~MoreSlots(t) => stayed[t] = {}
=============================================================================
