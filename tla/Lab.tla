--------------------------------- MODULE Lab ---------------------------------
(***************************************************************************)
(* How threads get their cores and give them back: src/lab.h, the start-up *)
(* guard of src/glue.cc, the arena of cores (src/arena.h) and the wrapper  *)
(* of pthread_create (src/platform/pthread_intercept.cc).                  *)
(*                                                                         *)
(* One action is one access to shared memory.  The stack of free cores is  *)
(* what TreiberStack shows it to be.  What a call does with its core is    *)
(* the matter of the other modules; here it only needs to have one.        *)
(***************************************************************************)
EXTENDS Integers, Sequences, FiniteSets, SequencesExt, FiniteSetsExt

CONSTANTS
  Threads,
  Main,         \* the thread that runs the constructors and main()
  TagSize,      \* the number of tags of a core_id, 2^16 in the code
  CoreSize,     \* sizeof(Core)
  LabSpace,     \* kLABSpaceSize
  EarlyCalls,   \* TRUE: constructors call other functions than malloc first
  LateCalls,    \* TRUE: destructors of other keys free memory afterwards
  MaxLost       \* bound: failed calls of pthread_create

ASSUME ThreadsAssumption == Main \in Threads /\ IsFiniteSet(Threads)
ASSUME NumbersAssumption ==
  /\ TagSize \in Nat /\ TagSize > 1
  /\ CoreSize \in Nat \ {0} /\ LabSpace \in Nat /\ MaxLost \in Nat
ASSUME ProgramAssumption == EarlyCalls \in BOOLEAN /\ LateCalls \in BOOLEAN

VARIABLES
  (* shared *)
  refcount,         \* ScallocGuardRefcount
  guarded,          \* the constructor of StartupExitHook has run
  current,          \* current_ of core_space, from its start
  free_abs,         \* free_abs_, top first
  thread_ids,       \* thread_ids_
  id,               \* id_ of every core
  current_threads,  \* current_threads_ of the span pool
  args,             \* the threads whose ScallocStartArgs exist
  lost,             \* ScallocStartArgs that no thread will delete
  failed,           \* Fatal
  (* of a thread *)
  pc,
  core,             \* the local ab of GetMeALAB
  ab,               \* the thread-local ab_
  (* history *)
  inits,            \* how often ScallocInit was called
  issued,           \* the identities given out
  peak              \* the most threads at a time that had or sought a core

shared == << refcount, guarded, current, free_abs, thread_ids, id,
             current_threads, args, lost, failed >>
vars == << shared, pc, core, ab, inits, issued, peak >>

NULL == -1
CoreId(c, tag) == [core |-> c, tag |-> tag]
kTerminated == CoreId(NULL, 0)

(* Places in core_space, the last ones of which are beyond its end *)
Places == { i * CoreSize : i \in 0 .. Cardinality(Threads) }

Init ==
  /\ refcount = 0
  /\ guarded = FALSE
  /\ current = 0
  /\ free_abs = << >>
  /\ thread_ids = 0
  /\ id = [c \in Places |-> kTerminated]
  /\ current_threads = 0
  /\ args = {}
  /\ lost = 0
  /\ failed = FALSE
  /\ pc = [t \in Threads |-> IF t = Main THEN "run" ELSE "unborn"]
  /\ core = [t \in Threads |-> NULL]
  /\ ab = [t \in Threads |-> NULL]
  /\ inits = 0
  /\ issued = << >>
  /\ peak = 0

Goto(t, label) == pc' = [pc EXCEPT ![t] = label]

(* The threads that have a core, or have found that none is free *)
Holding ==
  { t \in Threads :
      \/ pc[t] \in {"alloc", "init", "announce", "atexit", "delete", "destroy",
                    "leave", "push"}
      \/ pc[t] = "run" /\ ab[t] # NULL }

Seek(t) == peak' = Max({peak, Cardinality(Holding \cup {t})})

-----------------------------------------------------------------------------
(* Start-up.  All of it is the work of the first thread.                    *)

(* ScallocInit up to GetMeALAB; the arenas and the pool start anew. *)
ScallocInit(t) ==
  /\ inits' = inits + 1
  /\ current' = 0
  /\ current_threads' = 0
  /\ Goto(t, "find")

(* Mutant of mallocFirst: the guard is not told. *)
mallocFirstUncounted(t) ==
  /\ pc[t] = "run" /\ refcount = 0
  /\ ScallocInit(t)
  /\ UNCHANGED << refcount, guarded, free_abs, thread_ids, id, args, lost, failed,
                  core, ab, issued, peak >>

(* scalloc_malloc in a constructor that comes before the guard's *)
mallocFirst(t) ==
  /\ pc[t] = "run" /\ refcount = 0
  /\ refcount' = refcount + 1
  /\ ScallocInit(t)
  /\ UNCHANGED << guarded, free_abs, thread_ids, id, args, lost, failed,
                  core, ab, issued, peak >>

ScallocGuard(t) ==
  /\ t = Main /\ pc[t] = "run" /\ ~guarded
  /\ guarded' = TRUE
  /\ refcount' = refcount + 1
  /\ IF refcount = 0
       THEN ScallocInit(t)
       ELSE UNCHANGED << inits, current, current_threads, pc >>
  /\ UNCHANGED << free_abs, thread_ids, id, args, lost, failed, core, ab,
                  issued, peak >>

(* atexit, which may allocate, ends ScallocInit. *)
AtExit(t) ==
  /\ pc[t] = "atexit"
  /\ Goto(t, "run")
  /\ UNCHANGED << shared, core, ab, inits, issued, peak >>

-----------------------------------------------------------------------------
(* GetMeALAB *)

(* Mutant of FindFreeAB: the stack of free cores is not looked at. *)
FindFreeABNever(t) ==
  /\ pc[t] = "find"
  /\ Goto(t, "alloc")
  /\ Seek(t)
  /\ UNCHANGED << shared, core, ab, inits, issued >>

FindFreeAB(t) ==
  /\ pc[t] = "find"
  /\ IF ab[t] # NULL
       THEN Goto(t, "atexit") /\ UNCHANGED << core, free_abs >>
       ELSE IF free_abs # << >>
         THEN /\ core' = [core EXCEPT ![t] = Head(free_abs)]
              /\ free_abs' = Tail(free_abs)
              /\ Goto(t, "init")
         ELSE Goto(t, "alloc") /\ UNCHANGED << core, free_abs >>
  /\ Seek(t)
  /\ UNCHANGED << refcount, guarded, current, thread_ids, id, current_threads,
                  args, lost, failed, ab, inits, issued >>

OutOfMemory(obj) == obj + CoreSize >= LabSpace

(* core_space.Allocate *)
AllocateCore(t) ==
  /\ pc[t] = "alloc"
  /\ current' = current + CoreSize
  /\ IF OutOfMemory(current)
       THEN failed' = TRUE /\ UNCHANGED << core, pc >>
       ELSE core' = [core EXCEPT ![t] = current] /\ Goto(t, "init") /\ UNCHANGED failed
  /\ UNCHANGED << refcount, guarded, free_abs, thread_ids, id, current_threads,
                  args, lost, ab, inits, issued, peak >>

(* Mutant of NewTag: the counter stays where it is. *)
NewTagStuck(n) == 1

(* Mutant of NewTag: the counter is not truncated. *)
NewTagWide(n) == n + 1

NewTag(n) == (n + 1) % TagSize

(* Core::Init and SetTLS *)
InitCore(t) ==
  LET i == CoreId(core[t], NewTag(thread_ids)) IN
  /\ pc[t] = "init"
  /\ thread_ids' = thread_ids + 1
  /\ id' = [id EXCEPT ![core[t]] = i]
  /\ issued' = Append(issued, i)
  /\ ab' = [ab EXCEPT ![t] = core[t]]
  /\ Goto(t, "announce")
  /\ UNCHANGED << refcount, guarded, current, free_abs, current_threads, args,
                  lost, failed, core, inits, peak >>

AnnounceNewThread(t) ==
  /\ pc[t] = "announce"
  /\ current_threads' = current_threads + 1
  /\ core' = [core EXCEPT ![t] = NULL]
  /\ Goto(t, IF t = Main THEN "atexit" ELSE "delete")
  /\ UNCHANGED << refcount, guarded, current, free_abs, thread_ids, id, args,
                  lost, failed, ab, inits, issued, peak >>

-----------------------------------------------------------------------------
(* Threads *)

(* Mutant of pthread_create: the thread starts without the wrapper. *)
pthread_create_plain(t, u) ==
  /\ pc[t] = "run" /\ refcount > 0
  /\ pc[u] = "unborn"
  /\ Goto(u, "run")
  /\ UNCHANGED << shared, core, ab, inits, issued, peak >>

(* The wrapper allocates the arguments, so the allocator is up. *)
pthread_create(t, u) ==
  /\ pc[t] = "run" /\ refcount > 0
  /\ pc[u] = "unborn"
  /\ args' = args \cup {u}
  /\ Goto(u, "find")
  /\ UNCHANGED << refcount, guarded, current, free_abs, thread_ids, id,
                  current_threads, lost, failed, core, ab, inits, issued, peak >>

(* Nobody deletes the arguments when the system has no thread to give. *)
pthread_createFails(t) ==
  /\ pc[t] = "run" /\ refcount > 0
  /\ lost < MaxLost
  /\ lost' = lost + 1
  /\ UNCHANGED << refcount, guarded, current, free_abs, thread_ids, id,
                  current_threads, args, failed, pc, core, ab, inits, issued, peak >>

(* Mutant of scalloc_thread_start: the arguments are only copied. *)
scalloc_thread_start_keeps(t) ==
  /\ pc[t] = "delete"
  /\ Goto(t, "run")
  /\ UNCHANGED << shared, core, ab, inits, issued, peak >>

(* After GetMeALAB it deletes the arguments, with the core of this thread. *)
scalloc_thread_start(t) ==
  /\ pc[t] = "delete"
  /\ args' = args \ {t}
  /\ Goto(t, "run")
  /\ UNCHANGED << refcount, guarded, current, free_abs, thread_ids, id,
                  current_threads, lost, failed, core, ab, inits, issued, peak >>

(* The thread ends; its keys have destructors if it has a core. *)
Exit(t) ==
  /\ pc[t] = "run"
  /\ t = Main => guarded
  /\ Goto(t, IF ab[t] = NULL THEN "late" ELSE "destroy")
  /\ UNCHANGED << shared, core, ab, inits, issued, peak >>

(* Mutant of Destroy: the pool is not told. *)
DestroyUnannounced(t) ==
  /\ pc[t] = "destroy"
  /\ id' = [id EXCEPT ![ab[t]] = kTerminated]
  /\ Goto(t, "push")
  /\ UNCHANGED << refcount, guarded, current, free_abs, thread_ids,
                  current_threads, args, lost, failed, core, ab, inits, issued, peak >>

(* Core::Destroy, which SpanProtocol has in detail; its last store *)
Destroy(t) ==
  /\ pc[t] = "destroy"
  /\ id' = [id EXCEPT ![ab[t]] = kTerminated]
  /\ Goto(t, "leave")
  /\ UNCHANGED << refcount, guarded, current, free_abs, thread_ids,
                  current_threads, args, lost, failed, core, ab, inits, issued, peak >>

AnnounceLeavingThread(t) ==
  /\ pc[t] = "leave"
  /\ current_threads' = current_threads - 1
  /\ Goto(t, "push")
  /\ UNCHANGED << refcount, guarded, current, free_abs, thread_ids, id, args,
                  lost, failed, core, ab, inits, issued, peak >>

PushCore(t) ==
  /\ pc[t] = "push"
  /\ free_abs' = Cons(ab[t], free_abs)
  /\ Goto(t, "clear")
  /\ UNCHANGED << refcount, guarded, current, thread_ids, id, current_threads,
                  args, lost, failed, core, ab, inits, issued, peak >>

(* TLSBaseDestructor forgets the core when it is another thread's already. *)
ClearTLS(t) ==
  /\ pc[t] = "clear"
  /\ ab' = [ab EXCEPT ![t] = NULL]
  /\ Goto(t, "late")
  /\ UNCHANGED << shared, core, inits, issued, peak >>

End(t) ==
  /\ pc[t] = "late"
  /\ Goto(t, "dead")
  /\ UNCHANGED << shared, core, ab, inits, issued, peak >>

-----------------------------------------------------------------------------

(* What a thread does once it is inside one of these *)
Step(t) ==
  /\ ~failed
  /\ \/ AtExit(t)
     \/ FindFreeAB(t) \/ AllocateCore(t) \/ InitCore(t) \/ AnnounceNewThread(t)
     \/ scalloc_thread_start(t)
     \/ Destroy(t) \/ AnnounceLeavingThread(t) \/ PushCore(t) \/ ClearTLS(t)
     \/ End(t)

(* What the program chooses to do *)
Choose(t) ==
  /\ ~failed
  /\ \/ mallocFirst(t) \/ ScallocGuard(t) \/ Exit(t)
     \/ pthread_createFails(t) \/ \E u \in Threads : pthread_create(t, u)

Next == \E t \in Threads : Step(t) \/ Choose(t)

Spec == Init /\ [][Next]_vars /\ \A t \in Threads : WF_vars(Step(t))

-----------------------------------------------------------------------------

Labels == {"unborn", "find", "alloc", "init", "announce", "atexit", "delete",
           "run", "destroy", "leave", "push", "clear", "late", "dead"}
Ids == [core : Places, tag : 0 .. TagSize - 1]

TypeOK ==
  /\ refcount \in 0 .. 2 /\ guarded \in BOOLEAN
  /\ current \in Places \cup {Max(Places) + CoreSize}
  /\ \A i \in DOMAIN free_abs : free_abs[i] \in Places
  /\ thread_ids \in 0 .. Cardinality(Threads)
  /\ id \in [Places -> Ids \cup {kTerminated}]
  /\ current_threads \in 0 .. Cardinality(Threads)
  /\ args \subseteq Threads /\ lost \in 0 .. MaxLost /\ failed \in BOOLEAN
  /\ pc \in [Threads -> Labels]
  /\ core \in [Threads -> Places \cup {NULL}]
  /\ ab \in [Threads -> Places \cup {NULL}]
  /\ inits \in Nat /\ peak \in Nat
  /\ \A i \in DOMAIN issued : issued[i] \in Ids

(* The threads that drive a core, from Core::Init to the end of            *)
(* Core::Destroy                                                           *)
Driving ==
  { t \in Threads :
      /\ pc[t] \in {"announce", "atexit", "delete", "run", "destroy"}
      /\ ab[t] # NULL }

(* The identity under which each thread drives a core *)
Leases == [t \in Threads |-> IF t \in Driving THEN id[ab[t]] ELSE kTerminated]

Lease == INSTANCE CoreLease WITH lease <- Leases, NoLease <- kTerminated

(* Cores are leased, although a thread gives its core back before it       *)
(* forgets the address, takes one in several steps and shares the counter  *)
(* of identities with all others.                                          *)
LeasesCores == Lease!Spec

(* Where the program, or the allocator itself, allocates or frees *)
Uses(t) ==
  \/ pc[t] \in {"atexit", "delete"}
  \/ pc[t] = "run" /\ (EarlyCalls \/ refcount > 0)
  \/ pc[t] = "late" /\ LateCalls

(* lab.h:148 and core.h:170 assert that a call finds a core, which is not  *)
(* terminated, from the constructors on, in the first free of a thread and *)
(* in what start-up itself allocates; and no other call finds that core.   *)
HasBuffer ==
  \A t \in Threads : Uses(t) =>
    /\ ab[t] # NULL
    /\ id[ab[t]].core = ab[t]
    /\ \A u \in Threads \ {t} : Uses(u) => ab[u] # ab[t]

(* Whether malloc or the guard comes first, the allocator is initialised   *)
(* once, before any other thread: a second time would forget all cores,    *)
(* spans and threads.                                                      *)
InitOnce ==
  /\ inits <= 1
  /\ inits = 0 => \A t \in Threads \ {Main} : pc[t] = "unborn"

(* The arena of cores is used for as many cores as there ever were threads *)
(* at the same time, however many threads come and go, and within bounds.  *)
(* Only a program with more threads at a time ends with Fatal.             *)
CoresReused ==
  /\ current <= peak * CoreSize
  /\ failed => peak * CoreSize >= LabSpace
  /\ \A t \in Threads : ab[t] # NULL => ab[t] + CoreSize < LabSpace

(* span_pool.h counts the threads that have been announced and have not    *)
(* left; its limit_ and every scan depend on this number.                  *)
ThreadsCounted ==
  current_threads =
    Cardinality({ t \in Threads :
                    \/ pc[t] \in {"atexit", "delete", "destroy", "leave"}
                    \/ pc[t] = "run" /\ ab[t] # NULL })

(* A thread that has begun deletes what pthread_create allocated for it,   *)
(* and a thread that ends leaves its core to the next one, unless the      *)
(* process ends.                                                           *)
ThreadsComeAndGo ==
  \A t \in Threads :
    /\ (pc[t] = "find" /\ t # Main) ~> (t \notin args \/ failed)
    /\ (pc[t] = "destroy") ~> (ab[t] = NULL \/ failed)
=============================================================================
