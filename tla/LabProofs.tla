------------------------------ MODULE LabProofs ------------------------------
(***************************************************************************)
(* Proofs about Lab, for any finite set of threads, any number of tags and *)
(* any size of a core and of the arena of cores: the allocator starts      *)
(* once, cores are reused, threads are counted, a call finds a core of its *)
(* own, and cores are leased as CoreLease says.                            *)
(***************************************************************************)
EXTENDS Lab, FiniteSetTheorems, SequenceTheorems, TLAPS

(* A thread owns a core from the moment it took it from the stack or the   *)
(* arena until it has pushed it back.                                      *)
Owns(t) ==
  \/ pc[t] \in {"init", "announce", "atexit", "delete", "destroy", "leave", "push"}
  \/ pc[t] = "run" /\ ab[t] # NULL

Held(t) == IF pc[t] = "init" THEN core[t] ELSE ab[t]

Owners == { t \in Threads : Owns(t) }

(* The threads that found no free core and have not got a new one yet *)
Seekers == { t \in Threads : pc[t] = "alloc" }

(* A thread that was given an identity *)
IsNamed(t) ==
  \/ pc[t] \notin {"unborn", "find", "alloc", "init", "run"}
  \/ pc[t] = "run" /\ ab[t] # NULL

Named == { t \in Threads : IsNamed(t) }

(* A thread that the span pool should know *)
IsAnnounced(t) ==
  \/ pc[t] \in {"atexit", "delete", "destroy", "leave"}
  \/ pc[t] = "run" /\ ab[t] # NULL

Announced == { t \in Threads : IsAnnounced(t) }

Cores == Cardinality(Owners) + Len(free_abs)

-----------------------------------------------------------------------------
(* The inductive invariant *)

(* TypeOK, but for the bounds of the counters, which follow from the rest *)
Types ==
  /\ refcount \in 0 .. 2 /\ guarded \in BOOLEAN
  /\ id \in [Places -> Ids \cup {kTerminated}]
  /\ args \subseteq Threads /\ lost \in 0 .. MaxLost /\ failed \in BOOLEAN
  /\ pc \in [Threads -> Labels]
  /\ core \in [Threads -> Places \cup {NULL}]
  /\ ab \in [Threads -> Places \cup {NULL}]
  /\ peak \in Nat

(* Nothing has happened while the guard has counted nobody. *)
StartInv ==
  /\ guarded => refcount # 0
  /\ ~guarded => refcount # 2
  /\ inits = IF refcount = 0 THEN 0 ELSE 1
  /\ refcount = 0 =>
       /\ pc[Main] = "run" /\ \A t \in Threads \ {Main} : pc[t] = "unborn"
       /\ free_abs = << >>

(* What a thread has, by where it is *)
ThreadInv ==
  \A t \in Threads :
    /\ pc[t] \in {"unborn", "find", "alloc", "init", "late", "dead"} => ab[t] = NULL
    /\ pc[t] \in {"announce", "atexit", "delete", "destroy", "leave", "push", "clear"} =>
         ab[t] # NULL
    /\ pc[t] = "run" => (ab[t] = NULL <=> refcount = 0)
    /\ pc[t] = "init" => core[t] # NULL
    /\ t \in Driving => id[ab[t]].core = ab[t]

(* No two owners share a core, no owner has one that is free, and all      *)
(* cores are inside the arena.                                             *)
ApartInv ==
  /\ free_abs \in Seq(Places)
  /\ \A i \in DOMAIN free_abs : free_abs[i] < current
  /\ \A i, j \in DOMAIN free_abs : free_abs[i] = free_abs[j] => i = j
  /\ \A t \in Owners : Held(t) < current /\ \A i \in DOMAIN free_abs : free_abs[i] # Held(t)
  /\ \A t, u \in Owners : Held(t) = Held(u) => t = u

InsideInv ==
  /\ \A i \in DOMAIN free_abs : free_abs[i] + CoreSize < LabSpace
  /\ \A t \in Threads :
       /\ ab[t] # NULL => ab[t] + CoreSize < LabSpace
       /\ core[t] # NULL => core[t] + CoreSize < LabSpace

(* Every core of the arena is owned or free, and for each of them and each *)
(* seeker there was once a thread, all at the same time.                   *)
ArenaInv ==
  /\ peak <= Cardinality(Threads)
  /\ current \in Places
  /\ ~failed => current = Cores * CoreSize /\ Cores + Cardinality(Seekers) <= peak
  /\ failed => current <= peak * CoreSize /\ LabSpace <= peak * CoreSize

(* The counters that threads share *)
CountInv ==
  /\ current_threads = Cardinality(Announced)
  /\ thread_ids = Cardinality(Named)
  /\ issued \in Seq(Ids) /\ Len(issued) = thread_ids
  /\ \A k \in DOMAIN issued : issued[k].tag = k % TagSize

IInv ==
  /\ Types /\ StartInv /\ ThreadInv /\ ApartInv /\ InsideInv /\ ArenaInv /\ CountInv

-----------------------------------------------------------------------------
(* Numbers *)

LEMMA ThreadsFinite == Cardinality(Threads) \in Nat
BY ThreadsAssumption, FS_CardinalityType

(* Sets of threads, with one more or one less *)
LEMMA SubsetCard ==
  ASSUME NEW S \in SUBSET Threads
  PROVE  IsFiniteSet(S) /\ Cardinality(S) \in Nat /\ Cardinality(S) <= Cardinality(Threads)
BY ThreadsAssumption, FS_Subset, FS_CardinalityType

LEMMA OneMore ==
  ASSUME NEW S \in SUBSET Threads, NEW R \in SUBSET Threads, NEW t \in Threads,
         t \notin S, R = S \cup {t}
  PROVE  Cardinality(R) = Cardinality(S) + 1
BY SubsetCard, FS_AddElement

LEMMA OneLess ==
  ASSUME NEW S \in SUBSET Threads, NEW R \in SUBSET Threads, NEW t \in S, R = S \ {t}
  PROVE  Cardinality(R) = Cardinality(S) - 1 /\ Cardinality(S) # 0
<1>1. t \notin R /\ S = R \cup {t} /\ t \in Threads
  OBVIOUS
<1>2. Cardinality(S) = Cardinality(R) + 1
  BY <1>1, OneMore
<1>3. Cardinality(R) \in Nat
  BY SubsetCard
<1> QED
  BY <1>2, <1>3

LEMMA MaxOfTwo ==
  ASSUME NEW a \in Nat, NEW b \in Nat
  PROVE  Max({a, b}) \in {a, b} /\ a <= Max({a, b}) /\ b <= Max({a, b})
<1>1. \E x \in {a, b} : \A y \in {a, b} : x >= y
  OBVIOUS
<1> QED
  BY <1>1 DEF Max

(* Places are multiples of the size of a core. *)
LEMMA PlaceFacts ==
  /\ \A c \in Places : c \in Nat /\ c # NULL
  /\ \A k \in 0 .. Cardinality(Threads) : k * CoreSize \in Places
  /\ 0 \in Places
<1>1. CoreSize \in Nat /\ Cardinality(Threads) \in Nat
  BY NumbersAssumption, ThreadsFinite
<1>2. \A k \in Nat : k * CoreSize \in Nat
  BY <1>1
<1>3. \A k \in 0 .. Cardinality(Threads) : k * CoreSize \in Places
  BY DEF Places
<1>4. 0 * CoreSize = 0 /\ 0 \in 0 .. Cardinality(Threads)
  BY <1>1
<1>5. \A c \in Places : c \in Nat
  BY <1>1, <1>2 DEF Places
<1> QED
  BY <1>3, <1>4, <1>5 DEF NULL

LEMMA DivMod ==
  ASSUME NEW x \in Nat, NEW T \in Nat \ {0}
  PROVE  x \div T \in Int /\ x % T \in 0 .. T - 1 /\ x = T * (x \div T) + (x % T)
OBVIOUS

(* Fewer than TagSize counts apart, the tags differ. *)
LEMMA TagsDiffer ==
  ASSUME NEW x \in Nat, NEW y \in Nat, NEW T \in Nat \ {0}, y < x, x - y < T
  PROVE  x % T # y % T
<1> SUFFICES ASSUME x % T = y % T
             PROVE  FALSE
  OBVIOUS
<1> DEFINE p == x \div T
           q == y \div T
           r == x % T
<1>1. p \in Int /\ q \in Int /\ r \in Int /\ x = T * p + r /\ y = T * q + r
  BY DivMod
<1> HIDE DEF p, q, r
<1>2. x - y = T * p - T * q
  BY <1>1
<1>3. T * p - T * q = T * (p - q)
  BY <1>1
<1>4. CASE p - q >= 1
  <2>1. T * (p - q) >= T
    BY <1>1, <1>4
  <2> QED
    BY <2>1, <1>1, <1>2, <1>3
<1>5. CASE p - q <= 0
  <2>1. T * (p - q) <= 0
    BY <1>1, <1>5
  <2> QED
    BY <2>1, <1>1, <1>2, <1>3
<1> QED
  BY <1>1, <1>4, <1>5

-----------------------------------------------------------------------------
(* The steps *)

(* The first thread initialises the allocator before there is another one. *)
LEMMA FirstIsMain ==
  ASSUME IInv, NEW t \in Threads, pc[t] = "run", refcount = 0
  PROVE  t = Main /\ ab[t] = NULL /\ free_abs = << >> /\ inits = 0
BY ThreadsAssumption DEF IInv, StartInv, ThreadInv

(* Labels and addresses *)
LEMMA TypesStep ==
  ASSUME IInv, [Next]_vars
  PROVE  Types'
<1>0. Types /\ Main \in Threads
  BY ThreadsAssumption DEF IInv
<1> USE DEF Types, Labels
<1>1. CASE UNCHANGED vars
  BY <1>0, <1>1 DEF vars, shared
<1>2. ASSUME NEW t \in Threads, ~failed, AtExit(t) \/ scalloc_thread_start(t) \/ Exit(t) \/ End(t)
      PROVE  Types'
  BY <1>0, <1>2 DEF AtExit, scalloc_thread_start, Exit, End, Goto, shared
<1>3. ASSUME NEW t \in Threads, ~failed, FindFreeAB(t)
      PROVE  Types'
  <2>1. free_abs # << >> => Head(free_abs) \in Places
    BY DEF IInv, ApartInv
  <2>2. Holding \cup {t} \in SUBSET Threads
    BY DEF Holding
  <2>3. peak' \in Nat
    BY <1>0, <1>3, <2>2, SubsetCard, MaxOfTwo DEF FindFreeAB, Seek
  <2> QED
    BY <1>0, <1>3, <2>1, <2>3 DEF FindFreeAB, Goto
<1>4. ASSUME NEW t \in Threads, ~failed, AllocateCore(t)
      PROVE  Types'
  <2>1. current \in Places
    BY DEF IInv, ArenaInv
  <2> QED
    BY <1>0, <1>4, <2>1 DEF AllocateCore, Goto
<1>5. ASSUME NEW t \in Threads, ~failed, InitCore(t)
      PROVE  Types'
  <2> DEFINE i == CoreId(core[t], NewTag(thread_ids))
  <2>1. core[t] \in Places
    BY <1>0, <1>5 DEF IInv, ThreadInv, InitCore
  <2>2. thread_ids \in Nat
    <3>1. Named \in SUBSET Threads
      BY DEF Named
    <3> QED
      BY <3>1, SubsetCard DEF IInv, CountInv
  <2>3. NewTag(thread_ids) \in 0 .. TagSize - 1
    BY <2>2, NumbersAssumption, DivMod DEF NewTag
  <2>4. i \in Ids
    BY <2>1, <2>3 DEF Ids, CoreId
  <2> HIDE DEF i
  <2>5. /\ id' = [id EXCEPT ![core[t]] = i] /\ ab' = [ab EXCEPT ![t] = core[t]]
        /\ pc' = [pc EXCEPT ![t] = "announce"]
        /\ UNCHANGED << refcount, guarded, args, lost, failed, core, peak >>
    BY <1>5 DEF InitCore, Goto, i
  <2> QED
    BY <1>0, <2>1, <2>4, <2>5
<1>6. ASSUME NEW t \in Threads, ~failed, AnnounceNewThread(t) \/ AnnounceLeavingThread(t)
      PROVE  Types'
  BY <1>0, <1>6 DEF AnnounceNewThread, AnnounceLeavingThread, Goto
<1>7. ASSUME NEW t \in Threads, ~failed, Destroy(t) \/ PushCore(t) \/ ClearTLS(t)
      PROVE  Types'
  BY <1>0, <1>7 DEF Destroy, PushCore, ClearTLS, Goto, shared
<1>8. ASSUME NEW t \in Threads, ~failed, mallocFirst(t) \/ ScallocGuard(t)
      PROVE  Types'
  <2>1. refcount' \in 0 .. 2
    BY <1>0, <1>8 DEF mallocFirst, ScallocGuard, IInv, StartInv
  <2>2. /\ pc' \in [Threads -> Labels] /\ guarded' \in BOOLEAN
        /\ UNCHANGED << id, args, lost, failed, core, ab, peak >>
    BY <1>0, <1>8 DEF mallocFirst, ScallocGuard, ScallocInit, Goto
  <2> QED
    BY <1>0, <2>1, <2>2
<1>9. ASSUME NEW t \in Threads, ~failed, pthread_createFails(t)
      PROVE  Types'
  <2>1. lost' \in 0 .. MaxLost
    BY <1>0, <1>9, NumbersAssumption DEF pthread_createFails
  <2> QED
    BY <1>0, <1>9, <2>1 DEF pthread_createFails
<1>10. ASSUME NEW t \in Threads, ~failed, NEW u \in Threads, pthread_create(t, u)
       PROVE  Types'
  BY <1>0, <1>10 DEF pthread_create, Goto
<1> HIDE DEF Types
<1> QED
  BY <1>1, <1>2, <1>3, <1>4, <1>5, <1>6, <1>7, <1>8, <1>9, <1>10 DEF Next, Step, Choose

(* The guard *)
LEMMA StartStep ==
  ASSUME IInv, [Next]_vars
  PROVE  StartInv'
<1>0. Types /\ StartInv /\ Main \in Threads
  BY ThreadsAssumption DEF IInv
<1> USE DEF StartInv
<1>1. CASE UNCHANGED vars
  BY <1>0, <1>1 DEF vars, shared
<1>2. ASSUME NEW t \in Threads, ~failed, pc[t] \notin {"run", "unborn"},
             UNCHANGED << refcount, guarded, inits >>
      PROVE  StartInv'
  BY <1>0, <1>2
<1>3. ASSUME NEW t \in Threads, ~failed, Step(t)
      PROVE  StartInv'
  <2>1. pc[t] \notin {"run", "unborn"} /\ UNCHANGED << refcount, guarded, inits >>
    BY <1>3 DEF Step, AtExit, FindFreeAB, AllocateCore, InitCore, AnnounceNewThread,
                scalloc_thread_start, Destroy, AnnounceLeavingThread, PushCore, ClearTLS, End,
                shared
  <2> QED
    BY <1>2, <1>3, <2>1
<1>4. ASSUME NEW t \in Threads, ~failed, mallocFirst(t)
      PROVE  StartInv'
  <2>1. inits = 0
    BY <1>0, <1>4 DEF mallocFirst
  <2> QED
    BY <1>0, <1>4, <2>1 DEF mallocFirst, ScallocInit
<1>5. ASSUME NEW t \in Threads, ~failed, ScallocGuard(t)
      PROVE  StartInv'
  <2>1. refcount \in {0, 1}
    BY <1>0, <1>5 DEF Types, ScallocGuard
  <2>2. CASE refcount = 0
    BY <1>0, <1>5, <2>2 DEF ScallocGuard, ScallocInit
  <2>3. CASE refcount = 1
    BY <1>0, <1>5, <2>3 DEF ScallocGuard
  <2> QED
    BY <2>1, <2>2, <2>3
<1>6. ASSUME NEW t \in Threads, ~failed, Exit(t)
      PROVE  StartInv'
  <2>1. refcount # 0
    BY <1>0, <1>6 DEF Exit
  <2> QED
    BY <1>0, <1>6, <2>1 DEF Exit, shared
<1>7. ASSUME NEW t \in Threads, ~failed, pthread_createFails(t)
      PROVE  StartInv'
  BY <1>0, <1>7 DEF pthread_createFails
<1>8. ASSUME NEW t \in Threads, ~failed, NEW u \in Threads, pthread_create(t, u)
      PROVE  StartInv'
  <2>1. refcount # 0
    BY <1>0, <1>8 DEF pthread_create, Types
  <2> QED
    BY <1>0, <1>8, <2>1 DEF pthread_create
<1> HIDE DEF StartInv
<1> QED
  BY <1>1, <1>3, <1>4, <1>5, <1>6, <1>7, <1>8 DEF Next, Step, Choose

(* Two owners have different cores. *)
LEMMA OwnersApart ==
  ASSUME IInv, NEW t \in Threads, Owns(t), NEW u \in Threads, Owns(u), u # t
  PROVE  Held(u) # Held(t)
BY DEF IInv, ApartInv, Owners

(* A thread that drives a core owns it. *)
LEMMA DrivingOwns ==
  ASSUME IInv, NEW t \in Threads, t \in Driving
  PROVE  /\ Owns(t) /\ Held(t) = ab[t] /\ ab[t] \in Places
         /\ id[ab[t]].core = ab[t] /\ id[ab[t]] # kTerminated
<1>1. Owns(t) /\ Held(t) = ab[t] /\ ab[t] # NULL
  BY DEF Driving, Owns, Held
<1>2. ab[t] \in Places /\ id[ab[t]].core = ab[t]
  BY <1>1 DEF IInv, Types, ThreadInv
<1>3. kTerminated.core = NULL
  BY DEF kTerminated, CoreId
<1> QED
  BY <1>1, <1>2, <1>3

(* What a thread has when it is at a label; id_ changes for the owner only. *)
LEMMA ThreadStep ==
  ASSUME IInv, [Next]_vars
  PROVE  ThreadInv'
<1>0. Types /\ StartInv /\ ThreadInv /\ Main \in Threads
  BY ThreadsAssumption DEF IInv
<1>00. /\ pc \in [Threads -> Labels] /\ ab \in [Threads -> Places \cup {NULL}]
       /\ core \in [Threads -> Places \cup {NULL}] /\ id \in [Places -> Ids \cup {kTerminated}]
  BY <1>0 DEF Types
<1>1. CASE UNCHANGED vars
  BY <1>0, <1>1 DEF vars, shared, ThreadInv, Driving
<1>2. ASSUME NEW t \in Threads, ~failed, AtExit(t) \/ scalloc_thread_start(t)
      PROVE  ThreadInv'
  <2>1. refcount # 0
    BY <1>0, <1>2 DEF StartInv, AtExit, scalloc_thread_start
  <2> QED
    BY <1>0, <1>00, <1>2, <2>1 DEF AtExit, scalloc_thread_start, Goto, shared, ThreadInv, Driving
<1>3. ASSUME NEW t \in Threads, ~failed, FindFreeAB(t)
      PROVE  ThreadInv'
  <2>1. ab[t] = NULL
    BY <1>0, <1>3 DEF FindFreeAB, ThreadInv
  <2>2. free_abs # << >> => Head(free_abs) # NULL
    BY PlaceFacts DEF IInv, ApartInv
  <2>3. /\ \/ pc' = [pc EXCEPT ![t] = "alloc"] /\ core' = core
           \/ /\ pc' = [pc EXCEPT ![t] = "init"] /\ core' = [core EXCEPT ![t] = Head(free_abs)]
              /\ Head(free_abs) # NULL
        /\ UNCHANGED << ab, id, refcount >>
    BY <1>3, <2>1, <2>2 DEF FindFreeAB, Goto
  <2> QED
    BY <1>0, <1>00, <2>1, <2>3 DEF ThreadInv, Driving
<1>4. ASSUME NEW t \in Threads, ~failed, AllocateCore(t)
      PROVE  ThreadInv'
  <2>1. current # NULL
    BY PlaceFacts DEF IInv, ArenaInv
  <2> QED
    BY <1>0, <1>00, <1>4, <2>1 DEF AllocateCore, Goto, ThreadInv, Driving
<1>5. ASSUME NEW t \in Threads, ~failed, InitCore(t)
      PROVE  ThreadInv'
  <2> DEFINE i == CoreId(core[t], NewTag(thread_ids))
  <2>1. core[t] # NULL /\ core[t] \in Places /\ pc[t] = "init"
    BY <1>0, <1>00, <1>5 DEF InitCore, ThreadInv
  <2>2. i.core = core[t]
    BY DEF CoreId
  <2> HIDE DEF i
  <2>3. /\ id' = [id EXCEPT ![core[t]] = i] /\ ab' = [ab EXCEPT ![t] = core[t]]
        /\ pc' = [pc EXCEPT ![t] = "announce"] /\ core' = core /\ refcount' = refcount
    BY <1>5 DEF InitCore, Goto, i
  <2>4. ASSUME NEW u \in Threads, u # t, u \in Driving
        PROVE  ab[u] # core[t]
    <3>1. Owns(u) /\ Held(u) = ab[u]
      BY <2>4, DrivingOwns
    <3>2. Owns(t) /\ Held(t) = core[t]
      BY <2>1 DEF Owns, Held
    <3> QED
      BY <2>4, <3>1, <3>2, OwnersApart
  <2>5. ASSUME NEW u \in Threads, u \in Driving'
        PROVE  id'[ab'[u]].core = ab'[u]
    <3>1. CASE u = t
      BY <3>1, <1>00, <2>1, <2>2, <2>3
    <3>2. CASE u # t
      <4>1. u \in Driving /\ ab'[u] = ab[u]
        BY <3>2, <1>00, <2>3, <2>5 DEF Driving
      <4>2. id'[ab[u]] = id[ab[u]]
        BY <3>2, <4>1, <1>00, <2>3, <2>4
      <4> QED
        BY <4>1, <4>2, <1>0 DEF ThreadInv
    <3> QED
      BY <3>1, <3>2
  <2>6. ASSUME NEW u \in Threads
        PROVE  /\ u = t => pc'[u] = "announce" /\ ab'[u] # NULL
               /\ u # t => pc'[u] = pc[u] /\ ab'[u] = ab[u]
    BY <1>00, <2>1, <2>3
  <2> QED
    BY <1>0, <2>3, <2>5, <2>6 DEF ThreadInv
<1>6. ASSUME NEW t \in Threads, ~failed, AnnounceNewThread(t)
      PROVE  ThreadInv'
  BY <1>0, <1>00, <1>6 DEF AnnounceNewThread, Goto, ThreadInv, Driving
<1>7. ASSUME NEW t \in Threads, ~failed, Destroy(t)
      PROVE  ThreadInv'
  <2>1. ab[t] # NULL /\ ab[t] \in Places /\ pc[t] = "destroy"
    BY <1>0, <1>00, <1>7 DEF Destroy, ThreadInv
  <2>2. /\ id' = [id EXCEPT ![ab[t]] = kTerminated] /\ ab' = ab
        /\ pc' = [pc EXCEPT ![t] = "leave"] /\ core' = core /\ refcount' = refcount
    BY <1>7 DEF Destroy, Goto
  <2>3. ASSUME NEW u \in Threads, u \in Driving'
        PROVE  id'[ab'[u]].core = ab'[u]
    <3>1. u # t /\ u \in Driving
      BY <1>00, <2>2, <2>3 DEF Driving
    <3>2. Owns(u) /\ Held(u) = ab[u]
      BY <3>1, DrivingOwns
    <3>3. Owns(t) /\ Held(t) = ab[t]
      BY <2>1 DEF Owns, Held
    <3>4. ab[u] # ab[t]
      BY <3>1, <3>2, <3>3, OwnersApart
    <3>5. id'[ab[u]] = id[ab[u]]
      BY <3>4, <1>00, <2>2
    <3> QED
      BY <3>1, <3>5, <2>2, <1>0 DEF ThreadInv
  <2>4. ASSUME NEW u \in Threads
        PROVE  /\ u = t => pc'[u] = "leave"
               /\ u # t => pc'[u] = pc[u]
    BY <1>00, <2>2
  <2> QED
    BY <1>0, <2>1, <2>2, <2>3, <2>4 DEF ThreadInv
<1>8. ASSUME NEW t \in Threads, ~failed, AnnounceLeavingThread(t) \/ PushCore(t)
      PROVE  ThreadInv'
  BY <1>0, <1>00, <1>8 DEF AnnounceLeavingThread, PushCore, Goto, ThreadInv, Driving
<1>9. ASSUME NEW t \in Threads, ~failed, ClearTLS(t) \/ End(t)
      PROVE  ThreadInv'
  BY <1>0, <1>00, <1>9 DEF ClearTLS, End, Goto, shared, ThreadInv, Driving
<1>10. ASSUME NEW t \in Threads, ~failed, mallocFirst(t) \/ ScallocGuard(t), refcount = 0
       PROVE  ThreadInv'
  <2>1. t = Main /\ ab[t] = NULL
    BY <1>10, FirstIsMain DEF mallocFirst, ScallocGuard
  <2>2. pc' = [pc EXCEPT ![t] = "find"] /\ UNCHANGED << ab, core, id >>
    BY <1>10 DEF mallocFirst, ScallocGuard, ScallocInit, Goto
  <2>3. \A u \in Threads : u # t => pc[u] = "unborn"
    BY <1>0, <1>10, <2>1 DEF StartInv
  <2>4. \A u \in Threads : pc'[u] \in {"find", "unborn"} /\ ab'[u] = NULL
    BY <1>0, <1>00, <2>1, <2>2, <2>3 DEF ThreadInv
  <2> QED
    BY <2>4 DEF ThreadInv, Driving
<1>11. ASSUME NEW t \in Threads, ~failed, ScallocGuard(t), refcount # 0
       PROVE  ThreadInv'
  <2>1. refcount' # 0 /\ UNCHANGED << pc, ab, core, id >>
    BY <1>0, <1>11 DEF ScallocGuard, Types
  <2> QED
    BY <1>0, <1>11, <2>1 DEF ThreadInv, Driving
<1>12. ASSUME NEW t \in Threads, ~failed, Exit(t)
       PROVE  ThreadInv'
  <2>1. refcount # 0 /\ ab[t] # NULL
    BY <1>0, <1>12 DEF StartInv, ThreadInv, Exit
  <2> QED
    BY <1>0, <1>00, <1>12, <2>1 DEF Exit, Goto, shared, ThreadInv, Driving
<1>13. ASSUME NEW t \in Threads, ~failed, pthread_createFails(t)
       PROVE  ThreadInv'
  BY <1>0, <1>13 DEF pthread_createFails, ThreadInv, Driving
<1>14. ASSUME NEW t \in Threads, ~failed, NEW u \in Threads, pthread_create(t, u)
       PROVE  ThreadInv'
  BY <1>0, <1>00, <1>14 DEF pthread_create, Goto, ThreadInv, Driving
<1>15. ASSUME NEW t \in Threads, ~failed, mallocFirst(t)
       PROVE  refcount = 0
  BY <1>15 DEF mallocFirst
<1> QED
  BY <1>1, <1>2, <1>3, <1>4, <1>5, <1>6, <1>7, <1>8, <1>9, <1>10, <1>11, <1>12, <1>13, <1>14,
     <1>15 DEF Next, Step, Choose

(* A core is inside the arena from its allocation on. *)
LEMMA InsideStep ==
  ASSUME IInv, [Next]_vars
  PROVE  InsideInv'
<1>0. InsideInv
  BY DEF IInv
<1>00. /\ ab \in [Threads -> Places \cup {NULL}] /\ core \in [Threads -> Places \cup {NULL}]
       /\ free_abs \in Seq(Places)
  BY DEF IInv, Types, ApartInv
<1>1. CASE UNCHANGED << ab, core, free_abs >>
  BY <1>0, <1>1 DEF InsideInv
<1>2. ASSUME NEW t \in Threads, FindFreeAB(t)
      PROVE  InsideInv'
  <2>1. CASE free_abs = << >> \/ ab[t] # NULL
    <3>1. UNCHANGED << ab, core, free_abs >>
      BY <1>2, <2>1 DEF FindFreeAB
    <3> QED
      BY <3>1, <1>1
  <2>2. CASE free_abs # << >> /\ ab[t] = NULL
    <3>1. /\ core' = [core EXCEPT ![t] = Head(free_abs)] /\ free_abs' = Tail(free_abs) /\ ab' = ab
      BY <1>2, <2>2 DEF FindFreeAB
    <3>2. /\ Head(free_abs) = free_abs[1] /\ 1 \in DOMAIN free_abs
          /\ \A i \in DOMAIN free_abs' : i + 1 \in DOMAIN free_abs /\ free_abs'[i] = free_abs[i + 1]
      BY <1>00, <2>2, <3>1
    <3> QED
      BY <1>0, <1>00, <3>1, <3>2 DEF InsideInv
  <2> QED
    BY <2>1, <2>2
<1>3. ASSUME NEW t \in Threads, AllocateCore(t)
      PROVE  InsideInv'
  <2>1. CASE OutOfMemory(current)
    <3>1. UNCHANGED << ab, core, free_abs >>
      BY <1>3, <2>1 DEF AllocateCore
    <3> QED
      BY <3>1, <1>1
  <2>2. CASE ~OutOfMemory(current)
    <3>1. core' = [core EXCEPT ![t] = current] /\ UNCHANGED << ab, free_abs >>
      BY <1>3, <2>2 DEF AllocateCore
    <3>2. current + CoreSize < LabSpace
      BY <2>2, PlaceFacts, NumbersAssumption DEF OutOfMemory, IInv, ArenaInv
    <3> QED
      BY <1>0, <1>00, <3>1, <3>2 DEF InsideInv
  <2> QED
    BY <2>1, <2>2
<1>4. ASSUME NEW t \in Threads, InitCore(t)
      PROVE  InsideInv'
  <2>1. ab' = [ab EXCEPT ![t] = core[t]] /\ core' = core /\ free_abs' = free_abs
    BY <1>4 DEF InitCore
  <2> QED
    BY <1>0, <1>00, <2>1 DEF InsideInv
<1>5. ASSUME NEW t \in Threads, AnnounceNewThread(t) \/ ClearTLS(t)
      PROVE  InsideInv'
  <2>1. /\ core' = core \/ core' = [core EXCEPT ![t] = NULL]
        /\ ab' = ab \/ ab' = [ab EXCEPT ![t] = NULL]
        /\ free_abs' = free_abs
    BY <1>5 DEF AnnounceNewThread, ClearTLS, shared
  <2> QED
    BY <1>0, <1>00, <2>1 DEF InsideInv
<1>6. ASSUME NEW t \in Threads, PushCore(t)
      PROVE  InsideInv'
  <2>1. free_abs' = Cons(ab[t], free_abs) /\ UNCHANGED << ab, core >>
    BY <1>6 DEF PushCore
  <2>2. ab[t] # NULL /\ ab[t] \in Places
    BY <1>00, <1>6 DEF PushCore, IInv, ThreadInv
  <2>3. \A i \in DOMAIN free_abs' :
          free_abs'[i] = ab[t] \/ \E j \in DOMAIN free_abs : free_abs'[i] = free_abs[j]
    BY <1>00, <2>1, <2>2 DEF Cons
  <2> QED
    BY <1>0, <2>1, <2>2, <2>3 DEF InsideInv
<1>7. ASSUME NEW t \in Threads,
             \/ AtExit(t) \/ scalloc_thread_start(t) \/ Destroy(t) \/ AnnounceLeavingThread(t)
             \/ End(t) \/ Exit(t) \/ pthread_createFails(t)
             \/ mallocFirst(t) \/ ScallocGuard(t) \/ \E u \in Threads : pthread_create(t, u)
      PROVE  UNCHANGED << ab, core, free_abs >>
  BY <1>7 DEF AtExit, scalloc_thread_start, Destroy, AnnounceLeavingThread, End, Exit,
              pthread_createFails, mallocFirst, ScallocGuard, pthread_create, shared
<1>8. CASE UNCHANGED vars
  BY <1>1, <1>8 DEF vars, shared
<1> QED
  BY <1>1, <1>2, <1>3, <1>4, <1>5, <1>6, <1>7, <1>8 DEF Next, Step, Choose

-----------------------------------------------------------------------------
(* Steps that leave the cores, the arena or the counts as they are *)

LEMMA ApartSame ==
  ASSUME IInv, free_abs' = free_abs, current' = current,
         \A u \in Threads : (Owns(u)' <=> Owns(u)) /\ (Owns(u) => Held(u)' = Held(u))
  PROVE  ApartInv'
<1>1. Owners' = Owners /\ \A u \in Owners : Held(u)' = Held(u)
  BY DEF Owners
<1> QED
  BY <1>1 DEF IInv, ApartInv

LEMMA ArenaSame ==
  ASSUME IInv, UNCHANGED << free_abs, current, failed, peak >>,
         \A u \in Threads : (Owns(u)' <=> Owns(u)) /\ (pc'[u] = "alloc" <=> pc[u] = "alloc")
  PROVE  ArenaInv'
<1>1. Owners' = Owners /\ Seekers' = Seekers
  BY DEF Owners, Seekers
<1> QED
  BY <1>1 DEF IInv, ArenaInv, Cores

LEMMA CountSame ==
  ASSUME IInv, UNCHANGED << current_threads, thread_ids, issued >>,
         \A u \in Threads : (IsNamed(u)' <=> IsNamed(u)) /\ (IsAnnounced(u)' <=> IsAnnounced(u))
  PROVE  CountInv'
<1>1. Named' = Named /\ Announced' = Announced
  BY DEF Named, Announced
<1> QED
  BY <1>1 DEF IInv, CountInv

(* Nothing is allocated or counted when ScallocInit starts them anew. *)
LEMMA NothingYet ==
  ASSUME IInv, refcount = 0, ~failed
  PROVE  current = 0 /\ current_threads = 0
<1>1. \A u \in Threads : ~Owns(u) /\ ~IsAnnounced(u)
  BY DEF IInv, StartInv, ThreadInv, Owns, IsAnnounced
<1>2. Owners = {} /\ Announced = {} /\ Len(free_abs) = 0
  BY <1>1 DEF Owners, Announced, IInv, StartInv
<1>3. Cardinality({}) = 0
  BY FS_EmptySet
<1>4. Cores = 0
  BY <1>2, <1>3 DEF Cores
<1>5. current = 0 * CoreSize
  BY <1>4 DEF IInv, ArenaInv
<1> QED
  BY <1>2, <1>3, <1>5, NumbersAssumption DEF IInv, CountInv

(* The steps at which a thread neither gets nor gives anything *)
LEMMA MoveStep ==
  ASSUME IInv, ~failed, NEW t \in Threads,
         \/ AtExit(t) \/ scalloc_thread_start(t) \/ Exit(t) \/ Destroy(t)
         \/ ClearTLS(t) \/ End(t) \/ pthread_createFails(t) \/ mallocFirst(t) \/ ScallocGuard(t)
         \/ \E u \in Threads : pthread_create(t, u)
  PROVE  ApartInv' /\ ArenaInv' /\ CountInv'
<1>0. /\ pc \in [Threads -> Labels] /\ ab \in [Threads -> Places \cup {NULL}]
      /\ StartInv /\ ThreadInv /\ Main \in Threads
  BY ThreadsAssumption DEF IInv, Types
<1> DEFINE Same(u) == /\ Owns(u)' <=> Owns(u)
                      /\ Owns(u) => Held(u)' = Held(u)
                      /\ pc'[u] = "alloc" <=> pc[u] = "alloc"
                      /\ IsNamed(u)' <=> IsNamed(u)
                      /\ IsAnnounced(u)' <=> IsAnnounced(u)
           Kept == UNCHANGED << free_abs, current, failed, peak, current_threads, thread_ids,
                                issued >>
<1> SUFFICES Kept /\ \A u \in Threads : Same(u)
  BY ApartSame, ArenaSame, CountSame
<1>1. CASE AtExit(t) \/ scalloc_thread_start(t)
  <2>1. /\ Kept /\ ab' = ab /\ core' = core /\ pc' = [pc EXCEPT ![t] = "run"]
        /\ pc[t] \in {"atexit", "delete"}
    BY <1>1 DEF AtExit, scalloc_thread_start, Goto, shared
  <2>2. ab[t] # NULL
    BY <1>0, <2>1 DEF ThreadInv
  <2> QED
    BY <1>0, <2>1, <2>2 DEF Owns, Held, IsNamed, IsAnnounced
<1>2. CASE Exit(t)
  <2>1. ab[t] # NULL
    BY <1>0, <1>2 DEF StartInv, ThreadInv, Exit
  <2>2. Kept /\ ab' = ab /\ core' = core /\ pc' = [pc EXCEPT ![t] = "destroy"] /\ pc[t] = "run"
    BY <1>2, <2>1 DEF Exit, Goto, shared
  <2> QED
    BY <1>0, <2>1, <2>2 DEF Owns, Held, IsNamed, IsAnnounced
<1>3. CASE Destroy(t)
  <2>1. Kept /\ ab' = ab /\ core' = core /\ pc' = [pc EXCEPT ![t] = "leave"] /\ pc[t] = "destroy"
    BY <1>3 DEF Destroy, Goto
  <2> QED
    BY <1>0, <2>1 DEF Owns, Held, IsNamed, IsAnnounced
<1>4. CASE ClearTLS(t)
  <2>1. /\ Kept /\ ab' = [ab EXCEPT ![t] = NULL] /\ core' = core
        /\ pc' = [pc EXCEPT ![t] = "late"] /\ pc[t] = "clear"
    BY <1>4 DEF ClearTLS, Goto, shared
  <2> QED
    BY <1>0, <2>1 DEF Owns, Held, IsNamed, IsAnnounced
<1>5. CASE End(t)
  <2>1. Kept /\ ab' = ab /\ core' = core /\ pc' = [pc EXCEPT ![t] = "dead"] /\ pc[t] = "late"
    BY <1>5 DEF End, Goto, shared
  <2> QED
    BY <1>0, <2>1 DEF Owns, Held, IsNamed, IsAnnounced
<1>6. CASE pthread_createFails(t)
  <2>1. Kept /\ ab' = ab /\ core' = core /\ pc' = pc
    BY <1>6 DEF pthread_createFails
  <2> QED
    BY <2>1 DEF Owns, Held, IsNamed, IsAnnounced
<1>7. CASE (mallocFirst(t) \/ ScallocGuard(t)) /\ refcount = 0
  <2>1. ab[t] = NULL /\ pc[t] = "run"
    BY <1>7, FirstIsMain DEF mallocFirst, ScallocGuard
  <2>2. Kept /\ ab' = ab /\ core' = core /\ pc' = [pc EXCEPT ![t] = "find"]
    BY <1>7, NothingYet DEF mallocFirst, ScallocGuard, ScallocInit, Goto
  <2> QED
    BY <1>0, <2>1, <2>2 DEF Owns, Held, IsNamed, IsAnnounced
<1>8. CASE (mallocFirst(t) \/ ScallocGuard(t)) /\ refcount # 0
  <2>1. Kept /\ ab' = ab /\ core' = core /\ pc' = pc
    BY <1>8 DEF mallocFirst, ScallocGuard
  <2> QED
    BY <2>1 DEF Owns, Held, IsNamed, IsAnnounced
<1>9. ASSUME NEW u \in Threads, pthread_create(t, u)
      PROVE  Kept /\ \A v \in Threads : Same(v)
  <2>1. Kept /\ ab' = ab /\ core' = core /\ pc' = [pc EXCEPT ![u] = "find"] /\ pc[u] = "unborn"
    BY <1>9 DEF pthread_create, Goto
  <2> QED
    BY <1>0, <2>1 DEF Owns, Held, IsNamed, IsAnnounced
<1> QED
  BY <1>1, <1>2, <1>3, <1>4, <1>5, <1>6, <1>7, <1>8, <1>9

-----------------------------------------------------------------------------
(* Steps that count a thread or give it an identity *)

LEMMA InitCoreStep ==
  ASSUME IInv, ~failed, NEW t \in Threads, InitCore(t)
  PROVE  ApartInv' /\ ArenaInv' /\ CountInv'
<1> DEFINE i == CoreId(core[t], NewTag(thread_ids))
<1>0. /\ pc \in [Threads -> Labels] /\ ab \in [Threads -> Places \cup {NULL}]
      /\ core[t] # NULL /\ core[t] \in Places /\ pc[t] = "init" /\ pc' = [pc EXCEPT ![t] = "announce"]
      /\ ab' = [ab EXCEPT ![t] = core[t]] /\ core' = core
      /\ thread_ids' = thread_ids + 1 /\ issued' = Append(issued, i)
      /\ UNCHANGED << free_abs, current, failed, peak, current_threads >>
  BY DEF IInv, Types, ThreadInv, InitCore, Goto
<1>1. \A u \in Threads :
        /\ Owns(u)' <=> Owns(u)
        /\ Owns(u) => Held(u)' = Held(u)
        /\ pc'[u] = "alloc" <=> pc[u] = "alloc"
        /\ IsAnnounced(u)' <=> IsAnnounced(u)
  BY <1>0 DEF Owns, Held, IsAnnounced
<1>2. ApartInv' /\ ArenaInv'
  BY <1>0, <1>1, ApartSame, ArenaSame
<1>3. Announced' = Announced
  BY <1>1 DEF Announced
<1>4. t \notin Named /\ Named' = Named \cup {t}
  BY <1>0 DEF Named, IsNamed
<1>5. Named \in SUBSET Threads /\ Named' \in SUBSET Threads
  BY DEF Named
<1>6. Cardinality(Named') = Cardinality(Named) + 1 /\ Cardinality(Named) \in Nat
  BY <1>4, <1>5, OneMore, SubsetCard
<1>7. /\ thread_ids = Cardinality(Named) /\ current_threads = Cardinality(Announced)
      /\ issued \in Seq(Ids) /\ Len(issued) = thread_ids /\ thread_ids \in Nat
      /\ \A k \in DOMAIN issued : issued[k].tag = k % TagSize
  BY <1>6 DEF IInv, CountInv
<1>8. NewTag(thread_ids) = (thread_ids + 1) % TagSize /\ NewTag(thread_ids) \in 0 .. TagSize - 1
  <2>1. thread_ids + 1 \in Nat /\ TagSize \in Nat \ {0}
    BY <1>7, NumbersAssumption
  <2>2. (thread_ids + 1) % TagSize \in 0 .. TagSize - 1
    BY <2>1, DivMod
  <2> QED
    BY <2>2 DEF NewTag
<1>9. i \in Ids /\ i.tag = (thread_ids + 1) % TagSize
  BY <1>0, <1>8 DEF Ids, CoreId
<1> HIDE DEF i
<1>10. /\ issued' \in Seq(Ids) /\ Len(issued') = thread_ids + 1
       /\ \A k \in DOMAIN issued' : issued'[k] = IF k = thread_ids + 1 THEN i ELSE issued[k]
       /\ \A k \in DOMAIN issued' : k = thread_ids + 1 \/ k \in DOMAIN issued
  BY <1>0, <1>7, <1>9
<1>11. \A k \in DOMAIN issued' : issued'[k].tag = k % TagSize
  BY <1>7, <1>9, <1>10
<1>12. CountInv'
  BY <1>0, <1>3, <1>6, <1>7, <1>10, <1>11 DEF CountInv
<1> QED
  BY <1>2, <1>12

LEMMA AnnounceNewStep ==
  ASSUME IInv, ~failed, NEW t \in Threads, AnnounceNewThread(t)
  PROVE  ApartInv' /\ ArenaInv' /\ CountInv'
<1>0. /\ pc \in [Threads -> Labels] /\ ab' = ab
      /\ pc[t] = "announce" /\ core' = [core EXCEPT ![t] = NULL]
      /\ pc' = [pc EXCEPT ![t] = IF t = Main THEN "atexit" ELSE "delete"]
      /\ core \in [Threads -> Places \cup {NULL}]
      /\ current_threads' = current_threads + 1
      /\ UNCHANGED << free_abs, current, failed, peak, thread_ids, issued >>
  BY DEF IInv, Types, AnnounceNewThread, Goto
<1>1. \A u \in Threads :
        /\ Owns(u)' <=> Owns(u)
        /\ Owns(u) => Held(u)' = Held(u)
        /\ pc'[u] = "alloc" <=> pc[u] = "alloc"
        /\ IsNamed(u)' <=> IsNamed(u)
  BY <1>0 DEF Owns, Held, IsNamed
<1>2. ApartInv' /\ ArenaInv'
  BY <1>0, <1>1, ApartSame, ArenaSame
<1>3. Named' = Named
  BY <1>1 DEF Named
<1>4. t \notin Announced /\ Announced' = Announced \cup {t}
  BY <1>0 DEF Announced, IsAnnounced
<1>5. Announced \in SUBSET Threads /\ Announced' \in SUBSET Threads
  BY DEF Announced
<1>6. Cardinality(Announced') = Cardinality(Announced) + 1
  BY <1>4, <1>5, OneMore
<1>7. CountInv'
  BY <1>0, <1>3, <1>6 DEF IInv, CountInv
<1> QED
  BY <1>2, <1>7

LEMMA AnnounceLeavingStep ==
  ASSUME IInv, ~failed, NEW t \in Threads, AnnounceLeavingThread(t)
  PROVE  ApartInv' /\ ArenaInv' /\ CountInv'
<1>0. /\ pc \in [Threads -> Labels] /\ ab' = ab /\ core' = core
      /\ pc[t] = "leave" /\ pc' = [pc EXCEPT ![t] = "push"]
      /\ current_threads' = current_threads - 1
      /\ UNCHANGED << free_abs, current, failed, peak, thread_ids, issued >>
  BY DEF IInv, Types, AnnounceLeavingThread, Goto
<1>1. \A u \in Threads :
        /\ Owns(u)' <=> Owns(u)
        /\ Owns(u) => Held(u)' = Held(u)
        /\ pc'[u] = "alloc" <=> pc[u] = "alloc"
        /\ IsNamed(u)' <=> IsNamed(u)
  BY <1>0 DEF Owns, Held, IsNamed
<1>2. ApartInv' /\ ArenaInv'
  BY <1>0, <1>1, ApartSame, ArenaSame
<1>3. Named' = Named
  BY <1>1 DEF Named
<1>4. t \in Announced /\ Announced' = Announced \ {t}
  BY <1>0 DEF Announced, IsAnnounced
<1>5. Announced \in SUBSET Threads /\ Announced' \in SUBSET Threads
  BY DEF Announced
<1>6. Cardinality(Announced') = Cardinality(Announced) - 1
  BY <1>4, <1>5, OneLess
<1>7. CountInv'
  BY <1>0, <1>3, <1>6 DEF IInv, CountInv
<1> QED
  BY <1>2, <1>7

-----------------------------------------------------------------------------
(* Steps that move a core *)

(* Nobody gets a name or is counted at these. *)
LEMMA CoreMovesCount ==
  ASSUME IInv, ~failed, NEW t \in Threads,
         (FindFreeAB(t) /\ ab[t] = NULL) \/ AllocateCore(t) \/ PushCore(t)
  PROVE  CountInv'
<1>1. /\ UNCHANGED << current_threads, thread_ids, issued, ab >>
      /\ \/ pc' = pc
         \/ pc[t] \in {"find", "alloc"} /\ pc' = [pc EXCEPT ![t] = "init"]
         \/ pc[t] = "find" /\ pc' = [pc EXCEPT ![t] = "alloc"]
         \/ pc[t] = "push" /\ pc' = [pc EXCEPT ![t] = "clear"]
  BY DEF FindFreeAB, AllocateCore, PushCore, Goto
<1>2. pc \in [Threads -> Labels]
  BY DEF IInv, Types
<1>3. \A u \in Threads : (IsNamed(u)' <=> IsNamed(u)) /\ (IsAnnounced(u)' <=> IsAnnounced(u))
  BY <1>1, <1>2 DEF IsNamed, IsAnnounced
<1> QED
  BY <1>1, <1>3, CountSame

(* peak_ counts at least the threads that hold or seek a core now. *)
LEMMA PeakGrows ==
  ASSUME IInv, NEW t \in Threads, Seek(t)
  PROVE  /\ peak' \in Nat /\ peak <= peak' /\ peak' <= Cardinality(Threads)
         /\ Cardinality(Holding \cup {t}) <= peak'
<1>1. Holding \cup {t} \in SUBSET Threads
  BY DEF Holding
<1>2. /\ Cardinality(Holding \cup {t}) \in Nat
      /\ Cardinality(Holding \cup {t}) <= Cardinality(Threads)
  BY <1>1, SubsetCard
<1>3. peak \in Nat /\ peak <= Cardinality(Threads)
  BY DEF IInv, Types, ArenaInv
<1> QED
  BY <1>2, <1>3, MaxOfTwo DEF Seek

(* A free core is taken from the top of the stack. *)
LEMMA TakeFreeStep ==
  ASSUME IInv, ~failed, NEW t \in Threads, FindFreeAB(t), ab[t] = NULL, free_abs # << >>
  PROVE  ApartInv' /\ ArenaInv' /\ CountInv'
<1>0. /\ pc \in [Threads -> Labels] /\ core \in [Threads -> Places \cup {NULL}]
      /\ pc[t] = "find" /\ pc' = [pc EXCEPT ![t] = "init"] /\ ab' = ab
      /\ core' = [core EXCEPT ![t] = Head(free_abs)] /\ free_abs' = Tail(free_abs)
      /\ UNCHANGED << current, failed >>
  BY DEF IInv, Types, FindFreeAB, Goto
<1>1. /\ free_abs \in Seq(Places) /\ free_abs' \in Seq(Places)
      /\ 1 \in DOMAIN free_abs /\ Head(free_abs) = free_abs[1]
      /\ \A i \in DOMAIN free_abs' :
           /\ i + 1 \in DOMAIN free_abs /\ i \in Nat /\ i + 1 # 1
           /\ free_abs'[i] = free_abs[i + 1]
      /\ Len(free_abs) \in Nat /\ Len(free_abs') = Len(free_abs) - 1
  BY <1>0 DEF IInv, ApartInv
<1>2. ~Owns(t) /\ Owners' = Owners \cup {t} /\ Seekers' = Seekers
  BY <1>0 DEF Owners, Owns, Seekers
<1>3. Held(t)' = free_abs[1] /\ \A u \in Owners : u # t /\ Held(u)' = Held(u)
  BY <1>0, <1>1, <1>2 DEF Held, Owners
<1>4. ApartInv
  BY DEF IInv
<1>5. ApartInv'
  <2>1. \A i \in DOMAIN free_abs' : free_abs'[i] < current
    BY <1>1, <1>4 DEF ApartInv
  <2>2. \A i, j \in DOMAIN free_abs' : free_abs'[i] = free_abs'[j] => i = j
    <3> SUFFICES ASSUME NEW i \in DOMAIN free_abs', NEW j \in DOMAIN free_abs',
                        free_abs'[i] = free_abs'[j]
                 PROVE  i = j
      OBVIOUS
    <3>1. i + 1 = j + 1
      BY <1>1, <1>4 DEF ApartInv
    <3> QED
      BY <3>1, <1>1
  <2>3. ASSUME NEW u \in Owners'
        PROVE  Held(u)' < current /\ \A i \in DOMAIN free_abs' : free_abs'[i] # Held(u)'
    <3>1. CASE u = t
      <4>1. free_abs[1] < current /\ \A i \in DOMAIN free_abs' : free_abs[i + 1] # free_abs[1]
        BY <1>1, <1>4 DEF ApartInv
      <4> QED
        BY <3>1, <4>1, <1>1, <1>3
    <3>2. CASE u \in Owners
      BY <3>2, <1>1, <1>3, <1>4 DEF ApartInv
    <3> QED
      BY <3>1, <3>2, <1>2
  <2>4. \A u, v \in Owners' : Held(u)' = Held(v)' => u = v
    BY <1>1, <1>2, <1>3, <1>4 DEF ApartInv
  <2> QED
    BY <1>0, <1>1, <2>1, <2>2, <2>3, <2>4 DEF ApartInv
<1>6. ArenaInv'
  <2>1. Owners \in SUBSET Threads /\ Owners' \in SUBSET Threads /\ Seekers \in SUBSET Threads
    BY DEF Owners, Seekers
  <2>2. Cardinality(Owners') = Cardinality(Owners) + 1 /\ Cardinality(Owners) \in Nat
    BY <1>2, <2>1, OneMore, SubsetCard DEF Owners
  <2>3. Cores' = Cores
    BY <1>1, <2>2 DEF Cores
  <2>4. peak' \in Nat /\ peak <= peak' /\ peak' <= Cardinality(Threads)
    BY PeakGrows DEF FindFreeAB
  <2>5. Cores + Cardinality(Seekers) \in Nat /\ peak \in Nat
    BY <1>1, <2>1, <2>2, SubsetCard DEF Cores, IInv, Types
  <2>6. /\ current \in Places /\ current = Cores * CoreSize
        /\ Cores + Cardinality(Seekers) <= peak
    BY DEF IInv, ArenaInv
  <2>7. Cores + Cardinality(Seekers) <= peak'
    BY <2>4, <2>5, <2>6
  <2> QED
    BY <1>0, <1>2, <2>3, <2>4, <2>6, <2>7 DEF ArenaInv
<1> QED
  BY <1>5, <1>6, CoreMovesCount

(* No core is free, so every core has an owner and the peak counts them.   *)
LEMMA SeekStep ==
  ASSUME IInv, ~failed, NEW t \in Threads, FindFreeAB(t), ab[t] = NULL, free_abs = << >>
  PROVE  ApartInv' /\ ArenaInv' /\ CountInv'
<1>0. /\ pc \in [Threads -> Labels]
      /\ pc[t] = "find" /\ pc' = [pc EXCEPT ![t] = "alloc"]
      /\ UNCHANGED << current, failed, ab, core, free_abs >>
  BY DEF IInv, Types, FindFreeAB, Goto
<1>1. /\ \A u \in Threads : (Owns(u)' <=> Owns(u)) /\ (Owns(u) => Held(u)' = Held(u))
      /\ t \notin Seekers /\ Seekers' = Seekers \cup {t} /\ ~Owns(t)
  BY <1>0 DEF Owns, Held, Seekers
<1>2. ApartInv'
  BY <1>0, <1>1, ApartSame
<1>3. ArenaInv'
  <2>1. /\ Owners \in SUBSET Threads /\ Seekers \in SUBSET Threads /\ Seekers' \in SUBSET Threads
        /\ Owners' = Owners
    BY <1>1 DEF Owners, Seekers
  <2>2. /\ IsFiniteSet(Owners) /\ IsFiniteSet(Seekers') /\ Cardinality(Owners) \in Nat
        /\ Cardinality(Seekers') \in Nat
    BY <2>1, SubsetCard
  <2>3. Owners \cap Seekers' = {} /\ Holding \cup {t} = Owners \cup Seekers'
    BY <1>0, <1>1 DEF Owners, Owns, Seekers, Holding
  <2>4. Cardinality(Owners \cup Seekers') = Cardinality(Owners) + Cardinality(Seekers')
    <3>1. Cardinality(Owners \cap Seekers') = 0
      BY <2>3, FS_EmptySet
    <3>2. Cardinality(Owners \cup Seekers')
            = Cardinality(Owners) + Cardinality(Seekers') - Cardinality(Owners \cap Seekers')
      BY <2>2, FS_Union
    <3> QED
      BY <2>2, <3>1, <3>2
  <2>5. /\ peak' \in Nat /\ peak' <= Cardinality(Threads)
        /\ Cardinality(Holding \cup {t}) <= peak'
    BY PeakGrows DEF FindFreeAB
  <2>6. Cores = Cardinality(Owners) /\ Cores' = Cores
    BY <1>0, <2>1, <2>2 DEF Cores
  <2>7. current \in Places /\ current = Cores * CoreSize
    BY DEF IInv, ArenaInv
  <2>8. Cores' + Cardinality(Seekers') <= peak'
    BY <2>3, <2>4, <2>5, <2>6
  <2> QED
    BY <1>0, <2>5, <2>6, <2>7, <2>8 DEF ArenaInv
<1> QED
  BY <1>2, <1>3, CoreMovesCount

(* A new core of the arena lies beyond all others; or the arena is full,   *)
(* and there were as many threads at a time.                               *)
LEMMA AllocateStep ==
  ASSUME IInv, ~failed, NEW t \in Threads, AllocateCore(t)
  PROVE  ApartInv' /\ ArenaInv' /\ CountInv'
<1>0. /\ pc \in [Threads -> Labels] /\ core \in [Threads -> Places \cup {NULL}]
      /\ pc[t] = "alloc" /\ current' = current + CoreSize
      /\ UNCHANGED << ab, free_abs, peak >>
  BY DEF IInv, Types, AllocateCore
<1>1. /\ current \in Places /\ current = Cores * CoreSize
      /\ Cores + Cardinality(Seekers) <= peak /\ peak <= Cardinality(Threads)
  BY DEF IInv, ArenaInv
<1>2. /\ Owners \in SUBSET Threads /\ Seekers \in SUBSET Threads /\ t \in Seekers
      /\ free_abs \in Seq(Places)
  BY <1>0 DEF Owners, Seekers, IInv, ApartInv
<1>3. /\ Cardinality(Owners) \in Nat /\ Cardinality(Seekers) \in Nat /\ Len(free_abs) \in Nat
      /\ Cores \in Nat /\ peak \in Nat /\ CoreSize \in Nat \ {0} /\ LabSpace \in Nat
      /\ current \in Nat /\ Cardinality(Threads) \in Nat
  BY <1>1, <1>2, SubsetCard, PlaceFacts, NumbersAssumption, ThreadsFinite DEF Cores, IInv, Types
<1>4. Cardinality(Seekers) # 0
  BY <1>2, OneLess
<1>5. Cores + 1 <= peak
  BY <1>1, <1>3, <1>4
<1>6. current' = (Cores + 1) * CoreSize /\ current' <= peak * CoreSize
  <2>1. (Cores + 1) * CoreSize = Cores * CoreSize + CoreSize
    BY <1>3
  <2>2. (Cores + 1) * CoreSize <= peak * CoreSize
    BY <1>3, <1>5
  <2> QED
    BY <2>1, <2>2, <1>0, <1>1
<1>7. current' \in Places /\ current < current'
  <2>1. Cores + 1 \in 0 .. Cardinality(Threads)
    BY <1>1, <1>3, <1>5
  <2>2. (Cores + 1) * CoreSize \in Places
    BY <2>1, PlaceFacts
  <2> QED
    BY <2>2, <1>0, <1>3, <1>6
<1>8. ApartInv
  BY DEF IInv
<1>9. \A x \in Places : x < current => x < current'
  BY <1>0, <1>3, PlaceFacts
<1>10. \A u \in Owners : Held(u) \in Places
  BY DEF Owners, Owns, Held, IInv, Types, ThreadInv
<1>11. \A i \in DOMAIN free_abs : free_abs[i] \in Places
  BY <1>2
<1>12. CASE OutOfMemory(current)
  <2>1. failed' /\ core' = core /\ pc' = pc
    BY <1>12 DEF AllocateCore
  <2>2. current + CoreSize >= LabSpace
    BY <1>12 DEF OutOfMemory
  <2>3. peak * CoreSize \in Nat
    BY <1>3
  <2>4. LabSpace <= peak * CoreSize
    BY <2>2, <2>3, <1>0, <1>3, <1>6
  <2>5. ArenaInv'
    BY <2>1, <2>4, <1>0, <1>1, <1>6, <1>7 DEF ArenaInv
  <2>6. Owners' = Owners /\ \A u \in Owners : Held(u)' = Held(u)
    BY <2>1, <1>0 DEF Owners, Owns, Held
  <2>7. ApartInv'
    BY <2>6, <1>0, <1>8, <1>9, <1>10, <1>11 DEF ApartInv
  <2> QED
    BY <2>5, <2>7, CoreMovesCount
<1>13. CASE ~OutOfMemory(current)
  <2>1. /\ failed' = failed /\ core' = [core EXCEPT ![t] = current]
        /\ pc' = [pc EXCEPT ![t] = "init"]
    BY <1>13 DEF AllocateCore, Goto
  <2>2. /\ t \notin Owners /\ Owners' = Owners \cup {t}
        /\ Seekers' = Seekers \ {t}
    BY <2>1, <1>0 DEF Owners, Owns, Seekers
  <2>3. Held(t)' = current /\ \A u \in Owners : Held(u)' = Held(u)
    BY <2>1, <2>2, <1>0 DEF Held, Owners
  <2>4. ApartInv'
    <3>1. \A i \in DOMAIN free_abs : free_abs[i] # current /\ free_abs[i] < current'
      BY <1>3, <1>8, <1>9, <1>11, PlaceFacts DEF ApartInv
    <3>2. \A u \in Owners : Held(u) # current /\ Held(u) < current'
      BY <1>3, <1>8, <1>9, <1>10, PlaceFacts DEF ApartInv
    <3>3. ASSUME NEW u \in Owners'
          PROVE  Held(u)' < current' /\ \A i \in DOMAIN free_abs : free_abs[i] # Held(u)'
      BY <3>1, <3>2, <2>2, <2>3, <1>7, <1>8 DEF ApartInv
    <3>4. \A u, v \in Owners' : Held(u)' = Held(v)' => u = v
      BY <3>2, <2>2, <2>3, <1>8 DEF ApartInv
    <3> QED
      BY <3>1, <3>3, <3>4, <1>0, <1>2, <1>8 DEF ApartInv
  <2>5. ArenaInv'
    <3>1. Owners' \in SUBSET Threads /\ Seekers' \in SUBSET Threads
      BY DEF Owners, Seekers
    <3>2. Cardinality(Owners') = Cardinality(Owners) + 1
      BY <3>1, <2>2, <1>2, OneMore
    <3>3. Cardinality(Seekers') = Cardinality(Seekers) - 1
      BY <3>1, <2>2, <1>2, OneLess
    <3>4. Cores' = Cores + 1
      BY <3>2, <1>0, <1>3 DEF Cores
    <3>5. Cores' + Cardinality(Seekers') <= peak
      BY <3>3, <3>4, <1>1, <1>3
    <3> QED
      BY <3>4, <3>5, <2>1, <1>0, <1>1, <1>6, <1>7 DEF ArenaInv
  <2> QED
    BY <2>4, <2>5, CoreMovesCount
<1> QED
  BY <1>12, <1>13

(* The core of an ending thread goes to the top of the stack. *)
LEMMA PushCoreStep ==
  ASSUME IInv, ~failed, NEW t \in Threads, PushCore(t)
  PROVE  ApartInv' /\ ArenaInv' /\ CountInv'
<1>0. /\ pc \in [Threads -> Labels] /\ pc[t] = "push" /\ pc' = [pc EXCEPT ![t] = "clear"]
      /\ free_abs' = Cons(ab[t], free_abs)
      /\ UNCHANGED << current, failed, peak, ab, core >>
  BY DEF IInv, Types, PushCore, Goto
<1>1. ab[t] \in Places /\ Owns(t) /\ Held(t) = ab[t]
  BY <1>0 DEF IInv, Types, ThreadInv, Owns, Held
<1>2. ApartInv /\ free_abs \in Seq(Places)
  BY DEF IInv, ApartInv
<1>3. /\ free_abs' \in Seq(Places) /\ Len(free_abs') = Len(free_abs) + 1 /\ Len(free_abs) \in Nat
      /\ \A i \in DOMAIN free_abs' :
           \/ i = 1 /\ free_abs'[i] = ab[t]
           \/ i # 1 /\ i - 1 \in DOMAIN free_abs /\ free_abs'[i] = free_abs[i - 1] /\ i \in Nat
  BY <1>0, <1>1, <1>2 DEF Cons
<1>4. t \in Owners /\ Owners' = Owners \ {t} /\ Seekers' = Seekers
  BY <1>0, <1>1 DEF Owners, Owns, Seekers
<1>5. \A u \in Owners' : Held(u)' = Held(u) /\ u # t /\ u \in Owners
  BY <1>0, <1>4 DEF Held, Owners
<1>6. ApartInv'
  <2>1. ab[t] < current /\ \A i \in DOMAIN free_abs : free_abs[i] # ab[t]
    BY <1>1, <1>2, <1>4 DEF ApartInv
  <2>2. \A i \in DOMAIN free_abs' : free_abs'[i] < current
    BY <2>1, <1>2, <1>3 DEF ApartInv
  <2>3. \A i, j \in DOMAIN free_abs' : free_abs'[i] = free_abs'[j] => i = j
    <3> SUFFICES ASSUME NEW i \in DOMAIN free_abs', NEW j \in DOMAIN free_abs',
                        free_abs'[i] = free_abs'[j]
                 PROVE  i = j
      OBVIOUS
    <3>1. CASE i = 1 \/ j = 1
      BY <3>1, <2>1, <1>3
    <3>2. CASE i # 1 /\ j # 1
      <4>1. i - 1 = j - 1 /\ i \in Nat /\ j \in Nat
        BY <3>2, <1>2, <1>3 DEF ApartInv
      <4> QED
        BY <4>1
    <3> QED
      BY <3>1, <3>2
  <2>4. ASSUME NEW u \in Owners'
        PROVE  Held(u)' < current /\ \A i \in DOMAIN free_abs' : free_abs'[i] # Held(u)'
    <3>1. Held(u) < current /\ Held(u) # ab[t] /\ \A i \in DOMAIN free_abs : free_abs[i] # Held(u)
      BY <1>1, <1>2, <1>4, <1>5 DEF ApartInv
    <3> QED
      BY <3>1, <1>3, <1>5
  <2>5. \A u, v \in Owners' : Held(u)' = Held(v)' => u = v
    BY <1>2, <1>5 DEF ApartInv
  <2> QED
    BY <1>0, <1>3, <2>2, <2>3, <2>4, <2>5 DEF ApartInv
<1>7. ArenaInv'
  <2>1. Owners \in SUBSET Threads /\ Owners' \in SUBSET Threads
    BY DEF Owners
  <2>2. Cardinality(Owners') = Cardinality(Owners) - 1 /\ Cardinality(Owners) \in Nat
    BY <1>4, <2>1, OneLess, SubsetCard
  <2>3. Cores' = Cores
    BY <1>3, <2>2 DEF Cores
  <2> QED
    BY <1>0, <1>4, <2>3 DEF IInv, ArenaInv
<1> QED
  BY <1>6, <1>7, CoreMovesCount

-----------------------------------------------------------------------------
(* Theorems *)

(* The invariant holds at the start. *)
LEMMA InitIInv == Init => IInv
<1> SUFFICES ASSUME Init
             PROVE  IInv
  OBVIOUS
<1>0. /\ Main \in Threads /\ 0 \in Places /\ 0 \in 0 .. MaxLost
      /\ \A t \in Threads : ab[t] = NULL /\ core[t] = NULL
      /\ \A t \in Threads : pc[t] = IF t = Main THEN "run" ELSE "unborn"
  BY ThreadsAssumption, NumbersAssumption, PlaceFacts DEF Init
<1>1. Types
  <2>1. id \in [Places -> Ids \cup {kTerminated}] /\ lost \in 0 .. MaxLost
    BY <1>0 DEF Init
  <2>2. /\ pc \in [Threads -> Labels] /\ core \in [Threads -> Places \cup {NULL}]
        /\ ab \in [Threads -> Places \cup {NULL}]
    BY DEF Init, Labels
  <2>3. refcount \in 0 .. 2 /\ peak \in Nat
    BY DEF Init
  <2>4. guarded \in BOOLEAN /\ args \subseteq Threads /\ failed \in BOOLEAN
    BY Zenon DEF Init
  <2> QED
    BY <2>1, <2>2, <2>3, <2>4 DEF Types
<1>2. StartInv
  BY <1>0 DEF Init, StartInv
<1>3. ThreadInv
  BY <1>0 DEF Init, ThreadInv, Driving
<1>4. \A t \in Threads : ~Owns(t) /\ ~IsNamed(t) /\ ~IsAnnounced(t) /\ pc[t] # "alloc"
  BY <1>0 DEF Owns, IsNamed, IsAnnounced
<1>5. Owners = {} /\ Seekers = {} /\ Named = {} /\ Announced = {}
  BY <1>4 DEF Owners, Seekers, Named, Announced
<1>6. free_abs = << >> /\ issued = << >> /\ Len(free_abs) = 0 /\ Len(issued) = 0
  BY DEF Init
<1>7. Cardinality({}) = 0
  BY FS_EmptySet
<1>8. ApartInv /\ InsideInv
  <2>1. free_abs \in Seq(Places) /\ DOMAIN free_abs = {}
    BY <1>6
  <2> QED
    BY <1>0, <1>5, <2>1 DEF ApartInv, InsideInv
<1>9. ArenaInv
  <2>1. Cores = 0 /\ 0 * CoreSize = 0 /\ Cardinality(Threads) \in Nat
    BY <1>5, <1>6, <1>7, NumbersAssumption, ThreadsFinite DEF Cores
  <2>2. current = 0 /\ peak = 0 /\ failed = FALSE
    BY DEF Init
  <2> QED
    BY <1>0, <1>5, <1>7, <2>1, <2>2 DEF ArenaInv
<1>10. CountInv
  <2>1. issued \in Seq(Ids) /\ DOMAIN issued = {}
    BY <1>6
  <2>2. current_threads = 0 /\ thread_ids = 0
    BY DEF Init
  <2> QED
    BY <1>5, <1>6, <1>7, <2>1, <2>2 DEF CountInv
<1> QED
  BY <1>1, <1>2, <1>3, <1>8, <1>9, <1>10 DEF IInv

(* Every step preserves it. *)
LEMMA NextIInv == IInv /\ [Next]_vars => IInv'
<1> SUFFICES ASSUME IInv, [Next]_vars
             PROVE  IInv'
  OBVIOUS
<1>1. Types' /\ StartInv' /\ ThreadInv' /\ InsideInv'
  BY TypesStep, StartStep, ThreadStep, InsideStep
<1>2. CASE UNCHANGED vars
  <2>1. \A u \in Threads :
          /\ Owns(u)' <=> Owns(u)
          /\ Owns(u) => Held(u)' = Held(u)
          /\ pc'[u] = "alloc" <=> pc[u] = "alloc"
          /\ IsNamed(u)' <=> IsNamed(u)
          /\ IsAnnounced(u)' <=> IsAnnounced(u)
    BY <1>2 DEF vars, Owns, Held, IsNamed, IsAnnounced
  <2>2. ApartInv' /\ ArenaInv' /\ CountInv'
    BY <1>2, <2>1, ApartSame, ArenaSame, CountSame DEF vars, shared
  <2> QED
    BY <1>1, <2>2 DEF IInv
<1>3. CASE Next
  <2>1. PICK t \in Threads : Step(t) \/ Choose(t)
    BY <1>3 DEF Next
  <2>2. ~failed
    BY <2>1 DEF Step, Choose
  <2>3. FindFreeAB(t) => ab[t] = NULL
    BY DEF FindFreeAB, IInv, ThreadInv
  <2>4. ApartInv' /\ ArenaInv' /\ CountInv'
    BY <2>1, <2>2, <2>3, MoveStep, InitCoreStep, AnnounceNewStep, AnnounceLeavingStep,
       TakeFreeStep, SeekStep, AllocateStep, PushCoreStep DEF Step, Choose
  <2> QED
    BY <1>1, <2>4 DEF IInv
<1> QED
  BY <1>2, <1>3

(* The invariant holds of every behaviour, whatever the program does. *)
THEOREM LabInvariant == Spec => []IInv
BY InitIInv, NextIInv, PTL DEF Spec

(* Addresses are those of cores, and no counter exceeds what it counts. *)
THEOREM LabTypes == Spec => []TypeOK
<1>1. IInv => TypeOK
  <2> SUFFICES ASSUME IInv
               PROVE  TypeOK
    OBVIOUS
  <2>1. Named \in SUBSET Threads /\ Announced \in SUBSET Threads
    BY DEF Named, Announced
  <2>2. thread_ids \in 0 .. Cardinality(Threads) /\ current_threads \in 0 .. Cardinality(Threads)
    <3>1. thread_ids = Cardinality(Named) /\ current_threads = Cardinality(Announced)
      BY DEF IInv, CountInv
    <3>2. /\ Cardinality(Named) \in Nat /\ Cardinality(Named) <= Cardinality(Threads)
          /\ Cardinality(Announced) \in Nat /\ Cardinality(Announced) <= Cardinality(Threads)
          /\ Cardinality(Threads) \in Nat
      BY <2>1, SubsetCard, ThreadsFinite
    <3> QED
      BY <3>1, <3>2
  <2>3. \A i \in DOMAIN free_abs : free_abs[i] \in Places
    BY DEF IInv, ApartInv
  <2>4. \A i \in DOMAIN issued : issued[i] \in Ids
    BY DEF IInv, CountInv
  <2>5. inits \in Nat
    BY DEF IInv, StartInv
  <2>6. current \in Places
    BY DEF IInv, ArenaInv
  <2>7. Types
    BY DEF IInv
  <2> QED
    BY <2>2, <2>3, <2>4, <2>5, <2>6, <2>7 DEF TypeOK, Types
<1> QED
  BY <1>1, LabInvariant, PTL

(* Whether malloc or the guard of glue.cc comes first, ScallocInit runs     *)
(* once, and before any other thread exists.                               *)
THEOREM LabInitOnce == Spec => []InitOnce
<1>1. IInv => InitOnce
  BY DEF IInv, StartInv, InitOnce
<1> QED
  BY <1>1, LabInvariant, PTL

(* lab.h takes a new core only when as many threads have or seek one as    *)
(* there are cores, so the arena is as large as the peak of threads.       *)
THEOREM LabCoresReused == Spec => []CoresReused
<1>1. IInv => CoresReused
  <2> SUFFICES ASSUME IInv
               PROVE  CoresReused
    OBVIOUS
  <2>1. Owners \in SUBSET Threads /\ Seekers \in SUBSET Threads /\ free_abs \in Seq(Places)
    BY DEF Owners, Seekers, IInv, ApartInv
  <2>2. /\ Cardinality(Owners) \in Nat /\ Cardinality(Seekers) \in Nat /\ Len(free_abs) \in Nat
        /\ Cores \in Nat /\ peak \in Nat /\ CoreSize \in Nat
    BY <2>1, SubsetCard, NumbersAssumption DEF Cores, IInv, Types
  <2>3. current <= peak * CoreSize
    <3>1. CASE failed
      BY <3>1 DEF IInv, ArenaInv
    <3>2. CASE ~failed
      <4>1. current = Cores * CoreSize /\ Cores + Cardinality(Seekers) <= peak
        BY <3>2 DEF IInv, ArenaInv
      <4>2. Cores <= peak
        BY <4>1, <2>2
      <4>3. Cores * CoreSize <= peak * CoreSize
        BY <4>2, <2>2
      <4> QED
        BY <4>1, <4>3
    <3> QED
      BY <3>1, <3>2
  <2>4. failed => peak * CoreSize >= LabSpace
    BY <2>2, NumbersAssumption DEF IInv, ArenaInv
  <2>5. \A t \in Threads : ab[t] # NULL => ab[t] + CoreSize < LabSpace
    BY DEF IInv, InsideInv
  <2> QED
    BY <2>3, <2>4, <2>5 DEF CoresReused
<1> QED
  BY <1>1, LabInvariant, PTL

(* current_threads_ of the span pool is the number of threads that were    *)
(* announced and have not left.                                            *)
THEOREM LabThreadsCounted == Spec => []ThreadsCounted
<1>1. IInv => ThreadsCounted
  BY DEF IInv, CountInv, Announced, IsAnnounced, ThreadsCounted
<1> QED
  BY <1>1, LabInvariant, PTL

(* In a program whose constructors call malloc before they call anything   *)
(* else and whose thread keys free nothing, every call finds a core, which *)
(* is no other thread's.                                                   *)
THEOREM LabHasBuffer == ~EarlyCalls /\ ~LateCalls /\ Spec => []HasBuffer
<1> SUFFICES ASSUME ~EarlyCalls, ~LateCalls
             PROVE  Spec => []HasBuffer
  OBVIOUS
<1>1. IInv => HasBuffer
  <2> SUFFICES ASSUME IInv, NEW t \in Threads, Uses(t)
               PROVE  /\ ab[t] # NULL
                      /\ id[ab[t]].core = ab[t]
                      /\ \A u \in Threads \ {t} : Uses(u) => ab[u] # ab[t]
    BY DEF HasBuffer
  <2>1. ASSUME NEW u \in Threads, Uses(u)
        PROVE  u \in Driving
    BY <2>1 DEF IInv, ThreadInv, Types, Uses, Driving
  <2>2. ab[t] # NULL /\ id[ab[t]].core = ab[t]
    BY <2>1 DEF IInv, ThreadInv, Driving
  <2>3. ASSUME NEW u \in Threads, u # t, Uses(u)
        PROVE  ab[u] # ab[t]
    <3>1. Owns(u) /\ Held(u) = ab[u] /\ Owns(t) /\ Held(t) = ab[t]
      BY <2>1, <2>3, DrivingOwns
    <3> QED
      BY <2>3, <3>1, OwnersApart
  <2> QED
    BY <2>2, <2>3
<1> QED
  BY <1>1, LabInvariant, PTL

-----------------------------------------------------------------------------
(* Cores are leased. *)

(* A step at which nobody starts or stops driving a core *)
LEMMA LeasesSame ==
  ASSUME IInv, issued' = issued, id' = id,
         \A u \in Threads :
           /\ u \in Driving' <=> u \in Driving
           /\ u \in Driving => ab'[u] = ab[u]
  PROVE  UNCHANGED << Leases, issued >>
BY DEF Leases

(* InitCore gives out an identity that is no recent one, for a core that   *)
(* nobody drives.                                                          *)
LEMMA InitCoreLeases ==
  ASSUME IInv, NEW t \in Threads, InitCore(t)
  PROVE  Lease!Acquire(t, Leases'[t])
<1> DEFINE i == CoreId(core[t], NewTag(thread_ids))
<1>0. /\ pc \in [Threads -> Labels] /\ ab \in [Threads -> Places \cup {NULL}]
      /\ id \in [Places -> Ids \cup {kTerminated}]
      /\ core[t] # NULL /\ core[t] \in Places /\ pc[t] = "init"
      /\ pc' = [pc EXCEPT ![t] = "announce"] /\ ab' = [ab EXCEPT ![t] = core[t]]
      /\ id' = [id EXCEPT ![core[t]] = i] /\ issued' = Append(issued, i)
  BY DEF IInv, Types, ThreadInv, InitCore, Goto
<1>1. i.core = core[t] /\ kTerminated.core = NULL
  BY DEF CoreId, kTerminated
<1>2. i.tag = (thread_ids + 1) % TagSize
  BY DEF CoreId, NewTag
<1> HIDE DEF i
<1>3. ASSUME NEW u \in Threads, u \in Driving
      PROVE  u # t /\ ab[u] \in Places /\ ab[u] # core[t] /\ id[ab[u]].core = ab[u]
  <2>1. u # t
    BY <1>0, <1>3 DEF Driving
  <2>2. Owns(t) /\ Held(t) = core[t]
    BY <1>0 DEF Owns, Held
  <2> QED
    BY <1>3, <2>1, <2>2, DrivingOwns, OwnersApart
<1>4. Leases[t] = kTerminated
  BY <1>0 DEF Leases, Driving
<1>5. Leases' = [Leases EXCEPT ![t] = i]
  <2>1. t \in Driving' /\ id'[ab'[t]] = i
    BY <1>0 DEF Driving
  <2>2. ASSUME NEW u \in Threads, u # t
        PROVE  /\ u \in Driving' <=> u \in Driving
               /\ u \in Driving => id'[ab'[u]] = id[ab[u]]
    <3>1. pc'[u] = pc[u] /\ ab'[u] = ab[u]
      BY <1>0, <2>2
    <3> QED
      BY <1>0, <1>3, <3>1 DEF Driving
  <2> QED
    BY <2>1, <2>2 DEF Leases
<1>6. Leases'[t] = i
  BY <1>5 DEF Leases
<1>7. i # kTerminated
  BY <1>0, <1>1
<1>8. i.core \notin Lease!Driven
  <2> SUFFICES ASSUME NEW u \in Threads, Leases[u] # kTerminated
               PROVE  Leases[u].core # i.core
    BY DEF Lease!Driven
  <2>1. u \in Driving /\ Leases[u] = id[ab[u]]
    BY DEF Leases
  <2> QED
    BY <2>1, <1>1, <1>3
<1>9. i \notin Lease!Recent
  <2> SUFFICES ASSUME NEW k \in DOMAIN issued, Len(issued) - k + 1 < TagSize
               PROVE  issued[k].tag # i.tag
    BY DEF Lease!Recent
  <2>1. /\ issued \in Seq(Ids) /\ Len(issued) = thread_ids /\ issued[k].tag = k % TagSize
        /\ DOMAIN issued = 1 .. Len(issued) /\ Len(issued) \in Nat
    BY DEF IInv, CountInv
  <2>2. /\ thread_ids + 1 \in Nat /\ k \in Nat /\ k < thread_ids + 1
        /\ (thread_ids + 1) - k < TagSize /\ TagSize \in Nat \ {0}
    BY <2>1, NumbersAssumption
  <2>3. (thread_ids + 1) % TagSize # k % TagSize
    BY <2>2, TagsDiffer
  <2> QED
    BY <2>1, <2>3, <1>2
<1> QED
  BY <1>0, <1>4, <1>5, <1>6, <1>7, <1>8, <1>9 DEF Lease!Acquire

(* Destroy ends the lease of its thread and no other. *)
LEMMA DestroyReleases ==
  ASSUME IInv, NEW t \in Threads, Destroy(t)
  PROVE  Lease!Release(t)
<1>0. /\ pc \in [Threads -> Labels] /\ ab \in [Threads -> Places \cup {NULL}]
      /\ id \in [Places -> Ids \cup {kTerminated}]
      /\ ab[t] # NULL /\ ab[t] \in Places /\ pc[t] = "destroy"
      /\ pc' = [pc EXCEPT ![t] = "leave"] /\ ab' = ab
      /\ id' = [id EXCEPT ![ab[t]] = kTerminated] /\ issued' = issued
  BY DEF IInv, Types, ThreadInv, Destroy, Goto
<1>1. t \in Driving
  BY <1>0 DEF Driving
<1>2. Leases[t] # kTerminated
  BY <1>1, DrivingOwns DEF Leases
<1>3. ASSUME NEW u \in Threads, u # t
      PROVE  /\ u \in Driving' <=> u \in Driving
             /\ u \in Driving => id'[ab'[u]] = id[ab[u]]
  <2>1. pc'[u] = pc[u]
    BY <1>0, <1>3
  <2>2. u \in Driving => ab[u] # ab[t]
    BY <1>1, <1>3, DrivingOwns, OwnersApart
  <2> QED
    BY <1>0, <2>1, <2>2, DrivingOwns DEF Driving
<1>4. t \notin Driving'
  BY <1>0 DEF Driving
<1>5. Leases' = [Leases EXCEPT ![t] = kTerminated]
  BY <1>3, <1>4 DEF Leases
<1> QED
  BY <1>0, <1>2, <1>5 DEF Lease!Release

(* Every step is a step of CoreLease or changes no lease. *)
LEMMA LeaseStep ==
  ASSUME IInv, [Next]_vars
  PROVE  [Lease!Next]_<< Leases, issued >>
<1>0. /\ pc \in [Threads -> Labels] /\ ab \in [Threads -> Places \cup {NULL}]
      /\ StartInv /\ ThreadInv
  BY DEF IInv, Types
<1>1. CASE UNCHANGED vars
  BY <1>1, LeasesSame DEF vars, shared, Driving
<1>2. ASSUME NEW t \in Threads, InitCore(t)
      PROVE  Lease!Next
  BY <1>2, InitCoreLeases DEF Lease!Next
<1>3. ASSUME NEW t \in Threads, Destroy(t)
      PROVE  Lease!Next
  BY <1>3, DestroyReleases DEF Lease!Next
<1>4. ASSUME NEW t \in Threads, AtExit(t) \/ scalloc_thread_start(t) \/ Exit(t)
      PROVE  UNCHANGED << Leases, issued >>
  <2>1. ab[t] # NULL
    BY <1>0, <1>4 DEF AtExit, scalloc_thread_start, Exit, StartInv, ThreadInv
  <2>2. /\ ab' = ab /\ id' = id /\ issued' = issued
        /\ \/ pc[t] \in {"atexit", "delete"} /\ pc' = [pc EXCEPT ![t] = "run"]
           \/ pc[t] = "run" /\ pc' = [pc EXCEPT ![t] = "destroy"]
    BY <1>4, <2>1 DEF AtExit, scalloc_thread_start, Exit, Goto, shared
  <2> QED
    BY <1>0, <2>1, <2>2, LeasesSame DEF Driving
<1>5. ASSUME NEW t \in Threads, FindFreeAB(t) \/ AllocateCore(t)
      PROVE  UNCHANGED << Leases, issued >>
  <2>1. ab[t] = NULL
    BY <1>0, <1>5 DEF FindFreeAB, AllocateCore, ThreadInv
  <2>2. /\ ab' = ab /\ id' = id /\ issued' = issued
        /\ pc' = pc \/ \E l \in {"alloc", "init"} : pc' = [pc EXCEPT ![t] = l]
    BY <1>5, <2>1 DEF FindFreeAB, AllocateCore, Goto
  <2> QED
    BY <1>0, <2>1, <2>2, LeasesSame DEF Driving
<1>6. ASSUME NEW t \in Threads, AnnounceNewThread(t)
      PROVE  UNCHANGED << Leases, issued >>
  <2>1. /\ ab' = ab /\ id' = id /\ issued' = issued /\ pc[t] = "announce"
        /\ \E l \in {"atexit", "delete"} : pc' = [pc EXCEPT ![t] = l]
    BY <1>6 DEF AnnounceNewThread, Goto
  <2> QED
    BY <1>0, <2>1, LeasesSame DEF Driving
<1>7. ASSUME NEW t \in Threads,
             AnnounceLeavingThread(t) \/ PushCore(t) \/ ClearTLS(t) \/ End(t)
      PROVE  UNCHANGED << Leases, issued >>
  <2>1. /\ ab' = ab \/ ab' = [ab EXCEPT ![t] = NULL]
        /\ id' = id /\ issued' = issued /\ pc[t] \in {"leave", "push", "clear", "late"}
        /\ \E l \in {"push", "clear", "late", "dead"} : pc' = [pc EXCEPT ![t] = l]
    BY <1>7 DEF AnnounceLeavingThread, PushCore, ClearTLS, End, Goto, shared
  <2> QED
    BY <1>0, <2>1, LeasesSame DEF Driving
<1>8. ASSUME NEW t \in Threads, mallocFirst(t) \/ ScallocGuard(t)
      PROVE  UNCHANGED << Leases, issued >>
  <2>1. refcount = 0 => ab[t] = NULL
    BY <1>8, FirstIsMain DEF mallocFirst, ScallocGuard
  <2>2. /\ ab' = ab /\ id' = id /\ issued' = issued
        /\ pc' = pc \/ (refcount = 0 /\ pc' = [pc EXCEPT ![t] = "find"])
    BY <1>8 DEF mallocFirst, ScallocGuard, ScallocInit, Goto
  <2> QED
    BY <1>0, <2>1, <2>2, LeasesSame DEF Driving
<1>9. ASSUME NEW t \in Threads, pthread_createFails(t)
      PROVE  UNCHANGED << Leases, issued >>
  BY <1>9, LeasesSame DEF pthread_createFails, Driving
<1>10. ASSUME NEW t \in Threads, NEW u \in Threads, pthread_create(t, u)
       PROVE  UNCHANGED << Leases, issued >>
  BY <1>0, <1>10, LeasesSame DEF pthread_create, Goto, Driving
<1> QED
  BY <1>1, <1>2, <1>3, <1>4, <1>5, <1>6, <1>7, <1>8, <1>9, <1>10 DEF Next, Step, Choose

(* lab.h, glue.cc and pthread_intercept.cc lease cores as CoreLease says:  *)
(* never one core to two threads, and never again an identity that one of  *)
(* the last TagSize - 1 threads had.                                       *)
THEOREM LabLeasesCores == Spec => LeasesCores
<1>1. Init => Lease!Init
  BY DEF Init, Driving, Leases, Lease!Init
<1>2. IInv /\ [Next]_vars => [Lease!Next]_<< Leases, issued >>
  BY LeaseStep
<1> QED
  BY <1>1, <1>2, LabInvariant, PTL DEF Spec, LeasesCores, Lease!Spec

=============================================================================
