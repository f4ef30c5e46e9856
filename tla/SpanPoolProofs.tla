---------------------------- MODULE SpanPoolProofs ----------------------------
(***************************************************************************)
(* The span pool for every number of threads, processors, slots and spans. *)
(*                                                                         *)
(* That limit_ stays in range depends on what a thread knew when it was    *)
(* announced (RaiseInv); that a scan misses no span that stays, on which   *)
(* slots the scan has seen and which backends are ahead of it (ScanInv).   *)
(* A limit that grows puts no backend behind a scan that was ahead of it.  *)
(***************************************************************************)
EXTENDS SpanPool, FiniteSetTheorems, TLAPS

Announced == { t \in Threads : pc[t] # "new" }

(* current_threads_ counts the threads that are announced. *)
CountInv ==
  /\ current = Cardinality(Announced)
  /\ current <= peak

(* A thread that raises the limit raises it to the number of threads that  *)
(* it counted at most.                                                     *)
RaiseInv ==
  \A t \in Threads :
    /\ pc[t] \in {"raise", "raise_swap"} =>
         want[t] <= Cpus /\ want[t] <= HardLimit /\ want[t] <= peak
    /\ pc[t] = "raise_swap" => seen[t] < want[t]

(* The k-th slot that a scan for class sc visits *)
SlotOf(sc, k) == IF k <= Slot(sc) THEN Slot(sc) - k ELSE Slot(sc) + Slots - k

SeenSlot(t, i) == \E k \in 0 .. step[t][1] - 1 : i = SlotOf(want[t], k)

(* A scan that has looked at j backends, counting from start and around    *)
(* below the limit, has yet to come to b.                                  *)
Ahead(t, j, b) == start[t] + j <= b \/ (b < start[t] /\ start[t] + j <= b + limit)

Scanning(t) == pc[t] \in {"slot", "backend", "pop"}

Calling(t) == Scanning(t) \/ pc[t] \in {"own", "push"}

(* A span that stays in the pool is where the scan has yet to look; once   *)
(* it has computed an index, it looks there whatever the limit is.         *)
ScanOf(t) ==
  /\ ~Scanning(t) => step[t] = << 0, 0 >>
  /\ Calling(t) => want[t] \in Classes
  /\ pc[t] \in {"own", "pop", "push"} => at[t] \in Backends /\ at[t] < limit
  /\ pc[t] = "slot" => step[t][2] = 0
  /\ pc[t] \in {"backend", "pop"} => step[t][1] < Slots /\ start[t] < limit
  /\ Scanning(t) => \A s \in stayed[t] : \E i \in 0 .. Slots - 1, b \in Backends :
       /\ s \in pooled[i][b]
       /\ ~SeenSlot(t, i)
       /\ i = SlotOf(want[t], step[t][1]) =>
            /\ pc[t] = "backend" => Ahead(t, step[t][2], b)
            /\ pc[t] = "pop" => b = at[t] \/ Ahead(t, step[t][2] + 1, b)

ScanInv == \A t \in Threads : ScanOf(t)

IInv == TypeOK /\ CountInv /\ LimitInRange /\ PooledInReach /\ RaiseInv /\ ScanInv

-----------------------------------------------------------------------------
(* Arithmetic *)

(* Backend indices are below the limit, hence in the array. *)
LEMMA HomeInRange ==
  ASSUME NEW n \in Nat, NEW l \in Nat, 1 <= l
  PROVE  n % l \in Nat /\ n % l < l
OBVIOUS

(* The next backend of a scan is the only one that is ahead of it before,  *)
(* and not after.                                                          *)
LEMMA NextBackend ==
  ASSUME NEW l \in Nat, NEW r \in Nat, r < l, NEW j \in Nat, j < l, NEW b \in Nat, b < l,
         r + j <= b \/ (b < r /\ r + j <= b + l)
  PROVE  b = (r + j) % l \/ r + (j + 1) <= b \/ (b < r /\ r + (j + 1) <= b + l)
<1>1. CASE r + j = b
  <2>1. b % l = b
    OBVIOUS
  <2> QED
    BY <1>1, <2>1
<1>2. CASE r + j = b + l
  <2>1. (b + l) % l = b
    OBVIOUS
  <2> QED
    BY <1>2, <2>1
<1> QED
  BY <1>1, <1>2

(* A size class has a slot, and the slots of a scan are all of them. *)
LEMMA SlotsReached ==
  ASSUME NEW sc \in Classes
  PROVE  /\ Slot(sc) \in 0 .. Slots - 1
         /\ \A k \in 0 .. Slots - 1 : SlotOf(sc, k) \in 0 .. Slots - 1
         /\ \A i \in 0 .. Slots - 1 : \E k \in 0 .. Slots - 1 : i = SlotOf(sc, k)
<1>1. sc \in Nat /\ Slots \in Nat /\ FineClasses \in Nat /\ Slots > 0 /\ FineClasses > 0
  BY ConstantsAssumption DEF Classes
<1>2. Slot(sc) \in 0 .. Slots - 1
  BY <1>1 DEF Slot, Classes
<1>3. \A k \in 0 .. Slots - 1 : SlotOf(sc, k) \in 0 .. Slots - 1
  BY <1>1, <1>2 DEF SlotOf
<1>4. ASSUME NEW i \in 0 .. Slots - 1
      PROVE  \E k \in 0 .. Slots - 1 : i = SlotOf(sc, k)
  <2>1. CASE i <= Slot(sc)
    <3>1. Slot(sc) - i \in 0 .. Slots - 1 /\ i = SlotOf(sc, Slot(sc) - i)
      BY <1>1, <1>2, <2>1 DEF SlotOf
    <3> QED
      BY <3>1
  <2>2. CASE i > Slot(sc)
    <3>1. /\ Slot(sc) + Slots - i \in 0 .. Slots - 1
          /\ i = SlotOf(sc, Slot(sc) + Slots - i)
      BY <1>1, <1>2, <2>2 DEF SlotOf
    <3> QED
      BY <3>1
  <2> QED
    BY <1>1, <1>2, <2>1, <2>2
<1> QED
  BY <1>2, <1>3, <1>4

-----------------------------------------------------------------------------
(* What steps do to the number of threads *)

LEMMA ThreadsFinite == Cardinality(Threads) \in Nat
BY FS_CardinalityType, ConstantsAssumption

LEMMA CountInRange ==
  ASSUME TypeOK, CountInv
  PROVE  /\ IsFiniteSet(Announced)
         /\ Cardinality(Threads) \in Nat
         /\ \A t \in Threads : pc[t] = "new" => current < Cardinality(Threads)
         /\ \A t \in Threads : pc[t] # "new" => current > 0
<1>1. IsFiniteSet(Announced) /\ Cardinality(Threads) \in Nat
  BY FS_Subset, FS_CardinalityType, ConstantsAssumption DEF Announced
<1>2. ASSUME NEW t \in Threads, pc[t] = "new" PROVE current < Cardinality(Threads)
  <2>1. Announced \cup {t} \subseteq Threads /\ t \notin Announced
    BY <1>2 DEF Announced
  <2>2. Cardinality(Announced \cup {t}) = Cardinality(Announced) + 1
    BY <1>1, <2>1, FS_AddElement
  <2>3. Cardinality(Announced \cup {t}) <= Cardinality(Threads)
    BY <2>1, FS_Subset, ConstantsAssumption
  <2> QED
    BY <1>1, <2>2, <2>3 DEF CountInv, TypeOK
<1>3. ASSUME NEW t \in Threads, pc[t] # "new" PROVE current > 0
  <2>1. t \in Announced
    BY <1>3 DEF Announced
  <2>2. Cardinality(Announced) # 0
    BY <1>1, <2>1, FS_EmptySet
  <2> QED
    BY <2>2 DEF CountInv, TypeOK
<1> QED
  BY <1>1, <1>2, <1>3

(* A thread that was announced stays so. *)
LEMMA CountKept ==
  ASSUME TypeOK, CountInv, NEW t \in Threads, pc[t] # "new", NEW l, l # "new",
         pc' = [pc EXCEPT ![t] = l], UNCHANGED << current, peak >>
  PROVE  CountInv'
<1>1. Announced' = Announced
  BY DEF Announced, TypeOK
<1> QED
  BY <1>1 DEF CountInv

-----------------------------------------------------------------------------
(* What steps do to a scan *)

(* A scan is not disturbed by a step of another thread that takes nothing  *)
(* away but spans that it also strikes off stayed, ...                     *)
LEMMA ScanKept ==
  ASSUME NEW t \in Threads, ScanOf(t), limit' = limit,
         pc'[t] = pc[t], want'[t] = want[t], step'[t] = step[t], start'[t] = start[t],
         at'[t] = at[t], stayed'[t] \subseteq stayed[t],
         \A s \in stayed'[t], i \in 0 .. Slots - 1, b \in Backends :
            s \in pooled[i][b] => s \in pooled'[i][b]
  PROVE  ScanOf(t)'
BY DEF ScanOf, Calling, Scanning, SeenSlot, Ahead, SlotOf

(* ... nor by a limit that grows. *)
LEMMA ScanRaised ==
  ASSUME NEW t \in Threads, TypeOK, ScanOf(t), limit' \in Nat, limit <= limit',
         pc'[t] = pc[t], want'[t] = want[t], step'[t] = step[t], start'[t] = start[t],
         at'[t] = at[t], stayed'[t] = stayed[t], pooled' = pooled
  PROVE  ScanOf(t)'
<1>1. limit \in Nat /\ start[t] \in Nat /\ at[t] \in Nat /\ step[t] \in Nat \X Nat
  BY DEF TypeOK
<1>2. step[t][1] \in Nat /\ step[t][2] \in Nat
  BY <1>1
<1>3. \A b \in Backends : b \in Nat
  BY ConstantsAssumption DEF Backends
<1>4. ASSUME NEW j \in Nat, NEW b \in Backends, Ahead(t, j, b) PROVE Ahead(t, j, b)'
  BY <1>1, <1>3, <1>4 DEF Ahead
<1>5. Scanning(t)' = Scanning(t) /\ Calling(t)' = Calling(t)
  BY DEF Scanning, Calling
<1>6. \A i : SeenSlot(t, i)' = SeenSlot(t, i)
  BY DEF SeenSlot, SlotOf
<1>7. ASSUME Scanning(t), NEW s \in stayed'[t]
      PROVE  \E i \in 0 .. Slots - 1, b \in Backends :
               /\ s \in pooled'[i][b]
               /\ ~SeenSlot(t, i)'
               /\ i = SlotOf(want[t], step[t][1]) =>
                    /\ pc[t] = "backend" => Ahead(t, step[t][2], b)'
                    /\ pc[t] = "pop" => b = at[t] \/ Ahead(t, step[t][2] + 1, b)'
  <2>1. PICK i \in 0 .. Slots - 1, b \in Backends :
               /\ s \in pooled[i][b]
               /\ ~SeenSlot(t, i)
               /\ i = SlotOf(want[t], step[t][1]) =>
                    /\ pc[t] = "backend" => Ahead(t, step[t][2], b)
                    /\ pc[t] = "pop" => b = at[t] \/ Ahead(t, step[t][2] + 1, b)
    BY <1>7 DEF ScanOf
  <2>2. step[t][2] + 1 \in Nat
    BY <1>2
  <2> QED
    BY <1>2, <1>4, <1>6, <1>7, <2>1, <2>2
<1>8. \A i : SlotOf(want[t], step[t][1])' = SlotOf(want[t], step[t][1])
  BY DEF SlotOf
<1> QED
  BY <1>1, <1>5, <1>6, <1>7, <1>8 DEF ScanOf, Ahead

(* A thread that is in no call has nothing to miss. *)
LEMMA ScanIdle ==
  ASSUME NEW t \in Threads, ~Calling(t)', step'[t] = << 0, 0 >>
  PROVE  ScanOf(t)'
BY DEF ScanOf, Calling, Scanning

-----------------------------------------------------------------------------

LEMMA InitIInv == Init => IInv
<1> SUFFICES ASSUME Init PROVE IInv
  OBVIOUS
<1>1. Announced = {First}
  BY ConstantsAssumption DEF Init, Announced
<1>2. Cardinality(Announced) = 1
  BY <1>1, FS_Singleton
<1>3. 1 <= Cardinality(Threads) /\ Cardinality(Threads) \in Nat
  <2>1. {First} \subseteq Threads
    BY ConstantsAssumption
  <2>2. Cardinality({First}) <= Cardinality(Threads) /\ Cardinality(Threads) \in Nat
    BY <2>1, FS_Subset, FS_CardinalityType, ConstantsAssumption
  <2> QED
    BY <1>1, <1>2, <2>2
<1>4. TypeOK
  BY <1>3, ConstantsAssumption DEF Init, TypeOK
<1>5. CountInv
  BY <1>2 DEF Init, CountInv
<1>6. LimitInRange /\ PooledInReach /\ RaiseInv
  BY ConstantsAssumption DEF Init, LimitInRange, PooledInReach, RaiseInv
<1>7. ScanInv
  BY DEF Init, ScanInv, ScanOf, Calling, Scanning
<1> QED
  BY <1>4, <1>5, <1>6, <1>7 DEF IInv

-----------------------------------------------------------------------------
(* Announcements *)

LEMMA AnnounceIInv ==
  ASSUME IInv, NEW t \in Threads, Announce(t)
  PROVE  IInv'
<1> USE DEF IInv, Announce, Goto
<1>1. current < Cardinality(Threads) /\ Cardinality(Threads) \in Nat
  BY CountInRange
<1>2. TypeOK'
  <2>1. /\ current' \in 0 .. Cardinality(Threads)
        /\ peak' \in 1 .. Cardinality(Threads)
        /\ tags' \in Nat /\ tag' \in [Threads -> Nat]
    BY <1>1 DEF TypeOK
  <2>2. want' \in [Threads -> Nat]
    <3>1. current + 1 \in Nat /\ want \in [Threads -> Nat]
      BY <1>1 DEF TypeOK
    <3>2. want' = want \/ want' = [want EXCEPT ![t] = current + 1]
      OBVIOUS
    <3> QED
      BY <3>1, <3>2
  <2>3. pc' \in [Threads -> {"new", "raise", "raise_swap", "ready", "own", "slot",
                             "backend", "pop", "push"}]
    BY DEF TypeOK
  <2> QED
    BY <2>1, <2>2, <2>3 DEF TypeOK, poolVars, scanVars
<1>3. CountInv'
  <2>1. Announced' = Announced \cup {t} /\ t \notin Announced
    BY DEF Announced, TypeOK
  <2>2. Cardinality(Announced') = Cardinality(Announced) + 1
    BY <2>1, CountInRange, FS_AddElement
  <2> QED
    BY <2>2 DEF CountInv, TypeOK
<1>4. LimitInRange' /\ PooledInReach'
  BY DEF LimitInRange, PooledInReach, poolVars, TypeOK
<1>5. RaiseInv'
  <2> SUFFICES ASSUME NEW u \in Threads,
                      pc'[u] \in {"raise", "raise_swap"}
               PROVE  /\ want'[u] <= Cpus /\ want'[u] <= HardLimit /\ want'[u] <= peak'
                      /\ pc'[u] = "raise_swap" => seen'[u] < want'[u]
    BY DEF RaiseInv
  <2>1. /\ Cpus \in Nat /\ HardLimit \in Nat /\ current \in Nat /\ peak \in Nat
        /\ peak' \in Nat /\ want[u] \in Nat
    BY <1>2, ConstantsAssumption, ThreadsFinite DEF TypeOK
  <2>2. peak <= peak' /\ current + 1 <= peak'
    BY <2>1
  <2>3. CASE u = t
    <3>1. /\ pc'[t] = "raise" /\ want'[t] = current + 1
          /\ ~(current + 1 > Cpus \/ current + 1 > HardLimit)
      BY <2>3 DEF TypeOK
    <3> QED
      BY <2>1, <2>2, <2>3, <3>1
  <2>4. CASE u # t
    <3>1. pc'[u] = pc[u] /\ want'[u] = want[u] /\ seen'[u] = seen[u]
      BY <2>4 DEF TypeOK
    <3>2. want[u] <= Cpus /\ want[u] <= HardLimit /\ want[u] <= peak
      BY <3>1 DEF RaiseInv
    <3>3. pc[u] = "raise_swap" => seen[u] < want[u]
      BY DEF RaiseInv
    <3> QED
      BY <2>1, <2>2, <3>1, <3>2, <3>3
  <2> QED
    BY <2>3, <2>4
<1>6. ScanInv'
  <2> SUFFICES ASSUME NEW u \in Threads PROVE ScanOf(u)'
    BY DEF ScanInv
  <2>1. CASE u = t
    BY <2>1, ScanIdle DEF ScanInv, ScanOf, Calling, Scanning, TypeOK, scanVars
  <2>2. CASE u # t
    <3>1. /\ pc'[u] = pc[u] /\ want'[u] = want[u]
          /\ UNCHANGED << limit, step, start, at, stayed, pooled >>
      BY <2>2 DEF TypeOK, scanVars, poolVars
    <3> QED
      BY <3>1, ScanKept DEF ScanInv
  <2> QED
    BY <2>1, <2>2
<1> QED
  BY <1>2, <1>3, <1>4, <1>5, <1>6

(* A thread that is back from its call: what ends with it *)
LEMMA DoneTypes ==
  ASSUME TypeOK, NEW t \in Threads, Done(t)
  PROVE  /\ pc' = [pc EXCEPT ![t] = "ready"]
         /\ pc' \in [Threads -> {"new", "raise", "raise_swap", "ready", "own", "slot",
                                 "backend", "pop", "push"}]
         /\ want' \in [Threads -> Nat] /\ seen' \in [Threads -> Nat]
         /\ step' \in [Threads -> Nat \X Nat] /\ start' \in [Threads -> Nat]
         /\ at' \in [Threads -> Nat] /\ given' \in [Threads -> SUBSET Spans]
         /\ pc'[t] = "ready" /\ step'[t] = << 0, 0 >>
         /\ \A u \in Threads \ {t} :
              /\ pc'[u] = pc[u] /\ want'[u] = want[u] /\ seen'[u] = seen[u]
              /\ step'[u] = step[u] /\ start'[u] = start[u] /\ at'[u] = at[u]
BY DEF TypeOK, Done, Goto

LEMMA AnnounceLoadIInv ==
  ASSUME IInv, NEW t \in Threads, AnnounceLoad(t)
  PROVE  IInv'
<1> USE DEF IInv, AnnounceLoad
<1>1. CASE Enough(t)
  <2>1. TypeOK'
    BY <1>1, DoneTypes DEF TypeOK, poolVars
  <2>2. CountInv'
    BY <1>1, DoneTypes, CountKept
  <2>3. LimitInRange' /\ PooledInReach' /\ RaiseInv'
    BY <1>1, DoneTypes DEF LimitInRange, PooledInReach, RaiseInv, poolVars
  <2>4. ASSUME NEW u \in Threads PROVE ScanOf(u)'
    BY <1>1, DoneTypes, ScanIdle, ScanKept DEF ScanInv, Calling, Scanning, poolVars
  <2> QED
    BY <2>1, <2>2, <2>3, <2>4 DEF ScanInv
<1>2. CASE ~Enough(t)
  <2> USE DEF Goto
  <2>1. TypeOK'
    BY <1>2 DEF TypeOK, poolVars, scanVars
  <2>2. CountInv'
    BY <1>2, CountKept
  <2>3. LimitInRange' /\ PooledInReach'
    BY <1>2 DEF LimitInRange, PooledInReach, poolVars
  <2>4. RaiseInv'
    <3>1. want[t] \in Nat /\ limit \in Nat /\ ~(want[t] <= limit)
      BY <1>2 DEF Enough, TypeOK
    <3>2. limit < want[t]
      BY <3>1
    <3> QED
      BY <1>2, <3>2 DEF RaiseInv, TypeOK
  <2>5. ASSUME NEW u \in Threads PROVE ScanOf(u)'
    <3>1. CASE u = t
      <4>1. pc[t] = "raise" /\ pc'[t] = "raise_swap" /\ step' = step
        BY <1>2 DEF TypeOK, scanVars
      <4>2. step[t] = << 0, 0 >>
        BY <4>1 DEF ScanInv, ScanOf, Scanning
      <4> QED
        BY <3>1, <4>1, <4>2, ScanIdle DEF Calling, Scanning
    <3>2. CASE u # t
      BY <1>2, <3>2, ScanKept DEF ScanInv, TypeOK, poolVars, scanVars
    <3> QED
      BY <3>1, <3>2
  <2> QED
    BY <2>1, <2>2, <2>3, <2>4, <2>5 DEF ScanInv
<1> QED
  BY <1>1, <1>2

LEMMA AnnounceSwapIInv ==
  ASSUME IInv, NEW t \in Threads, AnnounceSwap(t)
  PROVE  IInv'
<1> USE DEF IInv, AnnounceSwap
<1>1. TypeOK'
  <2>1. limit' \in Nat
    BY DEF TypeOK
  <2> QED
    BY <2>1, DoneTypes DEF TypeOK, poolVars
<1>2. CountInv'
  BY DoneTypes, CountKept
<1>3. LimitInRange'
  <2>1. /\ seen[t] \in Nat /\ want[t] \in Nat /\ peak \in Nat
        /\ Cpus \in Nat /\ HardLimit \in Nat
    BY ConstantsAssumption, ThreadsFinite DEF TypeOK
  <2>2. /\ seen[t] < want[t] /\ want[t] <= Cpus /\ want[t] <= HardLimit
        /\ want[t] <= peak
    BY DEF RaiseInv
  <2>3. limit' = seen[t] + 1 /\ peak' = peak
    OBVIOUS
  <2> QED
    BY <2>1, <2>2, <2>3 DEF LimitInRange
<1>4. PooledInReach'
  <2>1. limit' = limit + 1 /\ limit \in Nat /\ UNCHANGED pooled
    BY DEF TypeOK, poolVars
  <2>2. \A b \in Backends : b \in Nat
    BY ConstantsAssumption DEF Backends
  <2> QED
    BY <2>1, <2>2 DEF PooledInReach
<1>5. RaiseInv'
  BY DoneTypes DEF RaiseInv
<1>6. ASSUME NEW u \in Threads PROVE ScanOf(u)'
  <2>1. CASE u = t
    BY <2>1, DoneTypes, ScanIdle DEF Calling, Scanning
  <2>2. CASE u # t
    <3>1. limit' = limit + 1 /\ limit \in Nat /\ UNCHANGED << pooled, stayed >>
      BY DEF TypeOK, poolVars
    <3>2. limit' \in Nat /\ limit <= limit'
      BY <3>1
    <3> QED
      BY <2>2, <3>1, <3>2, DoneTypes, ScanRaised DEF ScanInv
  <2> QED
    BY <2>1, <2>2
<1> QED
  BY <1>1, <1>2, <1>3, <1>4, <1>5, <1>6 DEF ScanInv

LEMMA AnnounceRetryIInv ==
  ASSUME IInv, NEW t \in Threads, AnnounceRetry(t)
  PROVE  IInv'
<1> USE DEF IInv, AnnounceRetry, Goto
<1>1. TypeOK'
  BY DEF TypeOK, poolVars, scanVars
<1>2. CountInv'
  BY CountKept
<1>3. LimitInRange' /\ PooledInReach'
  BY DEF LimitInRange, PooledInReach, poolVars
<1>4. RaiseInv'
  BY DEF RaiseInv, TypeOK
<1>5. ASSUME NEW u \in Threads PROVE ScanOf(u)'
  <2>1. CASE u = t
    BY <2>1, ScanIdle DEF ScanInv, ScanOf, Calling, Scanning, TypeOK, scanVars
  <2>2. CASE u # t
    BY <2>2, ScanKept DEF ScanInv, TypeOK, poolVars, scanVars
  <2> QED
    BY <2>1, <2>2
<1> QED
  BY <1>1, <1>2, <1>3, <1>4, <1>5 DEF ScanInv

LEMMA LeaveIInv ==
  ASSUME IInv, NEW t \in Threads, Leave(t)
  PROVE  IInv'
<1> USE DEF IInv, Leave, Goto
<1>1. current > 0
  BY CountInRange
<1>2. TypeOK'
  BY <1>1, CountInRange, SMTT(30) DEF TypeOK, poolVars, scanVars
<1>3. CountInv'
  <2>1. Announced' = Announced \ {t} /\ t \in Announced
    BY DEF Announced, TypeOK
  <2>2. Cardinality(Announced') = Cardinality(Announced) - 1
    BY <2>1, CountInRange, FS_RemoveElement
  <2> QED
    BY <2>2 DEF CountInv, TypeOK
<1>4. LimitInRange' /\ PooledInReach'
  BY DEF LimitInRange, PooledInReach, poolVars
<1>5. RaiseInv'
  BY DEF RaiseInv, TypeOK
<1>6. ASSUME NEW u \in Threads PROVE ScanOf(u)'
  <2>1. CASE u = t
    BY <2>1, ScanIdle DEF ScanInv, ScanOf, Calling, Scanning, TypeOK, scanVars
  <2>2. CASE u # t
    BY <2>2, ScanKept DEF ScanInv, TypeOK, poolVars, scanVars
  <2> QED
    BY <2>1, <2>2
<1> QED
  BY <1>2, <1>3, <1>4, <1>5, <1>6 DEF ScanInv

-----------------------------------------------------------------------------
(* Allocations *)

LEMMA PooledAreSpans ==
  ASSUME TypeOK, NEW i \in 0 .. Slots - 1, NEW b \in Backends
  PROVE  pooled[i][b] \subseteq Spans
<1>1. pooled \in [0 .. Slots - 1 -> [Backends -> SUBSET Spans]]
  BY DEF TypeOK
<1>2. pooled[i] \in [Backends -> SUBSET Spans]
  BY <1>1
<1>3. pooled[i][b] \in SUBSET Spans
  BY <1>2
<1> QED
  BY <1>3

(* One backend of one slot gets other contents. *)
LEMMA PooledExcept ==
  ASSUME TypeOK, NEW i \in 0 .. Slots - 1, NEW b \in Backends, NEW S \in SUBSET Spans,
         pooled' = [pooled EXCEPT ![i][b] = S]
  PROVE  /\ pooled' \in [0 .. Slots - 1 -> [Backends -> SUBSET Spans]]
         /\ pooled'[i][b] = S
         /\ \A j \in 0 .. Slots - 1, c \in Backends :
              j # i \/ c # b => pooled'[j][c] = pooled[j][c]
<1>1. pooled \in [0 .. Slots - 1 -> [Backends -> SUBSET Spans]]
  BY DEF TypeOK
<1>2. pooled[i] \in [Backends -> SUBSET Spans]
  BY <1>1
<1>3. [pooled[i] EXCEPT ![b] = S] \in [Backends -> SUBSET Spans]
  BY <1>2
<1>4. pooled' = [pooled EXCEPT ![i] = [pooled[i] EXCEPT ![b] = S]]
  OBVIOUS
<1> QED
  BY <1>1, <1>2, <1>3, <1>4

(* Taking a span from the pool *)
LEMMA TakeSpan ==
  ASSUME IInv, NEW t \in Threads, pc[t] # "new", Done(t),
         NEW i \in 0 .. Slots - 1, NEW b \in Backends, NEW s \in pooled[i][b],
         NEW sc \in Classes,
         pooled' = [pooled EXCEPT ![i][b] = @ \ {s}],
         class' = [class EXCEPT ![s] = sc],
         stayed' \in [Threads -> SUBSET Spans],
         \A u \in Threads : stayed'[u] \subseteq stayed[u] \ {s},
         UNCHANGED << current, limit, fresh, tags, tag, peak >>
  PROVE  IInv'
<1> USE DEF IInv
<1>1. TypeOK'
  <2>1. s \in Spans
    BY PooledAreSpans
  <2>2. pooled' \in [0 .. Slots - 1 -> [Backends -> SUBSET Spans]]
    <3>1. pooled[i][b] \ {s} \in SUBSET Spans
      BY PooledAreSpans
    <3> QED
      BY <3>1, PooledExcept, ZenonT(60)
  <2>3. class' \in [Spans -> Classes \cup {0}]
    BY <2>1 DEF TypeOK
  <2> QED
    BY <2>2, <2>3, DoneTypes DEF TypeOK
<1>2. CountInv'
  BY DoneTypes, CountKept, ZenonT(60)
<1>3. LimitInRange' /\ RaiseInv'
  BY DoneTypes DEF LimitInRange, RaiseInv
<1>4. \A j \in 0 .. Slots - 1, c \in Backends :
        /\ pooled'[j][c] \subseteq pooled[j][c]
        /\ pooled[j][c] \ {s} \subseteq pooled'[j][c]
  BY PooledAreSpans, PooledExcept
<1>5. PooledInReach'
  BY <1>4 DEF PooledInReach
<1>6. ASSUME NEW u \in Threads PROVE ScanOf(u)'
  <2>1. CASE u = t
    BY <2>1, DoneTypes, ScanIdle DEF Calling, Scanning
  <2>2. CASE u # t
    BY <2>2, <1>4, DoneTypes, ScanKept DEF ScanInv
  <2> QED
    BY <2>1, <2>2
<1> QED
  BY <1>1, <1>2, <1>3, <1>5, <1>6 DEF ScanInv

(* The home of a thread is a backend. *)
LEMMA HomeIsBackend ==
  ASSUME IInv, NEW n \in Nat
  PROVE  Home(n) \in Backends /\ Home(n) < limit
<1>1. limit \in Nat /\ 1 <= limit /\ limit <= Cpus /\ Cpus \in Nat
  BY ConstantsAssumption DEF IInv, TypeOK, LimitInRange
<1>2. Home(n) \in Nat /\ Home(n) < limit
  BY <1>1, HomeInRange DEF Home
<1> QED
  BY <1>1, <1>2 DEF Backends

(* An index below the limit, computed for a call that begins *)
LEMMA CallBegins ==
  ASSUME IInv, NEW t \in Threads, pc[t] = "ready", NEW l \in {"own", "push"},
         NEW sc \in Classes, NEW b \in Backends, b < limit,
         pc' = [pc EXCEPT ![t] = l], want' = [want EXCEPT ![t] = sc],
         at' = [at EXCEPT ![t] = b], given' \in [Threads -> SUBSET Spans],
         class' \in [Spans -> Classes \cup {0}],
         UNCHANGED << current, limit, pooled, fresh, tags, tag, seen, step, start, peak,
                      stayed >>
  PROVE  IInv'
<1> USE DEF IInv
<1>1. sc \in Nat /\ b \in Nat
  BY ConstantsAssumption DEF Classes, Backends
<1>2. TypeOK'
  BY <1>1 DEF TypeOK
<1>3. CountInv'
  BY CountKept
<1>4. LimitInRange' /\ PooledInReach' /\ RaiseInv'
  BY DEF LimitInRange, PooledInReach, RaiseInv, TypeOK
<1>5. ASSUME NEW u \in Threads PROVE ScanOf(u)'
  <2>1. CASE u # t
    BY <2>1, ScanKept DEF ScanInv, TypeOK
  <2>2. CASE u = t
    <3>1. pc'[t] = l /\ want'[t] = sc /\ at'[t] = b /\ step'[t] = << 0, 0 >>
      BY DEF TypeOK, ScanInv, ScanOf, Scanning
    <3> QED
      BY <2>2, <3>1 DEF ScanOf, Calling, Scanning
  <2> QED
    BY <2>1, <2>2
<1> QED
  BY <1>2, <1>3, <1>4, <1>5 DEF ScanInv

LEMMA AllocateIInv ==
  ASSUME IInv, NEW t \in Threads, NEW sc \in Classes, Allocate(t, sc)
  PROVE  IInv'
<1>1. tag[t] \in Nat /\ given \in [Threads -> SUBSET Spans]
      /\ class \in [Spans -> Classes \cup {0}]
  BY DEF IInv, TypeOK
<1>2. Home(tag[t]) \in Backends /\ Home(tag[t]) < limit
  BY <1>1, HomeIsBackend
<1> QED
  BY <1>1, <1>2, CallBegins DEF Allocate, Goto, poolVars

(* A pop that finds a span *)
LEMMA PopIInv ==
  ASSUME IInv, NEW t \in Threads, pc[t] \in {"own", "pop"}, NEW i \in 0 .. Slots - 1,
         Pop(t, i)
  PROVE  IInv'
<1> USE DEF IInv
<1>1. at[t] \in Backends /\ want[t] \in Classes
  BY DEF ScanInv, ScanOf, Calling, Scanning
<1>2. PICK s \in pooled[i][at[t]] :
        /\ pooled' = [pooled EXCEPT ![i][at[t]] = @ \ {s}]
        /\ class' = [class EXCEPT ![s] = want[t]]
        /\ stayed' = [u \in Threads |-> IF u = t THEN {} ELSE stayed[u] \ {s}]
  BY DEF Pop
<1>3. Done(t) /\ UNCHANGED << current, limit, fresh, tags, tag, peak >>
  BY DEF Pop
<1>4. /\ stayed' \in [Threads -> SUBSET Spans]
      /\ \A u \in Threads : stayed'[u] \subseteq stayed[u] \ {s}
  BY <1>2 DEF TypeOK
<1> QED
  BY <1>1, <1>2, <1>3, <1>4, TakeSpan

LEMMA PopOwnIInv ==
  ASSUME IInv, NEW t \in Threads, PopOwn(t)
  PROVE  IInv'
<1> USE DEF IInv
<1>1. pc[t] = "own" /\ want[t] \in Classes /\ step[t] = << 0, 0 >>
  BY DEF PopOwn, ScanInv, ScanOf, Calling, Scanning
<1>2. CASE Pop(t, Slot(want[t]))
  BY <1>1, <1>2, SlotsReached, PopIInv
<1>3. ASSUME stayed' = [stayed EXCEPT ![t] = InPool],
             pc' = [pc EXCEPT ![t] = "slot"],
             UNCHANGED << current, limit, pooled, fresh, class, tags, tag, want, seen,
                          step, start, at, given, peak >>
      PROVE  IInv'
  <2> USE <1>1, <1>3
  <2>1. InPool \in SUBSET Spans
    <3>1. \A j \in 0 .. Slots - 1, c \in Backends : pooled[j][c] \subseteq Spans
      BY PooledAreSpans
    <3> QED
      BY <3>1 DEF InPool
  <2>2. TypeOK'
    BY <2>1 DEF TypeOK
  <2>3. CountInv'
    BY CountKept
  <2>4. LimitInRange' /\ PooledInReach' /\ RaiseInv'
    BY DEF LimitInRange, PooledInReach, RaiseInv, TypeOK
  <2>5. ASSUME NEW u \in Threads PROVE ScanOf(u)'
    <3>1. CASE u # t
      BY <3>1, ScanKept DEF ScanInv, TypeOK
    <3>2. CASE u = t
      <4>1. /\ pc'[t] = "slot" /\ step'[t] = << 0, 0 >> /\ want'[t] = want[t]
            /\ stayed'[t] = InPool
        BY DEF TypeOK
      <4>2. \A j : ~SeenSlot(t, j)'
        BY <4>1 DEF SeenSlot
      <4> QED
        BY <3>2, <4>1, <4>2 DEF ScanOf, Calling, Scanning, InPool
    <3> QED
      BY <3>1, <3>2
  <2> QED
    BY <2>2, <2>3, <2>4, <2>5 DEF ScanInv
<1> QED
  BY <1>2, <1>3 DEF PopOwn, Goto, poolVars, scanVars

LEMMA ScanSlotIInv ==
  ASSUME IInv, NEW t \in Threads, ScanSlot(t)
  PROVE  IInv'
<1> USE DEF IInv, Goto
<1> PICK r \in 0 .. limit - 1 : start' = [start EXCEPT ![t] = r]
  BY DEF ScanSlot
<1>1. /\ pc[t] = "slot" /\ step[t][1] < Slots /\ pc' = [pc EXCEPT ![t] = "backend"]
      /\ UNCHANGED << current, limit, pooled, fresh, class, tags, tag, want, seen,
                      step, at, given, peak, stayed >>
  BY DEF ScanSlot, MoreSlots, poolVars
<1>2. limit \in Nat /\ r \in Nat /\ r < limit
  BY DEF TypeOK
<1>3. TypeOK'
  BY <1>1, <1>2 DEF TypeOK
<1>4. CountInv'
  BY <1>1, CountKept
<1>5. LimitInRange' /\ PooledInReach' /\ RaiseInv'
  BY <1>1 DEF LimitInRange, PooledInReach, RaiseInv, TypeOK
<1>6. ASSUME NEW u \in Threads PROVE ScanOf(u)'
  <2>1. CASE u # t
    BY <1>1, <2>1, ScanKept DEF ScanInv, TypeOK
  <2>2. CASE u = t
    <3>1. step[t][2] = 0 /\ want[t] \in Classes
      BY <1>1 DEF ScanInv, ScanOf, Calling, Scanning
    <3>2. /\ pc'[t] = "backend" /\ start'[t] = r
          /\ want'[t] = want[t] /\ step'[t] = step[t] /\ stayed'[t] = stayed[t]
      BY <1>1 DEF TypeOK
    <3>3. \A c \in Backends : Ahead(t, 0, c)'
      BY <1>1, <1>2, <3>2, ConstantsAssumption DEF Ahead, Backends
    <3>4. \A j : SeenSlot(t, j)' = SeenSlot(t, j)
      BY <3>2 DEF SeenSlot, SlotOf
    <3>5. \A s \in stayed[t] : \E j \in 0 .. Slots - 1, c \in Backends :
            s \in pooled[j][c] /\ ~SeenSlot(t, j)
      BY <1>1 DEF ScanInv, ScanOf, Scanning
    <3> QED
      BY <1>1, <1>2, <2>2, <3>1, <3>2, <3>3, <3>4, <3>5 DEF ScanOf, Calling, Scanning
  <2> QED
    BY <2>1, <2>2
<1> QED
  BY <1>3, <1>4, <1>5, <1>6 DEF ScanInv

(* Where a scan looks next *)
LEMMA ScanPlace ==
  ASSUME IInv, NEW t \in Threads, pc[t] \in {"backend", "pop"}
  PROVE  /\ want[t] \in Classes
         /\ step[t][1] \in 0 .. Slots - 1 /\ step[t][2] \in Nat
         /\ start[t] \in Nat /\ start[t] < limit
         /\ step[t] = << step[t][1], step[t][2] >>
         /\ SlotAt(t) = SlotOf(want[t], step[t][1])
         /\ SlotAt(t) \in 0 .. Slots - 1
         /\ limit \in Nat /\ 1 <= limit
         /\ \A n \in Nat : n % limit \in Backends /\ n % limit < limit
<1>1. want[t] \in Classes /\ step[t][1] < Slots /\ start[t] < limit
  BY DEF IInv, ScanInv, ScanOf, Calling, Scanning
<1>2. /\ step[t][1] \in Nat /\ step[t][2] \in Nat /\ start[t] \in Nat
      /\ step[t] = << step[t][1], step[t][2] >>
  BY DEF IInv, TypeOK
<1>3. Slots \in Nat
  BY ConstantsAssumption
<1>4. SlotAt(t) = SlotOf(want[t], step[t][1])
  BY DEF SlotAt, SlotOf
<1>5. limit \in Nat /\ 1 <= limit /\ limit <= Cpus /\ Cpus \in Nat
  BY ConstantsAssumption DEF IInv, TypeOK, LimitInRange
<1>6. ASSUME NEW n \in Nat PROVE n % limit \in Backends /\ n % limit < limit
  <2>1. n % limit \in Nat /\ n % limit < limit
    BY <1>5, HomeInRange
  <2> QED
    BY <1>5, <2>1 DEF Backends
<1>7. step[t][1] \in 0 .. Slots - 1
  BY <1>1, <1>2, <1>3
<1> QED
  BY <1>1, <1>2, <1>4, <1>5, <1>6, <1>7, SlotsReached

LEMMA ScanBackendIInv ==
  ASSUME IInv, NEW t \in Threads, ScanBackend(t)
  PROVE  IInv'
<1> USE DEF IInv
<1> DEFINE b == (start[t] + step[t][2]) % limit
<1>1. /\ pc[t] = "backend" /\ step[t][2] < limit /\ pc' = [pc EXCEPT ![t] = "pop"]
      /\ at' = [at EXCEPT ![t] = b]
      /\ UNCHANGED << current, limit, pooled, fresh, class, tags, tag, want, seen,
                      step, start, given, peak, stayed >>
  BY DEF ScanBackend, Goto, poolVars
<1>2. b \in Backends /\ b \in Nat /\ b < limit
  BY <1>1, ScanPlace, ConstantsAssumption DEF Backends
<1>3. TypeOK'
  <2> HIDE DEF b
  <2> QED
    BY <1>1, <1>2 DEF TypeOK
<1>4. CountInv'
  BY <1>1, CountKept
<1>5. LimitInRange' /\ PooledInReach' /\ RaiseInv'
  BY <1>1 DEF LimitInRange, PooledInReach, RaiseInv, TypeOK
<1>6. ASSUME NEW u \in Threads PROVE ScanOf(u)'
  <2>1. CASE u # t
    BY <1>1, <2>1, ScanKept DEF ScanInv, TypeOK
  <2>2. CASE u = t
    <3>1. /\ pc'[t] = "pop" /\ at'[t] = b /\ start'[t] = start[t] /\ limit' = limit
          /\ want'[t] = want[t] /\ step'[t] = step[t] /\ stayed'[t] = stayed[t]
      BY <1>1 DEF TypeOK
    <3>2. \A j : SeenSlot(t, j)' = SeenSlot(t, j)
      BY <3>1 DEF SeenSlot, SlotOf
    <3>3. ASSUME NEW c \in Backends, c < limit, Ahead(t, step[t][2], c)
          PROVE  c = b \/ Ahead(t, step[t][2] + 1, c)'
      <4>1. c \in Nat
        BY ConstantsAssumption DEF Backends
      <4>2. start[t] + step[t][2] <= c \/ (c < start[t] /\ start[t] + step[t][2] <= c + limit)
        BY <3>3 DEF Ahead
      <4>3. /\ limit \in Nat /\ start[t] \in Nat /\ start[t] < limit
            /\ step[t][2] \in Nat /\ step[t][2] < limit
        BY <1>1, ScanPlace
      <4>4. \/ c = b
            \/ start[t] + (step[t][2] + 1) <= c
            \/ c < start[t] /\ start[t] + (step[t][2] + 1) <= c + limit
        BY <3>3, <4>1, <4>2, <4>3, NextBackend
      <4> QED
        BY <3>1, <4>4 DEF Ahead
    <3>4. ASSUME NEW s \in stayed[t]
          PROVE  \E j \in 0 .. Slots - 1, c \in Backends :
                   /\ s \in pooled[j][c]
                   /\ ~SeenSlot(t, j)
                   /\ j = SlotOf(want[t], step[t][1]) =>
                        c = b \/ Ahead(t, step[t][2] + 1, c)'
      <4>1. PICK j \in 0 .. Slots - 1, c \in Backends :
                   /\ s \in pooled[j][c]
                   /\ ~SeenSlot(t, j)
                   /\ j = SlotOf(want[t], step[t][1]) => Ahead(t, step[t][2], c)
        BY <1>1 DEF ScanInv, ScanOf, Scanning
      <4>2. c < limit
        BY <4>1 DEF PooledInReach
      <4> QED
        BY <3>3, <4>1, <4>2
    <3>5. want[t] \in Classes /\ step[t][1] < Slots /\ start[t] < limit
      BY <1>1 DEF ScanInv, ScanOf, Calling, Scanning
    <3>6. SlotOf(want[t], step[t][1])' = SlotOf(want[t], step[t][1])
      BY <3>1 DEF SlotOf
    <3> HIDE DEF b
    <3> QED
      BY <1>1, <1>2, <2>2, <3>1, <3>2, <3>4, <3>5, <3>6 DEF ScanOf, Calling, Scanning
  <2> QED
    BY <2>1, <2>2
<1> QED
  BY <1>3, <1>4, <1>5, <1>6 DEF ScanInv

LEMMA ScanPopIInv ==
  ASSUME IInv, NEW t \in Threads, ScanPop(t)
  PROVE  IInv'
<1> USE DEF IInv
<1>1. pc[t] = "pop"
  BY DEF ScanPop
<1>2. CASE Pop(t, SlotAt(t))
  BY <1>1, <1>2, ScanPlace, PopIInv
<1>3. ASSUME pooled[SlotAt(t)][at[t]] = {},
             step' = [step EXCEPT ![t] = << @[1], @[2] + 1 >>],
             pc' = [pc EXCEPT ![t] = "backend"],
             UNCHANGED << current, limit, pooled, fresh, class, tags, tag, want, seen,
                          start, at, given, peak, stayed >>
      PROVE  IInv'
  <2> USE <1>1, <1>3
  <2>1. TypeOK'
    <3>1. << step[t][1], step[t][2] + 1 >> \in Nat \X Nat
      BY ScanPlace
    <3> QED
      BY <3>1 DEF TypeOK
  <2>2. CountInv'
    BY CountKept
  <2>3. LimitInRange' /\ PooledInReach' /\ RaiseInv'
    BY DEF LimitInRange, PooledInReach, RaiseInv, TypeOK
  <2>4. ASSUME NEW u \in Threads PROVE ScanOf(u)'
    <3>1. CASE u # t
      BY <3>1, ScanKept DEF ScanInv, TypeOK
    <3>2. CASE u = t
      <4>1. step'[t] = << step[t][1], step[t][2] + 1 >> /\ pc'[t] = "backend"
        BY DEF TypeOK
      <4>2. step'[t][1] = step[t][1] /\ step'[t][2] = step[t][2] + 1
        BY <4>1
      <4>3. \A j : SeenSlot(t, j)' = SeenSlot(t, j)
        BY <4>2 DEF SeenSlot, SlotOf
      <4>4. ASSUME NEW s \in stayed[t]
            PROVE  \E j \in 0 .. Slots - 1, c \in Backends :
                     /\ s \in pooled[j][c]
                     /\ ~SeenSlot(t, j)
                     /\ j = SlotOf(want[t], step[t][1]) => Ahead(t, step[t][2] + 1, c)
        <5>1. PICK j \in 0 .. Slots - 1, c \in Backends :
                     /\ s \in pooled[j][c]
                     /\ ~SeenSlot(t, j)
                     /\ j = SlotOf(want[t], step[t][1]) =>
                          c = at[t] \/ Ahead(t, step[t][2] + 1, c)
          BY DEF ScanInv, ScanOf, Scanning
        <5>2. j = SlotOf(want[t], step[t][1]) => c # at[t]
          BY <5>1, ScanPlace
        <5> QED
          BY <5>1, <5>2
      <4>5. \A c : Ahead(t, step[t][2], c)' = Ahead(t, step[t][2] + 1, c)
        BY <4>2 DEF Ahead
      <4>6. SlotOf(want[t], step[t][1])' = SlotOf(want[t], step[t][1])
        BY <4>2 DEF SlotOf
      <4>7. want[t] \in Classes /\ step[t][1] < Slots /\ start[t] < limit
        BY DEF ScanInv, ScanOf, Calling, Scanning
      <4> QED
        BY <3>2, <4>1, <4>2, <4>3, <4>4, <4>5, <4>6, <4>7 DEF ScanOf, Calling, Scanning
    <3> QED
      BY <3>1, <3>2
  <2> QED
    BY <2>1, <2>2, <2>3, <2>4 DEF ScanInv
<1> QED
  BY <1>2, <1>3 DEF ScanPop, Goto, poolVars

LEMMA ScanNextIInv ==
  ASSUME IInv, NEW t \in Threads, ScanNext(t)
  PROVE  IInv'
<1> USE DEF IInv, Goto
<1>1. /\ pc[t] = "backend" /\ step[t][2] >= limit /\ pc' = [pc EXCEPT ![t] = "slot"]
      /\ step' = [step EXCEPT ![t] = << @[1] + 1, 0 >>]
      /\ start' = [start EXCEPT ![t] = 0]
      /\ UNCHANGED << current, limit, pooled, fresh, class, tags, tag, want, seen,
                      at, given, peak, stayed >>
  BY DEF ScanNext, poolVars
<1>2. TypeOK'
  <2>1. << step[t][1] + 1, 0 >> \in Nat \X Nat
    BY <1>1, ScanPlace
  <2> QED
    BY <1>1, <2>1 DEF TypeOK
<1>3. CountInv'
  BY <1>1, CountKept
<1>4. LimitInRange' /\ PooledInReach' /\ RaiseInv'
  BY <1>1 DEF LimitInRange, PooledInReach, RaiseInv, TypeOK
<1>5. ASSUME NEW u \in Threads PROVE ScanOf(u)'
  <2>1. CASE u # t
    BY <1>1, <2>1, ScanKept DEF ScanInv, TypeOK
  <2>2. CASE u = t
    <3>1. step'[t] = << step[t][1] + 1, 0 >>
      BY <1>1 DEF TypeOK
    <3>2. step'[t][1] = step[t][1] + 1 /\ step'[t][2] = 0 /\ pc'[t] = "slot"
      BY <1>1, <3>1 DEF TypeOK
    <3>3. ASSUME NEW j, SeenSlot(t, j)'
          PROVE  SeenSlot(t, j) \/ j = SlotOf(want[t], step[t][1])
      <4>1. PICK k \in 0 .. step[t][1] : j = SlotOf(want[t], k)
        BY <1>1, <3>2, <3>3, ScanPlace DEF SeenSlot, SlotOf
      <4>2. k = step[t][1] \/ k \in 0 .. step[t][1] - 1
        BY <1>1, ScanPlace
      <4> QED
        BY <4>1, <4>2 DEF SeenSlot
    <3>4. ASSUME NEW s \in stayed[t]
          PROVE  \E j \in 0 .. Slots - 1, c \in Backends :
                   s \in pooled[j][c] /\ ~SeenSlot(t, j)'
      <4>1. PICK j \in 0 .. Slots - 1, c \in Backends :
                   /\ s \in pooled[j][c]
                   /\ ~SeenSlot(t, j)
                   /\ j = SlotOf(want[t], step[t][1]) => Ahead(t, step[t][2], c)
        BY <1>1 DEF ScanInv, ScanOf, Scanning
      <4>2. c \in Nat /\ c < limit
        BY <4>1, ConstantsAssumption DEF PooledInReach, Backends
      <4>3. ~Ahead(t, step[t][2], c)
        BY <1>1, <4>2, ScanPlace DEF Ahead
      <4> QED
        BY <3>3, <4>1, <4>3
    <3>5. want[t] \in Classes
      BY <1>1, ScanPlace
    <3> QED
      BY <1>1, <2>2, <3>2, <3>4, <3>5 DEF ScanOf, Calling, Scanning
  <2> QED
    BY <2>1, <2>2
<1> QED
  BY <1>2, <1>3, <1>4, <1>5 DEF ScanInv

LEMMA AllocateFreshIInv ==
  ASSUME IInv, NEW t \in Threads, AllocateFresh(t)
  PROVE  IInv'
<1> USE DEF IInv
<1> PICK s \in fresh : fresh' = fresh \ {s} /\ class' = [class EXCEPT ![s] = want[t]]
  BY DEF AllocateFresh
<1>1. /\ pc[t] = "slot" /\ stayed' = [stayed EXCEPT ![t] = {}] /\ Done(t)
      /\ UNCHANGED << current, limit, pooled, tags, tag, peak >>
  BY DEF AllocateFresh
<1>2. want[t] \in Classes
  BY <1>1 DEF ScanInv, ScanOf, Calling, Scanning
<1>3. TypeOK'
  <2>1. fresh' \in SUBSET Spans /\ stayed' \in [Threads -> SUBSET Spans]
    BY <1>1 DEF TypeOK
  <2>2. class' \in [Spans -> Classes \cup {0}]
    BY <1>2 DEF TypeOK
  <2> QED
    BY <1>1, <2>1, <2>2, DoneTypes DEF TypeOK
<1>4. CountInv'
  BY <1>1, DoneTypes, CountKept
<1>5. LimitInRange' /\ PooledInReach' /\ RaiseInv'
  BY <1>1, DoneTypes DEF LimitInRange, PooledInReach, RaiseInv
<1>6. ASSUME NEW u \in Threads PROVE ScanOf(u)'
  <2>1. CASE u = t
    BY <1>1, <2>1, DoneTypes, ScanIdle DEF Calling, Scanning
  <2>2. CASE u # t
    BY <1>1, <2>2, DoneTypes, ScanKept DEF ScanInv, TypeOK
  <2> QED
    BY <2>1, <2>2
<1> QED
  BY <1>3, <1>4, <1>5, <1>6 DEF ScanInv

LEMMA FreeIInv ==
  ASSUME IInv, NEW t \in Threads, NEW s \in Spans, NEW id \in 1 .. tags, Free(t, s, id)
  PROVE  IInv'
<1>1. class[s] \in Classes /\ id \in Nat
  BY DEF IInv, TypeOK, Free
<1>2. Home(id) \in Backends /\ Home(id) < limit
  BY <1>1, HomeIsBackend
<1>3. given' \in [Threads -> SUBSET Spans] /\ class' \in [Spans -> Classes \cup {0}]
  BY DEF IInv, TypeOK, Free
<1> QED
  BY <1>1, <1>2, <1>3, CallBegins DEF Free, Goto

LEMMA FreePushIInv ==
  ASSUME IInv, NEW t \in Threads, FreePush(t)
  PROVE  IInv'
<1> USE DEF IInv
<1> DEFINE i == Slot(want[t])
           b == at[t]
<1>1. /\ pc[t] = "push" /\ Done(t)
      /\ UNCHANGED << current, limit, fresh, class, tags, tag, peak, stayed >>
      /\ pooled' = [pooled EXCEPT ![i][b] = @ \cup given[t]]
  BY DEF FreePush
<1>2. i \in 0 .. Slots - 1 /\ b \in Backends /\ b < limit
  BY <1>1, SlotsReached DEF ScanInv, ScanOf, Calling
<1> HIDE DEF i, b
<1>3. /\ pooled' \in [0 .. Slots - 1 -> [Backends -> SUBSET Spans]]
      /\ \A j \in 0 .. Slots - 1, c \in Backends :
           /\ pooled[j][c] \subseteq pooled'[j][c]
           /\ pooled'[j][c] # pooled[j][c] => j = i /\ c = b
  <2>1. pooled[i][b] \cup given[t] \in SUBSET Spans
    BY <1>2, PooledAreSpans DEF TypeOK
  <2>2. /\ pooled' \in [0 .. Slots - 1 -> [Backends -> SUBSET Spans]]
        /\ pooled'[i][b] = pooled[i][b] \cup given[t]
        /\ \A j \in 0 .. Slots - 1, c \in Backends :
             j # i \/ c # b => pooled'[j][c] = pooled[j][c]
    BY <1>1, <1>2, <2>1, PooledExcept, ZenonT(60)
  <2> QED
    BY <1>2, <2>2
<1>4. TypeOK'
  BY <1>1, <1>3, DoneTypes DEF TypeOK
<1>5. CountInv'
  BY <1>1, DoneTypes, CountKept
<1>6. LimitInRange' /\ RaiseInv'
  BY <1>1, DoneTypes DEF LimitInRange, RaiseInv
<1>7. PooledInReach'
  BY <1>1, <1>2, <1>3 DEF PooledInReach
<1>8. ASSUME NEW u \in Threads PROVE ScanOf(u)'
  <2>1. CASE u = t
    BY <1>1, <2>1, DoneTypes, ScanIdle DEF Calling, Scanning
  <2>2. CASE u # t
    BY <1>1, <1>3, <2>2, DoneTypes, ScanKept DEF ScanInv, TypeOK
  <2> QED
    BY <2>1, <2>2
<1> QED
  BY <1>4, <1>5, <1>6, <1>7, <1>8 DEF ScanInv

-----------------------------------------------------------------------------

LEMMA NextIInv == IInv /\ [Next]_vars => IInv'
<1> SUFFICES ASSUME IInv, [Next]_vars PROVE IInv'
  OBVIOUS
<1>1. CASE UNCHANGED vars
  <2>1. TypeOK' /\ CountInv' /\ LimitInRange' /\ PooledInReach' /\ RaiseInv'
    BY <1>1 DEF vars, IInv, TypeOK, CountInv, Announced, LimitInRange,
                PooledInReach, RaiseInv
  <2>2. ASSUME NEW u \in Threads PROVE ScanOf(u)'
    BY <1>1, ScanKept DEF vars, IInv, ScanInv
  <2> QED
    BY <2>1, <2>2 DEF IInv, ScanInv
<1>2. ASSUME NEW t \in Threads,
             \/ Announce(t) \/ AnnounceLoad(t) \/ AnnounceSwap(t)
             \/ AnnounceRetry(t) \/ Leave(t)
      PROVE  IInv'
  BY <1>2, AnnounceIInv, AnnounceLoadIInv, AnnounceSwapIInv, AnnounceRetryIInv,
     LeaveIInv
<1>3. ASSUME NEW t \in Threads,
             \/ \E sc \in Classes : Allocate(t, sc)
             \/ PopOwn(t) \/ ScanSlot(t) \/ ScanBackend(t) \/ ScanPop(t)
             \/ ScanNext(t) \/ AllocateFresh(t)
      PROVE  IInv'
  BY <1>3, AllocateIInv, PopOwnIInv, ScanSlotIInv, ScanBackendIInv, ScanPopIInv,
     ScanNextIInv, AllocateFreshIInv
<1>4. ASSUME NEW t \in Threads, NEW s \in Spans, NEW id \in 1 .. tags, Free(t, s, id)
      PROVE  IInv'
  BY <1>4, FreeIInv
<1>5. ASSUME NEW t \in Threads, FreePush(t) PROVE IInv'
  BY <1>5, FreePushIInv
<1> QED
  BY <1>1, <1>2, <1>3, <1>4, <1>5 DEF Next

(* The inductive invariant of announcements and scans (span_pool.h:87 to   *)
(* 160): it holds in every state of the pool.                              *)
THEOREM PoolInvariant == Spec => []IInv
BY InitIInv, NextIInv, PTL DEF Spec

(* current_threads_ never falls below zero nor counts a thread twice, and  *)
(* all indices and locals of the pool keep their types (span_pool.h:87).   *)
THEOREM PoolTypes == Spec => []TypeOK
<1>1. IInv => TypeOK
  BY DEF IInv
<1> QED
  BY <1>1, PoolInvariant, PTL

(* limit_ is never zero and never exceeds the array of backends, however   *)
(* many threads announce themselves at a time (span_pool.h:94 to 100).     *)
THEOREM PoolLimitInRange == Spec => []LimitInRange
<1>1. IInv => LimitInRange
  BY DEF IInv
<1> QED
  BY <1>1, PoolInvariant, PTL

(* Whatever the limit was when a span was freed (span_pool.h:195), it is   *)
(* where scans look.                                                       *)
THEOREM PoolInReach == Spec => []PooledInReach
<1>1. IInv => PooledInReach
  BY DEF IInv
<1> QED
  BY <1>1, PoolInvariant, PTL

(* An allocation that goes to the arena (span_pool.h:135) has missed no    *)
(* span that stayed in the pool from the beginning of its scan to its end: *)
(* the wrap-around of slots and backends, from any random start, leaves    *)
(* none out, also if other threads raise the limit during the scan.        *)
THEOREM ArenaIsLast == Spec => []PoolBeforeArena
<1>1. IInv => PoolBeforeArena
  <2> SUFFICES ASSUME IInv, NEW t \in Threads, pc[t] = "slot", ~MoreSlots(t),
                      NEW s \in stayed[t]
               PROVE  FALSE
    BY DEF PoolBeforeArena
  <2>1. PICK i \in 0 .. Slots - 1, b \in Backends : ~SeenSlot(t, i)
    BY DEF IInv, ScanInv, ScanOf, Scanning
  <2>2. want[t] \in Classes
    BY DEF IInv, ScanInv, ScanOf, Calling, Scanning
  <2>3. PICK k \in 0 .. Slots - 1 : i = SlotOf(want[t], k)
    BY <2>2, SlotsReached
  <2>4. step[t][1] \in Nat /\ Slots \in Nat /\ ~(step[t][1] < Slots)
    BY ConstantsAssumption DEF IInv, TypeOK, MoreSlots
  <2>5. k \in 0 .. step[t][1] - 1
    BY <2>4
  <2> QED
    BY <2>1, <2>3, <2>5 DEF SeenSlot
<1> QED
  BY <1>1, PoolInvariant, PTL
=============================================================================
