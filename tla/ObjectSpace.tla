----------------------------- MODULE ObjectSpace -----------------------------
(***************************************************************************)
(* Where objects lie: src/arena.h cuts the object space into virtual       *)
(* spans, src/size_classes.h maps a request to a size class, and the       *)
(* incremental free list of a span (src/free_list.h) hands out addresses,  *)
(* first those that were freed, then those beyond its bump pointer.        *)
(*                                                                         *)
(* SpanProtocol decides which span a thread uses and when a span may be    *)
(* built anew; this module takes any such choice and looks at addresses,   *)
(* with the sizes of the code.                                             *)
(***************************************************************************)
EXTENDS Integers, Sequences, FiniteSets, SequencesExt

CONSTANTS
  Requests,    \* sizes that the program asks for
  ArenaSpans,  \* the size of the object space in virtual spans
  Multiple,    \* where mmap has put it, in multiples of its size
  MaxOut       \* bound: objects of a span outside of its local free list

kMinAlignment == 16
kMaxSmallShift == 8
kMaxSmallSize == 2^kMaxSmallShift
kMaxMediumShift == 20
kMaxMediumSize == 2^kMaxMediumShift
kVirtualSpanSize == 2^21
kPageSize == 4096
kSpanHeaderSize == 128
kFineClasses == kMaxSmallSize \div kMinAlignment + 1
kCoarseClasses == kMaxMediumShift - kMaxSmallShift
kNumClasses == kFineClasses + kCoarseClasses

ASSUME RequestsAssumption == Requests \subseteq 1 .. kMaxMediumSize
ASSUME ArenaAssumption ==
  ArenaSpans \in Nat \ {0} /\ Multiple \in Nat \ {0} /\ MaxOut \in Nat

-----------------------------------------------------------------------------
(* Size classes *)

log_table ==
  [i \in 0 .. 255 |->
     IF i = 0 THEN -1 ELSE CHOOSE k \in 0 .. 7 : 2^k <= i /\ i < 2^(k + 1)]

(* Of 32-bit integers, from the highest byte that is not zero *)
Log2(v) ==
  LET byte == CHOOSE k \in 0 .. 3 :
                /\ k > 0 => v \div 2^(8 * k) > 0
                /\ k = 3 \/ v < 2^(8 * k + 8) IN
  8 * byte + log_table[v \div 2^(8 * byte)]

(* Mutant of SizeToClass: a multiple of 16 goes to the next class. *)
SizeToClassNext(size) ==
  IF size <= kMaxSmallSize THEN (size + kMinAlignment) \div kMinAlignment
                           ELSE Log2(size - 1) - kMaxSmallShift + kFineClasses

SizeToClass(size) ==
  IF size <= kMaxSmallSize THEN (size + kMinAlignment - 1) \div kMinAlignment
  ELSE IF size <= kMaxMediumSize THEN Log2(size - 1) - kMaxSmallShift + kFineClasses
  ELSE 0

AlignDown(x, alignment) == x - (x % alignment)

SizeToBlockSize(size) ==
  IF size <= kMaxSmallSize
    THEN AlignDown(size + kMinAlignment - 1, kMinAlignment)
    ELSE 2^(Log2(size - 1) + 1)

Classes == 1 .. kNumClasses - 1

ClassToSize ==
  [c \in Classes |-> IF c < kFineClasses THEN kMinAlignment * c
                                         ELSE 2^(c - kFineClasses + kMaxSmallShift + 1)]

ClassToObjects ==
  [c \in Classes |->
     IF c < kFineClasses
       THEN (32768 - kSpanHeaderSize) \div ClassToSize[c]
       ELSE << 64, 64, 64, 32, 32, 16, 16, 16, 8, 4, 2, 1 >>[c - kFineClasses + 1]]

ClassToSpanSize ==
  [c \in Classes |->
     IF c < kFineClasses THEN 32768
     ELSE ((ClassToObjects[c] * ClassToSize[c] + kSpanHeaderSize) \div kPageSize + 1)
            * kPageSize]

-----------------------------------------------------------------------------

VARIABLES
  current,    \* current_ of the object space
  failed,     \* the object space was used up: Fatal
  class,      \* size_class_ of every span, 0 before its first use
  list,       \* list_ of its local free list, as a sequence
  bump,       \* bump_pointer_
  len,        \* len_
  remote,     \* its remote free list
  live        \* the objects with the program, and the sizes it asked for

vars == << current, failed, class, list, bump, len, remote, live >>

(* The arena is aligned to its size. *)
start == Multiple * ArenaSpans * kVirtualSpanSize
end == start + ArenaSpans * kVirtualSpanSize

Bases == { start + i * kVirtualSpanSize : i \in 0 .. ArenaSpans - 1 }

HeaderEnd(s) == s + kSpanHeaderSize

(* Mutant of FromObject: the mask keeps one bit too many. *)
FromObjectHalf(p) == AlignDown(p, kVirtualSpanSize \div 2)

FromObject(p) == AlignDown(p, kVirtualSpanSize)

Init ==
  /\ current = start
  /\ failed = FALSE
  /\ class = [s \in Bases |-> 0]
  /\ list = [s \in Bases |-> << >>]
  /\ bump = [s \in Bases |-> 0]
  /\ len = [s \in Bases |-> 0]
  /\ remote = [s \in Bases |-> << >>]
  /\ live = {}

(* Span::Span *)
BuildSpan(s, c) ==
  /\ class' = [class EXCEPT ![s] = c]
  /\ list' = [list EXCEPT ![s] = << >>]
  /\ bump' = [bump EXCEPT ![s] = HeaderEnd(s)]
  /\ len' = [len EXCEPT ![s] = ClassToObjects[c]]
  /\ remote' = [remote EXCEPT ![s] = << >>]

(* Mutant of OutOfMemory: the bound is not checked. *)
OutOfMemoryNever(obj) == FALSE

(* The last virtual span is never used. *)
OutOfMemory(obj) == obj + kVirtualSpanSize >= end

AllocateVirtualSpan(c) ==
  /\ current' = current + kVirtualSpanSize
  /\ IF OutOfMemory(current)
       THEN failed' = TRUE /\ UNCHANGED << class, list, bump, len, remote >>
       ELSE BuildSpan(current, c) /\ UNCHANGED failed
  /\ UNCHANGED live

LiveIn(s) == { o \in live : FromObject(o.addr) = s }

(* A span of which nothing is in use comes back for any size class. *)
Recycle(s, c) ==
  /\ class[s] # 0
  /\ LiveIn(s) = {}
  /\ BuildSpan(s, c)
  /\ UNCHANGED << current, failed, live >>

(* The object that Pop takes: of the list first *)
NextObject(s) == IF list[s] # << >> THEN Head(list[s]) ELSE bump[s]

(* IncrementalFreeList::Pop, for a request of this size *)
Pop(s, size) ==
  LET c == class[s] IN
  /\ c # 0 /\ c = SizeToClass(size)
  /\ list[s] # << >> \/ len[s] # 0
  /\ Cardinality(LiveIn(s)) + Len(remote[s]) < MaxOut
  /\ IF list[s] # << >>
       THEN list' = [list EXCEPT ![s] = Tail(@)] /\ UNCHANGED bump
       ELSE bump' = [bump EXCEPT ![s] = @ + ClassToSize[c]] /\ UNCHANGED list
  /\ len' = [len EXCEPT ![s] = @ - 1]
  /\ live' = live \cup {[addr |-> NextObject(s), size |-> size]}
  /\ UNCHANGED << current, failed, class, remote >>

(* IncrementalFreeList::Push, by the owner *)
Push(p) ==
  LET s == FromObject(p) IN
  /\ live' = { o \in live : o.addr # p }
  /\ list' = [list EXCEPT ![s] = Cons(p, @)]
  /\ len' = [len EXCEPT ![s] = @ + 1]
  /\ UNCHANGED << current, failed, class, bump, remote >>

(* Stack::PushReturnTag, by another thread *)
PushRemote(p) ==
  LET s == FromObject(p) IN
  /\ live' = { o \in live : o.addr # p }
  /\ remote' = [remote EXCEPT ![s] = Cons(p, @)]
  /\ UNCHANGED << current, failed, class, list, bump, len >>

(* Mutant of Exhausted: the local list is replaced in any case. *)
ExhaustedAlways(s) == TRUE

Exhausted(s) == len[s] = 0

(* Span::MoveRemoteToLocalObjects: SetList, or one Push after the other *)
MoveRemoteToLocalObjects(s) ==
  /\ remote[s] # << >>
  /\ remote' = [remote EXCEPT ![s] = << >>]
  /\ IF Exhausted(s)
       THEN /\ list' = [list EXCEPT ![s] = remote[s]]
            /\ len' = [len EXCEPT ![s] = Len(remote[s])]
       ELSE /\ list' = [list EXCEPT ![s] = Reverse(remote[s]) \o @]
            /\ len' = [len EXCEPT ![s] = @ + Len(remote[s])]
  /\ UNCHANGED << current, failed, class, bump, live >>

Next ==
  /\ ~failed
  /\ \/ \E size \in Requests :
          \/ AllocateVirtualSpan(SizeToClass(size))
          \/ \E s \in Bases : Recycle(s, SizeToClass(size)) \/ Pop(s, size)
     \/ \E o \in live : Push(o.addr) \/ PushRemote(o.addr)
     \/ \E s \in Bases : MoveRemoteToLocalObjects(s)

Spec == Init /\ [][Next]_vars

-----------------------------------------------------------------------------

Addresses == start .. end - 1

TypeOK ==
  /\ current \in Bases \cup {end}
  /\ failed \in BOOLEAN
  /\ class \in [Bases -> Classes \cup {0}]
  /\ \A s \in Bases :
       /\ bump[s] = 0 \/ bump[s] \in Addresses
       /\ len[s] \in Nat
       /\ \A i \in DOMAIN list[s] : list[s][i] \in Addresses
       /\ \A i \in DOMAIN remote[s] : remote[s][i] \in Addresses
  /\ \A o \in live : o.addr \in Addresses /\ o.size \in Requests

Used == { s \in Bases : class[s] # 0 }

(* The last byte of an object *)
LastByte(o) == o.addr + ClassToSize[class[FromObject(o.addr)]] - 1

(* What the program writes to an object reaches neither another object nor *)
(* the header of a span nor an address beyond the part of the virtual span *)
(* that is meant to be used (ClassToSpanSize), and every byte of an object *)
(* leads FromObject to its span.                                           *)
ObjectsApart ==
  /\ \A o \in live :
       LET s == FromObject(o.addr) IN
       /\ s \in Used
       /\ HeaderEnd(s) <= o.addr
       /\ LastByte(o) < s + ClassToSpanSize[class[s]]
       /\ ClassToSpanSize[class[s]] <= kVirtualSpanSize
       /\ FromObject(LastByte(o)) = s
  /\ \A o, p \in live : o # p => LastByte(o) < p.addr \/ LastByte(p) < o.addr

(* The number that frees of other threads rely on, and that decides when a *)
(* span is deleted, counts what Pop can still hand out: the objects in the *)
(* list and those beyond the bump pointer.  SetList keeps it right because *)
(* it is used only when there are none of either.  A span has room for     *)
(* all of its objects.                                                     *)
LenCounts ==
  \A s \in Used :
    LET c == class[s]
        bumped == (bump[s] - HeaderEnd(s)) \div ClassToSize[c] IN
    /\ len[s] - Len(list[s]) = ClassToObjects[c] - bumped
    /\ bumped <= ClassToObjects[c]
    /\ HeaderEnd(s) + ClassToObjects[c] * ClassToSize[c] <= s + ClassToSpanSize[c]

(* SizeToClass and SizeToBlockSize against the tables: every size up to    *)
(* kMaxMediumSize has the smallest class that holds it, and the block size *)
(* computed without the table is the one in the table (ClassToSize).       *)
SmallestClass ==
  \A size \in 1 .. kMaxMediumSize :
    LET c == SizeToClass(size) IN
    /\ c \in Classes
    /\ size <= ClassToSize[c]
    /\ c > 1 => ClassToSize[c - 1] < size
    /\ SizeToBlockSize(size) = ClassToSize[c]

(* A request gets the smallest block that holds it, from whatever span and *)
(* after whatever lives of the span under other size classes.              *)
RequestFits ==
  /\ SmallestClass
  /\ \A o \in live : SizeToBlockSize(o.size) = ClassToSize[class[FromObject(o.addr)]]
=============================================================================
