-------------------------------- MODULE Heap ---------------------------------
(***************************************************************************)
(* The functions that a program calls: src/glue.h, with large objects      *)
(* (src/large-objects.h), Arena::Contains and Span::AlignToBlockStart.     *)
(* A free has nothing but an address, and finds out from it alone whether  *)
(* it is a block of a span, the inside of one, or a mapping of its own.    *)
(*                                                                         *)
(* Blocks come from ObjectSpace.  Which thread calls makes no difference   *)
(* to addresses, except that its free is local or remote.  Arithmetic on   *)
(* sizes wraps as size_t does, at WordSize.  What changes no state is left *)
(* out: malloc(0), free(NULL), malloc_stats, mallopt.                      *)
(***************************************************************************)
EXTENDS ObjectSpace

CONSTANTS
  Sizes,          \* arguments of malloc, realloc and the functions that align
  Counts,         \* pairs of arguments of calloc
  Aligns,         \* alignments that the program asks for
  WordBits,       \* the width of addresses and of size_t ...
  WordSize,       \* ... which are numbers below this
  AlignTagBytes,  \* sizeof(int_fast32_t): 4 on OS X, 8 on Linux
  ReallocAligned, \* TRUE: the program reallocs aligned addresses too
  Areas,          \* where mmap places mappings
  MaxMapping      \* the largest mapping that the system grants

ASSUME WordAssumption ==
  /\ WordBits \in 22 .. 64 /\ WordSize \in Nat
  /\ WordSize = 2^WordBits /\ end <= WordSize
ASSUME SizesAssumption ==
  /\ Sizes \subseteq 1 .. WordSize - 1
  /\ Counts \subseteq (1 .. WordSize - 1) \X (1 .. WordSize - 1)
  /\ \A a \in Aligns : \E k \in 3 .. 20 : a = 2^k
ASSUME SystemAssumption ==
  /\ AlignTagBytes \in {4, 8}
  /\ ReallocAligned \in BOOLEAN
  /\ MaxMapping \in Nat
  /\ \A a \in Areas : a \in Nat /\ a % kPageSize = 0

(* What the calls below ask Core::Allocate for *)
Needs ==
  Sizes \cup { (align + size) % WordSize : align \in Aligns, size \in Sizes }
        \cup { (n[1] * n[2]) % WordSize : n \in Counts }
ASSUME NeedsAssumption ==
  \A need \in Needs : need \in 1 .. kMaxMediumSize => need \in Requests

VARIABLES
  large,          \* the mappings of large objects: where, and actual_size_
  seen_memalign,
  held,           \* the addresses that the program has, and what it asked for
  moved           \* what realloc has copied and has yet to free

heapVars == << large, seen_memalign, held, moved >>
allVars == << vars, heapVars >>

HeapInit ==
  /\ Init
  /\ large = {}
  /\ seen_memalign = FALSE
  /\ held = {}
  /\ moved = {}

-----------------------------------------------------------------------------
(* Large objects *)

kLargeHeader == 16

PadSize(size, multiple) ==
  LET up == (size + multiple - 1) % WordSize IN AlignDown(up, multiple)

MmapSucceeds(size) == size \in 1 .. MaxMapping

(* mmap places a mapping where there is none. *)
Vacant(base, size) ==
  /\ base + size <= start \/ end <= base
  /\ \A m \in large : base + size <= m.base \/ m.base + m.actual <= base

(* FromMutatorPtr rounds down to a page ... *)
FromMutatorPtr(p) == AlignDown(p, kPageSize)

(* ... where it expects a header. *)
Validate(base) == \E m \in large : m.base = base

PayloadSize(p) ==
  LET m == CHOOSE m \in large : m.base = FromMutatorPtr(p) IN
  m.actual - kLargeHeader

-----------------------------------------------------------------------------
(* Core::Allocate: an object of a span or a large one.  posix_memalign      *)
(* makes from it the address that the program gets, with a tag in front.    *)

(* new_start: always behind start, so there is room for the tag *)
AlignUp(addr, align) == addr + align - (addr % align)

Hold(p, size, align, tagged) ==
  held' = held \cup {[ptr |-> IF tagged THEN AlignUp(p, align) ELSE p,
                      size |-> size, align |-> align, tagged |-> tagged]}

AllocateLarge(need, size, align, tagged) ==
  LET actual == PadSize((need + kLargeHeader) % WordSize, kPageSize) IN
  /\ need > kMaxMediumSize
  /\ IF MmapSucceeds(actual)
       THEN \E base \in Areas :
              /\ Vacant(base, actual)
              /\ large' = large \cup {[base |-> base, actual |-> actual]}
              /\ Hold(base + kLargeHeader, size, align, tagged)
              /\ UNCHANGED failed
       ELSE failed' = TRUE /\ UNCHANGED << large, held >>
  /\ UNCHANGED << current, class, list, bump, len, remote, live >>

AllocateSmall(need, size, align, tagged) ==
  /\ need \in 1 .. kMaxMediumSize
  /\ \E s \in Bases : Pop(s, need) /\ Hold(NextObject(s), size, align, tagged)
  /\ UNCHANGED large

Allocate(need, size, align, tagged) ==
  \/ AllocateLarge(need, size, align, tagged)
  \/ AllocateSmall(need, size, align, tagged)

malloc(size) ==
  /\ Allocate(size, size, kMinAlignment, FALSE)
  /\ UNCHANGED << seen_memalign, moved >>

(* Mutant of Overflows: the product is not checked. *)
OverflowsNever(nmemb, size) == FALSE

Overflows(nmemb, size) == ((nmemb * size) % WordSize) \div size # nmemb

(* What the program may use are nmemb * size bytes. *)
calloc(nmemb, size) ==
  /\ ~Overflows(nmemb, size)
  /\ Allocate((nmemb * size) % WordSize, nmemb * size, kMinAlignment, FALSE)
  /\ UNCHANGED << seen_memalign, moved >>

(* Mutant of posix_memalign: frees are not told to look for tags. *)
posix_memalign_unseen(align, size) ==
  /\ Allocate((align + size) % WordSize, size, align, TRUE)
  /\ UNCHANGED << seen_memalign, moved >>

(* Mutant of posix_memalign: no room to align. *)
posix_memalign_tight(align, size) ==
  /\ seen_memalign' = TRUE
  /\ Allocate(size, size, align, TRUE)
  /\ UNCHANGED moved

(* Also memalign, aligned_alloc, valloc and pvalloc, which call it *)
posix_memalign(align, size) ==
  /\ seen_memalign' = TRUE
  /\ Allocate((align + size) % WordSize, size, align, TRUE)
  /\ UNCHANGED moved

(* Asked for nothing, it returns NULL; frees look for tags all the same. *)
posix_memalign0 ==
  /\ seen_memalign' = TRUE
  /\ UNCHANGED << vars, large, held, moved >>

-----------------------------------------------------------------------------
(* Frees *)

(* Of a word of two halves *)
Bit(x, k) ==
  IF k < 32 THEN (x \div 2^k) % 2 ELSE ((x \div 2^32) \div 2^(k - 32)) % 2

(* A bit of the exclusive-or of two addresses *)
XorBit(x, y, k) == (Bit(x, k) + Bit(y, k)) % 2

(* Is their exclusive-or less than n?  The highest bit decides in which it *)
(* differs from n.                                                         *)
XorBelow(x, y, n) ==
  \E k \in 0 .. WordBits - 1 :
    /\ XorBit(x, y, k) < Bit(n, k)
    /\ \A j \in k + 1 .. WordBits - 1 : XorBit(x, y, j) = Bit(n, j)

(* Mutant of Contained: twice the length. *)
ContainsMore(p) == XorBelow(p, start, 2 * (end - start))

(* Arena::Contains *)
Contained(p) == XorBelow(p, start, end - start)

(* Does the int_fast32_t in front of an address equal kAlignTag?            *)
(* posix_memalign has stored the tag in the four bytes in front.  Of eight  *)
(* bytes these are the upper half, which is zero in kAlignTag.  In front of *)
(* other addresses is anything: data of the object before, or the header.   *)
TagFound(o) == IF o.tagged THEN {AlignTagBytes = 4} ELSE BOOLEAN

(* Mutant of BlockStart: the header of the span is forgotten. *)
BlockStartRaw(p) == p - ((p - FromObject(p)) % ClassToSize[class[FromObject(p)]])

BlockStart(p) ==
  LET s == FromObject(p) IN p - ((p - HeaderEnd(s)) % ClassToSize[class[s]])

(* Core::Free, up to the free list that the object goes to *)
FreeSmall(o) ==
  /\ \E found \in TagFound(o) :
       LET p == IF seen_memalign /\ found THEN BlockStart(o.ptr) ELSE o.ptr IN
       Push(p) \/ PushRemote(p)
  /\ UNCHANGED large

LargeObjectFree(o) ==
  LET base == FromMutatorPtr(o.ptr) IN
  /\ IF Validate(base)
       THEN large' = { m \in large : m.base # base } /\ UNCHANGED failed
       ELSE failed' = TRUE /\ UNCHANGED large
  /\ UNCHANGED << current, class, list, bump, len, remote, live >>

Release(o) == IF Contained(o.ptr) THEN FreeSmall(o) ELSE LargeObjectFree(o)

free(o) ==
  /\ Release(o)
  /\ held' = held \ {o}
  /\ UNCHANGED << seen_memalign, moved >>

OldSize(o) ==
  IF Contained(o.ptr) THEN ClassToSize[class[FromObject(o.ptr)]]
                      ELSE PayloadSize(o.ptr)

(* realloc in place, ... *)
reallocStay(o, size) ==
  /\ OldSize(o) >= size
  /\ held' = (held \ {o}) \cup {[o EXCEPT !.size = size]}
  /\ UNCHANGED << vars, large, seen_memalign, moved >>

(* ... or with malloc and memmove first, and free in a second step. *)
reallocMove(o, size) ==
  /\ OldSize(o) < size
  /\ Allocate(size, size, kMinAlignment, FALSE)
  /\ moved' = {o}
  /\ UNCHANGED seen_memalign

(* Mutant of reallocFree: the old object is only forgotten. *)
reallocFreeNothing(o) ==
  /\ held' = held \ {o}
  /\ moved' = {}
  /\ UNCHANGED << vars, large, seen_memalign >>

reallocFree(o) ==
  /\ Release(o)
  /\ held' = held \ {o}
  /\ moved' = {}
  /\ UNCHANGED seen_memalign

-----------------------------------------------------------------------------
(* What Core does for an allocation when no span of the class has objects *)

GetSpan(c) ==
  /\ \/ AllocateVirtualSpan(c)
     \/ \E s \in Bases : Recycle(s, c) \/ (class[s] = c /\ MoveRemoteToLocalObjects(s))
  /\ UNCHANGED heapVars

HeapNext ==
  /\ ~failed
  /\ IF moved = {}
       THEN \/ \E size \in Sizes :
                 \/ malloc(size)
                 \/ \E align \in Aligns : posix_memalign(align, size)
                 \/ \E o \in held :
                      /\ o.tagged => ReallocAligned
                      /\ reallocStay(o, size) \/ reallocMove(o, size)
            \/ posix_memalign0
            \/ \E n \in Counts : calloc(n[1], n[2])
            \/ \E o \in held : free(o)
            \/ \E size \in Requests : GetSpan(SizeToClass(size))
       ELSE \E o \in moved : reallocFree(o)

HeapSpec == HeapInit /\ [][HeapNext]_allVars

-----------------------------------------------------------------------------
(* What the properties below take for granted.  Beyond these limits the    *)
(* code goes wrong, each time in another way.                              *)

(* The sums that allocation forms do not wrap. *)
NeedFits(need) == need + kLargeHeader + kPageSize <= WordSize

SumsFit ==
  /\ \A size \in Sizes : NeedFits(size) /\ \A align \in Aligns : NeedFits(align + size)
  /\ \A n \in Counts : n[1] * n[2] < WordSize => NeedFits(n[1] * n[2])

(* An aligned address stays on the first page of a mapping; the tag is     *)
(* read as it was written; realloc is not asked about aligned addresses;   *)
(* and Arena::Contains does not take a mapping for a span.                 *)
Limits ==
  /\ SumsFit
  /\ \A align \in Aligns : align < kPageSize
  /\ AlignTagBytes = 4
  /\ ~ReallocAligned
  /\ \A base \in Areas : ~XorBelow(base, start, end - start)

(* Nor does it take a span for a mapping, of those in use so far. *)
SpansContained == \A s \in Used : Contained(s)

-----------------------------------------------------------------------------

HeapTypeOK ==
  /\ TypeOK
  /\ \A m \in large : m.base \in Areas /\ m.actual \in 1 .. MaxMapping
  /\ seen_memalign \in BOOLEAN
  /\ \A o \in held : o.ptr \in Nat /\ o.size \in Nat
                     /\ o.align \in Aligns \cup {kMinAlignment} /\ o.tagged \in BOOLEAN
  /\ moved \subseteq held

Program == INSTANCE Allocator WITH allocated <- held

(* The heap is an allocator: what the program holds never overlaps and is  *)
(* aligned, over every sequence of calls, blocks that are used again with  *)
(* other alignments, spans that come back with another size class and      *)
(* realloc, which holds two objects while it copies.                       *)
IsAllocator == Program!Spec

(* Every address the program holds has room for what was asked, inside of  *)
(* one block that is not free, or of one mapping behind its header.        *)
RoomForRequest ==
  \A o \in held :
    \/ \E b \in live : /\ b.addr <= o.ptr
                       /\ o.ptr + o.size <= b.addr + ClassToSize[class[FromObject(b.addr)]]
    \/ \E m \in large : /\ m.base + kLargeHeader <= o.ptr
                        /\ o.ptr + o.size <= m.base + m.actual

(* glue.h:126: posix_memalign adds "a magicnumber to force recalculation   *)
(* of free() address", and so handles "the free still correct".  Every     *)
(* address that frees put into the free lists is that of a block, and each *)
(* block is in one place.                                                  *)
FreeStillCorrect ==
  \A s \in Used :
    LET size == ClassToSize[class[s]]
        freed == ToSet(list[s]) \cup ToSet(remote[s])
        out == { o.addr : o \in LiveIn(s) } IN
    /\ \A p \in freed : (p - HeaderEnd(s)) % size = 0 /\ p < bump[s]
    /\ freed \cap out = {}
    /\ size * Cardinality(freed \cup out) = bump[s] - HeaderEnd(s)
    /\ IsInjective(list[s] \o remote[s])

(* A free decides by the address whether it is one of the object space,    *)
(* which "Requires proper alignment of start_!" (arena.h:78) and no more,  *)
(* or of a mapping, which is "always allocated using mmap, hence it is     *)
(* page aligned" (large-objects.h:46) and starts with its header.          *)
FreeFindsOwner ==
  \A o \in held :
    IF Contained(o.ptr) THEN FromObject(o.ptr) \in Used
                        ELSE Validate(FromMutatorPtr(o.ptr))

(* Nothing leaks: a block or mapping that is out belongs to one address.   *)
NothingLeaks == Cardinality(held) = Cardinality(live) + Cardinality(large)
=============================================================================
