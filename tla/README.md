# scalloc in TLA+

A model of [scalloc](../src/README.md), a concurrent memory allocator: TLA+
modules for its data structures and for the protocol by which threads allocate,
free, share, recycle and give up memory; TLC runs that check them on small
instances; and proofs checked by TLAPS, for every value of the constants, of what
makes the stack, the deque, the span pool, the spans, the object space, the
thread-local buffers and the interface to the program correct. Paths below are relative to the repository; line numbers in the modules'
comments refer to files in `src/`.

## The system

| Component | State | Operations | Uses |
|---|---|---|---|
| Tagged values and stack (`stack.h`, `atomic_value.h`, `core_id.h`) | `top_`: 48 bits of pointer and a 16-bit tag in one word; the first word of every block | Push, PushReturnTag, Pop, PopAll, Length, Empty; PushRange and SetTop have no caller | compare-and-swap |
| Deque and spin lock (`deque.h`, `lock.h`) | a ring of nodes through a sentinel, `owner_`, `lock_` | PushFront, PushBack, Remove, RemoveFront, RemoveBack, RemoveAll under the lock; Open, Close without it | |
| Incremental free list (`free_list.h`) | list, bump pointer, `len_` | Push, Pop, SetList, Length | owner thread writes, all threads read `len_` |
| Span (`span.h`) | `epoch_` (hot, full and reuse bits and a 28-bit value), `owner_`, local and remote free list, link | New, Delete, Allocate, Free, MoveRemoteToLocalObjects, NewMark..., TryReviveNew | stack, free list, span pool |
| Core (`core.h`) | identity, hot span and list of reusable spans per size class | Allocate, GetSpan, Free, Init, Destroy | span, deque |
| Span pool (`span_pool.h`) | `current_threads_`, `limit_`, stacks per slot and backend | Allocate, Free, AnnounceNewThread, AnnounceLeavingThread | stack, arena |
| Arena (`arena.h`) | bump pointer and bounds | Init, Allocate, AllocateVirtualSpan, Contains | mmap |
| Thread-local buffers (`lab.h`) | TLS key, stack of free cores, thread counter | GetMeALAB, GetAB, ThreadDestructor | core, span pool, stack |
| Round-robin buffers (`lab.h`, GuardedCore in `core.h`) | buffers shared by several threads | an alternative build; it has no GetMeALAB and does not compile at this commit | |
| Large objects (`large-objects.h`) | a header in front of a private mapping | Allocate, Free, PayloadSize | mmap |
| Interface (`glue.h`, `glue.cc`) | `seen_memalign`, the start-up guard | malloc, free, calloc, realloc, posix_memalign, ... | all of the above |
| Size classes, helpers (`size_classes*.h`, `utils.h`) | tables | SizeToClass, SizeToBlockSize, Log2, PadSize, CpusOnline | |
| Start-up (`glue.cc`) | `ScallocGuardRefcount` | ScallocGuard, ScallocInit, scalloc_thread_start | arenas, pool, buffers |
| Interception (`platform/`) | none | aliases for malloc, a wrapper of pthread_create | start-up |

What is hard here is concurrency without locks. `malloc` and the local half of
`free` work on unsynchronised fields of a span that is private to a thread *by
protocol*: the span is hot, and the epoch says so. A `free` by any thread reads
the epoch, the owner and two lengths one after the other, and then decides, with
one compare-and-swap of the epoch, whether to offer the span for reuse or to
delete it. Meanwhile the owner allocates, floats the span, ends, and hands its
core to another thread. The properties that make the components correct:

- **stack**: no ABA; the links form the stack; a remote list's tag is its length;
  every operation is atomic; some operation always completes;
- **deque**: outside of critical sections the links form the list; a closed list
  is empty and stays so; every path unlocks;
- **span pool**: the number of backends in use stays within the array; scans find
  what stays in the pool;
- **span and core**: objects are neither lost nor duplicated; a hot span is
  private; a span is deleted by one free; epochs do not come back; lists hold
  spans of their owner; a free that has decided to delete a span does so; malloc
  fails only when out of memory;
- **arena, sizes, free list**: objects are disjoint and within bounds; every size
  gets the smallest class that holds it; `len_` counts what can be handed out;
- **thread-local buffers, start-up**: no two threads drive a core, and an identity
  that was noted down earlier is told from the one of a thread that took over;
  every call finds a buffer; cores are used again; start-up happens once, whoever
  comes first; a thread that ends leaves its core to the next one;
- **interface, large objects**: what the program holds is apart, aligned and large
  enough; a free finds the start of the block, or the mapping, from an address
  alone; sizes that wrap are refused; nothing leaks.

## Modules

| Module | Models | Abstraction |
|---|---|---|
| `LifoStack` | what users of `stack.h` rely on | every operation in one step |
| `TreiberStack` | `stack.h`, `atomic_value.h` | one action per load, link write and swap |
| `TreiberStackProofs` | | theorems about `TreiberStack` |
| `OwnedDeque` | what users of `deque.h` rely on | every operation in one step |
| `SpanDeque` | `deque.h`, `lock.h` | one action per lock step, owner check and pair of link writes |
| `SpanPool` | `span_pool.h` | backends are atomic; which span a pop returns is open |
| `SpanProtocol` | `span.h`, `core.h`, `free_list.h`, start and end of threads in `lab.h` | one action per access to shared memory; deques and pool as what the modules above show them to be |
| `ObjectSpace` | `size_classes.h`, `free_list.h`, virtual spans of `arena.h`, addresses in `span.h` | every operation in one step; which span is used and when it is recycled is open |
| `Allocator` | what a program relies on | regions that are apart and aligned |
| `Heap` | `glue.h`, `large-objects.h`, Arena::Contains, AlignToBlockStart; extends `ObjectSpace` | every call in one step, realloc in two; threads differ only in that a free is local or remote |
| `CoreLease` | what spans, deques and pool rely on from `lab.h` | identities that are taken and given back |
| `Lab` | `lab.h`, `glue.cc`, core arena, `pthread_intercept.cc` | one action per access to shared memory; the stack of free cores is atomic |
| `SpanDequeProofs`, `SpanPoolProofs`, `SpanProtocolProofs`, `ObjectSpaceProofs`, `HeapProofs`, `LabProofs` | | theorems about the module of that name |
| `ListFacts` | | lemmas about the sequences that model lists |
| `MC...` | | the symmetry or the inputs of each instance; `MCHeapLimits` evaluates the hypotheses of the theorems about `Heap` on the one of the run `heap` |

**TreiberStack.** `top` is `top_`, `next` the first word of each block, `pc`,
`arg`, `old` and `succ` a thread's position and locals. `contents` and `out` are
history: the stack as operations take effect, and the blocks in the program's
hands. `Write` lets the program overwrite the first word of any block that it
owns, which is what makes a stale `PopRead` dangerous. The two ways in which
the repository uses stacks never mix and are told apart by `Discipline`. A tag of
16 bits cannot tell 65536 swaps from none: `SwapBound` assumes that a Pop is not
overtaken by that many swaps between its load and its swap; `lag` counts them.
The assumption is needed (TLC finds the ABA without it) and applies to "pool" only.

**SpanDeque.** `next` and `prev` are the links, `owner`, `lock` the fields, `list`
the history of what the list contains. `Driver` is the thread of the core; its
`phase` follows Core::Init and Core::Destroy. `Call` is how Core::Free uses
the list: a node is pushed by the one free that marked its span, and removed at
any time, on behalf of any owner that ever was. An operation takes effect when it
has passed its owner check; Open and Close may fall between any two steps. `OwnedDeque`
knows the calls that have not taken effect (`call`, mapped from `Pending`) with the owner
they name: a call takes effect only while that owner has the list, and is refused only
if it has not or if the node to be removed is not in the list. A push for an earlier
owner into a list that was opened again is therefore not a step of `OwnedDeque`.

**SpanPool.** `want`, `seen`, `step` and `start` are the locals of the loops in
AnnounceNewThread and Allocate; `limit` is read anew wherever the code reads it.
Computing the index of a backend (`at`) and popping from it, or pushing the span
(`given`) to it, are separate steps, so the limit may be raised in between.
A span may be freed under the tag of any thread that ever was. The run starts
after ScallocInit has announced the first thread. `peak` and `stayed` are history:
`stayed` is what has been in the pool since a scan began, whatever happens to the
limit. `Users` bounds the run: only these threads allocate, the others come, go and free.
When the arena is used up the code ends the process (`Fatal`); so does the model.

**SpanProtocol.** A process is a core: dead, idle, or inside malloc, free or the
thread's destructor. Objects of a span are interchangeable, so a span has three
numbers: `local` and `remote` (free lists), `live` (with the program). The labels
of `pc` follow Core::Allocate (`alloc`, `refill`, `float_...`, `get_...`,
`alloc_last`), Core::Free (`free_...`, in the order of its lines) and
Core::Destroy (`float_...`, `drain`, `terminate`). `len_` is a plain field;
with `StoreBuffer` its last store may reach other threads late, until an
atomic instruction of the owner or `Drain`. `visible` is what others read; one
store per span may be pending. Three steps of the code are one action because
nobody can see between them: the constructor of a span taken from the pool (a stale
compare-and-swap on its owner is overwritten, one on its epoch fails), the setting
of a core's identity and lists before the core owns anything, and the two reads of
the owner's identity in Free. `FreeCount` asks again who owns the span, which Span::Free decides once: the answers differ
only if the span was deleted in between, when no compare-and-swap of this free can
succeed any more. Moving several remote objects one by one to a
non-empty local list is one action as well; with two objects per span it moves
one. When an assertion of the code fails, `broken` names it and the
behaviour ends: the safety properties hold up to that point.

**ObjectSpace.** Addresses are numbers, and sizes, tables and masks are those of
the code. `current` is the bump pointer of the arena; `list`, `bump` and `len`
are the incremental free list of each span, `remote` its remote list, `live`
the objects with the program and the sizes it asked for. The arena starts at
`Multiple` times its own size, which decides about Arena::Contains. A span in
which nothing is live may be built again for any size class; that this is so when
`SpanProtocol` deletes a span is what `ObjectsConserved` is about. `Fatal` ends
the behaviour (`failed`).

**Heap.** `held` are the addresses that the program has, with the size and the
alignment it asked for; they are the state of `Allocator`, which `Heap` refines.
`large` are the mappings with their headers, `seen_memalign` the flag of `glue.h`,
and `moved` the object that realloc has copied and not yet freed. `size_t`
wraps at `WordSize` in PadSize, calloc and posix_memalign. A free takes the decisions
of the code from the address only: `Contained` is the comparison of Arena::Contains
with the exclusive-or taken bit by bit (`XorBelow`; `MCHeap` compares it with the one
of Bitwise), `FromMutatorPtr` rounds down to a page, `BlockStart` is the
arithmetic of AlignToBlockStart. The word in front of an address that was not
aligned holds anything, so the tag may be found there by chance (`TagFound`).
mmap may place a mapping wherever none is (`Vacant`) out of `Areas`. The constant
`AlignTagBytes` is the width of `int_fast32_t`, and `ReallocAligned` says whether the
program passes aligned addresses to realloc. `Limits` and `SpansContained` collect
what the properties need of the environment; beyond each of them the code goes wrong,
see the findings and observations:

| Needed | Without it |
|---|---|
| sums of sizes do not wrap (`SumsFit`) | observation on sizes close to 2^64 |
| alignments are below a page | observation on valloc |
| `AlignTagBytes` is 4 | finding 4 |
| aligned addresses are not reallocated | observation on realloc |
| Arena::Contains is right about mappings (`Limits`) and about spans in use (`SpansContained`) | observation on Arena::Contains |

**Lab.** A thread is unborn, in GetMeALAB (`find`, `alloc`, `init`, `announce`), in
the rest of start-up (`atexit`, `delete`), with the program (`run`), in its
destructor (`destroy`, `leave`, `push`, `clear`), or past it (`late`, `dead`).
`ab` is the thread-local pointer, which is cleared only after the core has been
given to others. Identities carry `thread_ids` modulo `TagSize`, as `core_id` truncates
it; `lease`, the mapped state of `CoreLease`, is the identity under which a thread
drives its core between Core::Init and the last store of Core::Destroy. `Main` runs
the constructors, in which malloc may come before the guard. `issued`, `inits`
and `peak` are history; `lost` counts arguments of threads that the system refused.

## Runs

TLC checks the following; `PROJECT.json` names the configurations and, for every
property of a passing run, a mutation of the model that breaks it.

| Run | Shows | Instance |
|---|---|---|
| `stack_pool` | StackIntact, Linearizable with Push and Pop | 2 threads, 3 blocks, 4 tags |
| `stack_remote` | TagIsLength, Linearizable, LockFree with PushReturnTag and PopAll | 2 threads, 2 blocks, 3 tags |
| `deque` | RingIntact, ClosedStaysEmpty, Atomic, LockReleased | driver and 1 thread, 3 nodes, 3 owners |
| `pool` | LimitInRange, PooledInReach, PoolBeforeArena | 3 threads of which 2 allocate, 3 tags, 1 span, 3 backends, 2 slots |
| `span_safety` | ObjectsConserved, HotIsExclusive, DeletedOnce, FloatHasNoRace, FullIsDeleted, EpochAdvances | 2 cores, 2 spans of 2 objects, threshold 0, store buffers, epochs to 3, 2 threads |
| `span_threads` | ObjectsConserved, ListedByOwner | the same without store buffers, epochs to 2, 3 threads on 2 cores |
| `heap` | ObjectsApart, LenCounts, RequestFits, RoomForRequest, FreeStillCorrect, FreeFindsOwner, NothingLeaks, IsAllocator | an arena of 3 virtual spans at twice its size, 4 sizes and alignment 64, at most 2 objects of a span outside its local list, one place for mappings, a `size_t` of 26 bits |
| `lab` | HasBuffer, InitOnce, CoresReused, ThreadsCounted, LeasesCores, ThreadsComeAndGo | 3 threads, 2 tags, room for 2 cores |
| `find_memalign` | finding 4 | as `heap`, with an `int_fast32_t` of 8 bytes |
| `find_...` (others) | findings 1 to 3 | 2 cores, 2 spans of 2 objects, threshold 1 (size class 27), epochs to 5, 3 threads |

`TypeOK` is checked once for every module. `RequestFits` is about the
objects that are out and, besides, about all sizes from 1 byte to 1 MiB.

**Why these bounds.** ABA needs a Pop that is overtaken by a pop, a pop or push
and a push of the first block: 2 threads and 3 blocks; 4 tags make the tag wrap
within the run. The ring needs 3 nodes for the removal of an inner node; three
identities make stale ones meet a reopened list. (Three threads with two
identities, 923,300 states, show nothing else.) In the pool, three threads and
three backends let the limit grow from 2 to 3 under a scan that has started at
backend 1 and wraps, and three tags free a span of a thread that has ended. Two threads
with 2 spans and 2 backends (483,332 states), three threads that all allocate,
with one slot (1,052,687), and the instance of the run with 2 spans (14.5 million) agree. For spans, K = 2 and Threshold = 0 is the smallest case in which, as in
the classes with 8 objects and more, a count can exceed the threshold without
reaching K. A span that comes back from the pool keeps the value of its epoch,
so epochs up to 3 cover two lives (hot 1, full 2, and again as far as reuse or
full 3), and epochs up to 2 a first life and the start of a second. Epochs up
to 4 (3.5 million states), K = 3 with Threshold = 1 (4.2 million), K = 1 with
Threshold = 0 (size class 28; three threads, epochs to 5) and three threads with
epochs to 3 (7 million states) were explored as well and agree.

The sizes of `heap` are a small one, a medium one, one that aligned to 64 bytes needs a span
with a single object, and one that is large; one of the pairs for calloc wraps to a
small product. Of the 3 virtual spans 2 can be used (the check of the bound
refuses the last one), and the classes with 1 and 2 objects are used up within the
bound on objects, so that SetList happens. At twice its own size the arena starts where
Contains is exact for the addresses that are handed out. In `lab`, two tags wrap
with the second thread, and room for two cores makes the third thread either take a
core over or end the process; 4 threads with 3 tags and room for 3 cores
(1,058,735 states, without liveness) agree.

`SpanProtocol`, `SpanPool`, `Heap` and `Lab` do not check deadlock: runs end where
a bound is reached, where an arena is empty, where an assertion fails or when
all threads have ended.

**Fairness.** `LockFree` assumes weak fairness of the steps of a thread inside
an operation, and `LockReleased` of the steps of a thread inside a critical
section: the operating system runs every runnable thread again. Nothing is
assumed of a thread that is idle, or that waits for the lock: the spin lock is
not fair, so no thread is promised to get it. A thread that spins only loops on
its exchange, which leaves the state alone. `ThreadsComeAndGo` assumes weak
fairness of a thread's steps inside the routines that start and end it. What
the program chooses to do, such as to create a thread or to end one, it may never do.

## Findings

Each is a run that TLC ends with a counterexample. The first three use the
object count and threshold of size class 27 and no store buffers.

1. `find_foreign_hot` (core.h:112). After RemoveBack the span is in no list; a free
   may mark it full and delete it, and another core take it from the pool. In TLC's
   trace the thread of that core ends and floats the span. Marking full was the last
   change of the epoch's value; GetSpan, which loads the epoch only then, masks the full
   bit, so its NewMarkHot succeeds on an epoch that is merely floating, and the
   span belongs to the other core.
2. `find_first_word` (core.h:210-211, against span.h:109 and span.h:154). The first word
   of a span links it in the list of its core or in the pool. A span is marked
   reusable before it is linked; a free in this window finds null links, takes the
   span for unlinked and deletes it, and the late PushFront links it just before or just
   after (two traces of 29 states; TLC reports either). There is another way to the same end, which
   the run does not get to, one step longer: Core::Destroy closes the list (core.h:91)
   before it empties it, a free that wants to unlink a span in this window is refused
   (deque.h:138) and deletes the span all the same. TLC finds it when it looks for a
   deletion by a free that was refused.
3. `find_null_malloc` (core.h:164). A count of free objects taken before the
   owner allocated them again leads to a reusable span without free objects;
   malloc returns nullptr although there is memory, with errno unchanged.
4. `find_memalign` (span.h:162). posix_memalign stores a tag of 4 bytes in front of
   an aligned address (glue.h:129); AlignToBlockStart loads an `int_fast32_t`,
   which on 64-bit Linux has 8 bytes, finds something else than the tag and leaves
   the address as it is. The free list gets an address inside of the block.

## Observations

What TLC shows of the model with other constants, and what reading
showed, without a run of its own:

- Spans get lost. Remote frees of the last objects of a hot span leave
  it to its owner, who floats it without looking back (core.h:94 when the thread
  ends, core.h:158 when it allocates); and a span that is reusable
  stays marked when its owner has closed its list before PushFront. `FullIsDeleted`
  is what does hold: a free that has decided to delete a span deletes it.
- Arena::Contains (arena.h:79) compares an exclusive-or with the length, which
  describes the range only when the length, and not only the alignment of the start, is
  a power of two. With 35 TiB at 35 TiB (globals.h:22, glue.cc:74), spans from 64 TiB on
  are denied, and addresses between 32 and 35 TiB are taken for contained. With
  `Multiple = 1`, an arena of three spans at its own size, the second is denied
  in the same way and `FreeFindsOwner` fails.
- A large object that is aligned to a page or more, as by valloc and pvalloc, starts at
  or beyond the second page of its mapping. FromMutatorPtr (large-objects.h:48) rounds its
  address down to a page without a header, and free ends the process: `FreeFindsOwner` fails
  with `Aligns = {4096}`.
- Sizes close to 2^64 wrap in LargeObject::Allocate (large-objects.h:57) and in
  posix_memalign: `RoomForRequest` fails with a size of `WordSize - 8`.
- realloc compares the new size with the whole block (glue.h:81), also for an aligned
  address inside of it: `RoomForRequest` fails with `ReallocAligned` and sizes
  {16, 80}.
- Only malloc checks that the allocator is up, and a thread has no buffer after
  its destructor: `HasBuffer` fails with `EarlyCalls` (calloc, realloc or free in
  an early constructor) and with `LateCalls` (free in a later destructor of another key).
- When pthread_create fails, its arguments are never deleted (`lost`).
- The arena of cores has room for about 190 cores; more threads at a time, like
  a large request that mmap refuses, end the process.
- The constructor says "Mark span as hot" (span.h:185), but a span from the pool
  keeps its full bit, NewMarkHot expects an epoch without it, and the
  compare-and-swap always fails (`NewSpanEpoch`). `HotIsExclusive` and
  `ObjectsConserved` hold nevertheless, because a full span is as much out of the
  reach of frees as a hot one.

## Proofs

Every theorem has the form `Spec => []Inv`, `Spec => [][A]_vars` or
`Spec => AbstractSpec`, for any values of the constants that satisfy the named
assumptions of the module; those about `Heap` have two hypotheses more, see there. Each proof module has an inductive invariant `IInv` that
TLC checked first on small instances, one lemma per action (or kind of
action) that says it is kept, and short last steps that derive the properties.

**Stack** (`TreiberStackProofs`): `StackTypes`, `StackStaysIntact`, `TagCountsBlocks`
and `StackIsLinearizable`, the refinement of `LifoStack`, from `StackInvariant`. The
assumptions: Null is no block, there are at least two tags, blocks are finite in
number and, for remote lists, fewer than tags (a span has at most 2040 objects);
and `SwapBound`, a guard of the model. `StackIntact` is not inductive. That a swap
which succeeds has used a current successor follows from what a thread in Pop knew
when it loaded `top_`. `IInv` therefore adds: a block in a push is nobody else's and
not in the stack; the word written by `PushLink` is the value that the swap will
compare; and for a thread in Pop, the distance of its tag from that of `top_` is
`lag`, so that an equal tag with `lag` below the tag size means no swap has
happened, the block is still the top and the successor that was read is still its
first word. In the remote discipline no such knowledge is needed, since PopAll does
not read the block, and the tag is the length because every swap adds a block and
one to both or resets both. The step from `IInv` to the refinement goes by
action: only successful swaps and loads that find an empty stack change
`contents`, `out` or `ret`, and each is a step of `LifoStack`.

**Deque** (`SpanDequeProofs`): `DequeTypes`, `DequeRingIntact`, `DequeClosedStaysEmpty`
and `DequeAtomic`, the refinement of `OwnedDeque`, for any threads, nodes and number
of identities. `RingIntact` speaks of moments at which nobody holds the lock; `IInv`
says what the ring looks like at each stage of a critical section (`RingInv`), that
nodes outside of the list have null links, by which Remove tells them (`NullInv`),
that a node being pushed is in no list and pushed by one thread (`CallInv`), and
what is known of the owner after a check that Close may since have overtaken
(`OwnerInv`, `EmptyInv`). For the refinement, an operation that passes its check is the
push or removal of `OwnedDeque` for the owner that it named (`AcceptAtomic`), and one that
is refused is refused there, too: null links mean that the node is not in the list
(`RefuseAtomic`, from `RingInv`).

**Span pool** (`SpanPoolProofs`): `PoolTypes`, `PoolLimitInRange`, `PoolInReach` and
`ArenaIsLast` (`PoolBeforeArena`), for any finite set of threads and any numbers of
CPUs, slots and classes. `RaiseInv` is what a thread that announced itself knows of the
count it took, and so of the limit it may set; `ScanInv` says that a span
which has been in the pool since the scan began lies where the scan has yet to look
(`Ahead`). That holds across a raise of the limit as well (`ScanRaised`): a backend that is
ahead lies at or after the next index, or before the start and thus behind the wrap, and a
larger limit only makes the wrap come later.

**Spans** (`SpanProtocolProofs`): `SpanTypes`, `SpanObjects` (`ObjectsConserved`), `SpanHot`
(`HotIsExclusive`), `SpanDeletedOnce`, `SpanFloat` (`FloatHasNoRace`), `SpanListed`
(`ListedByOwner`), `SpanDeleted` (`FullIsDeleted`) and the action property `SpanEpochs`
(`EpochAdvances`), for any finite set of cores, any spans, any number of objects and
any threshold below it, any bounds on epochs and threads, with and without store
buffers. None of the properties is inductive by itself. The argument:

- `Past` orders epochs; every step moves an epoch of a span forward or leaves it alone
  (`EpochStep`), and what a free has read is `Past` what is there (`EpochInv`). So a
  compare-and-swap that succeeds shows that nothing has happened to the span in
  between, or only what left the epoch alone.
- `HotInv`, `MarkInv`, `DeleteInv`, `LinkInv` and `OnceInv` say for each mark of an epoch
  who may have the span: the core that allocates, the free that deletes it
  (`Deleting`), the free that is about to link it (`Links`), the core that has removed
  it from its list (`Carries`), a list of its owner, or the pool; and that
  these exclude each other.
- `CountInv` is the arithmetic. A free compares a count that it read in two
  steps, and not at once, with K. As long as the epoch has not changed since and
  the span is not hot (`Still`), nobody allocates from it, so free objects only
  become more and the count bounds them from below: a free that finds K, and
  whose compare-and-swap succeeds, deletes a span of which nothing is out.
- `IdInv` and `CoreInv` tie identities of cores, also of ended threads, to what a
  thread has noted down.

When an assertion of the code fails (findings 1 and 2) the behaviour ends, and part
of this is false in its last state. `IInv` is therefore: the safety properties hold
(`Safe`), and all of the above does while nothing is `broken`. TLC checked `IInv` on three
instances (1,305,347, 196,617 and 1,481,397 states).

**Object space** (`ObjectSpaceProofs`): `ObjectTypes`, `ObjectsStayApart` (`ObjectsApart`),
`ObjectsCounted` (`LenCounts`), `RequestsFit` (`RequestFits`) and `ClassesFit`, for an
arena of any size at any multiple of it and any set of requests up to 1 MiB, with
the sizes of the code. A span is described by one number b, how many objects its bump
pointer has passed (`BumpedTo`): both lists and what the program holds are among the
first b objects (`Among`), each of these is in one place (`Placed`) and in at least one
(`Somewhere`), and `len_` is the length of the list and
what is missing from b to the capacity. That SetList loses nothing is then
arithmetic: `len_ = 0` forces an empty list and b to be the capacity. `ClassesFit`
goes through the twelve powers of two, with Log2 computed by table as in the code.

**Thread-local buffers** (`LabProofs`): `LabTypes`, `LabInitOnce`, `LabCoresReused`,
`LabThreadsCounted`, `LabHasBuffer` and `LabLeasesCores`, the refinement of `CoreLease`,
for any finite set of threads, any number of tags above one and any room for cores. A
core is in the stack or with one thread (`ApartInv`); that the arena holds no more
cores than there were threads at a time is a count: cores, and threads
that found the stack empty and have yet to allocate one, together never exceed `peak`
(`ArenaInv`). `LabHasBuffer` holds, as its definition says, for programs without
`EarlyCalls` and `LateCalls`.

**Heap** (`HeapProofs`): `HeapTypesHold` (`HeapTypeOK`), `HeapHasRoom` (`RoomForRequest`),
`FreesStayCorrect` (`FreeStillCorrect`), `FreesFindOwner`, `HeapLeaksNothing`
(`NothingLeaks`), `HeapKeepsObjects` (`ObjectsApart`, `LenCounts` and `RequestFits`, now
for lists that are reached through the interface) and `HeapIsAllocator`, the refinement
of `Allocator`; for any sizes, pairs for calloc, alignments, word of 22 to 64 bits, arena
and places of mappings. They have the form `Limits => (HeapSpec /\ []SpansContained =>
[]Inv)`. `Limits` is about constants only. `SpansContained` is about the state, so that the
theorems also say something of an arena which the bit test describes only in part, as 35
TiB at 35 TiB: they hold as long as no span beyond the part has been handed out.
`SpansStayContained` shows that it always holds if the bit test is right about
every span but the last, which is never used; `MCHeapLimits` has TLC evaluate this and
`Limits` on the instance of the run `heap`. The inductive invariant `HInv` extends that of
the object space; TLC checked it on that instance (214,459 states). It says that

- every address the program holds lies in a block or on the first page of a mapping,
  behind its header, at the start unless it was aligned, and no two share one (`OwnerInv`).
  That blocks and mappings are apart is `LargeInv` and the arithmetic of the object space;
- every address is aligned as asked, and `seen_memalign` is set if one of them was aligned
  (`AlignInv`): without this a free would not look for its tag;
- the numbers of addresses, blocks and mappings agree (`CountInv`).

The argument, in lemmas: all addresses of a virtual span agree with its first one
in the bits above 2^21, and so do start and length, so the bit test judges all of them
alike (`SpanDecides`); the same for a mapping would be wrong, and is not needed, as
all its addresses that the program holds are on its first page (`FirstPage`). The remainder
of AlignToBlockStart leads from anywhere in a block to its start (`BlockFacts`), also where
the tag was found by chance. If the wrapped product of calloc divided by one factor is the other,
then nothing has wrapped (`ProductFits`). What is freed is in the place of its owner and
in no other (`Exclusive`), so that each call is one of a few changes of the invariant:
a block or a mapping is granted, taken back, resized or left alone (`GrantBlock`,
`GrantMapping`, `TakeBack`, `Resized`, `Kept`). `FreeStillCorrect` follows from the invariant
of the object space, with a bijection between the first b objects and the places they are in.

**Only model-checked**: `LockFree`, `LockReleased` and `ThreadsComeAndGo`, since liveness is
out of the prover's reach. Every safety property, action property and refinement that a
passing run checks is stated by a theorem.

## Not modelled

- Logging, profiling counters, debug checks of alignment, madvise and mprotect:
  they change none of the state above.
- The round-robin buffers with GuardedCore: the provider has no GetMeALAB, so this
  build does not compile. The build with SCALLOC_NO_CLEANUP_IN_FREE.
- PushRange and SetTop of the stack, which have no caller.
- Wrap-around of the 28-bit epoch: it takes 2^28 marks of a span during one free.
- Which of the two mappings of Arena::Init succeeds; CpusOnline, a constant.
- The aliases by which scalloc takes the place of the system's allocator.
- The test of global construction, build scripts and the vendored linter.

## Plan

Nothing that the passing runs check is left to prove, apart from liveness. What could be
added to the model: an epoch of bounded width, with the assumption under which `EpochAdvances`
survives its wrap-around, and a count of the spans that get lost.
