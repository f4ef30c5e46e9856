----------------------------- MODULE HeapProofs ------------------------------
(***************************************************************************)
(* The functions that a program calls, for any sizes, counts, alignments   *)
(* and places of mappings within the limits that Heap names.               *)
(***************************************************************************)
EXTENDS Heap, ObjectSpaceProofs, FiniteSetTheorems

-----------------------------------------------------------------------------
(* The inductive invariant *)

BlockSize(b) == ClassToSize[class[FromObject(b.addr)]]

(* o lies in the block b, at its start unless it was aligned. *)
InBlock(o, b) ==
  /\ b.addr <= o.ptr /\ o.ptr + o.size <= b.addr + BlockSize(b)
  /\ ~o.tagged => o.ptr = b.addr

(* o lies behind the header of the mapping m, on its first page. *)
InMapping(o, m) ==
  /\ m.base + kLargeHeader <= o.ptr /\ o.ptr < m.base + kPageSize
  /\ o.ptr + o.size <= m.base + m.actual
  /\ ~o.tagged => o.ptr = m.base + kLargeHeader

Address == [ptr : Nat, size : Nat \ {0}, align : Aligns \cup {kMinAlignment},
            tagged : BOOLEAN]

HeapTypes ==
  /\ held \subseteq Address
  /\ large \subseteq [base : Areas, actual : 1 .. MaxMapping]
  /\ seen_memalign \in BOOLEAN /\ moved \subseteq held

LargeInv ==
  /\ \A m \in large : m.base + m.actual <= start \/ end <= m.base
  /\ \A m, n \in large :
       m # n => m.base + m.actual <= n.base \/ n.base + n.actual <= m.base

(* Every address has a block or a mapping of its own. *)
OwnerInv ==
  /\ \A o \in held : (\E b \in live : InBlock(o, b)) \/ \E m \in large : InMapping(o, m)
  /\ \A o, q \in held :
       /\ \A b \in live : InBlock(o, b) /\ InBlock(q, b) => o = q
       /\ \A m \in large : InMapping(o, m) /\ InMapping(q, m) => o = q

Divides(align, p) == p % align = 0

(* Every address is aligned as it was asked for, and frees look for tags   *)
(* if one of them has been tagged.                                         *)
AlignInv ==
  \A o \in held : Divides(o.align, o.ptr) /\ (o.tagged => seen_memalign)

CountInv ==
  /\ IsFiniteSet(held) /\ IsFiniteSet(live) /\ IsFiniteSet(large)
  /\ NothingLeaks

HInv == IInv /\ HeapTypes /\ LargeInv /\ OwnerInv /\ AlignInv /\ CountInv

-----------------------------------------------------------------------------
(* Arena::Contains *)

Power(n) == 2^n

LEMMA Powers ==
  ASSUME NEW n \in 0 .. 31
  PROVE  /\ Power(n) \in Nat /\ Power(n) >= 1
         /\ n <= 20 => \E j \in Nat : 2097152 = (2 * j) * Power(n)
         /\ n >= 21 => \E j \in Nat : j >= 1 /\ Power(n) = 2097152 * j
<1> DEFINE T == [i \in 0 .. 31 |-> 2^i]
<1>1. /\ T[0] = 1 /\ T[1] = 2 /\ T[2] = 4 /\ T[3] = 8
      /\ T[4] = 16 /\ T[5] = 32 /\ T[6] = 64 /\ T[7] = 128
      /\ T[8] = 256 /\ T[9] = 512 /\ T[10] = 1024 /\ T[11] = 2048
      /\ T[12] = 4096 /\ T[13] = 8192 /\ T[14] = 16384 /\ T[15] = 32768
      /\ T[16] = 65536 /\ T[17] = 131072 /\ T[18] = 262144 /\ T[19] = 524288
      /\ T[20] = 1048576 /\ T[21] = 2097152 /\ T[22] = 4194304 /\ T[23] = 8388608
      /\ T[24] = 16777216 /\ T[25] = 33554432 /\ T[26] = 67108864 /\ T[27] = 134217728
      /\ T[28] = 268435456 /\ T[29] = 536870912 /\ T[30] = 1073741824 /\ T[31] = 2147483648
  BY SMT
<1>2. n = 0 \/ n = 1 \/ n = 2 \/ n = 3 \/ n = 4 \/ n = 5 \/ n = 6 \/ n = 7
      \/ n = 8 \/ n = 9 \/ n = 10 \/ n = 11 \/ n = 12 \/ n = 13 \/ n = 14 \/ n = 15
      \/ n = 16 \/ n = 17 \/ n = 18 \/ n = 19 \/ n = 20 \/ n = 21 \/ n = 22 \/ n = 23
      \/ n = 24 \/ n = 25 \/ n = 26 \/ n = 27 \/ n = 28 \/ n = 29 \/ n = 30 \/ n = 31
  BY SMT
<1>3. T[n] = Power(n)
  BY SMT DEF Power
<1> HIDE DEF T
<1>4. T[n] \in Nat /\ T[n] >= 1
  BY <1>1, <1>2, SMT
<1>5. n <= 20 => \E j \in Nat : 2097152 = (2 * j) * T[n]
  <2> SUFFICES ASSUME n <= 20 PROVE T[20 - n] \in Nat /\ 2097152 = (2 * T[20 - n]) * T[n]
    BY SMT
  <2> QED
    BY <1>1, <1>2, SMT
<1>6. n >= 21 => \E j \in Nat : j >= 1 /\ T[n] = 2097152 * j
  BY <1>1, <1>2, SMT
<1> QED
  BY <1>3, <1>4, <1>5, <1>6, SMT

(* Rounding down to a divisor of m changes no multiple of m below. *)
LEMMA Coarser ==
  ASSUME NEW p \in Nat, NEW q \in Nat, NEW r \in Nat, r < 2097152, p = 2097152 * q + r,
         NEW m \in Nat, m >= 1
  PROVE  (2097152 * q) \div (2097152 * m) = p \div (2097152 * m)
<1> DEFINE u == q \div m
           v == q % m
           w == 2097152 * m
<1>1. u \in Nat /\ v \in 0 .. m - 1 /\ q = m * u + v /\ w \in Nat /\ w >= 1
  BY SMT
<1>2. 2097152 * q = w * u + 2097152 * v
  BY <1>1, SMT
<1>3. p = w * u + (2097152 * v + r)
  <2> HIDE DEF u, v, w
  <2> QED
    BY <1>1, <1>2, SMT
<1>4. 2097152 * v \in 0 .. w - 1 /\ 2097152 * v + r \in 0 .. w - 1
  BY <1>1, SMT
<1> HIDE DEF u, v, w
<1>5. \A x \in 0 .. w - 1 : (w * u + x) \div w = u
  BY <1>1, SMT
<1>6. (2097152 * q) \div w = u /\ p \div w = u
  BY <1>2, <1>3, <1>4, <1>5, SMT
<1> QED
  BY <1>6, SMT DEF w

LEMMA LowBit ==
  ASSUME NEW x, NEW k \in 0 .. 31
  PROVE  Bit(x, k) = (x \div Power(k)) % 2
BY SMT DEF Bit, Power

LEMMA BitsAbove ==
  ASSUME NEW p \in Nat, NEW k \in 21 .. 63
  PROVE  FromObject(p) \in Nat /\ Bit(FromObject(p), k) = Bit(p, k)
<1>1. FromObject(p) = p - (p % 2097152)
  BY KnownSizes, SMT DEF FromObject, AlignDown
<1>2. PICK q \in Nat : FromObject(p) = 2097152 * q
  BY <1>1, SMT
<1>3. p % 2097152 \in Nat /\ p % 2097152 < 2097152 /\ p = 2097152 * q + (p % 2097152)
  BY <1>1, <1>2, SMT
<1>4. CASE k < 32
  <2>1. PICK m \in Nat : m >= 1 /\ Power(k) = 2097152 * m
    BY <1>4, Powers, SMT
  <2>2. FromObject(p) \div Power(k) = p \div Power(k)
    BY <1>2, <1>3, <2>1, Coarser, SMT
  <2> QED
    BY <1>2, <1>4, <2>2, LowBit, SMT
<1>5. CASE k >= 32
  <2>1. FromObject(p) \div 2^32 = p \div 2^32
    BY <1>1, SMT
  <2>2. ~(k < 32)
    BY <1>5, SMT
  <2> QED
    BY <1>2, <2>1, <2>2, SMT DEF Bit
<1> QED
  BY <1>4, <1>5, SMT

LEMMA Doubled ==
  ASSUME NEW n \in Nat, NEW j \in Nat, NEW w \in Nat, NEW v \in Nat, v = (2 * j) * w
  PROVE  n * v = (2 * (n * j)) * w /\ n * j \in Nat
BY SMT

LEMMA BitsBelow ==
  ASSUME NEW n \in Nat, NEW k \in 0 .. 20
  PROVE  Bit(n * 2097152, k) = 0
<1>1. PICK j \in Nat : 2097152 = (2 * j) * Power(k)
  BY Powers, SMT
<1>2. Power(k) \in Nat /\ Power(k) >= 1 /\ k < 32
  BY Powers, SMT
<1> DEFINE w == Power(k)
<1> HIDE DEF w
<1>3. n * 2097152 = (2 * (n * j)) * w /\ n * j \in Nat
  BY <1>1, <1>2, Doubled, SMT DEF w
<1>4. (n * 2097152) \div w = 2 * (n * j)
  BY <1>2, <1>3, Quotient, SMT DEF w
<1>5. (2 * (n * j)) % 2 = 0
  BY <1>3, SMT
<1> QED
  BY <1>4, <1>5, LowBit, SMT DEF w

LEMMA BitTypes ==
  ASSUME NEW x \in Nat, NEW k \in 0 .. 63
  PROVE  Bit(x, k) \in Nat
<1>1. CASE k < 32
  <2>1. Power(k) \in Nat /\ Power(k) >= 1
    BY <1>1, Powers, SMT
  <2>2. (x \div Power(k)) % 2 \in Nat
    BY <2>1, SMT
  <2> QED
    BY <1>1, <2>2 DEF Bit, Power
<1>2. CASE k >= 32
  <2>1. k - 32 \in 0 .. 31
    BY <1>2, SMT
  <2>2. Power(k - 32) \in Nat /\ Power(k - 32) >= 1
    BY <2>1, Powers, SMT
  <2>3. x \div 2^32 \in Nat
    BY SMT
  <2>4. ((x \div 2^32) \div Power(k - 32)) % 2 \in Nat
    BY <2>2, <2>3, SMT
  <2> QED
    BY <1>2, <2>4, SMT DEF Bit, Power
<1> QED
  BY <1>1, <1>2, SMT

(* All addresses of a virtual span are judged alike (arena.h:79). *)
LEMMA SpanDecides ==
  ASSUME NEW p \in Nat
  PROVE  FromObject(p) \in Nat /\ (Contained(p) <=> Contained(FromObject(p)))
<1> DEFINE s == FromObject(p)
           n == end - start
           Bits == 0 .. WordBits - 1
<1>1. WordBits \in 22 .. 64
  BY WordAssumption, SMT
<1>2. ArenaSpans \in Nat /\ n = ArenaSpans * 2097152
  BY Starts, ArenaAssumption, SMT
<1>3. \A k \in Bits : k <= 20 => Bit(n, k) = 0
  BY <1>1, <1>2, BitsBelow, SMT
<1>4. \A k \in Bits : k > 20 => XorBit(p, start, k) = XorBit(s, start, k)
  <2> TAKE k \in Bits
  <2>1. k > 20 => k \in 21 .. 63
    BY <1>1, SMT
  <2> QED
    BY <2>1, BitsAbove, SMT DEF XorBit
<1>5. s \in Nat
  BY BitsAbove, SMT
<1>6. \A k \in Bits : Bit(p, k) \in Nat /\ Bit(s, k) \in Nat /\ Bit(start, k) \in Nat
  <2> HIDE DEF s
  <2> TAKE k \in Bits
  <2>1. k \in 0 .. 63
    BY <1>1, SMT
  <2>2. start \in Nat
    BY Starts
  <2> QED
    BY <1>5, <2>1, <2>2, BitTypes
<1>7. \A k \in Bits : XorBit(p, start, k) \in Nat /\ XorBit(s, start, k) \in Nat
  BY <1>6, SMT DEF XorBit
<1> HIDE DEF s, n
<1>8. ASSUME NEW x \in {p, s}, NEW k \in Bits, XorBit(x, start, k) < Bit(n, k)
      PROVE  k > 20
  BY <1>3, <1>7, <1>8, SMT
<1>9. ASSUME NEW x \in {p, s}, NEW y \in {p, s}, XorBelow(x, start, n)
      PROVE  XorBelow(y, start, n)
  <2>1. PICK k \in Bits : /\ XorBit(x, start, k) < Bit(n, k)
                          /\ \A j \in k + 1 .. WordBits - 1 : XorBit(x, start, j) = Bit(n, j)
    BY <1>9, SMT DEF XorBelow
  <2>2. k > 20
    BY <1>8, <2>1
  <2>3. \A j \in k + 1 .. WordBits - 1 : j \in Bits /\ j > 20
    BY <1>1, <2>2, SMT
  <2>4. XorBit(y, start, k) = XorBit(x, start, k)
    BY <1>4, <2>2 DEF s
  <2>5. \A j \in k + 1 .. WordBits - 1 : XorBit(y, start, j) = XorBit(x, start, j)
    BY <1>4, <2>3 DEF s
  <2> QED
    BY <2>1, <2>4, <2>5 DEF XorBelow
<1> QED
  BY <1>5, <1>9 DEF Contained, n, s

-----------------------------------------------------------------------------
(* Addresses *)

LEMMA Division ==
  ASSUME NEW p \in Nat, NEW a \in Nat, a >= 1
  PROVE  /\ p \div a \in Nat /\ p % a \in Nat /\ p % a < a
         /\ p = a * (p \div a) + (p % a)
OBVIOUS

LEMMA MultipleOf ==
  ASSUME NEW q \in Nat, NEW a \in Nat, a >= 1
  PROVE  a * q \in Nat /\ (a * q) % a = 0 /\ a * (q + 1) = a * q + a
OBVIOUS

LEMMA RemainderOf ==
  ASSUME NEW q \in Nat, NEW a \in Nat, a >= 1, NEW r \in Nat, r < a
  PROVE  (q * a + r) % a = r /\ q * a \in Nat
OBVIOUS

(* An aligned address lies behind the one that was allocated, by at most *)
(* the alignment (glue.h:124).                                           *)
LEMMA AlignsUp ==
  ASSUME NEW p \in Nat, NEW a \in Nat, a >= 1
  PROVE  \E ptr \in Nat : /\ ptr = AlignUp(p, a) /\ p < ptr /\ ptr <= p + a
                          /\ Divides(a, ptr)
<1> DEFINE q == p \div a
<1>1. q \in Nat /\ p % a \in Nat /\ p % a < a /\ p = a * q + (p % a)
  BY Division
<1>2. a * q \in Nat /\ a * (q + 1) = a * q + a /\ (a * (q + 1)) % a = 0
  <2>1. q + 1 \in Nat
    BY <1>1
  <2> QED
    BY <1>1, <2>1, MultipleOf
<1> HIDE DEF q
<1>3. AlignUp(p, a) = a * (q + 1)
  BY <1>1, <1>2 DEF AlignUp
<1> QED
  BY <1>1, <1>2, <1>3 DEF AlignUp, Divides

(* The size of a mapping, where nothing wraps (large-objects.h:57) *)
LEMMA Padded ==
  ASSUME NEW need \in Nat, need >= 1, NeedFits(need)
  PROVE  LET actual == PadSize((need + kLargeHeader) % WordSize, kPageSize) IN
         actual \in Nat /\ need + kLargeHeader <= actual
<1>1. WordSize \in Nat /\ need + 16 + 4096 <= WordSize
  BY WordAssumption, KnownSizes, SMT DEF NeedFits, kLargeHeader
<1>2. (need + 16) % WordSize = need + 16
  BY <1>1, SMT
<1>3. ((need + 16) + 4096 - 1) % WordSize = (need + 16) + 4095
  BY <1>1, SMT
<1>4. PadSize(need + 16, 4096) = (need + 16 + 4095) - ((need + 16 + 4095) % 4096)
  BY <1>3 DEF PadSize, AlignDown
<1> QED
  BY <1>2, <1>4, KnownSizes, SMT DEF kLargeHeader

LEMMA ModOfPage ==
  ASSUME NEW base \in Nat, base % 4096 = 0
  PROVE  /\ (base + 16) % 16 = 0
         /\ \A p \in Nat : base <= p /\ p < base + 4096 => p - (p % 4096) = base
BY SMT

(* Every address on the first page of a mapping leads to its header        *)
(* (large-objects.h:48).                                                   *)
LEMMA FirstPage ==
  ASSUME HeapTypes, NEW m \in large, NEW p \in Nat, m.base <= p, p < m.base + kPageSize
  PROVE  /\ m.base \in Nat /\ m.actual \in Nat /\ m.base \in Areas
         /\ (m.base + kLargeHeader) % 16 = 0
         /\ FromMutatorPtr(p) = m.base /\ Validate(FromMutatorPtr(p))
<1>1. m.base \in Areas /\ m.actual \in 1 .. MaxMapping /\ MaxMapping \in Nat
  BY SystemAssumption, SMT DEF HeapTypes
<1>2. m.base \in Nat /\ m.base % 4096 = 0 /\ m.actual \in Nat
  BY <1>1, SystemAssumption, KnownSizes, SMT
<1>3. FromMutatorPtr(p) = p - (p % 4096)
  BY KnownSizes, SMT DEF FromMutatorPtr, AlignDown
<1>4. p < m.base + 4096
  BY KnownSizes, SMT
<1>5. FromMutatorPtr(p) = m.base /\ (m.base + 16) % 16 = 0
  <2> DEFINE base == m.base
  <2>1. base \in Nat /\ base % 4096 = 0 /\ base <= p /\ p < base + 4096
    BY <1>2, <1>4, SMT
  <2> HIDE DEF base
  <2>2. p - (p % 4096) = base /\ (base + 16) % 16 = 0
    BY <2>1, ModOfPage
  <2> QED
    BY <1>3, <2>2, SMT DEF base
<1> QED
  BY <1>1, <1>2, <1>5, SMT DEF Validate, kLargeHeader

-----------------------------------------------------------------------------
(* Blocks *)

(* p is an address in the block b. *)
Within(p, b) == b.addr <= p /\ p < b.addr + BlockSize(b)

LEMMA SizesAligned ==
  ASSUME NEW c \in Classes
  PROVE  \E z \in Nat : ClassToSize[c] = 16 * z
<1>1. c \in 1 .. 28
  BY KnownSizes, SMT DEF Classes
<1>2. CASE c <= 16
  <2>1. c \in 1 .. 16 /\ c \in Nat
    BY <1>1, <1>2
  <2>2. ClassToSize[c] = 16 * c
    BY <2>1, FineSizes
  <2> QED
    BY <2>1, <2>2
<1>3. CASE c > 16
  <2>1. c = 17 \/ c = 18 \/ c = 19 \/ c = 20 \/ c = 21 \/ c = 22
        \/ c = 23 \/ c = 24 \/ c = 25 \/ c = 26 \/ c = 27 \/ c = 28
    BY <1>1, <1>3, SMT
  <2>2. /\ 512 = 16 * 32 /\ 1024 = 16 * 64 /\ 2048 = 16 * 128 /\ 4096 = 16 * 256
        /\ 8192 = 16 * 512 /\ 16384 = 16 * 1024 /\ 32768 = 16 * 2048
        /\ 65536 = 16 * 4096 /\ 131072 = 16 * 8192 /\ 262144 = 16 * 16384
        /\ 524288 = 16 * 32768 /\ 1048576 = 16 * 65536
    BY SMT
  <2> QED
    BY <2>1, <2>2, CoarseSizes, SMT
<1> QED
  BY <1>1, <1>2, <1>3, SMT

LEMMA Sixteenths ==
  ASSUME NEW m \in Nat, NEW k \in Nat, NEW z \in Nat
  PROVE  (m * 2097152 + 128 + k * (16 * z)) % 16 = 0
<1>1. k * (16 * z) = 16 * (k * z) /\ k * z \in Nat
  OBVIOUS
<1> QED
  BY <1>1, SMT

(* An object of a span is aligned to 16 bytes. *)
LEMMA SlotsAligned ==
  ASSUME Types, NEW s \in Bases, class[s] # 0, NEW k \in Nat
  PROVE  Slot(s, k) % 16 = 0
<1>1. PICK m \in Nat : s = m * 2097152
  BY BaseFacts, SMT
<1>2. PICK z \in Nat : ClassToSize[class[s]] = 16 * z
  BY UsedFacts, SizesAligned, SMT
<1> QED
  BY <1>1, <1>2, Sixteenths, KnownSizes, SMT DEF Slot, HeaderEnd

(* Span::AlignToBlockStart leads from every address of a block to its      *)
(* start (span.h:164).                                                     *)
LEMMA BlockFacts ==
  ASSUME IInv, NEW b \in live
  PROVE  /\ b.addr \in Nat /\ Divides(16, b.addr)
         /\ BlockSize(b) \in Nat /\ BlockSize(b) >= 16
         /\ FromObject(b.addr) \in Used
         /\ \A p \in Nat : Within(p, b) =>
              /\ FromObject(p) = FromObject(b.addr) /\ BlockStart(p) = b.addr
              /\ start <= p /\ p < end
<1> DEFINE s == FromObject(b.addr)
           z == ClassToSize[class[s]]
<1>1. s \in Bases /\ class[s] # 0 /\ Types
  BY ObjectAt, SMT DEF IInv
<1>2. PICK k \in Nat : k < ClassToObjects[class[s]] /\ b.addr = Slot(s, k)
  BY ObjectAt, SMT
<1>3. class[s] \in Classes /\ z \in Nat /\ z >= 16 /\ ClassToObjects[class[s]] \in Nat
      /\ ClassToSpanSize[class[s]] \in Nat /\ ClassToSpanSize[class[s]] < 2097152
  BY <1>1, UsedFacts, Tables, SMT
<1>4. /\ b.addr \in Nat /\ HeaderEnd(s) <= b.addr /\ HeaderEnd(s) \in Nat
      /\ b.addr + z <= s + ClassToSpanSize[class[s]]
  BY <1>1, <1>2, <1>3, SlotFacts, SMT
<1>5. Divides(16, b.addr)
  BY <1>1, <1>2, SlotsAligned, SMT DEF Divides
<1>6. s \in Nat /\ start <= s /\ s + 2097152 <= end /\ HeaderEnd(s) = s + 128
  BY <1>1, BaseFacts, KnownSizes, SMT DEF HeaderEnd
<1> HIDE DEF s
<1>7. ASSUME NEW p \in Nat, Within(p, b)
      PROVE  FromObject(p) = s /\ BlockStart(p) = b.addr /\ start <= p /\ p < end
  <2>1. b.addr <= p /\ p < b.addr + z
    BY <1>7, SMT DEF Within, BlockSize, s
  <2>2. s <= p /\ p < s + 2097152
    BY <1>3, <1>4, <1>6, <2>1, SMT
  <2>3. FromObject(p) = s
    BY <1>1, <2>2, Masked, SMT
  <2>4. start <= p /\ p < end
    BY <1>6, <2>2, Starts, SMT
  <2>5. b.addr = HeaderEnd(s) + k * z /\ k * z \in Nat
    BY <1>2, <1>3, SMT DEF Slot
  <2> DEFINE r == p - b.addr
  <2>6. r \in Nat /\ r < z /\ p - HeaderEnd(s) = k * z + r
    BY <1>3, <1>4, <2>1, <2>5, SMT
  <2>7. (p - HeaderEnd(s)) % z = r
    <3> HIDE DEF r, z
    <3>1. (k * z + r) % z = r
      BY <1>3, <2>6, RemainderOf
    <3> QED
      BY <2>6, <3>1
  <2>8. BlockStart(p) = p - r
    BY <2>3, <2>7, SMT DEF BlockStart
  <2> QED
    BY <1>4, <2>3, <2>4, <2>8, SMT
<1> QED
  BY <1>1, <1>3, <1>4, <1>5, <1>7, SMT DEF s, BlockSize, Used

-----------------------------------------------------------------------------
(* What the program holds *)

Region(o) == o.ptr \in Nat /\ o.size \in Nat /\ o.size >= 1

Disjoint(o, q) == o.ptr + o.size <= q.ptr \/ q.ptr + q.size <= o.ptr

(* Blocks have their sizes, and do not overlap. *)
Separate ==
  /\ \A b \in live : b.addr \in Nat /\ Divides(16, b.addr) /\ BlockSize(b) \in Nat
                     /\ start <= b.addr /\ b.addr + BlockSize(b) <= end
  /\ \A b, c \in live :
       b # c => b.addr + BlockSize(b) <= c.addr \/ c.addr + BlockSize(c) <= b.addr

LEMMA BlocksSeparate == IInv => Separate
<1> SUFFICES ASSUME IInv PROVE Separate
  OBVIOUS
<1>1. ASSUME NEW b \in live
      PROVE  /\ b.addr \in Nat /\ Divides(16, b.addr) /\ BlockSize(b) \in Nat
             /\ start <= b.addr /\ b.addr + BlockSize(b) <= end
  <2>1. /\ b.addr \in Nat /\ Divides(16, b.addr)
        /\ BlockSize(b) \in Nat /\ BlockSize(b) >= 16
    BY BlockFacts
  <2>2. Within(b.addr, b) /\ Within(b.addr + BlockSize(b) - 1, b)
    BY <2>1 DEF Within
  <2>3. start <= b.addr /\ b.addr + BlockSize(b) - 1 < end
    BY <2>1, <2>2, BlockFacts
  <2>4. end \in Nat
    BY Starts
  <2> QED
    BY <2>1, <2>3, <2>4
<1>2. ASSUME NEW b \in live, NEW c \in live, b # c
      PROVE  b.addr + BlockSize(b) <= c.addr \/ c.addr + BlockSize(c) <= b.addr
  <2>1. LastByte(b) < c.addr \/ LastByte(c) < b.addr
    BY <1>2, ApartFollows DEF ObjectsApart
  <2>2. LastByte(b) = b.addr + BlockSize(b) - 1 /\ LastByte(c) = c.addr + BlockSize(c) - 1
    BY DEF LastByte, BlockSize
  <2> QED
    BY <1>1, <2>1, <2>2
<1> QED
  BY <1>1, <1>2 DEF Separate

LEMMA SeparateNext == IInv' => Separate'
BY BlocksSeparate, PTL

(* Regions of different blocks or mappings are disjoint. *)
Exclusive ==
  \A o, q : Region(o) /\ Region(q) /\ ~Disjoint(o, q) =>
    /\ \A b, c \in live : InBlock(o, b) /\ InBlock(q, c) => b = c
    /\ \A m, n \in large : InMapping(o, m) /\ InMapping(q, n) => m = n
    /\ \A b \in live, m \in large : ~(InBlock(o, b) /\ InMapping(q, m))

LEMMA Excludes == IInv /\ HeapTypes /\ LargeInv => Exclusive
<1> SUFFICES ASSUME IInv, HeapTypes, LargeInv,
                    NEW o, NEW q, Region(o), Region(q), ~Disjoint(o, q)
             PROVE  /\ \A b, c \in live : InBlock(o, b) /\ InBlock(q, c) => b = c
                    /\ \A m, n \in large : InMapping(o, m) /\ InMapping(q, n) => m = n
                    /\ \A b \in live, m \in large : ~(InBlock(o, b) /\ InMapping(q, m))
  BY DEF Exclusive
<1>0. Separate /\ start \in Nat /\ end \in Nat
  BY BlocksSeparate, Starts
<1>1. /\ o.ptr \in Nat /\ o.size \in Nat /\ o.size >= 1
      /\ q.ptr \in Nat /\ q.size \in Nat /\ q.size >= 1
      /\ ~(o.ptr + o.size <= q.ptr) /\ ~(q.ptr + q.size <= o.ptr)
  BY DEF Region, Disjoint
<1>2. \A b \in live : b.addr \in Nat /\ BlockSize(b) \in Nat
  BY <1>0 DEF Separate
<1>3. \A m \in large : m.base \in Nat /\ m.actual \in Nat
  BY SystemAssumption DEF HeapTypes
<1>4. ASSUME NEW b \in live, NEW c \in live, InBlock(o, b), InBlock(q, c)
      PROVE  b = c
  <2>1. /\ b.addr <= o.ptr /\ o.ptr + o.size <= b.addr + BlockSize(b)
        /\ c.addr <= q.ptr /\ q.ptr + q.size <= c.addr + BlockSize(c)
    BY <1>4 DEF InBlock
  <2>2. b # c => b.addr + BlockSize(b) <= c.addr \/ c.addr + BlockSize(c) <= b.addr
    BY <1>0 DEF Separate
  <2> QED
    BY <1>1, <1>2, <2>1, <2>2
<1>5. ASSUME NEW m \in large, NEW n \in large, InMapping(o, m), InMapping(q, n)
      PROVE  m = n
  <2>1. /\ m.base + 16 <= o.ptr /\ o.ptr + o.size <= m.base + m.actual
        /\ n.base + 16 <= q.ptr /\ q.ptr + q.size <= n.base + n.actual
    BY <1>5 DEF InMapping, kLargeHeader
  <2>2. m # n => m.base + m.actual <= n.base \/ n.base + n.actual <= m.base
    BY DEF LargeInv
  <2> QED
    BY <1>1, <1>3, <2>1, <2>2
<1>6. ASSUME NEW b \in live, NEW m \in large, InBlock(o, b), InMapping(q, m)
      PROVE  FALSE
  <2>1. /\ b.addr <= o.ptr /\ o.ptr + o.size <= b.addr + BlockSize(b)
        /\ m.base + 16 <= q.ptr /\ q.ptr + q.size <= m.base + m.actual
    BY <1>6 DEF InMapping, InBlock, kLargeHeader
  <2>2. start <= b.addr /\ b.addr + BlockSize(b) <= end
    BY <1>0 DEF Separate
  <2>3. m.base + m.actual <= start \/ end <= m.base
    BY DEF LargeInv
  <2> QED
    BY <1>0, <1>1, <1>2, <1>3, <2>1, <2>2, <2>3
<1> QED
  BY <1>4, <1>5, <1>6

LEMMA ExcludesNext == IInv' /\ HeapTypes' /\ LargeInv' => Exclusive'
BY Excludes, PTL

LEMMA HeldRegions ==
  ASSUME HeapTypes, NEW o \in held
  PROVE  /\ Region(o) /\ o.tagged \in BOOLEAN /\ ~Disjoint(o, o)
         /\ o.align \in Aligns \cup {kMinAlignment}
<1>1. /\ o.ptr \in Nat /\ o.size \in Nat \ {0} /\ o.tagged \in BOOLEAN
      /\ o.align \in Aligns \cup {kMinAlignment}
  BY DEF HeapTypes, Address
<1> QED
  BY <1>1 DEF Region, Disjoint

(* What the program holds does not overlap. *)
HeldApart == \A o, q \in held : o # q => Disjoint(o, q)

LEMMA HeldDisjoint == HInv => HeldApart
<1> SUFFICES ASSUME HInv, NEW o \in held, NEW q \in held, ~Disjoint(o, q)
             PROVE  o = q
  BY DEF HeldApart
<1>1. Region(o) /\ Region(q)
  BY HeldRegions DEF HInv
<1>2. Exclusive
  BY Excludes DEF HInv
<1>3. ~Disjoint(q, o)
  BY DEF Disjoint
<1>4. /\ \A b, c \in live : InBlock(o, b) /\ InBlock(q, c) => b = c
      /\ \A m, n \in large : InMapping(o, m) /\ InMapping(q, n) => m = n
      /\ \A b \in live, m \in large : ~(InBlock(o, b) /\ InMapping(q, m))
      /\ \A b \in live, m \in large : ~(InBlock(q, b) /\ InMapping(o, m))
  BY <1>1, <1>2, <1>3 DEF Exclusive
<1>5. OwnerInv
  BY DEF HInv
<1>6. CASE \E b \in live : InBlock(o, b)
  BY <1>4, <1>5, <1>6 DEF OwnerInv
<1>7. CASE \E m \in large : InMapping(o, m)
  BY <1>4, <1>5, <1>7 DEF OwnerInv
<1> QED
  BY <1>5, <1>6, <1>7 DEF OwnerInv

LEMMA HeldDisjointNext == HInv' => HeldApart'
BY HeldDisjoint, PTL

-----------------------------------------------------------------------------
(* The steps: an address comes with a block or a mapping of its own, ... *)

LEMMA AddressFacts ==
  ASSUME NEW o \in Address
  PROVE  Region(o) /\ ~Disjoint(o, o)
BY DEF Address, Region, Disjoint

(* The address is aligned, and frees that come later look for its tag. *)
Tagging(o) ==
  /\ seen_memalign' \in BOOLEAN /\ (seen_memalign => seen_memalign')
  /\ o.tagged => seen_memalign'
  /\ Divides(o.align, o.ptr)

LEMMA GrantBlock ==
  ASSUME HInv, IInv', NEW b, b \notin live, live' = live \cup {b},
         UNCHANGED << class, large >>,
         NEW o \in Address, held' = held \cup {o}, InBlock(o, b), Tagging(o),
         moved' \subseteq held'
  PROVE  HInv'
<1>1. \A x, c : InBlock(x, c)' <=> InBlock(x, c)
  BY DEF InBlock, BlockSize
<1>2. \A x, m : InMapping(x, m)' <=> InMapping(x, m)
  BY DEF InMapping
<1>3. HeapTypes'
  BY DEF HInv, HeapTypes, Tagging, Address
<1>4. LargeInv'
  BY DEF HInv, LargeInv
<1>5. Exclusive'
  BY <1>3, <1>4, ExcludesNext
<1>6. Region(o) /\ ~Disjoint(o, o) /\ \A x \in held : Region(x) /\ ~Disjoint(x, x)
  BY AddressFacts, HeldRegions DEF HInv
<1>7. /\ \A c \in live : ~InBlock(o, c)
      /\ \A m \in large : ~InMapping(o, m)
  BY <1>1, <1>2, <1>5, <1>6 DEF Exclusive
<1>8. \A x \in held : ~InBlock(x, b)
  <2> SUFFICES ASSUME NEW x \in held, InBlock(x, b) PROVE FALSE
    OBVIOUS
  <2>1. (\E c \in live : InBlock(x, c)) \/ \E m \in large : InMapping(x, m)
    BY DEF HInv, OwnerInv
  <2> QED
    BY <1>1, <1>2, <1>5, <1>6, <2>1 DEF Exclusive
<1>9. OwnerInv'
  <2>1. OwnerInv
    BY DEF HInv
  <2>2. \A x \in held' : \/ \E c \in live' : InBlock(x, c)
                         \/ \E m \in large' : InMapping(x, m)
    BY <2>1 DEF OwnerInv
  <2>3. ASSUME NEW x \in held', NEW y \in held'
        PROVE  /\ \A c \in live' : InBlock(x, c) /\ InBlock(y, c) => x = y
               /\ \A m \in large' : InMapping(x, m) /\ InMapping(y, m) => x = y
    <3>1. CASE x \in held /\ y \in held
      BY <1>8, <2>1, <3>1 DEF OwnerInv
    <3>2. CASE x = o \/ y = o
      BY <1>7, <1>8, <3>2
    <3> QED
      BY <3>1, <3>2
  <2> QED
    BY <1>1, <1>2, <2>2, <2>3 DEF OwnerInv
<1>10. AlignInv'
  BY DEF HInv, AlignInv, Tagging
<1>11. o \notin held
  BY <1>7 DEF HInv, OwnerInv
<1>12. CountInv'
  <2>1. IsFiniteSet(held) /\ IsFiniteSet(live) /\ IsFiniteSet(large)
        /\ Cardinality(held) = Cardinality(live) + Cardinality(large)
    BY DEF HInv, CountInv, NothingLeaks
  <2>2. /\ IsFiniteSet(held') /\ Cardinality(held') = Cardinality(held) + 1
        /\ IsFiniteSet(live') /\ Cardinality(live') = Cardinality(live) + 1
    BY <1>11, <2>1, FS_AddElement
  <2>3. Cardinality(held) \in Nat /\ Cardinality(live) \in Nat /\ Cardinality(large) \in Nat
    BY <2>1, FS_CardinalityType
  <2> QED
    BY <2>1, <2>2, <2>3 DEF CountInv, NothingLeaks
<1> QED
  BY <1>3, <1>4, <1>9, <1>10, <1>12 DEF HInv

LEMMA GrantMapping ==
  ASSUME HInv, IInv', NEW n \in [base : Areas, actual : 1 .. MaxMapping],
         Vacant(n.base, n.actual), large' = large \cup {n}, UNCHANGED << class, live >>,
         NEW o \in Address, held' = held \cup {o}, InMapping(o, n), Tagging(o),
         moved' \subseteq held'
  PROVE  HInv'
<1>1. \A x, c : InBlock(x, c)' <=> InBlock(x, c)
  BY DEF InBlock, BlockSize
<1>2. \A x, m : InMapping(x, m)' <=> InMapping(x, m)
  BY DEF InMapping
<1>3. HeapTypes'
  BY DEF HInv, HeapTypes, Tagging, Address
<1>4. LargeInv'
  BY DEF HInv, LargeInv, Vacant
<1>5. Exclusive'
  BY <1>3, <1>4, ExcludesNext
<1>6. Region(o) /\ ~Disjoint(o, o) /\ \A x \in held : Region(x) /\ ~Disjoint(x, x)
  BY AddressFacts, HeldRegions DEF HInv
<1>7. n \notin large
  <2>1. n.base \in Nat /\ n.actual \in Nat /\ n.actual >= 1
    BY SystemAssumption
  <2> QED
    BY <2>1 DEF Vacant
<1>8. /\ \A c \in live : ~InBlock(o, c)
      /\ \A m \in large : ~InMapping(o, m)
  BY <1>1, <1>2, <1>5, <1>6, <1>7 DEF Exclusive
<1>9. \A x \in held : ~InMapping(x, n)
  <2> SUFFICES ASSUME NEW x \in held, InMapping(x, n) PROVE FALSE
    OBVIOUS
  <2>1. (\E c \in live : InBlock(x, c)) \/ \E m \in large : InMapping(x, m)
    BY DEF HInv, OwnerInv
  <2> QED
    BY <1>1, <1>2, <1>5, <1>6, <1>7, <2>1 DEF Exclusive
<1>10. OwnerInv'
  <2>1. OwnerInv
    BY DEF HInv
  <2>2. \A x \in held' : \/ \E c \in live' : InBlock(x, c)
                         \/ \E m \in large' : InMapping(x, m)
    BY <2>1 DEF OwnerInv
  <2>3. ASSUME NEW x \in held', NEW y \in held'
        PROVE  /\ \A c \in live' : InBlock(x, c) /\ InBlock(y, c) => x = y
               /\ \A m \in large' : InMapping(x, m) /\ InMapping(y, m) => x = y
    <3>1. CASE x \in held /\ y \in held
      BY <1>9, <2>1, <3>1 DEF OwnerInv
    <3>2. CASE x = o \/ y = o
      BY <1>8, <1>9, <3>2
    <3> QED
      BY <3>1, <3>2
  <2> QED
    BY <1>1, <1>2, <2>2, <2>3 DEF OwnerInv
<1>11. AlignInv'
  BY DEF HInv, AlignInv, Tagging
<1>12. o \notin held
  BY <1>8 DEF HInv, OwnerInv
<1>13. CountInv'
  <2>1. IsFiniteSet(held) /\ IsFiniteSet(live) /\ IsFiniteSet(large)
        /\ Cardinality(held) = Cardinality(live) + Cardinality(large)
    BY DEF HInv, CountInv, NothingLeaks
  <2>2. /\ IsFiniteSet(held') /\ Cardinality(held') = Cardinality(held) + 1
        /\ IsFiniteSet(large') /\ Cardinality(large') = Cardinality(large) + 1
    BY <1>7, <1>12, <2>1, FS_AddElement
  <2>3. Cardinality(held) \in Nat /\ Cardinality(live) \in Nat /\ Cardinality(large) \in Nat
    BY <2>1, FS_CardinalityType
  <2> QED
    BY <2>1, <2>2, <2>3 DEF CountInv, NothingLeaks
<1> QED
  BY <1>3, <1>4, <1>10, <1>11, <1>13 DEF HInv

(* ... it goes with it, ... *)

LEMMA TakeBack ==
  ASSUME HInv, IInv', NEW o \in held, held' = held \ {o},
         \/ \E b \in live : InBlock(o, b) /\ live' = live \ {b} /\ large' = large
         \/ \E m \in large : InMapping(o, m) /\ large' = large \ {m} /\ live' = live,
         UNCHANGED << class, seen_memalign >>, moved' \subseteq held'
  PROVE  HInv'
<1>1. \A x, c : InBlock(x, c)' <=> InBlock(x, c)
  BY DEF InBlock, BlockSize
<1>2. \A x, m : InMapping(x, m)' <=> InMapping(x, m)
  BY DEF InMapping
<1>3. live' \subseteq live /\ large' \subseteq large /\ held' \subseteq held
  OBVIOUS
<1>4. HeapTypes'
  BY <1>3 DEF HInv, HeapTypes
<1>5. LargeInv'
  BY <1>3 DEF HInv, LargeInv
<1>6. OwnerInv
  BY DEF HInv
<1>7. OwnerInv'
  <2>1. \A x \in held' : \/ \E c \in live' : InBlock(x, c)
                         \/ \E m \in large' : InMapping(x, m)
    <3> SUFFICES ASSUME NEW x \in held, x # o
                 PROVE  \/ \E c \in live' : InBlock(x, c)
                        \/ \E m \in large' : InMapping(x, m)
      OBVIOUS
    <3>1. (\E c \in live : InBlock(x, c)) \/ \E m \in large : InMapping(x, m)
      BY <1>6 DEF OwnerInv
    <3>2. /\ \A b \in live : InBlock(o, b) => ~InBlock(x, b)
          /\ \A m \in large : InMapping(o, m) => ~InMapping(x, m)
      BY <1>6 DEF OwnerInv
    <3> QED
      BY <3>1, <3>2
  <2> QED
    BY <1>1, <1>2, <1>3, <1>6, <2>1 DEF OwnerInv
<1>8. AlignInv'
  BY <1>3 DEF HInv, AlignInv
<1>9. CountInv'
  <2>1. IsFiniteSet(held) /\ IsFiniteSet(live) /\ IsFiniteSet(large)
        /\ Cardinality(held) = Cardinality(live) + Cardinality(large)
    BY DEF HInv, CountInv, NothingLeaks
  <2>2. IsFiniteSet(held') /\ Cardinality(held') = Cardinality(held) - 1
    BY <2>1, FS_RemoveElement
  <2>3. \/ /\ IsFiniteSet(live') /\ Cardinality(live') = Cardinality(live) - 1
           /\ large' = large
        \/ /\ IsFiniteSet(large') /\ Cardinality(large') = Cardinality(large) - 1
           /\ live' = live
    BY <2>1, FS_RemoveElement
  <2>4. Cardinality(held) \in Nat /\ Cardinality(live) \in Nat /\ Cardinality(large) \in Nat
    BY <2>1, FS_CardinalityType
  <2> QED
    BY <2>1, <2>2, <2>3, <2>4 DEF CountInv, NothingLeaks
<1> QED
  BY <1>4, <1>5, <1>7, <1>8, <1>9 DEF HInv

(* ... it stands for another size, ... *)

LEMMA Resized ==
  ASSUME HInv, IInv', NEW o \in held, NEW q \in Address, held' = (held \ {o}) \cup {q},
         q.tagged = o.tagged, q.ptr = o.ptr, q.align = o.align,
         \/ \E b \in live : InBlock(o, b) /\ InBlock(q, b)
         \/ \E m \in large : InMapping(o, m) /\ InMapping(q, m),
         UNCHANGED << class, live, large, seen_memalign >>, moved' \subseteq held'
  PROVE  HInv'
<1>1. \A x, c : InBlock(x, c)' <=> InBlock(x, c)
  BY DEF InBlock, BlockSize
<1>2. \A x, m : InMapping(x, m)' <=> InMapping(x, m)
  BY DEF InMapping
<1>3. HeapTypes'
  BY DEF HInv, HeapTypes, Address
<1>4. LargeInv'
  BY DEF HInv, LargeInv
<1>5. OwnerInv /\ Exclusive
  BY Excludes DEF HInv
<1>6. Region(q) /\ ~Disjoint(q, q) /\ Region(o)
  BY AddressFacts, HeldRegions DEF HInv
<1>7. /\ \A b \in live : InBlock(q, b) => InBlock(o, b)
      /\ \A m \in large : InMapping(q, m) => InMapping(o, m)
  BY <1>5, <1>6 DEF Exclusive
<1>8. OwnerInv'
  <2>1. \A x \in held' : \/ \E c \in live : InBlock(x, c)
                         \/ \E m \in large : InMapping(x, m)
    BY <1>5 DEF OwnerInv
  <2>2. ASSUME NEW x \in held \ {o}
        PROVE  /\ \A c \in live : ~(InBlock(x, c) /\ InBlock(q, c))
               /\ \A m \in large : ~(InMapping(x, m) /\ InMapping(q, m))
    BY <1>5, <1>7 DEF OwnerInv
  <2>3. ASSUME NEW x \in held', NEW y \in held'
        PROVE  /\ \A c \in live : InBlock(x, c) /\ InBlock(y, c) => x = y
               /\ \A m \in large : InMapping(x, m) /\ InMapping(y, m) => x = y
    <3>1. CASE x \in held \ {o} /\ y \in held \ {o}
      BY <1>5, <3>1 DEF OwnerInv
    <3>2. CASE x = q \/ y = q
      BY <2>2, <3>2
    <3> QED
      BY <3>1, <3>2
  <2> QED
    BY <1>1, <1>2, <2>1, <2>3 DEF OwnerInv
<1>9. AlignInv'
  BY DEF HInv, AlignInv
<1>10. q \notin held \ {o}
  BY <1>5, <1>7 DEF OwnerInv
<1>11. CountInv'
  <2>1. IsFiniteSet(held) /\ IsFiniteSet(live) /\ IsFiniteSet(large)
        /\ Cardinality(held) = Cardinality(live) + Cardinality(large)
    BY DEF HInv, CountInv, NothingLeaks
  <2>2. IsFiniteSet(held \ {o}) /\ Cardinality(held \ {o}) = Cardinality(held) - 1
    BY <2>1, FS_RemoveElement
  <2>3. IsFiniteSet(held') /\ Cardinality(held') = Cardinality(held \ {o}) + 1
    BY <1>10, <2>2, FS_AddElement
  <2>4. Cardinality(held) \in Nat
    BY <2>1, FS_CardinalityType
  <2> QED
    BY <2>1, <2>2, <2>3, <2>4 DEF CountInv, NothingLeaks
<1> QED
  BY <1>3, <1>4, <1>8, <1>9, <1>11 DEF HInv

(* ... or nothing happens to it. *)

LEMMA Kept ==
  ASSUME HInv, IInv', UNCHANGED << live, large, held >>, moved' \subseteq held',
         \A b \in live : class'[FromObject(b.addr)] = class[FromObject(b.addr)],
         seen_memalign' \in BOOLEAN, seen_memalign => seen_memalign'
  PROVE  HInv'
<1>1. \A x : \A c \in live : InBlock(x, c)' <=> InBlock(x, c)
  BY DEF InBlock, BlockSize
<1>2. \A x, m : InMapping(x, m)' <=> InMapping(x, m)
  BY DEF InMapping
<1>3. HeapTypes' /\ LargeInv' /\ AlignInv' /\ CountInv'
  BY DEF HInv, HeapTypes, LargeInv, AlignInv, CountInv, NothingLeaks
<1>4. OwnerInv'
  BY <1>1, <1>2 DEF HInv, OwnerInv
<1> QED
  BY <1>3, <1>4 DEF HInv

-----------------------------------------------------------------------------
(* Allocation *)

(* What is allocated for a request: as much, or enough to align it *)
Serves(need, size, align, tagged) ==
  /\ need \in Needs /\ NeedFits(need) /\ size \in Nat /\ size >= 1
  /\ IF tagged THEN align \in Aligns /\ need = align + size
               ELSE align = kMinAlignment /\ need = size

LEMMA AlignsPowers ==
  ASSUME Limits, NEW a \in Aligns
  PROVE  a \in Nat /\ a >= 1 /\ a <= 2048
<1>1. PICK k \in 3 .. 20 : a = 2^k
  BY SizesAssumption
<1> DEFINE T == [i \in 3 .. 20 |-> 2^i]
<1>2. /\ T[3] = 8 /\ T[4] = 16 /\ T[5] = 32 /\ T[6] = 64 /\ T[7] = 128 /\ T[8] = 256
      /\ T[9] = 512 /\ T[10] = 1024 /\ T[11] = 2048 /\ T[12] = 4096 /\ T[13] = 8192
      /\ T[14] = 16384 /\ T[15] = 32768 /\ T[16] = 65536 /\ T[17] = 131072
      /\ T[18] = 262144 /\ T[19] = 524288 /\ T[20] = 1048576
  BY SMT
<1>3. k = 3 \/ k = 4 \/ k = 5 \/ k = 6 \/ k = 7 \/ k = 8 \/ k = 9 \/ k = 10 \/ k = 11
      \/ k = 12 \/ k = 13 \/ k = 14 \/ k = 15 \/ k = 16 \/ k = 17 \/ k = 18 \/ k = 19
      \/ k = 20
  BY SMT
<1>4. T[k] = a
  BY <1>1, SMT
<1> HIDE DEF T
<1>5. a < 4096
  BY KnownSizes, SMT DEF Limits
<1> QED
  BY <1>2, <1>3, <1>4, <1>5, SMT

(* The address that the program gets, for the allocated p *)
Aligned(p, align, tagged) == IF tagged THEN AlignUp(p, align) ELSE p

LEMMA AlignedFacts ==
  ASSUME Limits, NEW need, NEW size, NEW align, NEW tagged \in BOOLEAN,
         Serves(need, size, align, tagged), NEW p \in Nat, Divides(16, p)
  PROVE  \E ptr \in Nat :
           /\ ptr = Aligned(p, align, tagged)
           /\ p <= ptr /\ ptr <= p + 2048 /\ ptr + size <= p + need
           /\ Divides(align, ptr) /\ (~tagged => ptr = p) /\ need \in Nat /\ need >= 1
<1>1. size \in Nat /\ size >= 1
  BY DEF Serves
<1>2. CASE tagged
  <2>1. align \in Aligns /\ need = align + size
    BY <1>2 DEF Serves
  <2>2. PICK a \in Nat : a = align /\ a >= 1 /\ a <= 2048
    BY <2>1, AlignsPowers
  <2>3. PICK ptr \in Nat : ptr = AlignUp(p, a) /\ p < ptr /\ ptr <= p + a /\ Divides(a, ptr)
    BY <2>2, AlignsUp
  <2>4. Aligned(p, align, tagged) = ptr /\ Divides(align, ptr)
    BY <1>2, <2>2, <2>3 DEF Aligned
  <2>5. ptr <= p + 2048 /\ ptr + size <= p + need /\ need \in Nat /\ need >= 1 /\ p <= ptr
    BY <1>1, <2>1, <2>2, <2>3
  <2> WITNESS ptr \in Nat
  <2> QED
    BY <1>2, <2>4, <2>5, Zenon
<1>3. CASE ~tagged
  BY <1>1, <1>3 DEF Serves, Aligned, kMinAlignment
<1> QED
  BY <1>2, <1>3

LEMMA PopsBlock ==
  ASSUME IInv, NEW s \in Bases, NEW need \in Requests, Pop(s, need)
  PROVE  LET b == [addr |-> NextObject(s), size |-> need] IN
         /\ IInv' /\ live' = live \cup {b} /\ b \notin live /\ class' = class
         /\ failed' = failed /\ NextObject(s) \in Nat /\ Divides(16, NextObject(s))
         /\ BlockSize(b) \in Nat /\ need <= BlockSize(b)
<1> DEFINE p == NextObject(s)
           b == [addr |-> p, size |-> need]
<1>1. IInv'
  BY PopInv
<1>2. class[s] # 0 /\ class[s] = SizeToClass(need)
  BY DEF Pop
<1>3. p \in Nat /\ FromObject(p) = s /\ \A o \in live : o.addr # p
  <2>1. CASE list[s] # << >>
    BY <1>2, <2>1, PopListStep
  <2>2. CASE list[s] = << >>
    BY <1>2, <2>2, PopBumpStep
  <2> QED
    BY <2>1, <2>2
<1>4. live' = live \cup {b} /\ class' = class /\ failed' = failed
  BY DEF Pop
<1>5. b.addr = p /\ b \in live'
  BY <1>4
<1>6. \A c \in live' : Divides(16, c.addr)
  BY <1>1, SeparateNext DEF Separate
<1>7. Divides(16, p)
  BY <1>5, <1>6
<1>8. need \in Nat /\ 1 <= need /\ need <= kMaxMediumSize
  BY RequestsAssumption, MediumSize
<1>9. SizeToClass(need) \in Classes /\ need <= ClassToSize[SizeToClass(need)]
  BY <1>8, ClassIsSmallest
<1>10. ClassToSize[SizeToClass(need)] \in Nat
  BY <1>9, Tables, SMT
<1>11. BlockSize(b) = ClassToSize[SizeToClass(need)]
  BY <1>2, <1>3, <1>5 DEF BlockSize
<1> QED
  BY <1>1, <1>3, <1>4, <1>5, <1>7, <1>9, <1>10, <1>11

LEMMA SmallServes ==
  ASSUME Limits, HInv, NEW need, NEW size, NEW align, NEW tagged \in BOOLEAN,
         Serves(need, size, align, tagged), AllocateSmall(need, size, align, tagged),
         seen_memalign' \in BOOLEAN, seen_memalign => seen_memalign',
         tagged => seen_memalign', moved' \subseteq held
  PROVE  HInv'
<1>1. IInv /\ need \in Requests
  BY NeedsAssumption DEF HInv, Serves, AllocateSmall
<1>2. PICK s \in Bases : Pop(s, need) /\ Hold(NextObject(s), size, align, tagged)
  BY DEF AllocateSmall
<1> DEFINE p == NextObject(s)
           b == [addr |-> p, size |-> need]
<1>3. /\ IInv' /\ live' = live \cup {b} /\ b \notin live /\ class' = class
      /\ p \in Nat /\ Divides(16, p) /\ BlockSize(b) \in Nat /\ need <= BlockSize(b)
  BY <1>1, <1>2, PopsBlock
<1>4. PICK ptr \in Nat :
        /\ ptr = Aligned(p, align, tagged)
        /\ p <= ptr /\ ptr + size <= p + need
        /\ Divides(align, ptr) /\ (~tagged => ptr = p) /\ need \in Nat
  BY <1>3, AlignedFacts
<1> DEFINE o == [ptr |-> ptr, size |-> size, align |-> align, tagged |-> tagged]
<1>5. held' = held \cup {o} /\ large' = large
  BY <1>2, <1>4 DEF Hold, Aligned, AllocateSmall
<1>6. o \in Address
  BY <1>4 DEF Address, Serves
<1>7. o.ptr = ptr /\ o.size = size /\ o.align = align /\ o.tagged = tagged /\ b.addr = p /\ size \in Nat
  BY DEF Serves
<1>8. Tagging(o)
  BY <1>4, <1>7 DEF Tagging
<1> HIDE DEF o, b, p
<1>9. InBlock(o, b)
  BY <1>3, <1>4, <1>7 DEF InBlock
<1> QED
  BY <1>3, <1>5, <1>6, <1>8, <1>9, GrantBlock

(* Fatal, when the system has no memory left for a mapping *)
LEMMA FailInv ==
  ASSUME IInv, failed' = TRUE,
         UNCHANGED << current, class, list, bump, len, remote, live >>
  PROVE  IInv'
<1>1. \A t \in Bases : SpanInv(t)'
  <2> TAKE t \in Bases
  <2>1. SpanInv(t) /\ Untouched(t)
    BY DEF IInv, Untouched
  <2> QED
    BY <2>1, SpanSame
<1>2. Types' /\ ArenaInv'
  BY DEF IInv, Types, ArenaInv
<1>3. LiveInv'
  BY DEF IInv, LiveInv, Used
<1> QED
  BY <1>1, <1>2, <1>3 DEF IInv

LEMMA LargeServes ==
  ASSUME Limits, HInv, NEW need, NEW size, NEW align, NEW tagged \in BOOLEAN,
         Serves(need, size, align, tagged), AllocateLarge(need, size, align, tagged),
         seen_memalign' \in BOOLEAN, seen_memalign => seen_memalign',
         tagged => seen_memalign', moved' \subseteq held
  PROVE  HInv'
<1> DEFINE actual == PadSize((need + kLargeHeader) % WordSize, kPageSize)
<1>1. UNCHANGED << current, class, list, bump, len, remote, live >> /\ IInv
  BY DEF AllocateLarge, HInv
<1>2. CASE MmapSucceeds(actual)
  <2>1. PICK base \in Areas :
          /\ Vacant(base, actual)
          /\ large' = large \cup {[base |-> base, actual |-> actual]}
          /\ Hold(base + kLargeHeader, size, align, tagged)
          /\ UNCHANGED failed
    BY <1>2 DEF AllocateLarge
  <2> DEFINE n == [base |-> base, actual |-> actual]
  <2>2. actual \in 1 .. MaxMapping
    BY <1>2 DEF MmapSucceeds
  <2>3. n \in [base : Areas, actual : 1 .. MaxMapping] /\ n.base = base /\ n.actual = actual
    BY <2>2
  <2>4. base \in Nat /\ base % 4096 = 0
    BY SystemAssumption, KnownSizes, SMT
  <2>5. base + 16 \in Nat /\ Divides(16, base + 16)
    BY <2>4, ModOfPage DEF Divides
  <2>6. PICK ptr \in Nat :
          /\ ptr = Aligned(base + 16, align, tagged)
          /\ base + 16 <= ptr /\ ptr <= base + 16 + 2048 /\ ptr + size <= base + 16 + need
          /\ Divides(align, ptr) /\ (~tagged => ptr = base + 16) /\ need \in Nat /\ need >= 1
    BY <2>5, AlignedFacts
  <2>7. actual \in Nat /\ need + 16 <= actual
    BY <2>6, Padded DEF kLargeHeader, Serves
  <2> DEFINE o == [ptr |-> ptr, size |-> size, align |-> align, tagged |-> tagged]
  <2>8. o.ptr = ptr /\ o.size = size /\ o.align = align /\ o.tagged = tagged
    OBVIOUS
  <2>9. held' = held \cup {o}
    BY <2>1, <2>6 DEF Hold, Aligned, kLargeHeader
  <2>10. o \in Address /\ size \in Nat
    BY <2>6 DEF Address, Serves
  <2>11. Tagging(o)
    BY <2>6, <2>8 DEF Tagging
  <2>12. IInv'
    BY <1>1, <2>1, NextInv DEF vars
  <2> HIDE DEF o, n, actual
  <2>13. InMapping(o, n)
    BY <2>3, <2>4, <2>6, <2>7, <2>8, <2>10 DEF InMapping, kLargeHeader, kPageSize
  <2>14. moved' \subseteq held' /\ Vacant(n.base, n.actual) /\ large' = large \cup {n}
    BY <2>1, <2>3, <2>9 DEF n
  <2> QED
    BY <1>1, <2>3, <2>9, <2>10, <2>11, <2>12, <2>13, <2>14, GrantMapping
<1>3. CASE ~MmapSucceeds(actual)
  <2>1. failed' = TRUE /\ UNCHANGED << large, held >>
    BY <1>3 DEF AllocateLarge
  <2>2. IInv'
    BY <1>1, <2>1, FailInv
  <2> QED
    BY <1>1, <2>1, <2>2, Kept
<1> QED
  BY <1>2, <1>3

LEMMA AllocateServes ==
  ASSUME Limits, HInv, NEW need, NEW size, NEW align, NEW tagged \in BOOLEAN,
         Serves(need, size, align, tagged), Allocate(need, size, align, tagged),
         seen_memalign' \in BOOLEAN, seen_memalign => seen_memalign',
         tagged => seen_memalign', moved' \subseteq held
  PROVE  HInv'
BY SmallServes, LargeServes DEF Allocate

(* The product of calloc does not wrap if it passes the test (glue.h:61). *)
LEMMA ProductFits ==
  ASSUME NEW n \in Nat, NEW s \in Nat, s >= 1, NEW w \in Nat, w >= 1,
         ((n * s) % w) \div s = n
  PROVE  n * s \in Nat /\ n * s < w /\ (n * s) % w = n * s
<1> DEFINE x == n * s
           y == x % w
<1>1. x \in Nat
  OBVIOUS
<1>2. y \in Nat /\ y < w /\ y <= x
  <2> HIDE DEF x
  <2>1. x \div w \in Nat /\ y \in Nat /\ y < w /\ x = w * (x \div w) + y
    BY <1>1, Division
  <2>2. w * (x \div w) \in Nat
    BY <2>1
  <2> QED
    BY <1>1, <2>1, <2>2
<1>3. (y \div s) * s <= y
  <2> HIDE DEF x, y
  <2> QED
    BY <1>2, Rounded
<1>4. y \div s = n
  OBVIOUS
<1>5. y = x
  BY <1>1, <1>2, <1>3, <1>4
<1> QED
  BY <1>1, <1>2, <1>5

LEMMA MallocStep ==
  ASSUME Limits, HInv, moved = {}, NEW size \in Sizes, malloc(size)
  PROVE  HInv'
<1>1. size \in Nat /\ size >= 1
  BY SizesAssumption, WordAssumption
<1>2. Serves(size, size, kMinAlignment, FALSE)
  BY <1>1 DEF Serves, Needs, Limits, SumsFit
<1>3. seen_memalign' = seen_memalign /\ moved' = {} /\ seen_memalign \in BOOLEAN
  BY DEF malloc, HInv, HeapTypes
<1>4. Allocate(size, size, kMinAlignment, FALSE)
  BY DEF malloc
<1> QED
  BY <1>2, <1>3, <1>4, AllocateServes

LEMMA CallocStep ==
  ASSUME Limits, HInv, moved = {}, NEW n \in Counts, calloc(n[1], n[2])
  PROVE  HInv'
<1>1. /\ n[1] \in Nat /\ n[1] >= 1 /\ n[2] \in Nat /\ n[2] >= 1
      /\ WordSize \in Nat /\ WordSize >= 1
  BY SizesAssumption, WordAssumption
<1>2. ((n[1] * n[2]) % WordSize) \div n[2] = n[1]
  BY DEF calloc, Overflows
<1> DEFINE x == n[1] * n[2]
<1>3. x \in Nat /\ x < WordSize /\ x % WordSize = x
  BY <1>1, <1>2, ProductFits
<1>4. x >= 1
  BY <1>1
<1>5. NeedFits(x)
  BY <1>3 DEF Limits, SumsFit
<1>6. x % WordSize \in Needs
  BY DEF Needs
<1>7. Serves(x, x, kMinAlignment, FALSE)
  <2> HIDE DEF x
  <2> QED
    BY <1>3, <1>4, <1>5, <1>6 DEF Serves
<1>8. Allocate(x, x, kMinAlignment, FALSE)
  BY <1>3 DEF calloc
<1>9. seen_memalign' = seen_memalign /\ moved' = {} /\ seen_memalign \in BOOLEAN
  BY DEF calloc, HInv, HeapTypes
<1> QED
  BY <1>7, <1>8, <1>9, AllocateServes

LEMMA MemalignStep ==
  ASSUME Limits, HInv, moved = {}, NEW size \in Sizes, NEW align \in Aligns,
         posix_memalign(align, size)
  PROVE  HInv'
<1>1. size \in Nat /\ size >= 1 /\ WordSize \in Nat
  BY SizesAssumption, WordAssumption
<1>2. align \in Nat /\ align >= 1
  BY AlignsPowers
<1>3. NeedFits(align + size)
  BY DEF Limits, SumsFit
<1>4. (align + size) % WordSize = align + size
  BY <1>1, <1>2, <1>3 DEF NeedFits, kLargeHeader, kPageSize
<1>5. (align + size) % WordSize \in Needs
  BY DEF Needs
<1>6. Serves(align + size, size, align, TRUE)
  BY <1>1, <1>3, <1>4, <1>5 DEF Serves
<1>7. Allocate(align + size, size, align, TRUE) /\ seen_memalign' = TRUE /\ moved' = {}
  BY <1>4 DEF posix_memalign
<1> QED
  BY <1>6, <1>7, AllocateServes

-----------------------------------------------------------------------------
(* Frees *)

(* The block that an address lies in *)
LEMMA OwnBlock ==
  ASSUME HInv, SpansContained, NEW o \in held, NEW b \in live, InBlock(o, b)
  PROVE  /\ Contained(o.ptr) /\ BlockStart(o.ptr) = b.addr
         /\ FromObject(o.ptr) = FromObject(b.addr) /\ FromObject(o.ptr) \in Used
<1>1. IInv /\ Region(o)
  BY HeldRegions DEF HInv
<1>2. /\ b.addr \in Nat /\ BlockSize(b) \in Nat /\ o.ptr \in Nat /\ o.size \in Nat
      /\ o.size >= 1
  BY <1>1, BlockFacts DEF Region
<1>3. Within(o.ptr, b)
  BY <1>2 DEF Within, InBlock
<1>4. /\ FromObject(o.ptr) = FromObject(b.addr) /\ BlockStart(o.ptr) = b.addr
      /\ FromObject(b.addr) \in Used
  BY <1>1, <1>2, <1>3, BlockFacts
<1>5. Contained(FromObject(o.ptr))
  BY <1>4 DEF SpansContained
<1> QED
  BY <1>2, <1>4, <1>5, SpanDecides

LEMMA SameSpan ==
  ASSUME NEW base \in Nat, base % 4096 = 0, NEW p \in Nat, base <= p, p < base + 4096
  PROVE  p - (p % 2097152) = base - (base % 2097152)
BY SMT

(* The mapping that an address lies in *)
LEMMA OwnMapping ==
  ASSUME Limits, HInv, NEW o \in held, NEW m \in large, InMapping(o, m)
  PROVE  /\ ~Contained(o.ptr) /\ FromMutatorPtr(o.ptr) = m.base /\ Validate(m.base)
         /\ m.base \in Nat /\ m.actual \in Nat
         /\ { n \in large : n.base # m.base } = large \ {m}
         /\ \A n \in large : n.base = m.base => n = m
<1>1. HeapTypes /\ LargeInv /\ Region(o)
  BY HeldRegions DEF HInv
<1>2. m.base \in Areas /\ m.base \in Nat /\ m.base % 4096 = 0
  BY <1>1, SystemAssumption, KnownSizes, SMT DEF HeapTypes
<1>3. o.ptr \in Nat /\ m.base <= o.ptr /\ o.ptr < m.base + 4096
  BY <1>1, <1>2 DEF InMapping, kLargeHeader, kPageSize, Region
<1>4. /\ m.base \in Nat /\ m.actual \in Nat
      /\ FromMutatorPtr(o.ptr) = m.base /\ Validate(m.base)
  BY <1>1, <1>3, FirstPage DEF kPageSize
<1>5. FromObject(o.ptr) = FromObject(m.base)
  <2> DEFINE p == o.ptr
             base == m.base
  <2>1. p \in Nat /\ base \in Nat /\ base % 4096 = 0 /\ base <= p /\ p < base + 4096
    BY <1>2, <1>3
  <2> HIDE DEF p, base
  <2>2. p - (p % 2097152) = base - (base % 2097152)
    BY <2>1, SameSpan, SMT
  <2>3. FromObject(p) = FromObject(base)
    BY <2>2, KnownSizes, SMT DEF FromObject, AlignDown
  <2> QED
    BY <2>3 DEF p, base
<1>6. ~Contained(m.base)
  BY <1>2 DEF Limits, Contained
<1>7. ~Contained(o.ptr)
  BY <1>2, <1>3, <1>5, <1>6, SpanDecides
<1>8. \A n \in large : n.base = m.base => n = m
  <2> SUFFICES ASSUME NEW n \in large, n.base = m.base, n # m PROVE FALSE
    OBVIOUS
  <2>1. m.base + m.actual <= n.base \/ n.base + n.actual <= m.base
    BY <1>1 DEF LargeInv
  <2>2. m.actual \in Nat /\ m.actual >= 1 /\ n.actual \in Nat /\ n.actual >= 1
    BY <1>1, SystemAssumption DEF HeapTypes
  <2> QED
    BY <1>2, <2>1, <2>2
<1> QED
  BY <1>4, <1>7, <1>8

(* A free gives back the block or the mapping of the address, for whatever *)
(* lies in front of an address without a tag.                              *)
LEMMA Releases ==
  ASSUME Limits, HInv, SpansContained, NEW o \in held, Release(o), held' = held \ {o},
         UNCHANGED seen_memalign, moved' \subseteq held'
  PROVE  HInv'
<1>0. OwnerInv /\ IInv
  BY DEF HInv
<1>1. CASE \E b \in live : InBlock(o, b)
  <2>1. PICK b \in live : InBlock(o, b)
    BY <1>1
  <2>2. Contained(o.ptr) /\ BlockStart(o.ptr) = b.addr
    BY <2>1, OwnBlock
  <2>3. FreeSmall(o)
    BY <2>2 DEF Release
  <2>4. PICK found \in TagFound(o) :
          LET p == IF seen_memalign /\ found THEN BlockStart(o.ptr) ELSE o.ptr IN
          Push(p) \/ PushRemote(p)
    BY <2>3 DEF FreeSmall
  <2>5. o.tagged => seen_memalign /\ found
    BY DEF HInv, AlignInv, TagFound, Limits
  <2>6. ~o.tagged => o.ptr = b.addr
    BY <2>1 DEF InBlock
  <2>7. Push(b.addr) \/ PushRemote(b.addr)
    BY <2>2, <2>4, <2>5, <2>6
  <2>8. IInv'
    BY <1>0, <2>7, PushInv
  <2>9. live' = { x \in live : x.addr # b.addr } /\ class' = class
    BY <2>7 DEF Push, PushRemote
  <2>10. live' = live \ {b}
    BY <1>0, <2>9 DEF IInv, LiveInv
  <2>11. large' = large
    BY <2>3 DEF FreeSmall
  <2> QED
    BY <2>1, <2>8, <2>9, <2>10, <2>11, TakeBack
<1>2. CASE \E m \in large : InMapping(o, m)
  <2>1. PICK m \in large : InMapping(o, m)
    BY <1>2
  <2>2. /\ ~Contained(o.ptr) /\ FromMutatorPtr(o.ptr) = m.base /\ Validate(m.base)
        /\ { n \in large : n.base # m.base } = large \ {m}
    BY <2>1, OwnMapping
  <2>3. LargeObjectFree(o)
    BY <2>2 DEF Release
  <2>4. large' = large \ {m} /\ UNCHANGED vars
    BY <2>2, <2>3 DEF LargeObjectFree, vars
  <2>5. IInv' /\ class' = class /\ live' = live
    BY <1>0, <2>4, NextInv DEF vars
  <2> QED
    BY <2>1, <2>4, <2>5, TakeBack
<1> QED
  BY <1>0, <1>1, <1>2 DEF OwnerInv

LEMMA StayStep ==
  ASSUME Limits, HInv, SpansContained, moved = {}, NEW o \in held, ~o.tagged,
         NEW size \in Sizes, reallocStay(o, size)
  PROVE  HInv'
<1> DEFINE q == [o EXCEPT !.size = size]
<1>0. OwnerInv /\ IInv /\ HeapTypes /\ o \in Address
  BY DEF HInv, HeapTypes
<1>1. size \in Nat /\ size >= 1 /\ OldSize(o) >= size
  BY SizesAssumption, WordAssumption DEF reallocStay
<1>2. /\ q \in Address /\ q.ptr = o.ptr /\ q.size = size
      /\ q.align = o.align /\ q.tagged = o.tagged
  BY <1>0, <1>1 DEF Address
<1>3. /\ held' = (held \ {o}) \cup {q} /\ moved' \subseteq held'
      /\ UNCHANGED << class, live, large, seen_memalign >> /\ UNCHANGED vars
  BY DEF reallocStay, vars
<1>4. IInv'
  BY <1>0, <1>3, NextInv
<1> HIDE DEF q
<1>5. CASE \E b \in live : InBlock(o, b)
  <2>1. PICK b \in live : InBlock(o, b)
    BY <1>5
  <2>2. OldSize(o) = BlockSize(b)
    BY <2>1, OwnBlock DEF OldSize, BlockSize
  <2>3. b.addr \in Nat /\ BlockSize(b) \in Nat /\ o.ptr = b.addr
    BY <1>0, <2>1, BlockFacts DEF InBlock
  <2>4. InBlock(q, b)
    BY <1>1, <1>2, <2>2, <2>3 DEF InBlock
  <2> QED
    BY <1>2, <1>3, <1>4, <2>1, <2>4, Resized
<1>6. CASE \E m \in large : InMapping(o, m)
  <2>1. PICK m \in large : InMapping(o, m)
    BY <1>6
  <2>2. /\ ~Contained(o.ptr) /\ FromMutatorPtr(o.ptr) = m.base
        /\ m.base \in Nat /\ m.actual \in Nat
        /\ \A n \in large : n.base = m.base => n = m
    BY <2>1, OwnMapping
  <2>3. (CHOOSE n \in large : n.base = m.base) = m
    BY <2>2
  <2>4. OldSize(o) = m.actual - 16
    BY <2>2, <2>3 DEF OldSize, PayloadSize, kLargeHeader
  <2>5. o.ptr = m.base + 16
    BY <2>1 DEF InMapping, kLargeHeader
  <2>6. InMapping(q, m)
    BY <1>1, <1>2, <2>2, <2>4, <2>5 DEF InMapping, kLargeHeader, kPageSize
  <2> QED
    BY <1>2, <1>3, <1>4, <2>1, <2>6, Resized
<1> QED
  BY <1>0, <1>5, <1>6 DEF OwnerInv

LEMMA MoveAwayStep ==
  ASSUME Limits, HInv, NEW o \in held, NEW size \in Sizes, reallocMove(o, size)
  PROVE  HInv'
<1>1. size \in Nat /\ size >= 1
  BY SizesAssumption, WordAssumption
<1>2. Serves(size, size, kMinAlignment, FALSE)
  BY <1>1 DEF Serves, Needs, Limits, SumsFit
<1>3. /\ Allocate(size, size, kMinAlignment, FALSE)
      /\ seen_memalign' = seen_memalign /\ moved' \subseteq held /\ seen_memalign \in BOOLEAN
  BY DEF reallocMove, HInv, HeapTypes
<1> QED
  BY <1>2, <1>3, AllocateServes

-----------------------------------------------------------------------------
(* All of it *)

LEMMA HeapInitInv ==
  ASSUME HeapInit
  PROVE  HInv
<1>1. IInv
  BY InitInv DEF HeapInit
<1>2. live = {} /\ large = {} /\ held = {} /\ moved = {} /\ seen_memalign = FALSE
  BY DEF HeapInit, Init
<1>3. HeapTypes /\ LargeInv /\ OwnerInv /\ AlignInv
  BY <1>2 DEF HeapTypes, LargeInv, OwnerInv, AlignInv
<1>4. CountInv
  BY <1>2, FS_EmptySet DEF CountInv, NothingLeaks
<1> QED
  BY <1>1, <1>3, <1>4 DEF HInv

(* A span is built where the program has no block. *)
LEMMA GetSpanStep ==
  ASSUME HInv, ~failed, NEW size \in Requests, GetSpan(SizeToClass(size))
  PROVE  HInv'
<1> DEFINE c == SizeToClass(size)
<1>0. IInv /\ c \in Classes /\ c # 0 /\ UNCHANGED heapVars
  BY RequestClass DEF HInv, GetSpan
<1>1. \A b \in live : FromObject(b.addr) \in Bases /\ class[FromObject(b.addr)] # 0
  BY <1>0 DEF IInv, LiveInv, Used
<1>2. ASSUME IInv', live' = live,
             \A b \in live : class'[FromObject(b.addr)] = class[FromObject(b.addr)]
      PROVE  HInv'
  <2>1. /\ UNCHANGED << live, large, held >> /\ moved' \subseteq held'
        /\ seen_memalign' \in BOOLEAN /\ (seen_memalign => seen_memalign')
    BY <1>0, <1>2 DEF HInv, HeapTypes, heapVars
  <2> QED
    BY <1>2, <2>1, Kept
<1>3. CASE AllocateVirtualSpan(c)
  <2>1. IInv'
    BY <1>0, <1>3, AllocateInv
  <2>2. live' = live
    BY <1>3 DEF AllocateVirtualSpan
  <2>3. class' = class \/ class' = [class EXCEPT ![current] = c]
    BY <1>3 DEF AllocateVirtualSpan, BuildSpan
  <2>4. class \in [Bases -> Classes \cup {0}] /\ current \in Bases /\ class[current] = 0
    BY <1>0, BaseNat DEF IInv, Types, ArenaInv
  <2> QED
    BY <1>1, <1>2, <2>1, <2>2, <2>3, <2>4
<1>4. ASSUME NEW s \in Bases, Recycle(s, c)
      PROVE  HInv'
  <2>1. IInv'
    BY <1>0, <1>4, RecycleInv
  <2>2. live' = live /\ LiveIn(s) = {} /\ class' = [class EXCEPT ![s] = c]
    BY <1>4 DEF Recycle, BuildSpan
  <2>3. class \in [Bases -> Classes \cup {0}] /\ \A b \in live : FromObject(b.addr) # s
    BY <1>0, <2>2 DEF IInv, Types, LiveIn
  <2> QED
    BY <1>1, <1>2, <2>1, <2>2, <2>3
<1>5. ASSUME NEW s \in Bases, MoveRemoteToLocalObjects(s)
      PROVE  HInv'
  <2>1. IInv'
    BY <1>0, <1>5, MoveInv
  <2>2. live' = live /\ class' = class
    BY <1>5 DEF MoveRemoteToLocalObjects
  <2> QED
    BY <1>2, <2>1, <2>2
<1> QED
  BY <1>3, <1>4, <1>5 DEF GetSpan

LEMMA HeapNextInv ==
  ASSUME Limits, HInv, SpansContained, [HeapNext]_allVars
  PROVE  HInv'
<1>1. CASE UNCHANGED allVars
  <2>1. UNCHANGED vars /\ UNCHANGED << class, live, large, held, moved, seen_memalign >>
    BY <1>1 DEF allVars, vars, heapVars
  <2>2. IInv'
    BY <2>1, NextInv DEF HInv
  <2>3. moved' \subseteq held' /\ seen_memalign' \in BOOLEAN
    BY <2>1 DEF HInv, HeapTypes
  <2> QED
    BY <2>1, <2>2, <2>3, Kept
<1>2. CASE HeapNext /\ moved = {}
  <2>1. ASSUME NEW size \in Sizes, malloc(size) PROVE HInv'
    BY <1>2, <2>1, MallocStep
  <2>2. ASSUME NEW size \in Sizes, NEW align \in Aligns, posix_memalign(align, size)
        PROVE  HInv'
    BY <1>2, <2>2, MemalignStep
  <2>3. ASSUME NEW size \in Sizes, NEW o \in held, o.tagged => ReallocAligned,
               reallocStay(o, size) \/ reallocMove(o, size)
        PROVE  HInv'
    <3>1. ~o.tagged
      BY <2>3 DEF Limits
    <3> QED
      BY <1>2, <2>3, <3>1, StayStep, MoveAwayStep
  <2>4. ASSUME posix_memalign0 PROVE HInv'
    <3>1. /\ UNCHANGED vars /\ UNCHANGED << class, live, large, held, moved >>
          /\ seen_memalign' = TRUE
      BY <2>4 DEF posix_memalign0, vars
    <3>2. IInv' /\ moved' \subseteq held'
      BY <1>2, <3>1, NextInv DEF HInv
    <3> QED
      BY <3>1, <3>2, Kept
  <2>5. ASSUME NEW n \in Counts, calloc(n[1], n[2]) PROVE HInv'
    BY <1>2, <2>5, CallocStep
  <2>6. ASSUME NEW o \in held, free(o) PROVE HInv'
    <3>1. Release(o) /\ held' = held \ {o} /\ UNCHANGED seen_memalign /\ moved' \subseteq held'
      BY <1>2, <2>6 DEF free
    <3> QED
      BY <3>1, Releases
  <2>7. ASSUME NEW size \in Requests, GetSpan(SizeToClass(size)) PROVE HInv'
    BY <1>2, <2>7, GetSpanStep DEF HeapNext
  <2> QED
    BY <1>2, <2>1, <2>2, <2>3, <2>4, <2>5, <2>6, <2>7 DEF HeapNext
<1>3. CASE HeapNext /\ moved # {}
  <2>1. PICK o \in moved : reallocFree(o)
    BY <1>3 DEF HeapNext
  <2>2. o \in held
    BY DEF HInv, HeapTypes
  <2>3. Release(o) /\ held' = held \ {o} /\ UNCHANGED seen_memalign /\ moved' \subseteq held'
    BY <2>1 DEF reallocFree
  <2> QED
    BY <2>2, <2>3, Releases
<1> QED
  BY <1>1, <1>2, <1>3

-----------------------------------------------------------------------------
(* What follows *)

LEMMA HeapTypesFollow ==
  ASSUME HInv
  PROVE  HeapTypeOK
<1>1. TypeOK
  BY TypesFollow DEF HInv
<1>2. HeapTypes
  BY DEF HInv
<1> QED
  BY <1>1, <1>2 DEF HeapTypeOK, HeapTypes, Address

LEMMA RoomFollows ==
  ASSUME HInv
  PROVE  RoomForRequest
<1> SUFFICES ASSUME NEW o \in held
             PROVE  \/ \E b \in live :
                         /\ b.addr <= o.ptr
                         /\ o.ptr + o.size <= b.addr + ClassToSize[class[FromObject(b.addr)]]
                    \/ \E m \in large : /\ m.base + kLargeHeader <= o.ptr
                                        /\ o.ptr + o.size <= m.base + m.actual
  BY DEF RoomForRequest
<1> QED
  BY DEF HInv, OwnerInv, InBlock, InMapping, BlockSize

LEMMA OwnerFollows ==
  ASSUME Limits, HInv, SpansContained
  PROVE  FreeFindsOwner
<1> SUFFICES ASSUME NEW o \in held
             PROVE  IF Contained(o.ptr) THEN FromObject(o.ptr) \in Used
                                        ELSE Validate(FromMutatorPtr(o.ptr))
  BY DEF FreeFindsOwner
<1>1. (\E b \in live : InBlock(o, b)) \/ \E m \in large : InMapping(o, m)
  BY DEF HInv, OwnerInv
<1> QED
  BY <1>1, OwnBlock, OwnMapping

(* Two lists without common elements, one behind the other *)
LEMMA Joined ==
  ASSUME NEW S, NEW s \in Seq(S), NEW r \in Seq(S), IsInjective(s), IsInjective(r),
         \A e : ~(Contains(s, e) /\ Contains(r, e))
  PROVE  IsInjective(s \o r)
<1>1. /\ Len(s) \in Nat /\ Len(r) \in Nat
      /\ DOMAIN s = 1 .. Len(s) /\ DOMAIN r = 1 .. Len(r)
      /\ DOMAIN (s \o r) = 1 .. Len(s) + Len(r)
  OBVIOUS
<1>2. \A i \in 1 .. Len(s) + Len(r) :
        (s \o r)[i] = IF i <= Len(s) THEN s[i] ELSE r[i - Len(s)]
  OBVIOUS
<1> SUFFICES ASSUME NEW i \in 1 .. Len(s) + Len(r), NEW j \in 1 .. Len(s) + Len(r),
                    (s \o r)[i] = (s \o r)[j]
             PROVE  i = j
  BY <1>1 DEF IsInjective
<1>3. CASE i <= Len(s) /\ j <= Len(s)
  <2>1. i \in DOMAIN s /\ j \in DOMAIN s /\ s[i] = s[j]
    BY <1>1, <1>2, <1>3
  <2> QED
    BY <2>1 DEF IsInjective
<1>4. CASE i > Len(s) /\ j > Len(s)
  <2>1. i - Len(s) \in DOMAIN r /\ j - Len(s) \in DOMAIN r /\ r[i - Len(s)] = r[j - Len(s)]
    BY <1>1, <1>2, <1>4
  <2>2. i - Len(s) = j - Len(s)
    BY <2>1 DEF IsInjective
  <2> QED
    BY <1>1, <2>2
<1>5. CASE i <= Len(s) /\ j > Len(s)
  <2>1. i \in 1 .. Len(s) /\ j - Len(s) \in 1 .. Len(r) /\ s[i] = r[j - Len(s)]
    BY <1>1, <1>2, <1>5
  <2>2. Contains(s, s[i]) /\ Contains(r, s[i])
    BY <2>1 DEF Contains
  <2> QED
    BY <2>2
<1>6. CASE i > Len(s) /\ j <= Len(s)
  <2>1. j \in 1 .. Len(s) /\ i - Len(s) \in 1 .. Len(r) /\ s[j] = r[i - Len(s)]
    BY <1>1, <1>2, <1>6
  <2>2. Contains(s, s[j]) /\ Contains(r, s[j])
    BY <2>1 DEF Contains
  <2> QED
    BY <2>2
<1> QED
  BY <1>1, <1>3, <1>4, <1>5, <1>6

LEMMA ElementsOf ==
  ASSUME NEW S, NEW s \in Seq(S), NEW e
  PROVE  e \in ToSet(s) <=> Contains(s, e)
<1>1. DOMAIN s = 1 .. Len(s)
  OBVIOUS
<1> QED
  BY <1>1 DEF ToSet, Contains

(* The objects that the bump pointer of s has passed are as many as it     *)
(* says.                                                                   *)
LEMMA SlotsCount ==
  ASSUME Types, NEW s \in Bases, class[s] # 0, NEW b \in Nat
  PROVE  Cardinality({ Slot(s, k) : k \in 0 .. b - 1 }) = b
<1> DEFINE K == 0 .. b - 1
           P == { Slot(s, k) : k \in K }
           f == [k \in K |-> Slot(s, k)]
<1>1. IsFiniteSet(K) /\ Cardinality(K) = b
  <2>1. b - 1 \in Int /\ 0 \in Int
    OBVIOUS
  <2>2. IsFiniteSet(K) /\ Cardinality(K) = IF 0 > b - 1 THEN 0 ELSE (b - 1) - 0 + 1
    BY <2>1, FS_Interval
  <2> QED
    BY <2>2
<1>2. ASSUME NEW j \in K, NEW k \in K, j < k
      PROVE  Slot(s, j) # Slot(s, k)
  <2>1. ClassToSize[class[s]] \in Nat /\ ClassToSize[class[s]] > 0
    BY UsedFacts
  <2>2. HeaderEnd(s) \in Nat
    BY BaseFacts, SMT DEF HeaderEnd, kSpanHeaderSize
  <2>3. Slot(s, j) \in Nat /\ Slot(s, k) \in Nat
    BY <2>1, <2>2 DEF Slot
  <2>4. Slot(s, j) + ClassToSize[class[s]] <= Slot(s, k)
    BY <1>2, SlotsApart
  <2> QED
    BY <2>1, <2>3, <2>4
<1>3. \A j, k \in K : Slot(s, j) = Slot(s, k) => j = k
  BY <1>2
<1>4. f \in Bijection(K, P)
  <2>1. f \in [K -> P] /\ \A k \in K : f[k] = Slot(s, k)
    OBVIOUS
  <2>2. IsInjective(f)
    BY <1>3, <2>1 DEF IsInjective
  <2>3. \A p \in P : \E k \in K : f[k] = p
    BY <2>1
  <2> QED
    BY <2>1, <2>2, <2>3 DEF Bijection, Injection, Surjection, IsInjective
<1>5. ExistsBijection(K, P)
  BY <1>4 DEF ExistsBijection
<1> QED
  BY <1>1, <1>5, FS_Bijection

LEMMA FreeFollows ==
  ASSUME IInv
  PROVE  FreeStillCorrect
<1> SUFFICES ASSUME NEW s \in Used
             PROVE  LET size == ClassToSize[class[s]]
                        freed == ToSet(list[s]) \cup ToSet(remote[s])
                        out == { o.addr : o \in LiveIn(s) } IN
                    /\ \A p \in freed : (p - HeaderEnd(s)) % size = 0 /\ p < bump[s]
                    /\ freed \cap out = {}
                    /\ size * Cardinality(freed \cup out) = bump[s] - HeaderEnd(s)
                    /\ IsInjective(list[s] \o remote[s])
  BY DEF FreeStillCorrect
<1> DEFINE size == ClassToSize[class[s]]
           freed == ToSet(list[s]) \cup ToSet(remote[s])
           out == { o.addr : o \in LiveIn(s) }
<1>1. s \in Bases /\ class[s] # 0 /\ Types /\ SpanInv(s)
  BY DEF Used, IInv
<1>2. PICK b \in 0 .. ClassToObjects[class[s]] : BumpedTo(s, b)
  BY <1>1 DEF SpanInv
<1>3. size \in Nat /\ size > 0 /\ ClassToObjects[class[s]] \in Nat /\ b \in Nat
  BY <1>1, UsedFacts
<1>4. HeaderEnd(s) \in Nat
  BY <1>1, BaseFacts, SMT DEF HeaderEnd, kSpanHeaderSize
<1>5. list[s] \in Seq(Nat) /\ remote[s] \in Seq(Nat)
  BY <1>1 DEF Types
<1>6. \A p : p \in freed <=> Contains(list[s], p) \/ Contains(remote[s], p)
  BY <1>5, ElementsOf
<1>7. bump[s] = HeaderEnd(s) + b * size /\ b * size \in Nat
  BY <1>2, <1>3 DEF BumpedTo, Slot
<1> HIDE DEF freed, size
<1>8. ASSUME NEW p \in freed
      PROVE  (p - HeaderEnd(s)) % size = 0 /\ p < bump[s]
  <2>1. Among(s, b, p)
    BY <1>2, <1>6, <1>8 DEF BumpedTo
  <2>2. PICK k \in 0 .. b - 1 : p = HeaderEnd(s) + k * size
    BY <2>1 DEF Among, Slot, size
  <2>3. k \in Nat /\ k < b
    BY <1>3
  <2>4. k * size \in Nat /\ k * size + size <= b * size
    BY <1>3, <2>3, Multiples
  <2>5. (k * size + 0) % size = 0
    BY <1>3, <2>3, RemainderOf
  <2>6. p - HeaderEnd(s) = k * size + 0
    BY <1>4, <2>2, <2>4
  <2>7. p < bump[s]
    BY <1>3, <1>4, <1>7, <2>2, <2>4
  <2> QED
    BY <2>5, <2>6, <2>7
<1>9. freed \cap out = {}
  BY <1>1, <1>6 DEF SpanInv, Placed
<1>10. freed \cup out = { Slot(s, k) : k \in 0 .. b - 1 }
  <2>1. \A p : p \in freed \cup out <=> Somewhere(s, p)
    BY <1>6 DEF Somewhere
  <2>2. \A p : Somewhere(s, p) <=> Among(s, b, p)
    BY <1>2 DEF BumpedTo, Somewhere
  <2>3. \A p : Among(s, b, p) <=> p \in { Slot(s, k) : k \in 0 .. b - 1 }
    BY DEF Among
  <2> QED
    BY <2>1, <2>2, <2>3
<1>11. Cardinality(freed \cup out) = b
  BY <1>1, <1>3, <1>10, SlotsCount
<1>12. size * Cardinality(freed \cup out) = bump[s] - HeaderEnd(s)
  BY <1>3, <1>4, <1>7, <1>11
<1>13. IsInjective(list[s] \o remote[s])
  BY <1>1, <1>5, Joined DEF SpanInv, Placed
<1> QED
  BY <1>8, <1>9, <1>12, <1>13 DEF freed, size

(* Spans that are in use are not the last of the object space. *)
NotLast == \A s \in Used : ~OutOfMemory(s)

LEMMA NotLastStep ==
  ASSUME HInv, NotLast, [HeapNext]_allVars
  PROVE  NotLast'
<1>1. class \in [Bases -> Classes \cup {0}]
  BY DEF HInv, IInv, Types
<1>2. \/ class' = class
      \/ \E c : ~OutOfMemory(current) /\ class' = [class EXCEPT ![current] = c]
      \/ \E c : \E s \in Used : class' = [class EXCEPT ![s] = c]
  <2>1. ASSUME NEW c, GetSpan(c)
        PROVE  \/ class' = class
               \/ ~OutOfMemory(current) /\ class' = [class EXCEPT ![current] = c]
               \/ \E s \in Used : class' = [class EXCEPT ![s] = c]
    BY <2>1 DEF GetSpan, AllocateVirtualSpan, Recycle, BuildSpan,
                MoveRemoteToLocalObjects, Used
  <2>2. ASSUME NEW need, NEW size, NEW align, NEW tagged, Allocate(need, size, align, tagged)
        PROVE  class' = class
    BY <2>2 DEF Allocate, AllocateLarge, AllocateSmall, Pop
  <2>3. ASSUME NEW o, Release(o) PROVE class' = class
    BY <2>3 DEF Release, FreeSmall, LargeObjectFree, Push, PushRemote
  <2>4. CASE HeapNext
    <3>1. ASSUME NEW size, malloc(size) PROVE class' = class
      BY <2>2, <3>1 DEF malloc
    <3>2. ASSUME NEW align, NEW size, posix_memalign(align, size) PROVE class' = class
      BY <2>2, <3>2 DEF posix_memalign
    <3>3. ASSUME NEW n, calloc(n[1], n[2]) PROVE class' = class
      BY <2>2, <3>3 DEF calloc
    <3>4. ASSUME NEW o, NEW size, reallocStay(o, size) \/ reallocMove(o, size)
          PROVE  class' = class
      BY <2>2, <3>4 DEF reallocStay, reallocMove, vars
    <3>5. ASSUME NEW o, free(o) \/ reallocFree(o) PROVE class' = class
      BY <2>3, <3>5 DEF free, reallocFree
    <3>6. ASSUME posix_memalign0 PROVE class' = class
      BY <3>6 DEF posix_memalign0, vars
    <3> QED
      BY <2>1, <2>4, <3>1, <3>2, <3>3, <3>4, <3>5, <3>6 DEF HeapNext
  <2>5. CASE UNCHANGED allVars
    BY <2>5 DEF allVars, vars
  <2> QED
    BY <2>4, <2>5
<1>3. \A s : OutOfMemory(s)' <=> OutOfMemory(s)
  BY DEF OutOfMemory
<1> QED
  BY <1>1, <1>2, <1>3 DEF NotLast, Used

-----------------------------------------------------------------------------
(* What the program gets: see Allocator *)

LEMMA AllocateHolds ==
  ASSUME NEW need, NEW size, NEW align, NEW tagged, Allocate(need, size, align, tagged)
  PROVE  held' = held \/ \E o : held' = held \cup {o}
<1>1. CASE AllocateLarge(need, size, align, tagged)
  BY <1>1 DEF AllocateLarge, Hold
<1>2. CASE AllocateSmall(need, size, align, tagged)
  BY <1>2 DEF AllocateSmall, Hold
<1> QED
  BY <1>1, <1>2 DEF Allocate

LEMMA HeldSteps ==
  ASSUME HInv, [HeapNext]_allVars
  PROVE  \/ held' = held \/ \E o : held' = held \cup {o}
         \/ \E o \in held : held' = held \ {o}
         \/ \E size : \E o \in held : held' = (held \ {o}) \cup {[o EXCEPT !.size = size]}
<1>1. CASE UNCHANGED allVars
  BY <1>1 DEF allVars, heapVars
<1>2. CASE HeapNext
  <2>1. ASSUME NEW size, malloc(size)
        PROVE  held' = held \/ \E o : held' = held \cup {o}
    BY <2>1, AllocateHolds DEF malloc
  <2>2. ASSUME NEW align, NEW size, posix_memalign(align, size)
        PROVE  held' = held \/ \E o : held' = held \cup {o}
    BY <2>2, AllocateHolds DEF posix_memalign
  <2>3. ASSUME NEW n, calloc(n[1], n[2])
        PROVE  held' = held \/ \E o : held' = held \cup {o}
    BY <2>3, AllocateHolds DEF calloc
  <2>4. ASSUME NEW q, NEW size, reallocMove(q, size)
        PROVE  held' = held \/ \E o : held' = held \cup {o}
    BY <2>4, AllocateHolds DEF reallocMove
  <2>5. ASSUME NEW q, NEW size, reallocStay(q, size)
        PROVE  held' = (held \ {q}) \cup {[q EXCEPT !.size = size]}
    BY <2>5 DEF reallocStay
  <2>6. ASSUME NEW o, free(o) \/ reallocFree(o) PROVE held' = held \ {o}
    BY <2>6 DEF free, reallocFree
  <2>7. ASSUME NEW c, posix_memalign0 \/ GetSpan(c) PROVE held' = held
    BY <2>7 DEF posix_memalign0, GetSpan, heapVars
  <2>8. moved \subseteq held
    BY DEF HInv, HeapTypes
  <2> QED
    BY <1>2, <2>1, <2>2, <2>3, <2>4, <2>5, <2>6, <2>7, <2>8 DEF HeapNext
<1> QED
  BY <1>1, <1>2

LEMMA HeapImplements ==
  ASSUME HInv, HInv', [HeapNext]_allVars
  PROVE  [Program!Next]_held
<1>1. HeldApart /\ HeldApart'
  BY HeldDisjoint, HeldDisjointNext
<1>2. \A o \in held' : o.ptr % o.align = 0
  BY DEF HInv, AlignInv, Divides
<1>3. \A o, q : Disjoint(o, q) <=> Program!Apart(o, q)
  BY DEF Disjoint, Program!Apart
<1>4. ASSUME NEW o, held' = held \cup {o}
      PROVE  held' = held \/ (Program!Malloc(o) /\ o \in held')
  BY <1>1, <1>2, <1>3, <1>4 DEF HeldApart, Program!Malloc
<1>5. ASSUME NEW o \in held, held' = held \ {o}
      PROVE  Program!Free(o)
  BY <1>5 DEF Program!Free
<1>6. ASSUME NEW o \in held, NEW size, held' = (held \ {o}) \cup {[o EXCEPT !.size = size]}
      PROVE  \E q \in held' : Program!Resize(o, q)
  <2> DEFINE q == [o EXCEPT !.size = size]
  <2>1. o \in Address /\ q \in held'
    BY <1>6 DEF HInv, HeapTypes
  <2>2. q.ptr = o.ptr
    BY <2>1 DEF Address
  <2>3. ASSUME NEW x \in held \ {o} PROVE Disjoint(q, x)
    <3>1. Disjoint(o, x)
      BY <1>1 DEF HeldApart
    <3>2. Region(o) /\ Region(x)
      BY HeldRegions DEF HInv
    <3>3. o.ptr # x.ptr
      BY <3>1, <3>2 DEF Disjoint, Region
    <3>4. q # x /\ x \in held'
      BY <1>6, <2>2, <3>3
    <3> QED
      BY <1>1, <2>1, <3>4 DEF HeldApart
  <2> QED
    BY <1>3, <1>6, <2>1, <2>2, <2>3 DEF Program!Resize
<1> QED
  BY <1>4, <1>5, <1>6, HeldSteps DEF Program!Next

-----------------------------------------------------------------------------
(* The theorems.  They take for granted what Heap names as the limits of   *)
(* the code, and that Arena::Contains is right about the spans in use.     *)

(* glue.h: every address that the program holds has a block or a mapping   *)
(* of its own, is aligned and has a tag that frees will look for, after    *)
(* every sequence of calls.                                                *)
THEOREM HeapInvariant ==
  ASSUME Limits
  PROVE  HeapSpec /\ []SpansContained => []HInv
<1>1. HeapInit => HInv
  BY HeapInitInv
<1>2. HInv /\ SpansContained /\ [HeapNext]_allVars => HInv'
  BY HeapNextInv
<1> QED
  BY <1>1, <1>2, PTL DEF HeapSpec

(* arena.h:79: what the heap takes for granted about the spans in use      *)
(* holds if Arena::Contains is right about all spans that the arena hands  *)
(* out.                                                                    *)
THEOREM SpansStayContained ==
  ASSUME Limits, \A s \in Bases : OutOfMemory(s) \/ Contained(s)
  PROVE  HeapSpec => []SpansContained
<1>1. HeapInit => HInv /\ NotLast
  BY HeapInitInv DEF HeapInit, Init, NotLast, Used
<1>2. NotLast => SpansContained
  BY DEF NotLast, SpansContained, Used
<1>3. HInv /\ NotLast /\ [HeapNext]_allVars => (HInv /\ NotLast)'
  BY <1>2, HeapNextInv, NotLastStep
<1> QED
  BY <1>1, <1>2, <1>3, PTL DEF HeapSpec

(* glue.h, large-objects.h: addresses, sizes and alignments stay what they *)
(* are meant to be, and realloc frees what the program holds.              *)
THEOREM HeapTypesHold ==
  ASSUME Limits
  PROVE  HeapSpec /\ []SpansContained => []HeapTypeOK
<1>1. HInv => HeapTypeOK
  BY HeapTypesFollow
<1> QED
  BY <1>1, HeapInvariant, PTL

(* glue.h: whatever was asked for lies in one block that is not free, or   *)
(* in one mapping behind its header, also after alignment (glue.h:124) and *)
(* after realloc in place (glue.h:81).                                     *)
THEOREM HeapHasRoom ==
  ASSUME Limits
  PROVE  HeapSpec /\ []SpansContained => []RoomForRequest
<1>1. HInv => RoomForRequest
  BY RoomFollows
<1> QED
  BY <1>1, HeapInvariant, PTL

(* glue.h:126: frees put nothing but starts of blocks into the free lists, *)
(* each block into one, and every block that was ever handed out is in a   *)
(* list or with the program.                                               *)
THEOREM FreesStayCorrect ==
  ASSUME Limits
  PROVE  HeapSpec /\ []SpansContained => []FreeStillCorrect
<1>1. HInv => FreeStillCorrect
  BY FreeFollows DEF HInv
<1> QED
  BY <1>1, HeapInvariant, PTL

(* core.h, arena.h:79, large-objects.h:48: a free finds the span or the    *)
(* header of a mapping from the address alone.                             *)
THEOREM FreesFindOwner ==
  ASSUME Limits
  PROVE  HeapSpec /\ []SpansContained => []FreeFindsOwner
<1>1. HInv /\ SpansContained => FreeFindsOwner
  BY OwnerFollows
<1> QED
  BY <1>1, HeapInvariant, PTL

(* glue.h: as many blocks and mappings are out as the program holds        *)
(* addresses.                                                              *)
THEOREM HeapLeaksNothing ==
  ASSUME Limits
  PROVE  HeapSpec /\ []SpansContained => []NothingLeaks
<1>1. HInv => NothingLeaks
  BY DEF HInv, CountInv
<1> QED
  BY <1>1, HeapInvariant, PTL

(* The object space keeps its promises when it is used through glue.h:     *)
(* frees pass addresses of blocks only, also of aligned addresses.         *)
THEOREM HeapKeepsObjects ==
  ASSUME Limits
  PROVE  HeapSpec /\ []SpansContained => [](ObjectsApart /\ LenCounts /\ RequestFits)
<1>1. HInv => ObjectsApart /\ LenCounts /\ RequestFits
  BY ApartFollows, LenFollows, FitFollows DEF HInv
<1> QED
  BY <1>1, HeapInvariant, PTL

(* glue.h: the heap implements Allocator.  What the program holds is       *)
(* aligned and never overlaps, whatever sequence of malloc, calloc,        *)
(* realloc, posix_memalign and free it calls.                              *)
THEOREM HeapIsAllocator ==
  ASSUME Limits
  PROVE  HeapSpec /\ []SpansContained => IsAllocator
<1>1. HeapInit => Program!Init
  BY DEF HeapInit, Program!Init
<1>2. HInv /\ HInv' /\ [HeapNext]_allVars => [Program!Next]_held
  BY HeapImplements
<1> QED
  BY <1>1, <1>2, HeapInvariant, PTL DEF HeapSpec, IsAllocator, Program!Spec
=============================================================================
