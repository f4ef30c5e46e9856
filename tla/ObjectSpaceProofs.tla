-------------------------- MODULE ObjectSpaceProofs --------------------------
(***************************************************************************)
(* Where objects lie, for any size of the object space, any place of it    *)
(* and any requests.                                                       *)
(***************************************************************************)
EXTENDS ObjectSpace, ListFacts

-----------------------------------------------------------------------------
(* The inductive invariant *)

(* The address of the k-th object of s, from 0 *)
Slot(s, k) == HeaderEnd(s) + k * ClassToSize[class[s]]

(* p is one of the first b objects of s. *)
Among(s, b, p) == \E k \in 0 .. b - 1 : p = Slot(s, k)

(* p is in a list of s or with the program. *)
Somewhere(s, p) ==
  Contains(list[s], p) \/ Contains(remote[s], p) \/ \E o \in LiveIn(s) : o.addr = p

(* The bump pointer has passed b objects, those that are in a list of the  *)
(* span or with the program, and len_ counts the list and what is beyond.  *)
BumpedTo(s, b) ==
  /\ bump[s] = Slot(s, b)
  /\ len[s] - Len(list[s]) = ClassToObjects[class[s]] - b
  /\ \A p : Contains(list[s], p) \/ Contains(remote[s], p) => Among(s, b, p)
  /\ \A o \in LiveIn(s) : Among(s, b, o.addr)
  /\ \A p : Among(s, b, p) => Somewhere(s, p)

(* An object is in one list, once, or with the program. *)
Placed(s) ==
  /\ IsInjective(list[s]) /\ IsInjective(remote[s])
  /\ \A p : ~(Contains(list[s], p) /\ Contains(remote[s], p))
  /\ \A o \in LiveIn(s) : ~Contains(list[s], o.addr) /\ ~Contains(remote[s], o.addr)

SpanInv(s) ==
  /\ class[s] # 0 => \E b \in 0 .. ClassToObjects[class[s]] : BumpedTo(s, b)
  /\ class[s] = 0 => list[s] = << >> /\ remote[s] = << >> /\ bump[s] = 0
  /\ Placed(s)

(* The arena has not handed out what is at its pointer or beyond. *)
ArenaInv ==
  /\ failed \/ current \in Bases
  /\ \A s \in Bases : current <= s => class[s] = 0

LiveInv ==
  /\ \A o \in live : /\ FromObject(o.addr) \in Used
                     /\ class[FromObject(o.addr)] = SizeToClass(o.size)
  /\ \A o, p \in live : o.addr = p.addr => o = p

Types ==
  /\ current \in Bases \cup {end} /\ failed \in BOOLEAN
  /\ class \in [Bases -> Classes \cup {0}]
  /\ bump \in [Bases -> Nat] /\ len \in [Bases -> Nat]
  /\ list \in [Bases -> Seq(Nat)] /\ remote \in [Bases -> Seq(Nat)]
  /\ \A o \in live : o.addr \in Nat /\ o.size \in Requests

IInv == Types /\ (\A s \in Bases : SpanInv(s)) /\ ArenaInv /\ LiveInv

-----------------------------------------------------------------------------
(* Arithmetic *)

LEMMA Multiples ==
  ASSUME NEW j \in Nat, NEW k \in Nat, NEW z \in Nat, j < k
  PROVE  j * z \in Nat /\ k * z \in Nat /\ j * z + z <= k * z
<1>1. PICK d \in Nat : k = j + 1 + d
  <2>1. k - j - 1 \in Nat /\ k = j + 1 + (k - j - 1)
    OBVIOUS
  <2> QED
    BY <2>1
<1>2. j * z \in Nat /\ d * z \in Nat /\ k * z \in Nat
  OBVIOUS
<1>3. k * z = j * z + z + d * z
  BY <1>1
<1> QED
  BY <1>2, <1>3

LEMMA Cancelled ==
  ASSUME NEW x \in Nat, NEW y \in Nat, NEW z \in Nat
  PROVE  x + y \in Nat /\ (x + y) - (y + z) = x - z
OBVIOUS

LEMMA Quotient ==
  ASSUME NEW k \in Nat, NEW z \in Nat, z > 0
  PROVE  (k * z) \div z = k
OBVIOUS

LEMMA Rounded ==
  ASSUME NEW n \in Nat, NEW z \in Nat, z > 0
  PROVE  n \div z \in Nat /\ (n \div z) * z <= n
OBVIOUS

LEMMA KnownSizes ==
  /\ kVirtualSpanSize = 2097152 /\ kSpanHeaderSize = 128
  /\ kMaxSmallSize = 256 /\ kMaxMediumSize = 1048576
  /\ kFineClasses = 17 /\ kNumClasses = 29 /\ kMaxSmallShift = 8
  /\ kMinAlignment = 16 /\ kPageSize = 4096
BY DEF kVirtualSpanSize, kSpanHeaderSize, kMaxSmallSize, kMaxMediumSize, kFineClasses,
       kNumClasses, kCoarseClasses, kMaxSmallShift, kMinAlignment, kMaxMediumShift, kPageSize

(* The tables: a span has room for its objects behind its header. *)
LEMMA Tables ==
  ASSUME NEW c \in Classes
  PROVE  /\ ClassToSize[c] \in Nat /\ ClassToSize[c] >= 16
         /\ ClassToObjects[c] \in Nat /\ ClassToObjects[c] > 0
         /\ ClassToSpanSize[c] \in Nat /\ ClassToSpanSize[c] < 2097152
         /\ 128 + ClassToObjects[c] * ClassToSize[c] <= ClassToSpanSize[c]
<1>0. c \in 1 .. 28
  BY KnownSizes DEF Classes
<1>1. CASE c < 17
  <2>1. ClassToSize[c] = 16 * c
    BY <1>1, KnownSizes DEF ClassToSize
  <2>2. ClassToObjects[c] = 32640 \div (16 * c)
    BY <1>1, <2>1, KnownSizes DEF ClassToObjects
  <2>3. ClassToSpanSize[c] = 32768
    BY <1>1, KnownSizes DEF ClassToSpanSize
  <2>4. /\ ClassToObjects[c] \in Nat
        /\ ClassToObjects[c] * ClassToSize[c] <= 32640
    BY <1>0, <2>1, <2>2, Rounded
  <2>5. ClassToObjects[c] > 0
    BY <1>0, <1>1, <2>2
  <2> QED
    BY <1>0, <2>1, <2>3, <2>4, <2>5
<1>2. CASE c >= 17
  <2>1. ClassToSize[c] = 2^(c - 8)
    BY <1>0, <1>2, KnownSizes DEF ClassToSize
  <2>2. ClassToObjects[c] = << 64, 64, 64, 32, 32, 16, 16, 16, 8, 4, 2, 1 >>[c - 16]
    BY <1>0, <1>2, KnownSizes DEF ClassToObjects
  <2>3. ClassToSpanSize[c]
          = ((ClassToObjects[c] * ClassToSize[c] + 128) \div 4096 + 1) * 4096
    BY <1>0, <1>2, KnownSizes DEF ClassToSpanSize
  <2>4. c = 17 \/ c = 18 \/ c = 19 \/ c = 20 \/ c = 21 \/ c = 22
        \/ c = 23 \/ c = 24 \/ c = 25 \/ c = 26 \/ c = 27 \/ c = 28
    BY <1>0, <1>2
  <2>5. c = 17 => ClassToSize[c] = 512 /\ ClassToObjects[c] = 64
    BY <2>1, <2>2
  <2>6. c = 18 => ClassToSize[c] = 1024 /\ ClassToObjects[c] = 64
    BY <2>1, <2>2
  <2>7. c = 19 => ClassToSize[c] = 2048 /\ ClassToObjects[c] = 64
    BY <2>1, <2>2
  <2>8. c = 20 => ClassToSize[c] = 4096 /\ ClassToObjects[c] = 32
    BY <2>1, <2>2
  <2>9. c = 21 => ClassToSize[c] = 8192 /\ ClassToObjects[c] = 32
    BY <2>1, <2>2
  <2>10. c = 22 => ClassToSize[c] = 16384 /\ ClassToObjects[c] = 16
    BY <2>1, <2>2
  <2>11. c = 23 => ClassToSize[c] = 32768 /\ ClassToObjects[c] = 16
    BY <2>1, <2>2
  <2>12. c = 24 => ClassToSize[c] = 65536 /\ ClassToObjects[c] = 16
    BY <2>1, <2>2
  <2>13. c = 25 => ClassToSize[c] = 131072 /\ ClassToObjects[c] = 8
    BY <2>1, <2>2
  <2>14. c = 26 => ClassToSize[c] = 262144 /\ ClassToObjects[c] = 4
    BY <2>1, <2>2
  <2>15. c = 27 => ClassToSize[c] = 524288 /\ ClassToObjects[c] = 2
    BY <2>1, <2>2
  <2>16. c = 28 => ClassToSize[c] = 1048576 /\ ClassToObjects[c] = 1
    BY <2>1, <2>2
  <2> QED
    BY <2>3, <2>4, <2>5, <2>6, <2>7, <2>8, <2>9, <2>10,
       <2>11, <2>12, <2>13, <2>14, <2>15, <2>16
<1> QED
  BY <1>0, <1>1, <1>2

-----------------------------------------------------------------------------
(* Virtual spans *)

LEMMA Starts ==
  /\ start \in Nat /\ end \in Nat /\ start \in Bases
  /\ end = start + ArenaSpans * 2097152
  /\ \E m \in Nat : start = m * 2097152
<1>1. Multiple * ArenaSpans \in Nat /\ ArenaSpans \in Nat /\ ArenaSpans >= 1
  BY ArenaAssumption
<1>2. start = (Multiple * ArenaSpans) * 2097152 /\ end = start + ArenaSpans * 2097152
  BY KnownSizes DEF start, end
<1>3. start = start + 0 * kVirtualSpanSize /\ 0 \in 0 .. ArenaSpans - 1
  BY <1>1, <1>2, KnownSizes
<1> QED
  BY <1>1, <1>2, <1>3 DEF Bases

LEMMA BaseFacts ==
  ASSUME NEW s \in Bases
  PROVE  /\ s \in Nat /\ start <= s /\ s + 2097152 <= end
         /\ \E m \in Nat : s = m * 2097152
         /\ s + 2097152 < end => s + 2097152 \in Bases
         /\ s + 2097152 \in Bases \/ s + 2097152 = end
<1>1. PICK i \in 0 .. ArenaSpans - 1 : s = start + i * 2097152
  BY KnownSizes DEF Bases
<1>2. PICK m \in Nat : start = m * 2097152
  BY Starts
<1>3. ArenaSpans \in Nat /\ i \in Nat /\ i + 1 <= ArenaSpans
  BY ArenaAssumption
<1>4. s = (m + i) * 2097152 /\ m + i \in Nat /\ s + 2097152 = start + (i + 1) * 2097152
  BY <1>1, <1>2, <1>3
<1>5. i + 1 \in 0 .. ArenaSpans - 1 => s + 2097152 \in Bases
  BY <1>4, KnownSizes DEF Bases
<1>6. i + 1 = ArenaSpans => s + 2097152 = end
  BY <1>4, Starts
<1>7. i + 1 \in 0 .. ArenaSpans - 1 \/ i + 1 = ArenaSpans
  BY <1>3
<1>8. s + 2097152 <= end
  BY <1>3, <1>4, Starts
<1>9. start <= s /\ s \in Nat
  BY <1>1, <1>3, Starts
<1> QED
  BY <1>4, <1>5, <1>6, <1>7, <1>8, <1>9

(* The mask leads every address of a virtual span to its start. *)
LEMMA Masked ==
  ASSUME NEW s \in Bases, NEW p \in Nat, s <= p, p < s + 2097152
  PROVE  FromObject(p) = s
<1>1. PICK m \in Nat : s = m * 2097152
  BY BaseFacts
<1>2. p % 2097152 = p - s
  BY <1>1
<1>3. s \in Nat
  BY BaseFacts
<1> QED
  BY <1>2, <1>3, KnownSizes DEF FromObject, AlignDown

LEMMA BasesApart ==
  ASSUME NEW s \in Bases, NEW t \in Bases, s < t
  PROVE  s + 2097152 <= t
<1>1. PICK m \in Nat : s = m * 2097152
  BY BaseFacts
<1>2. PICK n \in Nat : t = n * 2097152
  BY BaseFacts
<1> QED
  BY <1>1, <1>2

-----------------------------------------------------------------------------
(* Size classes *)

LEMMA LogTable ==
  ASSUME NEW i \in 1 .. 255
  PROVE  /\ i = 1 => log_table[i] = 0
         /\ i \in 2 .. 3 => log_table[i] = 1
         /\ i \in 4 .. 7 => log_table[i] = 2
         /\ i \in 8 .. 15 => log_table[i] = 3
         /\ i \in 16 .. 31 => log_table[i] = 4
         /\ i \in 32 .. 63 => log_table[i] = 5
         /\ i \in 64 .. 127 => log_table[i] = 6
         /\ i \in 128 .. 255 => log_table[i] = 7
<1> DEFINE P(k) == 2^k <= i /\ i < 2^(k + 1)
<1>0. i \in 0 .. 255 /\ i # 0
  OBVIOUS
<1>1. log_table[i] = CHOOSE k \in 0 .. 7 : P(k)
  BY <1>0, Zenon DEF log_table
<1>2. /\ P(0) <=> i = 1
      /\ P(1) <=> i \in 2 .. 3
      /\ P(2) <=> i \in 4 .. 7
      /\ P(3) <=> i \in 8 .. 15
      /\ P(4) <=> i \in 16 .. 31
      /\ P(5) <=> i \in 32 .. 63
      /\ P(6) <=> i \in 64 .. 127
      /\ P(7) <=> i \in 128 .. 255
  OBVIOUS
<1> HIDE DEF P
<1>3. \A k \in 0 .. 7 : \/ k = 0 \/ k = 1 \/ k = 2 \/ k = 3
                        \/ k = 4 \/ k = 5 \/ k = 6 \/ k = 7
  OBVIOUS
<1>4. \E k \in 0 .. 7 : P(k)
  BY <1>2
<1>5. log_table[i] \in 0 .. 7 /\ P(log_table[i])
  BY <1>1, <1>4
<1> QED
  BY <1>2, <1>3, <1>5

(* Log2 of what takes two or three bytes *)
LEMMA Log2Byte ==
  ASSUME NEW v \in Nat, 256 <= v, v < 1048576
  PROVE  /\ v < 65536 => Log2(v) = 8 + log_table[v \div 256]
         /\ v >= 65536 => Log2(v) = 16 + log_table[v \div 65536]
<1> DEFINE P(k) == /\ k > 0 => v \div 2^(8 * k) > 0
                   /\ k = 3 \/ v < 2^(8 * k + 8)
           byte == CHOOSE k \in 0 .. 3 : P(k)
<1>1. Log2(v) = 8 * byte + log_table[v \div 2^(8 * byte)]
  BY DEF Log2
<1>2. ~P(0) /\ (P(1) <=> v < 65536) /\ (P(2) <=> v >= 65536) /\ ~P(3)
  <2>1. ~P(0)
    OBVIOUS
  <2>2. P(1) <=> v < 65536
    OBVIOUS
  <2>3. P(2) <=> v >= 65536
    OBVIOUS
  <2>4. ~P(3)
    OBVIOUS
  <2> QED
    BY <2>1, <2>2, <2>3, <2>4
<1> HIDE DEF P
<1>3. \E k \in 0 .. 3 : P(k)
  BY <1>2
<1>4. byte \in 0 .. 3 /\ P(byte)
  BY <1>3
<1>5. byte = 0 \/ byte = 1 \/ byte = 2 \/ byte = 3
  BY <1>4
<1>6. (v < 65536 => byte = 1) /\ (v >= 65536 => byte = 2)
  BY <1>2, <1>4, <1>5
<1> HIDE DEF byte
<1>7. ASSUME v < 65536
      PROVE  Log2(v) = 8 + log_table[v \div 256]
  <2>1. byte = 1
    BY <1>6, <1>7, SMT
  <2>2. 8 * byte = 8 /\ v \div 2^(8 * byte) = v \div 256
    BY <2>1, SMT
  <2> QED
    BY <1>1, <2>2, SMT
<1>8. ASSUME v >= 65536
      PROVE  Log2(v) = 16 + log_table[v \div 65536]
  <2>1. byte = 2
    BY <1>6, <1>8, SMT
  <2>2. 8 * byte = 16 /\ v \div 2^(8 * byte) = v \div 65536
    BY <2>1, SMT
  <2> QED
    BY <1>1, <2>2, SMT
<1> QED
  BY <1>7, <1>8, SMT

(* The logarithms and sizes of the classes beyond 256 bytes *)
LEMMA Log2Values ==
  ASSUME NEW v \in Nat
  PROVE  /\ 256 <= v /\ v < 512 => Log2(v) = 8
         /\ 512 <= v /\ v < 1024 => Log2(v) = 9
         /\ 1024 <= v /\ v < 2048 => Log2(v) = 10
         /\ 2048 <= v /\ v < 4096 => Log2(v) = 11
         /\ 4096 <= v /\ v < 8192 => Log2(v) = 12
         /\ 8192 <= v /\ v < 16384 => Log2(v) = 13
         /\ 16384 <= v /\ v < 32768 => Log2(v) = 14
         /\ 32768 <= v /\ v < 65536 => Log2(v) = 15
         /\ 65536 <= v /\ v < 131072 => Log2(v) = 16
         /\ 131072 <= v /\ v < 262144 => Log2(v) = 17
         /\ 262144 <= v /\ v < 524288 => Log2(v) = 18
         /\ 524288 <= v /\ v < 1048576 => Log2(v) = 19
<1>1. ASSUME 256 <= v, v < 512 PROVE Log2(v) = 8
  <2>1. v \div 256 = 1
    BY <1>1, SMT
  <2>2. v \div 256 \in 1 .. 255 /\ log_table[v \div 256] = 0
    BY <2>1, LogTable, SMT
  <2> QED
    BY <1>1, <2>2, Log2Byte, SMT
<1>2. ASSUME 512 <= v, v < 1024 PROVE Log2(v) = 9
  <2>1. v \div 256 \in 2 .. 3
    BY <1>2, SMT
  <2>2. v \div 256 \in 1 .. 255 /\ log_table[v \div 256] = 1
    BY <2>1, LogTable, SMT
  <2> QED
    BY <1>2, <2>2, Log2Byte, SMT
<1>3. ASSUME 1024 <= v, v < 2048 PROVE Log2(v) = 10
  <2>1. v \div 256 \in 4 .. 7
    BY <1>3, SMT
  <2>2. v \div 256 \in 1 .. 255 /\ log_table[v \div 256] = 2
    BY <2>1, LogTable, SMT
  <2> QED
    BY <1>3, <2>2, Log2Byte, SMT
<1>4. ASSUME 2048 <= v, v < 4096 PROVE Log2(v) = 11
  <2>1. v \div 256 \in 8 .. 15
    BY <1>4, SMT
  <2>2. v \div 256 \in 1 .. 255 /\ log_table[v \div 256] = 3
    BY <2>1, LogTable, SMT
  <2> QED
    BY <1>4, <2>2, Log2Byte, SMT
<1>5. ASSUME 4096 <= v, v < 8192 PROVE Log2(v) = 12
  <2>1. v \div 256 \in 16 .. 31
    BY <1>5, SMT
  <2>2. v \div 256 \in 1 .. 255 /\ log_table[v \div 256] = 4
    BY <2>1, LogTable, SMT
  <2> QED
    BY <1>5, <2>2, Log2Byte, SMT
<1>6. ASSUME 8192 <= v, v < 16384 PROVE Log2(v) = 13
  <2>1. v \div 256 \in 32 .. 63
    BY <1>6, SMT
  <2>2. v \div 256 \in 1 .. 255 /\ log_table[v \div 256] = 5
    BY <2>1, LogTable, SMT
  <2> QED
    BY <1>6, <2>2, Log2Byte, SMT
<1>7. ASSUME 16384 <= v, v < 32768 PROVE Log2(v) = 14
  <2>1. v \div 256 \in 64 .. 127
    BY <1>7, SMT
  <2>2. v \div 256 \in 1 .. 255 /\ log_table[v \div 256] = 6
    BY <2>1, LogTable, SMT
  <2> QED
    BY <1>7, <2>2, Log2Byte, SMT
<1>8. ASSUME 32768 <= v, v < 65536 PROVE Log2(v) = 15
  <2>1. v \div 256 \in 128 .. 255
    BY <1>8, SMT
  <2>2. v \div 256 \in 1 .. 255 /\ log_table[v \div 256] = 7
    BY <2>1, LogTable, SMT
  <2> QED
    BY <1>8, <2>2, Log2Byte, SMT
<1>9. ASSUME 65536 <= v, v < 131072 PROVE Log2(v) = 16
  <2>1. v \div 65536 = 1
    BY <1>9, SMT
  <2>2. v \div 65536 \in 1 .. 255 /\ log_table[v \div 65536] = 0
    BY <2>1, LogTable, SMT
  <2> QED
    BY <1>9, <2>2, Log2Byte, SMT
<1>10. ASSUME 131072 <= v, v < 262144 PROVE Log2(v) = 17
  <2>1. v \div 65536 \in 2 .. 3
    BY <1>10, SMT
  <2>2. v \div 65536 \in 1 .. 255 /\ log_table[v \div 65536] = 1
    BY <2>1, LogTable, SMT
  <2> QED
    BY <1>10, <2>2, Log2Byte, SMT
<1>11. ASSUME 262144 <= v, v < 524288 PROVE Log2(v) = 18
  <2>1. v \div 65536 \in 4 .. 7
    BY <1>11, SMT
  <2>2. v \div 65536 \in 1 .. 255 /\ log_table[v \div 65536] = 2
    BY <2>1, LogTable, SMT
  <2> QED
    BY <1>11, <2>2, Log2Byte, SMT
<1>12. ASSUME 524288 <= v, v < 1048576 PROVE Log2(v) = 19
  <2>1. v \div 65536 \in 8 .. 15
    BY <1>12, SMT
  <2>2. v \div 65536 \in 1 .. 255 /\ log_table[v \div 65536] = 3
    BY <2>1, LogTable, SMT
  <2> QED
    BY <1>12, <2>2, Log2Byte, SMT
<1> QED
  BY <1>1, <1>2, <1>3, <1>4, <1>5, <1>6, <1>7, <1>8, <1>9, <1>10, <1>11, <1>12, SMT

LEMMA CoarseSizes ==
  /\ ClassToSize[17] = 512
  /\ ClassToSize[18] = 1024
  /\ ClassToSize[19] = 2048
  /\ ClassToSize[20] = 4096
  /\ ClassToSize[21] = 8192
  /\ ClassToSize[22] = 16384
  /\ ClassToSize[23] = 32768
  /\ ClassToSize[24] = 65536
  /\ ClassToSize[25] = 131072
  /\ ClassToSize[26] = 262144
  /\ ClassToSize[27] = 524288
  /\ ClassToSize[28] = 1048576
<1>1. \A c \in 17 .. 28 : ClassToSize[c] = 2^(c - 8)
  BY KnownSizes DEF ClassToSize, Classes
<1> QED
  BY <1>1, SMT

LEMMA FineSizes ==
  ASSUME NEW c \in 1 .. 16
  PROVE  ClassToSize[c] = 16 * c
BY KnownSizes DEF ClassToSize, Classes

(* A request of this size fits into the class c, and into none below, and  *)
(* SizeToBlockSize agrees with the table.                                  *)
Fits(size, c) ==
  /\ SizeToClass(size) = c /\ c \in 1 .. 28
  /\ size <= ClassToSize[c]
  /\ c > 1 => ClassToSize[c - 1] < size
  /\ SizeToBlockSize(size) = ClassToSize[c]

LEMMA FineFits ==
  ASSUME NEW size \in Nat, 1 <= size, size <= 256
  PROVE  \E c \in 1 .. 16 : Fits(size, c)
<1> DEFINE c == (size + 15) \div 16
<1>1. c \in 1 .. 16 /\ size <= 16 * c /\ 16 * c < size + 16
      /\ (size + 15) - ((size + 15) % 16) = 16 * c
  BY SMT
<1>2. SizeToClass(size) = c
  BY KnownSizes, SMT DEF SizeToClass
<1>3. SizeToBlockSize(size) = 16 * c
  BY <1>1, KnownSizes, SMT DEF SizeToBlockSize, AlignDown
<1> HIDE DEF c
<1>4. ClassToSize[c] = 16 * c /\ (c > 1 => ClassToSize[c - 1] = 16 * (c - 1))
  BY <1>1, FineSizes, SMT
<1> QED
  BY <1>1, <1>2, <1>3, <1>4, SMT DEF Fits

LEMMA CoarseFits ==
  ASSUME NEW size \in Nat, ~(size <= kMaxSmallSize), size <= kMaxMediumSize
  PROVE  \E c \in 17 .. 28 : Fits(size, c)
<1>0. 256 < size /\ size <= 1048576
  BY KnownSizes, SMT
<1>1. \A k : Log2(size - 1) = k => /\ SizeToClass(size) = k - kMaxSmallShift + kFineClasses
                                   /\ SizeToBlockSize(size) = 2^(k + 1)
  BY Zenon DEF SizeToClass, SizeToBlockSize
<1>2. size - 1 \in Nat
  BY <1>0, SMT
<1>f. ClassToSize[16] = 256
  BY FineSizes, SMT
<1>3. ASSUME 256 < size, size <= 512 PROVE Fits(size, 17)
  <2>1. Log2(size - 1) = 8
    BY <1>3, <1>2, Log2Values, SMT
  <2>2. SizeToClass(size) = 8 - kMaxSmallShift + kFineClasses /\ SizeToBlockSize(size) = 2^(8 + 1)
    BY <1>1, <2>1, Zenon
  <2> QED
    BY <1>f, KnownSizes, <1>3, <2>2, CoarseSizes, SMT DEF Fits
<1>4. ASSUME 512 < size, size <= 1024 PROVE Fits(size, 18)
  <2>1. Log2(size - 1) = 9
    BY <1>4, <1>2, Log2Values, SMT
  <2>2. SizeToClass(size) = 9 - kMaxSmallShift + kFineClasses /\ SizeToBlockSize(size) = 2^(9 + 1)
    BY <1>1, <2>1, Zenon
  <2> QED
    BY <1>f, KnownSizes, <1>4, <2>2, CoarseSizes, SMT DEF Fits
<1>5. ASSUME 1024 < size, size <= 2048 PROVE Fits(size, 19)
  <2>1. Log2(size - 1) = 10
    BY <1>5, <1>2, Log2Values, SMT
  <2>2. SizeToClass(size) = 10 - kMaxSmallShift + kFineClasses /\ SizeToBlockSize(size) = 2^(10 + 1)
    BY <1>1, <2>1, Zenon
  <2> QED
    BY <1>f, KnownSizes, <1>5, <2>2, CoarseSizes, SMT DEF Fits
<1>6. ASSUME 2048 < size, size <= 4096 PROVE Fits(size, 20)
  <2>1. Log2(size - 1) = 11
    BY <1>6, <1>2, Log2Values, SMT
  <2>2. SizeToClass(size) = 11 - kMaxSmallShift + kFineClasses /\ SizeToBlockSize(size) = 2^(11 + 1)
    BY <1>1, <2>1, Zenon
  <2> QED
    BY <1>f, KnownSizes, <1>6, <2>2, CoarseSizes, SMT DEF Fits
<1>7. ASSUME 4096 < size, size <= 8192 PROVE Fits(size, 21)
  <2>1. Log2(size - 1) = 12
    BY <1>7, <1>2, Log2Values, SMT
  <2>2. SizeToClass(size) = 12 - kMaxSmallShift + kFineClasses /\ SizeToBlockSize(size) = 2^(12 + 1)
    BY <1>1, <2>1, Zenon
  <2> QED
    BY <1>f, KnownSizes, <1>7, <2>2, CoarseSizes, SMT DEF Fits
<1>8. ASSUME 8192 < size, size <= 16384 PROVE Fits(size, 22)
  <2>1. Log2(size - 1) = 13
    BY <1>8, <1>2, Log2Values, SMT
  <2>2. SizeToClass(size) = 13 - kMaxSmallShift + kFineClasses /\ SizeToBlockSize(size) = 2^(13 + 1)
    BY <1>1, <2>1, Zenon
  <2> QED
    BY <1>f, KnownSizes, <1>8, <2>2, CoarseSizes, SMT DEF Fits
<1>9. ASSUME 16384 < size, size <= 32768 PROVE Fits(size, 23)
  <2>1. Log2(size - 1) = 14
    BY <1>9, <1>2, Log2Values, SMT
  <2>2. SizeToClass(size) = 14 - kMaxSmallShift + kFineClasses /\ SizeToBlockSize(size) = 2^(14 + 1)
    BY <1>1, <2>1, Zenon
  <2> QED
    BY <1>f, KnownSizes, <1>9, <2>2, CoarseSizes, SMT DEF Fits
<1>10. ASSUME 32768 < size, size <= 65536 PROVE Fits(size, 24)
  <2>1. Log2(size - 1) = 15
    BY <1>10, <1>2, Log2Values, SMT
  <2>2. SizeToClass(size) = 15 - kMaxSmallShift + kFineClasses /\ SizeToBlockSize(size) = 2^(15 + 1)
    BY <1>1, <2>1, Zenon
  <2> QED
    BY <1>f, KnownSizes, <1>10, <2>2, CoarseSizes, SMT DEF Fits
<1>11. ASSUME 65536 < size, size <= 131072 PROVE Fits(size, 25)
  <2>1. Log2(size - 1) = 16
    BY <1>11, <1>2, Log2Values, SMT
  <2>2. SizeToClass(size) = 16 - kMaxSmallShift + kFineClasses /\ SizeToBlockSize(size) = 2^(16 + 1)
    BY <1>1, <2>1, Zenon
  <2> QED
    BY <1>f, KnownSizes, <1>11, <2>2, CoarseSizes, SMT DEF Fits
<1>12. ASSUME 131072 < size, size <= 262144 PROVE Fits(size, 26)
  <2>1. Log2(size - 1) = 17
    BY <1>12, <1>2, Log2Values, SMT
  <2>2. SizeToClass(size) = 17 - kMaxSmallShift + kFineClasses /\ SizeToBlockSize(size) = 2^(17 + 1)
    BY <1>1, <2>1, Zenon
  <2> QED
    BY <1>f, KnownSizes, <1>12, <2>2, CoarseSizes, SMT DEF Fits
<1>13. ASSUME 262144 < size, size <= 524288 PROVE Fits(size, 27)
  <2>1. Log2(size - 1) = 18
    BY <1>13, <1>2, Log2Values, SMT
  <2>2. SizeToClass(size) = 18 - kMaxSmallShift + kFineClasses /\ SizeToBlockSize(size) = 2^(18 + 1)
    BY <1>1, <2>1, Zenon
  <2> QED
    BY <1>f, KnownSizes, <1>13, <2>2, CoarseSizes, SMT DEF Fits
<1>14. ASSUME 524288 < size, size <= 1048576 PROVE Fits(size, 28)
  <2>1. Log2(size - 1) = 19
    BY <1>14, <1>2, Log2Values, SMT
  <2>2. SizeToClass(size) = 19 - kMaxSmallShift + kFineClasses /\ SizeToBlockSize(size) = 2^(19 + 1)
    BY <1>1, <2>1, Zenon
  <2> QED
    BY <1>f, KnownSizes, <1>14, <2>2, CoarseSizes, SMT DEF Fits
<1> QED
  BY <1>0, <1>3, <1>4, <1>5, <1>6, <1>7, <1>8,
     <1>9, <1>10, <1>11, <1>12, <1>13, <1>14, SMT

LEMMA ClassFits ==
  ASSUME NEW size \in Nat, 1 <= size, size <= 1048576
  PROVE  Fits(size, SizeToClass(size))
<1>1. size <= 256 => \E c \in 1 .. 16 : Fits(size, c)
  BY FineFits, SMT
<1>2. size > 256 => \E c \in 17 .. 28 : Fits(size, c)
  BY CoarseFits, KnownSizes, SMT
<1>3. \E c : Fits(size, c)
  BY <1>1, <1>2, SMT
<1> QED
  BY <1>3, SMT DEF Fits

LEMMA ClassIsSmallest ==
  ASSUME NEW size \in Nat, 1 <= size, size <= kMaxMediumSize
  PROVE  /\ SizeToClass(size) \in Classes
         /\ size <= ClassToSize[SizeToClass(size)]
         /\ SizeToClass(size) > 1 => ClassToSize[SizeToClass(size) - 1] < size
         /\ SizeToBlockSize(size) = ClassToSize[SizeToClass(size)]
<1>1. Fits(size, SizeToClass(size))
  BY KnownSizes, ClassFits, SMT
<1>2. Classes = 1 .. 28
  BY KnownSizes, SMT DEF Classes
<1> QED
  BY <1>1, <1>2, SMT DEF Fits

LEMMA MediumSize ==
  ASSUME NEW size \in 1 .. kMaxMediumSize
  PROVE  size \in Nat /\ 1 <= size /\ size <= kMaxMediumSize
OBVIOUS

(* size_classes.h:27: SizeToClass and SizeToBlockSize agree with the tables *)
(* for every size up to 1 MiB.                                              *)
THEOREM ClassesFit == SmallestClass
BY ClassIsSmallest, MediumSize, Zenon DEF SmallestClass

-----------------------------------------------------------------------------
(* Objects *)

LEMMA UsedFacts ==
  ASSUME Types, NEW s \in Bases, class[s] # 0
  PROVE  /\ class[s] \in Classes
         /\ ClassToSize[class[s]] \in Nat /\ ClassToSize[class[s]] > 0
         /\ ClassToObjects[class[s]] \in Nat /\ ClassToObjects[class[s]] > 0
<1>1. class[s] \in Classes
  BY DEF Types
<1> QED
  BY <1>1, Tables, SMT

(* Every object lies behind the header, and in its span to the last byte. *)
LEMMA SlotFacts ==
  ASSUME Types, NEW s \in Bases, class[s] # 0,
         NEW k \in Nat, k <= ClassToObjects[class[s]]
  PROVE  /\ Slot(s, k) \in Nat /\ Slot(s, k) \in Addresses
         /\ HeaderEnd(s) <= Slot(s, k) /\ HeaderEnd(s) \in Nat
         /\ (Slot(s, k) - HeaderEnd(s)) \div ClassToSize[class[s]] = k
         /\ Slot(s, k) <= s + ClassToSpanSize[class[s]]
         /\ FromObject(Slot(s, k)) = s
         /\ k # ClassToObjects[class[s]] =>
              /\ Slot(s, k) + ClassToSize[class[s]] <= s + ClassToSpanSize[class[s]]
              /\ FromObject(Slot(s, k) + ClassToSize[class[s]] - 1) = s
<1> DEFINE c == class[s]
           z == ClassToSize[c]
           n == ClassToObjects[c]
           m == ClassToSpanSize[c]
<1>1. c \in Classes
  BY DEF Types
<1>2. /\ z \in Nat /\ z >= 16 /\ n \in Nat /\ m \in Nat /\ m < 2097152
      /\ 128 + n * z <= m /\ n * z \in Nat
  BY <1>1, Tables, SMT
<1>3. s \in Nat /\ HeaderEnd(s) = s + 128 /\ start <= s /\ s + 2097152 <= end
      /\ start \in Nat /\ end \in Nat
  BY BaseFacts, Starts, KnownSizes, SMT DEF HeaderEnd
<1>4. Slot(s, k) = s + 128 + k * z
  BY <1>3 DEF Slot
<1> HIDE DEF z, n, m
<1>5. k * z \in Nat /\ k * z <= n * z /\ (k # n => k * z + z <= n * z)
  <2>1. CASE k = n
    BY <1>2, <2>1, SMT
  <2>2. CASE k # n
    <3>1. k < n
      BY <1>2, <2>2, SMT DEF n
    <3> QED
      BY <1>2, <3>1, Multiples, SMT
  <2> QED
    BY <2>1, <2>2
<1>6. Slot(s, k) \in Nat /\ s <= Slot(s, k) /\ Slot(s, k) < s + 2097152
      /\ Slot(s, k) <= s + m
  BY <1>2, <1>3, <1>4, <1>5, SMT
<1>7. FromObject(Slot(s, k)) = s
  BY <1>6, Masked, SMT
<1>8. k # n => Slot(s, k) + z <= s + m /\ Slot(s, k) + z - 1 \in Nat
               /\ s <= Slot(s, k) + z - 1 /\ Slot(s, k) + z - 1 < s + 2097152
  BY <1>2, <1>3, <1>4, <1>5, SMT
<1>9. k # n => FromObject(Slot(s, k) + z - 1) = s
  BY <1>8, Masked, SMT
<1>10. Slot(s, k) \in Addresses
  BY <1>3, <1>6, SMT DEF Addresses
<1>11. (Slot(s, k) - HeaderEnd(s)) \div z = k
  <2>1. Slot(s, k) - HeaderEnd(s) = k * z
    BY <1>3, <1>4, <1>5, SMT
  <2> QED
    BY <1>2, <2>1, Quotient, SMT
<1> QED
  BY <1>3, <1>4, <1>5, <1>6, <1>7, <1>8, <1>9, <1>10, <1>11, SMT DEF z, n, m

LEMMA SlotsApart ==
  ASSUME Types, NEW s \in Bases, class[s] # 0, NEW j \in Nat, NEW k \in Nat, j < k
  PROVE  Slot(s, j) + ClassToSize[class[s]] <= Slot(s, k)
<1> DEFINE z == ClassToSize[class[s]]
<1>1. z \in Nat
  BY UsedFacts
<1>2. HeaderEnd(s) \in Nat
  BY BaseFacts, KnownSizes, SMT DEF HeaderEnd
<1> HIDE DEF z
<1>3. j * z + z <= k * z /\ j * z \in Nat /\ k * z \in Nat
  BY <1>1, Multiples
<1>4. HeaderEnd(s) + j * z + z <= HeaderEnd(s) + k * z
  BY <1>1, <1>2, <1>3, SMT
<1> QED
  BY <1>4 DEF Slot, z

(* What is among the objects of a span leads back to it. *)
LEMMA AmongFacts ==
  ASSUME Types, NEW s \in Bases, class[s] # 0,
         NEW b \in 0 .. ClassToObjects[class[s]], NEW p, Among(s, b, p)
  PROVE  p \in Nat /\ p \in Addresses /\ FromObject(p) = s
<1>1. PICK k \in 0 .. b - 1 : p = Slot(s, k)
  BY DEF Among
<1>2. k \in Nat /\ k <= ClassToObjects[class[s]]
  BY UsedFacts
<1> QED
  BY <1>1, <1>2, SlotFacts

LEMMA RequestClass ==
  ASSUME NEW size \in Requests
  PROVE  SizeToClass(size) \in Classes /\ SizeToClass(size) # 0
<1>0. size \in 1 .. kMaxMediumSize
  BY RequestsAssumption, Zenon
<1>1. size \in Nat /\ 1 <= size /\ size <= kMaxMediumSize
  BY <1>0, MediumSize
<1>2. SizeToClass(size) \in Classes
  BY <1>1, ClassIsSmallest
<1>3. 0 \notin Classes
  BY KnownSizes, SMT DEF Classes
<1> QED
  BY <1>2, <1>3

-----------------------------------------------------------------------------
(* The steps *)

(* Nothing happens to t. *)
Untouched(t) ==
  /\ class'[t] = class[t] /\ bump'[t] = bump[t] /\ len'[t] = len[t]
  /\ list'[t] = list[t] /\ remote'[t] = remote[t]
  /\ \A o : FromObject(o.addr) = t => (o \in live' <=> o \in live)

LEMMA SpanSame ==
  ASSUME NEW t \in Bases, SpanInv(t), Untouched(t)
  PROVE  SpanInv(t)'
<1>1. \A o : o \in LiveIn(t)' <=> o \in LiveIn(t)
  BY DEF Untouched, LiveIn
<1>2. \A b, p : Among(t, b, p) <=> Among(t, b, p)'
  BY DEF Among, Slot, Untouched
<1>3. Placed(t)'
  BY <1>1 DEF Untouched, SpanInv, Placed
<1>4. \A b : BumpedTo(t, b) => BumpedTo(t, b)'
  <2> SUFFICES ASSUME NEW b, BumpedTo(t, b) PROVE BumpedTo(t, b)'
    OBVIOUS
  <2>1. /\ bump'[t] = Slot(t, b)'
        /\ len'[t] - Len(list'[t]) = ClassToObjects[class'[t]] - b
    BY DEF BumpedTo, Slot, Untouched
  <2>2. \A p : Contains(list'[t], p) \/ Contains(remote'[t], p) => Among(t, b, p)'
    BY <1>2 DEF BumpedTo, Untouched
  <2>3. \A o \in LiveIn(t)' : Among(t, b, o.addr)'
    BY <1>1, <1>2 DEF BumpedTo
  <2>4. \A p : Among(t, b, p)' => Somewhere(t, p)'
    BY <1>1, <1>2 DEF BumpedTo, Somewhere, Untouched
  <2> QED
    BY <2>1, <2>2, <2>3, <2>4 DEF BumpedTo
<1> QED
  BY <1>3, <1>4 DEF SpanInv, Untouched

(* What the lists of a span hold is of that span. *)
LEMMA ListFactsOf ==
  ASSUME IInv, NEW s \in Bases, NEW p, Contains(list[s], p) \/ Contains(remote[s], p)
  PROVE  class[s] # 0 /\ p \in Nat /\ FromObject(p) = s
<1>1. class[s] # 0
  BY DEF IInv, SpanInv, Contains
<1>2. PICK b \in 0 .. ClassToObjects[class[s]] : BumpedTo(s, b)
  BY <1>1 DEF IInv, SpanInv
<1>3. Among(s, b, p)
  BY <1>2 DEF BumpedTo
<1> QED
  BY <1>1, <1>3, AmongFacts DEF IInv

(* A span is built, of which the program holds nothing. *)
LEMMA BuildStep ==
  ASSUME IInv, NEW s \in Bases, NEW c \in Classes, c # 0, BuildSpan(s, c),
         LiveIn(s) = {}, live' = live
  PROVE  /\ class' \in [Bases -> Classes \cup {0}] /\ class'[s] = c
         /\ bump' \in [Bases -> Nat] /\ len' \in [Bases -> Nat]
         /\ list' \in [Bases -> Seq(Nat)] /\ remote' \in [Bases -> Seq(Nat)]
         /\ \A t \in Bases : SpanInv(t)'
         /\ \A t \in Bases \ {s} : class'[t] = class[t]
         /\ LiveInv'
<1>1. Types
  BY DEF IInv
<1>2. ClassToObjects[c] \in Nat /\ ClassToSize[c] \in Nat /\ HeaderEnd(s) \in Nat
  <2>1. s \in Nat
    BY BaseFacts
  <2> QED
    BY <2>1, Tables, KnownSizes, SMT DEF HeaderEnd
<1>3. /\ class' \in [Bases -> Classes \cup {0}] /\ class'[s] = c
      /\ bump' \in [Bases -> Nat] /\ len' \in [Bases -> Nat]
      /\ list' \in [Bases -> Seq(Nat)] /\ remote' \in [Bases -> Seq(Nat)]
  BY <1>1, <1>2 DEF Types, BuildSpan
<1>4. \A t \in Bases \ {s} : Untouched(t)
  BY <1>1 DEF Types, BuildSpan, Untouched
<1>5. /\ bump'[s] = HeaderEnd(s) /\ len'[s] = ClassToObjects[c]
      /\ list'[s] = << >> /\ remote'[s] = << >> /\ LiveIn(s)' = {}
  BY <1>1 DEF Types, BuildSpan, LiveIn
<1>6. SpanInv(s)'
  <2>1. Placed(s)'
    BY <1>5 DEF Placed, IsInjective, Contains
  <2>2. bump'[s] = Slot(s, 0)'
    BY <1>2, <1>3, <1>5 DEF Slot
  <2>3. BumpedTo(s, 0)'
    <3>1. \A p : ~Contains(list'[s], p) /\ ~Contains(remote'[s], p)
      BY <1>5 DEF Contains
    <3>2. len'[s] - Len(list'[s]) = ClassToObjects[class'[s]] - 0
      BY <1>2, <1>3, <1>5
    <3>3. \A p : ~Among(s, 0, p)'
      BY DEF Among
    <3> QED
      BY <1>5, <2>2, <3>1, <3>2, <3>3 DEF BumpedTo
  <2>4. 0 \in 0 .. ClassToObjects[class'[s]]
    BY <1>2, <1>3
  <2> QED
    BY <1>3, <2>1, <2>3, <2>4 DEF SpanInv
<1>7. \A t \in Bases : SpanInv(t)'
  BY <1>4, <1>6, SpanSame DEF IInv
<1>8. LiveInv'
  BY <1>1, <1>3, <1>4 DEF IInv, LiveInv, LiveIn, Used, Untouched
<1> QED
  BY <1>3, <1>4, <1>7, <1>8 DEF Untouched

(* Pop, from the list *)
LEMMA PopListStep ==
  ASSUME IInv, NEW s \in Bases, class[s] # 0, NEW size \in Requests,
         list[s] # << >>, Pop(s, size)
  PROVE  /\ SpanInv(s)' /\ list' \in [Bases -> Seq(Nat)] /\ len' \in [Bases -> Nat]
         /\ NextObject(s) \in Nat /\ FromObject(NextObject(s)) = s
         /\ \A o \in live : o.addr # NextObject(s)
<1>0. Types /\ SpanInv(s) /\ LiveInv /\ Placed(s)
  BY DEF IInv, SpanInv
<1>1. PICK b \in 0 .. ClassToObjects[class[s]] : BumpedTo(s, b)
  BY <1>0 DEF SpanInv
<1> DEFINE p == Head(list[s])
           r == Tail(list[s])
           N == [addr |-> NextObject(s), size |-> size]
<1>2. /\ NextObject(s) = p /\ list' = [list EXCEPT ![s] = r]
      /\ len' = [len EXCEPT ![s] = @ - 1] /\ live' = live \cup {N}
      /\ UNCHANGED << bump, current, failed, class, remote >>
  BY DEF Pop, NextObject
<1>3. list[s] \in Seq(Nat) /\ list[s][1] = p /\ len[s] \in Nat
  BY <1>0 DEF Types
<1>4. r \in Seq(Nat) /\ Drops(r, list[s], 1)
  BY <1>3, TailDrops
<1>5. /\ \A e : Contains(list[s], e) <=> Contains(r, e) \/ e = p
      /\ IsInjective(r) /\ ~Contains(r, p)
  <2>1. IsInjective(list[s]) /\ 1 \in Nat
    BY <1>0 DEF Placed
  <2> HIDE DEF p, r
  <2>2. /\ \A e : Contains(list[s], e) <=> Contains(r, e) \/ e = list[s][1]
        /\ IsInjective(r) /\ ~Contains(r, list[s][1])
    BY <1>3, <1>4, <2>1, DropsElements, SMTT(30)
  <2> QED
    BY <1>3, <2>2
<1>6. Len(r) = Len(list[s]) - 1 /\ Len(list[s]) \in Nat /\ Len(list[s]) >= 1
  BY <1>3, <1>4 DEF Drops
<1>7. Among(s, b, p) /\ ~Contains(remote[s], p)
  BY <1>0, <1>1, <1>5 DEF BumpedTo, Placed
<1>8. p \in Nat /\ FromObject(p) = s
  BY <1>0, <1>7, AmongFacts
<1>9. \A o \in live : o.addr # p
  <2> SUFFICES ASSUME NEW o \in live, o.addr = p PROVE FALSE
    OBVIOUS
  <2>1. o \in LiveIn(s)
    BY <1>8 DEF LiveIn
  <2> QED
    BY <1>0, <1>5, <2>1 DEF Placed
<1>10. list'[s] = r /\ len'[s] = len[s] - 1 /\ len[s] >= 1
       /\ class'[s] = class[s] /\ bump'[s] = bump[s] /\ remote'[s] = remote[s]
  <2>1. len[s] - Len(list[s]) = ClassToObjects[class[s]] - b
    BY <1>1 DEF BumpedTo
  <2>2. ClassToObjects[class[s]] \in Nat
    BY <1>0, UsedFacts
  <2>3. len[s] >= 1
    BY <1>3, <1>6, <2>1, <2>2
  <2> QED
    BY <1>0, <1>2, <2>3 DEF Types
<1>11. \A o \in LiveIn(s)' : o \in LiveIn(s) \/ o.addr = p
  BY <1>2 DEF LiveIn
<1> HIDE DEF p, r, N
<1>12. \A e : Among(s, b, e) <=> Among(s, b, e)'
  BY <1>10 DEF Among, Slot
<1>13. Placed(s)'
  <2>1. \A o \in LiveIn(s)' : ~Contains(r, o.addr) /\ ~Contains(remote[s], o.addr)
    BY <1>0, <1>5, <1>7, <1>11 DEF Placed
  <2> QED
    BY <1>0, <1>5, <1>10, <2>1 DEF Placed
<1>14. BumpedTo(s, b)'
  <2>1. bump'[s] = Slot(s, b)'
    BY <1>1, <1>10 DEF BumpedTo, Slot
  <2>2. len'[s] - Len(list'[s]) = ClassToObjects[class'[s]] - b
    <3>1. len[s] - Len(list[s]) = ClassToObjects[class[s]] - b
      BY <1>1 DEF BumpedTo
    <3> QED
      BY <1>3, <1>6, <1>10, <3>1
  <2>3. \A e : Contains(list'[s], e) \/ Contains(remote'[s], e) => Among(s, b, e)'
    BY <1>1, <1>5, <1>10, <1>12 DEF BumpedTo
  <2>4. \A o \in LiveIn(s)' : Among(s, b, o.addr)'
    BY <1>1, <1>7, <1>11, <1>12 DEF BumpedTo
  <2>5. N \in LiveIn(s)' /\ N.addr = p /\ \A o \in LiveIn(s) : o \in LiveIn(s)'
    BY <1>2, <1>8 DEF LiveIn, N
  <2>6. \A e : Somewhere(s, e) => Somewhere(s, e)'
    BY <1>5, <1>10, <2>5 DEF Somewhere
  <2>7. \A e : Among(s, b, e)' => Somewhere(s, e)'
    BY <1>1, <1>12, <2>6 DEF BumpedTo
  <2> QED
    BY <2>1, <2>2, <2>3, <2>4, <2>7 DEF BumpedTo
<1>15. SpanInv(s)'
  BY <1>10, <1>13, <1>14 DEF SpanInv
<1>16. list' \in [Bases -> Seq(Nat)] /\ len' \in [Bases -> Nat]
  <2>1. len[s] - 1 \in Nat
    BY <1>3, <1>10
  <2> QED
    BY <1>0, <1>2, <1>4, <2>1 DEF Types
<1> QED
  BY <1>2, <1>8, <1>9, <1>15, <1>16

(* Pop, from beyond the bump pointer *)
LEMMA PopBumpStep ==
  ASSUME IInv, NEW s \in Bases, class[s] # 0, NEW size \in Requests,
         list[s] = << >>, Pop(s, size)
  PROVE  /\ SpanInv(s)' /\ bump' \in [Bases -> Nat] /\ len' \in [Bases -> Nat]
         /\ NextObject(s) \in Nat /\ FromObject(NextObject(s)) = s
         /\ \A o \in live : o.addr # NextObject(s)
<1>0. Types /\ SpanInv(s) /\ LiveInv /\ Placed(s)
  BY DEF IInv, SpanInv
<1>1. PICK b \in 0 .. ClassToObjects[class[s]] : BumpedTo(s, b)
  BY <1>0 DEF SpanInv
<1> DEFINE z == ClassToSize[class[s]]
           N == [addr |-> NextObject(s), size |-> size]
<1>2. /\ NextObject(s) = bump[s] /\ bump' = [bump EXCEPT ![s] = @ + z]
      /\ len' = [len EXCEPT ![s] = @ - 1] /\ live' = live \cup {N}
      /\ UNCHANGED << list, current, failed, class, remote >> /\ len[s] # 0
  BY DEF Pop, NextObject
<1>3. /\ bump[s] = Slot(s, b) /\ bump[s] \in Nat /\ len[s] \in Nat
      /\ len[s] - 0 = ClassToObjects[class[s]] - b
  BY <1>0, <1>1 DEF BumpedTo, Types
<1>4. /\ z \in Nat /\ ClassToObjects[class[s]] \in Nat /\ b \in Nat
  BY <1>0, UsedFacts
<1>5. b + 1 \in 0 .. ClassToObjects[class[s]] /\ len[s] - 1 \in Nat
      /\ (len[s] - 1) - 0 = ClassToObjects[class[s]] - (b + 1)
      /\ b <= ClassToObjects[class[s]]
  BY <1>2, <1>3, <1>4, SMTT(30)
<1>6. Slot(s, b) \in Nat /\ FromObject(Slot(s, b)) = s
  BY <1>0, <1>4, <1>5, SlotFacts
<1>7. \A p : Among(s, b, p) => p # Slot(s, b)
  <2> SUFFICES ASSUME NEW k \in 0 .. b - 1 PROVE Slot(s, k) # Slot(s, b)
    BY DEF Among
  <2>1. k \in Nat /\ k < b /\ z > 0 /\ k <= ClassToObjects[class[s]]
    BY <1>0, <1>4, <1>5, UsedFacts
  <2>2. Slot(s, k) + z <= Slot(s, b) /\ Slot(s, k) \in Nat
    BY <1>0, <1>4, <2>1, SlotsApart, SlotFacts
  <2> QED
    BY <1>4, <1>6, <2>1, <2>2
<1>8. \A o \in live : o.addr # Slot(s, b)
  <2> SUFFICES ASSUME NEW o \in live, o.addr = Slot(s, b) PROVE FALSE
    OBVIOUS
  <2>1. o \in LiveIn(s)
    BY <1>6 DEF LiveIn
  <2> QED
    BY <1>1, <1>7, <2>1 DEF BumpedTo
<1>9. /\ list'[s] = << >> /\ len'[s] = len[s] - 1 /\ class'[s] = class[s]
      /\ bump'[s] = bump[s] + z /\ remote'[s] = remote[s] /\ Len(list'[s]) = 0
  BY <1>0, <1>2 DEF Types
<1>10. \A o \in LiveIn(s)' : o \in LiveIn(s) \/ o.addr = Slot(s, b)
  BY <1>2, <1>3 DEF LiveIn
<1> HIDE DEF z, N
<1>11. \A p : Among(s, b, p) => Among(s, b + 1, p)'
  <2>1. \A k \in 0 .. b - 1 : k \in 0 .. (b + 1) - 1
    BY <1>4
  <2> QED
    BY <1>9, <2>1 DEF Among, Slot
<1>12. Among(s, b + 1, Slot(s, b))'
  <2>1. b \in 0 .. (b + 1) - 1
    BY <1>4
  <2> QED
    BY <1>9, <2>1 DEF Among, Slot
<1>13. bump'[s] = Slot(s, b + 1)'
  <2>1. HeaderEnd(s) \in Nat
    BY <1>0, <1>4, <1>5, SlotFacts
  <2>2. HeaderEnd(s) + b * z + z = HeaderEnd(s) + (b + 1) * z
    BY <1>4, <2>1
  <2> QED
    BY <1>3, <1>9, <2>2 DEF Slot, z
<1>14. BumpedTo(s, b + 1)'
  <2>1. len'[s] - Len(list'[s]) = ClassToObjects[class'[s]] - (b + 1)
    BY <1>5, <1>9
  <2>2. \A e : Contains(list'[s], e) \/ Contains(remote'[s], e) => Among(s, b + 1, e)'
    BY <1>1, <1>2, <1>11 DEF BumpedTo
  <2>3. \A o \in LiveIn(s)' : Among(s, b + 1, o.addr)'
    <3> TAKE o \in LiveIn(s)'
    <3>1. CASE o \in LiveIn(s)
      BY <1>1, <1>11, <3>1 DEF BumpedTo
    <3>2. CASE o.addr = Slot(s, b)
      BY <1>9, <1>12, <3>2 DEF Among, Slot
    <3> QED
      BY <1>10, <3>1, <3>2
  <2>4. N \in LiveIn(s)' /\ N.addr = Slot(s, b) /\ \A o \in LiveIn(s) : o \in LiveIn(s)'
    BY <1>2, <1>3, <1>6 DEF LiveIn, N
  <2>5. \A e : Somewhere(s, e) => Somewhere(s, e)'
    BY <1>2, <2>4 DEF Somewhere
  <2>6. \A e : Among(s, b + 1, e)' => Among(s, b, e) \/ e = Slot(s, b)
    <3> SUFFICES ASSUME NEW k \in 0 .. (b + 1) - 1
                 PROVE  Among(s, b, Slot(s, k)) \/ Slot(s, k) = Slot(s, b)
      BY <1>9 DEF Among, Slot
    <3>1. k = b \/ k \in 0 .. b - 1
      BY <1>4
    <3> QED
      BY <3>1 DEF Among
  <2>7. \A e : Among(s, b + 1, e)' => Somewhere(s, e)'
    <3>1. \A e : Among(s, b, e) => Somewhere(s, e)
      BY <1>1 DEF BumpedTo
    <3>2. \A e : e = Slot(s, b) => Somewhere(s, e)'
      BY <2>4 DEF Somewhere
    <3> QED
      BY <2>5, <2>6, <3>1, <3>2
  <2> QED
    BY <1>13, <2>1, <2>2, <2>3, <2>7 DEF BumpedTo
<1>15. Placed(s)'
  <2>1. ~Contains(list[s], Slot(s, b)) /\ ~Contains(remote[s], Slot(s, b))
    BY <1>1, <1>7 DEF BumpedTo
  <2> QED
    BY <1>0, <1>2, <1>10, <2>1 DEF Placed
<1>16. SpanInv(s)'
  BY <1>5, <1>9, <1>14, <1>15 DEF SpanInv
<1>17. bump' \in [Bases -> Nat] /\ len' \in [Bases -> Nat]
  <2>1. bump[s] + z \in Nat
    BY <1>3, <1>4
  <2> QED
    BY <1>0, <1>2, <1>5, <2>1 DEF Types
<1> QED
  BY <1>2, <1>3, <1>6, <1>8, <1>16, <1>17

(* An object that the program gives back is in no list. *)
LEMMA LiveFacts ==
  ASSUME IInv, NEW o \in live
  PROVE  LET s == FromObject(o.addr) IN
         /\ s \in Bases /\ class[s] # 0 /\ o \in LiveIn(s) /\ o.addr \in Nat
         /\ ~Contains(list[s], o.addr) /\ ~Contains(remote[s], o.addr)
<1> DEFINE s == FromObject(o.addr)
<1>1. s \in Bases /\ class[s] # 0
  BY DEF IInv, LiveInv, Used
<1>2. o \in LiveIn(s)
  BY DEF LiveIn
<1>3. ~Contains(list[s], o.addr) /\ ~Contains(remote[s], o.addr)
  BY <1>1, <1>2 DEF IInv, SpanInv, Placed
<1>4. o.addr \in Nat
  BY DEF IInv, Types
<1> QED
  BY <1>1, <1>2, <1>3, <1>4

LEMMA PushStep ==
  ASSUME IInv, NEW o \in live, NEW s \in Bases, s = FromObject(o.addr), Push(o.addr)
  PROVE  SpanInv(s)' /\ list' \in [Bases -> Seq(Nat)] /\ len' \in [Bases -> Nat]
<1> DEFINE p == o.addr
           r == Cons(p, list[s])
<1>0. Types /\ SpanInv(s) /\ Placed(s)
  BY DEF IInv, SpanInv
<1>1. /\ class[s] # 0 /\ o \in LiveIn(s) /\ p \in Nat
      /\ ~Contains(list[s], p) /\ ~Contains(remote[s], p)
  BY LiveFacts
<1>2. PICK b \in 0 .. ClassToObjects[class[s]] : BumpedTo(s, b)
  BY <1>0, <1>1 DEF SpanInv
<1>3. /\ live' = { q \in live : q.addr # p } /\ list' = [list EXCEPT ![s] = r]
      /\ len' = [len EXCEPT ![s] = @ + 1]
      /\ UNCHANGED << current, failed, class, bump, remote >>
  BY DEF Push
<1>4. list[s] \in Seq(Nat) /\ len[s] \in Nat /\ Len(list[s]) \in Nat
  BY <1>0 DEF Types
<1>5. r \in Seq(Nat) /\ Drops(list[s], r, 1) /\ r[1] = p
  BY <1>1, <1>4, ConsAdds
<1> HIDE DEF p, r
<1>6. /\ \A e : Contains(r, e) <=> Contains(list[s], e) \/ e = p
      /\ IsInjective(r) /\ Len(r) = Len(list[s]) + 1
  <2>1. IsInjective(list[s]) /\ 1 \in Nat
    BY <1>0 DEF Placed
  <2>2. /\ \A e : Contains(r, e) <=> Contains(list[s], e) \/ e = r[1]
        /\ IsInjective(list[s]) /\ ~Contains(list[s], r[1]) => IsInjective(r)
    BY <1>4, <1>5, <2>1, DropsElements
  <2>3. Len(r) = Len(list[s]) + 1
    BY <1>4, <1>5 DEF Drops
  <2> QED
    BY <1>1, <1>5, <2>1, <2>2, <2>3
<1>7. /\ list'[s] = r /\ len'[s] = len[s] + 1 /\ class'[s] = class[s]
      /\ bump'[s] = bump[s] /\ remote'[s] = remote[s]
  BY <1>0, <1>3 DEF Types
<1>8. \A q \in LiveIn(s)' : q \in LiveIn(s) /\ q.addr # p
  BY <1>3 DEF LiveIn
<1>9. Among(s, b, p) /\ \A e : Among(s, b, e) <=> Among(s, b, e)'
  BY <1>1, <1>2, <1>7 DEF BumpedTo, Among, Slot, p
<1>10. Placed(s)'
  BY <1>0, <1>1, <1>6, <1>7, <1>8 DEF Placed
<1>11. BumpedTo(s, b)'
  <2>1. bump'[s] = Slot(s, b)'
    BY <1>2, <1>7 DEF BumpedTo, Slot
  <2>2. len'[s] - Len(list'[s]) = ClassToObjects[class'[s]] - b
    <3>1. len[s] - Len(list[s]) = ClassToObjects[class[s]] - b
      BY <1>2 DEF BumpedTo
    <3> QED
      BY <1>4, <1>6, <1>7, <3>1
  <2>3. \A e : Contains(list'[s], e) \/ Contains(remote'[s], e) => Among(s, b, e)'
    BY <1>2, <1>6, <1>7, <1>9 DEF BumpedTo
  <2>4. \A q \in LiveIn(s)' : Among(s, b, q.addr)'
    BY <1>2, <1>8, <1>9 DEF BumpedTo
  <2>5. \A q \in LiveIn(s) : q.addr # p => q \in LiveIn(s)'
    BY <1>3 DEF LiveIn
  <2>6. \A e : Somewhere(s, e) => Somewhere(s, e)'
    BY <1>6, <1>7, <2>5 DEF Somewhere
  <2>7. \A e : Among(s, b, e)' => Somewhere(s, e)'
    BY <1>2, <1>9, <2>6 DEF BumpedTo
  <2> QED
    BY <2>1, <2>2, <2>3, <2>4, <2>7 DEF BumpedTo
<1>12. SpanInv(s)'
  BY <1>1, <1>7, <1>10, <1>11 DEF SpanInv
<1>13. len[s] + 1 \in Nat
  BY <1>4
<1>14. list' \in [Bases -> Seq(Nat)] /\ len' \in [Bases -> Nat]
  BY <1>0, <1>3, <1>5, <1>13 DEF Types
<1> QED
  BY <1>12, <1>14

LEMMA PushRemoteStep ==
  ASSUME IInv, NEW o \in live, NEW s \in Bases, s = FromObject(o.addr), PushRemote(o.addr)
  PROVE  SpanInv(s)' /\ remote' \in [Bases -> Seq(Nat)]
<1> DEFINE p == o.addr
           r == Cons(p, remote[s])
<1>0. Types /\ SpanInv(s) /\ Placed(s)
  BY DEF IInv, SpanInv
<1>1. /\ class[s] # 0 /\ o \in LiveIn(s) /\ p \in Nat
      /\ ~Contains(list[s], p) /\ ~Contains(remote[s], p)
  BY LiveFacts
<1>2. PICK b \in 0 .. ClassToObjects[class[s]] : BumpedTo(s, b)
  BY <1>0, <1>1 DEF SpanInv
<1>3. /\ live' = { q \in live : q.addr # p } /\ remote' = [remote EXCEPT ![s] = r]
      /\ UNCHANGED << current, failed, class, bump, list, len >>
  BY DEF PushRemote
<1>4. remote[s] \in Seq(Nat)
  BY <1>0 DEF Types
<1>5. r \in Seq(Nat) /\ Drops(remote[s], r, 1) /\ r[1] = p
  BY <1>1, <1>4, ConsAdds
<1> HIDE DEF p, r
<1>6. /\ \A e : Contains(r, e) <=> Contains(remote[s], e) \/ e = p
      /\ IsInjective(r)
  <2>1. IsInjective(remote[s]) /\ 1 \in Nat
    BY <1>0 DEF Placed
  <2>2. /\ \A e : Contains(r, e) <=> Contains(remote[s], e) \/ e = r[1]
        /\ IsInjective(remote[s]) /\ ~Contains(remote[s], r[1]) => IsInjective(r)
    BY <1>4, <1>5, <2>1, DropsElements
  <2> QED
    BY <1>1, <1>5, <2>1, <2>2
<1>7. remote'[s] = r
  BY <1>0, <1>3 DEF Types
<1>8. \A q \in LiveIn(s)' : q \in LiveIn(s) /\ q.addr # p
  BY <1>3 DEF LiveIn
<1>9. Among(s, b, p) /\ \A e : Among(s, b, e) <=> Among(s, b, e)'
  BY <1>1, <1>2, <1>3 DEF BumpedTo, Among, Slot, p
<1>10. Placed(s)'
  BY <1>0, <1>1, <1>3, <1>6, <1>7, <1>8 DEF Placed
<1>11. BumpedTo(s, b)'
  <2>1. bump'[s] = Slot(s, b)' /\ len'[s] - Len(list'[s]) = ClassToObjects[class'[s]] - b
    BY <1>2, <1>3 DEF BumpedTo, Slot
  <2>3. \A e : Contains(list'[s], e) \/ Contains(remote'[s], e) => Among(s, b, e)'
    BY <1>2, <1>3, <1>6, <1>7, <1>9 DEF BumpedTo
  <2>4. \A q \in LiveIn(s)' : Among(s, b, q.addr)'
    BY <1>2, <1>8, <1>9 DEF BumpedTo
  <2>5. \A q \in LiveIn(s) : q.addr # p => q \in LiveIn(s)'
    BY <1>3 DEF LiveIn
  <2>6. \A e : Somewhere(s, e) => Somewhere(s, e)'
    BY <1>3, <1>6, <1>7, <2>5 DEF Somewhere
  <2>7. \A e : Among(s, b, e)' => Somewhere(s, e)'
    BY <1>2, <1>9, <2>6 DEF BumpedTo
  <2> QED
    BY <2>1, <2>3, <2>4, <2>7 DEF BumpedTo
<1>12. SpanInv(s)'
  BY <1>1, <1>3, <1>10, <1>11 DEF SpanInv
<1> QED
  BY <1>0, <1>3, <1>5, <1>12 DEF Types

(* MoveRemoteToLocalObjects: a list is replaced only if it is empty and the *)
(* bump pointer has passed all objects.                                     *)
LEMMA MoveStep ==
  ASSUME IInv, NEW s \in Bases, MoveRemoteToLocalObjects(s)
  PROVE  /\ SpanInv(s)' /\ len' \in [Bases -> Nat]
         /\ list' \in [Bases -> Seq(Nat)] /\ remote' \in [Bases -> Seq(Nat)]
<1>0. Types /\ SpanInv(s) /\ Placed(s)
  BY DEF IInv, SpanInv
<1>1. class[s] # 0
  BY <1>0 DEF SpanInv, MoveRemoteToLocalObjects
<1>2. PICK b \in 0 .. ClassToObjects[class[s]] : BumpedTo(s, b)
  BY <1>0, <1>1 DEF SpanInv
<1>3. /\ list[s] \in Seq(Nat) /\ remote[s] \in Seq(Nat) /\ len[s] \in Nat
      /\ Len(list[s]) \in Nat /\ Len(remote[s]) \in Nat
      /\ ClassToObjects[class[s]] \in Nat /\ b \in Nat /\ b <= ClassToObjects[class[s]]
  BY <1>0, <1>1, UsedFacts DEF Types
<1>4. len[s] - Len(list[s]) = ClassToObjects[class[s]] - b
  BY <1>2 DEF BumpedTo
<1>5. /\ list'[s] \in Seq(Nat) /\ len'[s] \in Nat
      /\ len'[s] - Len(list'[s]) = ClassToObjects[class[s]] - b
      /\ \A e : Contains(list'[s], e) <=> Contains(list[s], e) \/ Contains(remote[s], e)
      /\ IsInjective(list'[s])
      /\ list' \in [Bases -> Seq(Nat)] /\ len' \in [Bases -> Nat]
  <2>1. CASE Exhausted(s)
    <3>1. Len(list[s]) = 0 /\ ClassToObjects[class[s]] - b = 0
      BY <1>3, <1>4, <2>1 DEF Exhausted
    <3>2. \A e : ~Contains(list[s], e)
      BY <3>1 DEF Contains
    <3>3. list' = [list EXCEPT ![s] = remote[s]] /\ len' = [len EXCEPT ![s] = Len(remote[s])]
      BY <2>1 DEF MoveRemoteToLocalObjects
    <3>4. list'[s] = remote[s] /\ len'[s] = Len(remote[s])
      BY <1>0, <3>3 DEF Types
    <3>5. IsInjective(remote[s])
      BY <1>0 DEF Placed
    <3>6. list' \in [Bases -> Seq(Nat)] /\ len' \in [Bases -> Nat]
      BY <1>0, <1>3, <3>3 DEF Types
    <3>7. len'[s] - Len(list'[s]) = ClassToObjects[class[s]] - b
      BY <1>3, <3>1, <3>4
    <3> QED
      BY <1>3, <3>2, <3>4, <3>5, <3>6, <3>7
  <2>2. CASE ~Exhausted(s)
    <3> DEFINE r == Reverse(remote[s]) \o list[s]
    <3>1. /\ r \in Seq(Nat) /\ Len(r) = Len(remote[s]) + Len(list[s])
          /\ \A e : Contains(r, e) <=> Contains(remote[s], e) \/ Contains(list[s], e)
          /\ IsInjective(r)
      BY <1>0, <1>3, ReverseJoins DEF Placed
    <3>2. list' = [list EXCEPT ![s] = r] /\ len' = [len EXCEPT ![s] = @ + Len(remote[s])]
      BY <2>2 DEF MoveRemoteToLocalObjects
    <3> HIDE DEF r
    <3>3. list'[s] = r /\ len'[s] = len[s] + Len(remote[s])
      BY <1>0, <3>2 DEF Types
    <3>4. len[s] + Len(remote[s]) \in Nat
          /\ len'[s] - Len(list'[s]) = ClassToObjects[class[s]] - b
      <4>1. Len(list'[s]) = Len(remote[s]) + Len(list[s])
        BY <3>1, <3>3
      <4>2. /\ len[s] + Len(remote[s]) \in Nat
            /\ (len[s] + Len(remote[s])) - (Len(remote[s]) + Len(list[s])) = len[s] - Len(list[s])
        BY <1>3, Cancelled
      <4> QED
        BY <1>4, <3>3, <4>1, <4>2, Zenon
    <3>5. list' \in [Bases -> Seq(Nat)] /\ len' \in [Bases -> Nat]
      BY <1>0, <3>1, <3>2, <3>4 DEF Types
    <3> QED
      BY <3>1, <3>3, <3>4, <3>5
  <2> QED
    BY <2>1, <2>2
<1>6. /\ remote' = [remote EXCEPT ![s] = << >>] /\ remote'[s] = << >>
      /\ UNCHANGED << current, failed, class, bump, live >> /\ LiveIn(s)' = LiveIn(s)
  BY <1>0 DEF MoveRemoteToLocalObjects, Types, LiveIn
<1>7. \A e : ~Contains(remote'[s], e)
  BY <1>6 DEF Contains
<1>8. IsInjective(remote'[s])
  BY <1>6 DEF IsInjective
<1>9. Placed(s)'
  BY <1>0, <1>5, <1>6, <1>7, <1>8 DEF Placed
<1>10. BumpedTo(s, b)'
  <2>1. \A e : Among(s, b, e)' <=> Among(s, b, e)
    BY <1>6 DEF Among, Slot
  <2>2. bump'[s] = Slot(s, b)' /\ len'[s] - Len(list'[s]) = ClassToObjects[class'[s]] - b
    BY <1>2, <1>5, <1>6 DEF BumpedTo, Slot
  <2>3. \A e : Contains(list'[s], e) \/ Contains(remote'[s], e) => Among(s, b, e)'
    BY <1>2, <1>5, <1>7, <2>1 DEF BumpedTo
  <2>4. \A o \in LiveIn(s)' : Among(s, b, o.addr)'
    BY <1>2, <1>6, <2>1 DEF BumpedTo
  <2>5. \A e : Somewhere(s, e) => Somewhere(s, e)'
    BY <1>5, <1>6 DEF Somewhere
  <2>6. \A e : Among(s, b, e)' => Somewhere(s, e)'
    BY <1>2, <2>1, <2>5 DEF BumpedTo
  <2> QED
    BY <2>2, <2>3, <2>4, <2>6 DEF BumpedTo
<1>11. SpanInv(s)'
  BY <1>1, <1>6, <1>9, <1>10 DEF SpanInv
<1>12. /\ len' \in [Bases -> Nat] /\ list' \in [Bases -> Seq(Nat)]
       /\ remote' \in [Bases -> Seq(Nat)]
  BY <1>0, <1>5, <1>6 DEF Types
<1> QED
  BY <1>11, <1>12

-----------------------------------------------------------------------------
(* All of it *)

LEMMA BaseNat ==
  /\ \A s \in Bases : s \in Nat
  /\ start \in Bases
BY BaseFacts, Starts, SMT

LEMMA InitInv ==
  ASSUME Init
  PROVE  IInv
<1>0. << >> \in Seq(Nat) /\ 0 \in Nat
  OBVIOUS
<1>1. Types
  BY <1>0, BaseNat DEF Init, Types
<1>2. \A s \in Bases : class[s] = 0 /\ list[s] = << >> /\ remote[s] = << >> /\ bump[s] = 0
  BY DEF Init
<1>3. live = {} /\ current = start /\ failed = FALSE
  BY DEF Init
<1>4. \A s \in Bases : SpanInv(s)
  BY <1>2, <1>3 DEF SpanInv, Placed, LiveIn, IsInjective, Contains
<1>5. ArenaInv
  BY <1>2, <1>3, BaseNat DEF ArenaInv
<1> QED
  BY <1>1, <1>3, <1>4, <1>5 DEF IInv, LiveInv

LEMMA AllocateInv ==
  ASSUME IInv, ~failed, NEW c \in Classes, c # 0, AllocateVirtualSpan(c)
  PROVE  IInv'
<1>0. Types /\ ArenaInv /\ LiveInv /\ current \in Bases /\ class[current] = 0
  <2>1. Types /\ ArenaInv /\ LiveInv /\ current \in Bases
    BY DEF IInv, ArenaInv
  <2>2. current <= current
    BY <2>1, BaseNat
  <2> QED
    BY <2>1, <2>2 DEF ArenaInv
<1>1. LiveIn(current) = {}
  BY <1>0 DEF LiveIn, LiveInv, Used
<1>2. /\ current \in Nat /\ kVirtualSpanSize \in Nat /\ kVirtualSpanSize > 0
      /\ current + kVirtualSpanSize \in Bases \cup {end}
      /\ current + kVirtualSpanSize < end => current + kVirtualSpanSize \in Bases
      /\ end \in Nat
  BY <1>0, BaseFacts, Starts, KnownSizes, SMT
<1>3. current' = current + kVirtualSpanSize /\ live' = live
  BY DEF AllocateVirtualSpan
<1>4. \A s \in Bases : s \in Nat
  BY BaseNat
<1>5. CASE OutOfMemory(current)
  <2>1. failed' = TRUE /\ UNCHANGED << class, list, bump, len, remote, live >>
    BY <1>3, <1>5 DEF AllocateVirtualSpan
  <2>2. \A s \in Bases : SpanInv(s)'
    BY <2>1, SpanSame DEF IInv, Untouched
  <2>3. Types'
    BY <1>0, <1>2, <1>3, <2>1 DEF Types
  <2>4. ArenaInv'
    <3>1. \A s \in Bases : current' <= s => current <= s
      BY <1>2, <1>3, <1>4
    <3> QED
      BY <1>0, <2>1, <3>1 DEF ArenaInv
  <2>5. LiveInv'
    BY <1>0, <2>1 DEF LiveInv, Used
  <2> QED
    BY <2>2, <2>3, <2>4, <2>5 DEF IInv
<1>6. CASE ~OutOfMemory(current)
  <2>1. BuildSpan(current, c) /\ failed' = failed
    BY <1>6 DEF AllocateVirtualSpan
  <2>2. /\ class' \in [Bases -> Classes \cup {0}] /\ class'[current] = c
        /\ bump' \in [Bases -> Nat] /\ len' \in [Bases -> Nat]
        /\ list' \in [Bases -> Seq(Nat)] /\ remote' \in [Bases -> Seq(Nat)]
        /\ \A t \in Bases : SpanInv(t)'
        /\ \A t \in Bases \ {current} : class'[t] = class[t]
        /\ LiveInv'
    BY <1>0, <1>1, <1>3, <2>1, BuildStep
  <2>3. current' \in Bases
    BY <1>2, <1>3, <1>6 DEF OutOfMemory
  <2>4. Types'
    BY <1>0, <1>3, <2>1, <2>2, <2>3 DEF Types
  <2>5. ArenaInv'
    <3>1. \A s \in Bases : current' <= s => current <= s /\ s # current
      BY <1>2, <1>3, <1>4
    <3> QED
      BY <1>0, <2>2, <2>3, <3>1 DEF ArenaInv
  <2> QED
    BY <2>2, <2>4, <2>5 DEF IInv
<1> QED
  BY <1>5, <1>6

LEMMA RecycleInv ==
  ASSUME IInv, NEW s \in Bases, NEW c \in Classes, c # 0, Recycle(s, c)
  PROVE  IInv'
<1>0. Types /\ ArenaInv /\ LiveIn(s) = {} /\ BuildSpan(s, c) /\ class[s] # 0
      /\ UNCHANGED << current, failed, live >>
  BY DEF IInv, Recycle
<1>1. /\ class' \in [Bases -> Classes \cup {0}] /\ class'[s] = c
      /\ bump' \in [Bases -> Nat] /\ len' \in [Bases -> Nat]
      /\ list' \in [Bases -> Seq(Nat)] /\ remote' \in [Bases -> Seq(Nat)]
      /\ \A t \in Bases : SpanInv(t)'
      /\ \A t \in Bases \ {s} : class'[t] = class[t]
      /\ LiveInv'
  BY <1>0, BuildStep
<1>2. Types'
  BY <1>0, <1>1 DEF Types
<1>3. ArenaInv'
  BY <1>0, <1>1 DEF ArenaInv
<1> QED
  BY <1>1, <1>2, <1>3 DEF IInv

(* Steps on the lists of one span, of a class that stays *)
LEMMA ListInv ==
  ASSUME IInv, NEW s \in Bases, SpanInv(s)', \A t \in Bases \ {s} : Untouched(t),
         UNCHANGED << current, failed, class >>,
         bump' \in [Bases -> Nat], len' \in [Bases -> Nat],
         list' \in [Bases -> Seq(Nat)], remote' \in [Bases -> Seq(Nat)],
         NEW N, live' \in SUBSET (live \cup {N}),
         N \in live' => N \in live \/ /\ N.addr \in Nat /\ N.size \in Requests
                                      /\ FromObject(N.addr) \in Used
                                      /\ class[FromObject(N.addr)] = SizeToClass(N.size)
                                      /\ \A o \in live : o.addr # N.addr
  PROVE  IInv'
<1>1. \A t \in Bases : SpanInv(t)'
  BY SpanSame DEF IInv
<1>2. Types'
  BY DEF IInv, Types
<1>3. ArenaInv'
  BY DEF IInv, ArenaInv
<1>4. Used' = Used
  BY DEF Used
<1>5. LiveInv'
  <2>1. \A o \in live' : FromObject(o.addr) \in Used /\ class[FromObject(o.addr)] = SizeToClass(o.size)
    BY DEF IInv, LiveInv
  <2>2. \A o, p \in live' : o.addr = p.addr => o = p
    BY DEF IInv, LiveInv
  <2> QED
    BY <1>4, <2>1, <2>2 DEF LiveInv
<1> QED
  BY <1>1, <1>2, <1>3, <1>5 DEF IInv

LEMMA PopInv ==
  ASSUME IInv, NEW s \in Bases, NEW size \in Requests, Pop(s, size)
  PROVE  IInv'
<1> DEFINE N == [addr |-> NextObject(s), size |-> size]
<1>0. /\ Types /\ class[s] # 0 /\ class[s] = SizeToClass(size) /\ live' = live \cup {N}
      /\ UNCHANGED << current, failed, class, remote >>
      /\ len' = [len EXCEPT ![s] = @ - 1]
  BY DEF IInv, Pop
<1>1. /\ list[s] # << >> => UNCHANGED bump /\ list' = [list EXCEPT ![s] = Tail(@)]
      /\ list[s] = << >> => UNCHANGED list
                            /\ bump' = [bump EXCEPT ![s] = @ + ClassToSize[class[s]]]
  BY DEF Pop
<1>2. /\ SpanInv(s)' /\ len' \in [Bases -> Nat] /\ bump' \in [Bases -> Nat]
      /\ list' \in [Bases -> Seq(Nat)] /\ remote' \in [Bases -> Seq(Nat)]
      /\ NextObject(s) \in Nat /\ FromObject(NextObject(s)) = s
      /\ \A o \in live : o.addr # NextObject(s)
  <2>1. CASE list[s] # << >>
    BY <1>0, <1>1, <2>1, PopListStep DEF Types
  <2>2. CASE list[s] = << >>
    BY <1>0, <1>1, <2>2, PopBumpStep DEF Types
  <2> QED
    BY <2>1, <2>2
<1>3. N.addr = NextObject(s) /\ N.size = size
  OBVIOUS
<1> HIDE DEF N
<1>4. \A t \in Bases \ {s} : Untouched(t)
  <2>1. \A t \in Bases \ {s} : bump'[t] = bump[t] /\ len'[t] = len[t] /\ list'[t] = list[t]
    BY <1>0, <1>1 DEF Types
  <2> QED
    BY <1>0, <1>2, <1>3, <2>1 DEF Untouched
<1>5. s \in Used
  BY <1>0 DEF Used
<1> QED
  BY <1>0, <1>2, <1>3, <1>4, <1>5, ListInv

LEMMA PushInv ==
  ASSUME IInv, NEW o \in live, Push(o.addr) \/ PushRemote(o.addr)
  PROVE  IInv'
<1> DEFINE s == FromObject(o.addr)
<1>0. Types /\ s \in Bases
  BY LiveFacts DEF IInv
<1>1. live' \in SUBSET live /\ UNCHANGED << current, failed, class, bump >>
  BY DEF Push, PushRemote
<1>4. \A t \in Bases \ {s} : \A q : FromObject(q.addr) = t => (q \in live' <=> q \in live)
  BY DEF Push, PushRemote
<1>2. CASE Push(o.addr)
  <2>1. SpanInv(s)' /\ list' \in [Bases -> Seq(Nat)] /\ len' \in [Bases -> Nat]
    BY <1>0, <1>2, PushStep
  <2>2. /\ UNCHANGED remote /\ list' = [list EXCEPT ![s] = Cons(o.addr, @)]
        /\ len' = [len EXCEPT ![s] = @ + 1]
    BY <1>2 DEF Push
  <2> HIDE DEF s
  <2>3. \A t \in Bases \ {s} : Untouched(t)
    BY <1>0, <1>1, <1>4, <2>2 DEF Untouched, Types
  <2>4. bump' \in [Bases -> Nat] /\ remote' \in [Bases -> Seq(Nat)]
    BY <1>0, <1>1, <2>2 DEF Types
  <2>5. live' \in SUBSET (live \cup {o}) /\ o \in live
    BY <1>1
  <2> QED
    BY <1>0, <1>1, <2>1, <2>3, <2>4, <2>5, ListInv
<1>3. CASE PushRemote(o.addr)
  <2>1. SpanInv(s)' /\ remote' \in [Bases -> Seq(Nat)]
    BY <1>0, <1>3, PushRemoteStep
  <2>2. UNCHANGED << list, len >> /\ remote' = [remote EXCEPT ![s] = Cons(o.addr, @)]
    BY <1>3 DEF PushRemote
  <2> HIDE DEF s
  <2>3. \A t \in Bases \ {s} : Untouched(t)
    BY <1>0, <1>1, <1>4, <2>2 DEF Untouched, Types
  <2>4. /\ bump' \in [Bases -> Nat] /\ list' \in [Bases -> Seq(Nat)] /\ len' \in [Bases -> Nat]
    BY <1>0, <1>1, <2>2 DEF Types
  <2>5. live' \in SUBSET (live \cup {o}) /\ o \in live
    BY <1>1
  <2> QED
    BY <1>0, <1>1, <2>1, <2>3, <2>4, <2>5, ListInv
<1> QED
  BY <1>2, <1>3

LEMMA MoveInv ==
  ASSUME IInv, NEW s \in Bases, MoveRemoteToLocalObjects(s)
  PROVE  IInv'
<1>0. Types /\ UNCHANGED << current, failed, class, bump, live >>
  BY DEF IInv, MoveRemoteToLocalObjects
<1>1. /\ SpanInv(s)' /\ len' \in [Bases -> Nat]
      /\ list' \in [Bases -> Seq(Nat)] /\ remote' \in [Bases -> Seq(Nat)]
  BY MoveStep
<1>2. \A t \in Bases \ {s} : list'[t] = list[t] /\ len'[t] = len[t] /\ remote'[t] = remote[t]
  BY <1>0 DEF MoveRemoteToLocalObjects, Types
<1>3. \A t \in Bases \ {s} : Untouched(t)
  BY <1>0, <1>2 DEF Untouched
<1>4. bump' \in [Bases -> Nat]
  BY <1>0 DEF Types
<1> QED
  BY <1>0, <1>1, <1>3, <1>4, ListInv

LEMMA NextInv ==
  ASSUME IInv, [Next]_vars
  PROVE  IInv'
<1>1. ASSUME NEW size \in Requests, ~failed, AllocateVirtualSpan(SizeToClass(size))
      PROVE  IInv'
  BY <1>1, RequestClass, AllocateInv
<1>2. ASSUME NEW size \in Requests, NEW s \in Bases, Recycle(s, SizeToClass(size))
      PROVE  IInv'
  BY <1>2, RequestClass, RecycleInv
<1>3. CASE UNCHANGED vars
  <2>1. UNCHANGED << current, failed, class, list, bump, len, remote, live >>
    BY <1>3 DEF vars
  <2>2. \A s \in Bases : SpanInv(s)'
    BY <2>1, SpanSame DEF IInv, Untouched
  <2> QED
    BY <2>1, <2>2 DEF IInv, Types, ArenaInv, LiveInv, Used
<1> QED
  BY <1>1, <1>2, <1>3, PopInv, PushInv, MoveInv DEF Next

-----------------------------------------------------------------------------
(* What follows *)

LEMMA TypesFollow ==
  ASSUME IInv
  PROVE  TypeOK
<1>1. ASSUME NEW s \in Bases
      PROVE  /\ bump[s] = 0 \/ bump[s] \in Addresses
             /\ len[s] \in Nat
             /\ \A i \in DOMAIN list[s] : list[s][i] \in Addresses
             /\ \A i \in DOMAIN remote[s] : remote[s][i] \in Addresses
  <2>0. Types /\ SpanInv(s) /\ list[s] \in Seq(Nat) /\ remote[s] \in Seq(Nat) /\ len[s] \in Nat
    BY DEF IInv, Types
  <2>1. CASE class[s] = 0
    BY <2>0, <2>1 DEF SpanInv
  <2>2. CASE class[s] # 0
    <3>1. PICK b \in 0 .. ClassToObjects[class[s]] : BumpedTo(s, b)
      BY <2>0, <2>2 DEF SpanInv
    <3>2. b \in Nat /\ b <= ClassToObjects[class[s]]
      BY <2>0, <2>2, UsedFacts
    <3>3. bump[s] \in Addresses
      BY <2>0, <2>2, <3>1, <3>2, SlotFacts DEF BumpedTo
    <3>4. \A p : Contains(list[s], p) \/ Contains(remote[s], p) => p \in Addresses
      BY <2>0, <2>2, <3>1, AmongFacts DEF BumpedTo
    <3> QED
      BY <2>0, <3>3, <3>4 DEF Contains
  <2> QED
    BY <2>1, <2>2
<1>2. ASSUME NEW o \in live PROVE o.addr \in Addresses /\ o.size \in Requests
  <2> DEFINE s == FromObject(o.addr)
  <2>1. s \in Bases /\ class[s] # 0 /\ o \in LiveIn(s)
    BY LiveFacts
  <2>2. PICK b \in 0 .. ClassToObjects[class[s]] : BumpedTo(s, b)
    BY <2>1 DEF IInv, SpanInv
  <2> QED
    BY <2>1, <2>2, AmongFacts DEF IInv, Types, BumpedTo
<1> QED
  BY <1>1, <1>2 DEF IInv, Types, TypeOK

(* Where an object of the program lies *)
LEMMA ObjectAt ==
  ASSUME IInv, NEW o \in live
  PROVE  LET s == FromObject(o.addr) IN
         /\ s \in Bases /\ class[s] # 0
         /\ \E k \in Nat : k < ClassToObjects[class[s]] /\ o.addr = Slot(s, k)
<1> DEFINE s == FromObject(o.addr)
<1>1. s \in Bases /\ class[s] # 0 /\ o \in LiveIn(s)
  BY LiveFacts
<1>2. PICK b \in 0 .. ClassToObjects[class[s]] : BumpedTo(s, b)
  BY <1>1 DEF IInv, SpanInv
<1>3. PICK k \in 0 .. b - 1 : o.addr = Slot(s, k)
  BY <1>1, <1>2 DEF BumpedTo, Among
<1>4. k \in Nat /\ k < ClassToObjects[class[s]]
  BY <1>1, UsedFacts DEF IInv
<1> QED
  BY <1>1, <1>3, <1>4

LEMMA ApartFollows ==
  ASSUME IInv
  PROVE  ObjectsApart
<1>0. Types
  BY DEF IInv
<1>1. ASSUME NEW o \in live
      PROVE  LET s == FromObject(o.addr) IN
             /\ s \in Used
             /\ HeaderEnd(s) <= o.addr
             /\ LastByte(o) < s + ClassToSpanSize[class[s]]
             /\ ClassToSpanSize[class[s]] <= kVirtualSpanSize
             /\ FromObject(LastByte(o)) = s
             /\ o.addr \in Nat /\ LastByte(o) \in Nat
             /\ s <= o.addr /\ LastByte(o) < s + 2097152
  <2> DEFINE s == FromObject(o.addr)
             z == ClassToSize[class[s]]
             m == ClassToSpanSize[class[s]]
  <2>1. s \in Bases /\ class[s] # 0 /\ class[s] \in Classes
    BY <1>0, ObjectAt, UsedFacts
  <2>2. PICK k \in Nat : k < ClassToObjects[class[s]] /\ o.addr = Slot(s, k)
    BY ObjectAt
  <2>3. z \in Nat /\ z >= 16 /\ m \in Nat /\ m < 2097152 /\ ClassToObjects[class[s]] \in Nat
    BY <2>1, Tables, SMT
  <2>4. k <= ClassToObjects[class[s]] /\ k # ClassToObjects[class[s]]
    BY <2>2, <2>3, SMT
  <2>5. /\ o.addr \in Nat /\ HeaderEnd(s) <= o.addr /\ HeaderEnd(s) \in Nat
        /\ o.addr + z <= s + m /\ FromObject(o.addr + z - 1) = s
    BY <1>0, <2>1, <2>2, <2>4, SlotFacts, SMT
  <2>6. LastByte(o) = o.addr + z - 1
    BY DEF LastByte
  <2>7. s \in Nat /\ HeaderEnd(s) = s + 128
    BY <2>1, BaseFacts, KnownSizes, SMT DEF HeaderEnd
  <2> HIDE DEF s, z, m
  <2>8. /\ LastByte(o) \in Nat /\ LastByte(o) < s + m /\ s <= o.addr
        /\ LastByte(o) < s + 2097152
    BY <2>3, <2>5, <2>6, <2>7, SMT
  <2>9. m <= kVirtualSpanSize
    BY <2>3, KnownSizes, SMT
  <2>10. s \in Used
    BY <2>1 DEF Used
  <2> QED
    BY <2>5, <2>6, <2>8, <2>9, <2>10, SMT DEF s, m
<1>2. ASSUME NEW o \in live, NEW p \in live, o # p
      PROVE  LastByte(o) < p.addr \/ LastByte(p) < o.addr
  <2> DEFINE s == FromObject(o.addr)
             t == FromObject(p.addr)
  <2>1. s \in Bases /\ class[s] # 0 /\ t \in Bases /\ class[t] # 0
    BY ObjectAt
  <2>2. /\ o.addr \in Nat /\ p.addr \in Nat /\ LastByte(o) \in Nat /\ LastByte(p) \in Nat
        /\ s <= o.addr /\ t <= p.addr
        /\ LastByte(o) < s + 2097152 /\ LastByte(p) < t + 2097152
    BY <1>1
  <2>3. s \in Nat /\ t \in Nat
    BY <2>1, BaseNat
  <2>4. CASE s < t
    <3>1. s + 2097152 <= t
      BY <2>1, <2>4, BasesApart, SMT
    <3> HIDE DEF s, t
    <3> QED
      BY <2>2, <2>3, <3>1, SMT
  <2>5. CASE t < s
    <3>1. t + 2097152 <= s
      BY <2>1, <2>5, BasesApart, SMT
    <3> HIDE DEF s, t
    <3> QED
      BY <2>2, <2>3, <3>1, SMT
  <2>6. CASE s = t
    <3> DEFINE z == ClassToSize[class[s]]
    <3>1. PICK j \in Nat : j < ClassToObjects[class[s]] /\ o.addr = Slot(s, j)
      BY ObjectAt
    <3>2. PICK k \in Nat : k < ClassToObjects[class[s]] /\ p.addr = Slot(s, k)
      BY <2>6, ObjectAt
    <3>3. j # k
      BY <1>2, <3>1, <3>2 DEF IInv, LiveInv
    <3>4. /\ j < k => o.addr + z <= p.addr
          /\ k < j => p.addr + z <= o.addr
      BY <1>0, <2>1, <3>1, <3>2, SlotsApart
    <3>5. z \in Nat /\ LastByte(o) = o.addr + z - 1 /\ LastByte(p) = p.addr + z - 1
      BY <1>0, <2>1, <2>6, UsedFacts DEF LastByte
    <3> HIDE DEF s, t, z
    <3> QED
      BY <2>2, <3>3, <3>4, <3>5, SMT
  <2> HIDE DEF s, t
  <2> QED
    BY <2>3, <2>4, <2>5, <2>6, SMT
<1>3. \A o \in live :
        LET s == FromObject(o.addr) IN
        /\ s \in Used
        /\ HeaderEnd(s) <= o.addr
        /\ LastByte(o) < s + ClassToSpanSize[class[s]]
        /\ ClassToSpanSize[class[s]] <= kVirtualSpanSize
        /\ FromObject(LastByte(o)) = s
  BY <1>1, SMT
<1> QED
  BY <1>2, <1>3 DEF ObjectsApart

LEMMA LenFollows ==
  ASSUME IInv
  PROVE  LenCounts
<1>0. Types
  BY DEF IInv
<1> SUFFICES ASSUME NEW s \in Bases, class[s] # 0
             PROVE  LET c == class[s]
                        bumped == (bump[s] - HeaderEnd(s)) \div ClassToSize[c] IN
                    /\ len[s] - Len(list[s]) = ClassToObjects[c] - bumped
                    /\ bumped <= ClassToObjects[c]
                    /\ HeaderEnd(s) + ClassToObjects[c] * ClassToSize[c] <= s + ClassToSpanSize[c]
  BY DEF LenCounts, Used
<1> DEFINE c == class[s]
           bumped == (bump[s] - HeaderEnd(s)) \div ClassToSize[c]
<1>1. PICK b \in 0 .. ClassToObjects[c] : BumpedTo(s, b)
  BY DEF IInv, SpanInv
<1>2. b \in Nat /\ b <= ClassToObjects[c] /\ ClassToObjects[c] \in Nat
  BY <1>0, UsedFacts
<1>3. bump[s] = Slot(s, b) /\ len[s] - Len(list[s]) = ClassToObjects[c] - b
  BY <1>1 DEF BumpedTo
<1>4. bumped = b
  BY <1>0, <1>2, <1>3, SlotFacts
<1>5. Slot(s, ClassToObjects[c]) <= s + ClassToSpanSize[c]
  BY <1>0, <1>2, SlotFacts
<1> QED
  BY <1>2, <1>3, <1>4, <1>5 DEF Slot

LEMMA FitFollows ==
  ASSUME IInv
  PROVE  RequestFits
<1>1. ASSUME NEW o \in live
      PROVE  SizeToBlockSize(o.size) = ClassToSize[class[FromObject(o.addr)]]
  <2>1. o.size \in 1 .. kMaxMediumSize
    BY RequestsAssumption DEF IInv, Types
  <2>2. SizeToBlockSize(o.size) = ClassToSize[SizeToClass(o.size)]
    BY <2>1, MediumSize, ClassIsSmallest
  <2> QED
    BY <2>2 DEF IInv, LiveInv
<1> QED
  BY <1>1, ClassesFit DEF RequestFits

-----------------------------------------------------------------------------
(* The theorems *)

(* Whatever spans the threads use and recycle and whatever they free, the   *)
(* lists of a span hold objects that its bump pointer has passed, each once *)
(* and none that the program has (free_list.h, span.h:281, 295).            *)
THEOREM ObjectInvariant == Spec => []IInv
<1>1. Init => IInv
  BY InitInv
<1>2. IInv /\ [Next]_vars => IInv'
  BY NextInv
<1> QED
  BY <1>1, <1>2, PTL DEF Spec

(* Addresses stay in the object space (arena.h:103), and len_ is never      *)
(* negative (free_list.h).                                                  *)
THEOREM ObjectTypes == Spec => []TypeOK
<1>1. IInv => TypeOK
  BY TypesFollow
<1> QED
  BY <1>1, ObjectInvariant, PTL

(* No two objects overlap, none reaches a header or leaves its virtual      *)
(* span, and the mask of Span::FromObject (span.h:136) leads from every     *)
(* byte of an object to its span.                                           *)
THEOREM ObjectsStayApart == Spec => []ObjectsApart
<1>1. IInv => ObjectsApart
  BY ApartFollows
<1> QED
  BY <1>1, ObjectInvariant, PTL

(* len_ counts what Pop can hand out, also after SetList (free_list.h:47).  *)
THEOREM ObjectsCounted == Spec => []LenCounts
<1>1. IInv => LenCounts
  BY LenFollows
<1> QED
  BY <1>1, ObjectInvariant, PTL

(* A request gets a block of the smallest size that holds it                *)
(* (size_classes.h:27), whatever class its span had before.                 *)
THEOREM RequestsFit == Spec => []RequestFits
<1>1. IInv => RequestFits
  BY FitFollows
<1> QED
  BY <1>1, ObjectInvariant, PTL

=============================================================================
