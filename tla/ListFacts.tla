------------------------------ MODULE ListFacts ------------------------------
(***************************************************************************)
(* Facts about the sequences by which lists are modelled: what they hold   *)
(* when an element is added or removed.                                    *)
(***************************************************************************)
EXTENDS Integers, Sequences, SequencesExt, SequenceTheorems, TLAPS

(* r is s without its k-th element. *)
Drops(r, s, k) ==
  /\ k \in 1 .. Len(s)
  /\ Len(r) = Len(s) - 1
  /\ \A i \in 1 .. Len(r) : r[i] = IF i < k THEN s[i] ELSE s[i + 1]

(* SequencesExt's RemoveAt drops the element at the index it is given. *)
LEMMA RemoveAtDrops ==
  ASSUME NEW S, NEW s \in Seq(S), NEW k \in 1 .. Len(s)
  PROVE  RemoveAt(s, k) \in Seq(S) /\ Drops(RemoveAt(s, k), s, k)
<1> DEFINE a == SubSeq(s, 1, k - 1)
           b == SubSeq(s, k + 1, Len(s))
<1>0. Len(s) \in Nat /\ k \in Nat /\ 1 <= k /\ k <= Len(s) /\ k - 1 \in Nat
  OBVIOUS
<1>1. /\ a \in Seq(S) /\ Len(a) = k - 1
      /\ \A i \in 1 .. k - 1 : a[i] = s[i]
  <2>1. \A i \in 1 .. k - 1 : s[i] \in S
    BY <1>0
  <2> QED
    BY <1>0, <2>1
<1>2. /\ b \in Seq(S) /\ Len(b) = Len(s) - k
      /\ \A i \in 1 .. Len(s) - k : b[i] = s[k + i]
  <2>1. \A i \in k + 1 .. Len(s) : s[i] \in S
    BY <1>0
  <2> QED
    BY <1>0, <2>1
<1> HIDE DEF a, b
<1>3. /\ a \o b \in Seq(S) /\ Len(a \o b) = Len(s) - 1
      /\ \A i \in 1 .. Len(s) - 1 :
           (a \o b)[i] = IF i <= Len(a) THEN a[i] ELSE b[i - Len(a)]
  <2>1. /\ a \o b \in Seq(S) /\ Len(a \o b) = Len(a) + Len(b)
        /\ \A i \in 1 .. Len(a) + Len(b) :
             (a \o b)[i] = IF i <= Len(a) THEN a[i] ELSE b[i - Len(a)]
    BY <1>1, <1>2, ConcatProperties
  <2>2. Len(a) + Len(b) = Len(s) - 1
    BY <1>0, <1>1, <1>2
  <2> QED
    BY <2>1, <2>2
<1>4. ASSUME NEW i \in 1 .. Len(s) - 1
      PROVE  (a \o b)[i] = IF i < k THEN s[i] ELSE s[i + 1]
  <2>1. CASE i < k
    BY <2>1, <1>0, <1>1, <1>3
  <2>2. CASE ~(i < k)
    <3>1. i - (k - 1) \in 1 .. Len(s) - k /\ k + (i - (k - 1)) = i + 1
      BY <2>2, <1>0
    <3> QED
      BY <3>1, <2>2, <1>0, <1>1, <1>2, <1>3
  <2> QED
    BY <2>1, <2>2
<1> QED
  BY <1>0, <1>3, <1>4 DEF RemoveAt, Drops, a, b

(* Tail drops the first element. *)
LEMMA TailDrops ==
  ASSUME NEW S, NEW s \in Seq(S), s # << >>
  PROVE  Tail(s) \in Seq(S) /\ Drops(Tail(s), s, 1)
BY DEF Drops

(* Front drops the last element. *)
LEMMA FrontDrops ==
  ASSUME NEW S, NEW s \in Seq(S), s # << >>
  PROVE  Front(s) \in Seq(S) /\ Drops(Front(s), s, Len(s))
<1>0. Len(s) \in Nat /\ Len(s) # 0 /\ Len(s) - 1 \in Nat
  OBVIOUS
<1>1. \A i \in 1 .. Len(s) - 1 : s[i] \in S
  BY <1>0
<1>2. /\ Front(s) \in Seq(S) /\ Len(Front(s)) = Len(s) - 1
      /\ \A i \in 1 .. Len(s) - 1 : Front(s)[i] = s[i]
  <2> DEFINE m == Len(s) - 1
  <2>1. m \in Nat /\ m \in Int /\ 1 \in Int /\ \A i \in 1 .. m : s[i] \in S
    BY <1>0, <1>1
  <2> HIDE DEF m
  <2>2. /\ SubSeq(s, 1, m) \in Seq(S)
        /\ Len(SubSeq(s, 1, m)) = IF 1 <= m THEN m - 1 + 1 ELSE 0
        /\ \A i \in 1 .. m - 1 + 1 : SubSeq(s, 1, m)[i] = s[1 + i - 1]
    BY <2>1, SubSeqProperties
  <2>3. m - 1 + 1 = m /\ (IF 1 <= m THEN m - 1 + 1 ELSE 0) = m
    BY <2>1
  <2>4. \A i \in 1 .. m : 1 + i - 1 = i
    BY <2>1
  <2>5. Len(SubSeq(s, 1, m)) = m /\ \A i \in 1 .. m : SubSeq(s, 1, m)[i] = s[i]
    BY <2>2, <2>3, <2>4
  <2> QED
    BY <2>2, <2>5 DEF Front, m
<1> QED
  BY <1>0, <1>2 DEF Drops

(* The other way round, Cons adds a first element. *)
LEMMA ConsAdds ==
  ASSUME NEW S, NEW s \in Seq(S), NEW e \in S
  PROVE  /\ Cons(e, s) \in Seq(S) /\ Drops(s, Cons(e, s), 1)
         /\ Cons(e, s)[1] = e /\ Cons(e, s) # << >>
BY DEF Cons, Drops

(* Append adds a last element. *)
LEMMA AppendAdds ==
  ASSUME NEW S, NEW s \in Seq(S), NEW e \in S
  PROVE  /\ Append(s, e) \in Seq(S) /\ Drops(s, Append(s, e), Len(s) + 1)
         /\ Append(s, e)[Len(s) + 1] = e /\ Append(s, e) # << >>
         /\ Len(Append(s, e)) = Len(s) + 1
BY DEF Drops

(* What a sequence holds that lost one element, and that its elements stay *)
(* distinct                                                                *)
LEMMA DropsElements ==
  ASSUME NEW S, NEW s \in Seq(S), NEW r \in Seq(S), NEW k \in Nat, Drops(r, s, k)
  PROVE  /\ \A e : Contains(s, e) <=> Contains(r, e) \/ e = s[k]
         /\ IsInjective(s) => IsInjective(r) /\ ~Contains(r, s[k])
         /\ IsInjective(r) /\ ~Contains(r, s[k]) => IsInjective(s)
<1>0. /\ Len(s) \in Nat /\ Len(r) \in Nat /\ k \in 1 .. Len(s) /\ Len(r) = Len(s) - 1
      /\ DOMAIN s = 1 .. Len(s) /\ DOMAIN r = 1 .. Len(r)
  BY DEF Drops
<1>1. \A i \in 1 .. Len(r) : r[i] = IF i < k THEN s[i] ELSE s[i + 1]
  BY DEF Drops
<1> DEFINE up(i) == IF i < k THEN i ELSE i + 1
           down(j) == IF j < k THEN j ELSE j - 1
<1>2. \A i \in 1 .. Len(r) : up(i) \in 1 .. Len(s) /\ up(i) # k /\ r[i] = s[up(i)]
  BY <1>0, <1>1
<1>3. \A j \in 1 .. Len(s) : j # k => down(j) \in 1 .. Len(r) /\ up(down(j)) = j
  BY <1>0
<1>4. \A i, j \in 1 .. Len(r) : up(i) = up(j) => i = j
  BY <1>0
<1> HIDE DEF up, down
<1>5. \A e : Contains(s, e) <=> Contains(r, e) \/ e = s[k]
  BY <1>0, <1>2, <1>3 DEF Contains
<1>6. ASSUME IsInjective(s)
      PROVE  IsInjective(r) /\ ~Contains(r, s[k])
  BY <1>0, <1>2, <1>4, <1>6 DEF IsInjective, Contains
<1>7. ASSUME IsInjective(r), ~Contains(r, s[k])
      PROVE  IsInjective(s)
  <2>1. \A j \in 1 .. Len(s) : j # k => s[j] = r[down(j)] /\ down(j) \in 1 .. Len(r)
    BY <1>2, <1>3
  <2> SUFFICES ASSUME NEW i \in 1 .. Len(s), NEW j \in 1 .. Len(s), s[i] = s[j]
               PROVE  i = j
    BY <1>0 DEF IsInjective
  <2>2. CASE i = k \/ j = k
    BY <2>1, <2>2, <1>7 DEF Contains
  <2>3. CASE i # k /\ j # k
    <3>1. down(i) = down(j)
      BY <2>1, <2>3, <1>0, <1>7 DEF IsInjective
    <3> QED
      BY <3>1, <2>3, <1>3
  <2> QED
    BY <2>2, <2>3
<1> QED
  BY <1>5, <1>6, <1>7

(* A list in front of which another one is put, backwards *)
LEMMA ReverseJoins ==
  ASSUME NEW S, NEW s \in Seq(S), NEW r \in Seq(S),
         IsInjective(s), IsInjective(r), \A e : ~(Contains(s, e) /\ Contains(r, e))
  PROVE  /\ Reverse(s) \o r \in Seq(S)
         /\ Len(Reverse(s) \o r) = Len(s) + Len(r)
         /\ \A e : Contains(Reverse(s) \o r, e) <=> Contains(s, e) \/ Contains(r, e)
         /\ IsInjective(Reverse(s) \o r)
<1> DEFINE v == Reverse(s)
           w == v \o r
<1>1. Len(s) \in Nat /\ Len(r) \in Nat
  OBVIOUS
<1>2. /\ v \in Seq(S) /\ Len(v) = Len(s)
      /\ \A i \in 1 .. Len(s) : v[i] = s[(Len(s) - i) + 1]
  <2>1. \A i \in 1 .. Len(s) : (Len(s) - i) + 1 \in 1 .. Len(s) /\ s[(Len(s) - i) + 1] \in S
    OBVIOUS
  <2> QED
    BY <1>1, <2>1 DEF Reverse
<1> HIDE DEF v
<1>3. /\ w \in Seq(S) /\ Len(w) = Len(s) + Len(r)
      /\ \A i \in 1 .. Len(s) : w[i] = v[i]
      /\ \A i \in Len(s) + 1 .. Len(s) + Len(r) : w[i] = r[i - Len(s)]
  <2>1. w \in Seq(S) /\ Len(w) = Len(s) + Len(r)
    <3>1. w \in Seq(S) /\ Len(w) = Len(v) + Len(r)
      BY <1>2, ConcatProperties, Zenon
    <3> QED
      BY <1>2, <3>1, Zenon
  <2>2. ASSUME NEW i \in 1 .. Len(s) PROVE w[i] = v[i]
    <3>1. i \in 1 .. Len(v) + Len(r) /\ i <= Len(v)
      BY <1>1, <1>2
    <3> QED
      BY <1>1, <1>2, <3>1
  <2>3. ASSUME NEW i \in Len(s) + 1 .. Len(s) + Len(r) PROVE w[i] = r[i - Len(s)]
    <3>1. i \in 1 .. Len(v) + Len(r) /\ ~(i <= Len(v))
      BY <1>1, <1>2
    <3> QED
      BY <1>1, <1>2, <3>1
  <2> QED
    BY <2>1, <2>2, <2>3
<1> HIDE DEF w
<1>4. \A i \in 1 .. Len(w) :
        \/ i \in 1 .. Len(s) /\ (Len(s) - i) + 1 \in 1 .. Len(s)
                             /\ w[i] = s[(Len(s) - i) + 1]
        \/ i - Len(s) \in 1 .. Len(r) /\ w[i] = r[i - Len(s)]
  <2> TAKE i \in 1 .. Len(w)
  <2>1. CASE i <= Len(s)
    BY <1>1, <1>2, <1>3, <2>1
  <2>2. CASE i > Len(s)
    <3>1. i \in Len(s) + 1 .. Len(s) + Len(r) /\ i - Len(s) \in 1 .. Len(r)
      BY <1>1, <1>3, <2>2
    <3> QED
      BY <1>3, <3>1
  <2> QED
    BY <1>1, <2>1, <2>2
<1>5. \A e : Contains(w, e) <=> Contains(s, e) \/ Contains(r, e)
  <2> TAKE e
  <2>1. Contains(w, e) => Contains(s, e) \/ Contains(r, e)
    BY <1>4 DEF Contains
  <2>2. ASSUME NEW j \in 1 .. Len(s), s[j] = e PROVE Contains(w, e)
    <3>1. (Len(s) - j) + 1 \in 1 .. Len(s) /\ (Len(s) - ((Len(s) - j) + 1)) + 1 = j
      BY <1>1
    <3>2. (Len(s) - j) + 1 \in 1 .. Len(w)
      BY <1>1, <1>3, <3>1
    <3>3. w[(Len(s) - j) + 1] = e
      BY <1>2, <1>3, <2>2, <3>1
    <3> QED
      BY <3>2, <3>3 DEF Contains
  <2>3. ASSUME NEW j \in 1 .. Len(r), r[j] = e PROVE Contains(w, e)
    <3>1. Len(s) + j \in Len(s) + 1 .. Len(s) + Len(r) /\ (Len(s) + j) - Len(s) = j
          /\ Len(s) + j \in 1 .. Len(w)
      BY <1>1, <1>3
    <3>2. w[Len(s) + j] = e
      BY <1>3, <2>3, <3>1
    <3> QED
      BY <3>1, <3>2 DEF Contains
  <2> QED
    BY <2>1, <2>2, <2>3 DEF Contains
<1>6. IsInjective(w)
  <2>1. DOMAIN w = 1 .. Len(w) /\ DOMAIN s = 1 .. Len(s) /\ DOMAIN r = 1 .. Len(r)
    BY <1>3
  <2> SUFFICES ASSUME NEW i \in 1 .. Len(w), NEW j \in 1 .. Len(w), w[i] = w[j]
               PROVE  i = j
    BY <2>1 DEF IsInjective
  <2>2. i \in Nat /\ j \in Nat
    BY <1>3
  <2>3. CASE i \in 1 .. Len(s) /\ j \in 1 .. Len(s)
    <3>1. (Len(s) - i) + 1 \in 1 .. Len(s) /\ (Len(s) - j) + 1 \in 1 .. Len(s)
      BY <1>1, <2>3
    <3>2. s[(Len(s) - i) + 1] = s[(Len(s) - j) + 1]
      BY <1>2, <1>3, <2>3
    <3>3. (Len(s) - i) + 1 = (Len(s) - j) + 1
      BY <2>1, <3>1, <3>2 DEF IsInjective
    <3> QED
      BY <1>1, <2>2, <3>3
  <2>4. CASE i - Len(s) \in 1 .. Len(r) /\ j - Len(s) \in 1 .. Len(r)
    <3>1. i \in Len(s) + 1 .. Len(s) + Len(r) /\ j \in Len(s) + 1 .. Len(s) + Len(r)
      BY <1>1, <2>2, <2>4
    <3>2. r[i - Len(s)] = r[j - Len(s)]
      BY <1>3, <3>1
    <3>3. i - Len(s) = j - Len(s)
      BY <2>1, <2>4, <3>2 DEF IsInjective
    <3> QED
      BY <1>1, <2>2, <3>3
  <2>5. \A k \in 1 .. Len(w) : (k \in 1 .. Len(s) => Contains(s, w[k]))
                               /\ (k - Len(s) \in 1 .. Len(r) => Contains(r, w[k]))
    <3> TAKE k \in 1 .. Len(w)
    <3>1. k \in 1 .. Len(s) => (Len(s) - k) + 1 \in 1 .. Len(s) /\ w[k] = s[(Len(s) - k) + 1]
      BY <1>1, <1>2, <1>3
    <3>2. k - Len(s) \in 1 .. Len(r) => w[k] = r[k - Len(s)]
      <4>1. k - Len(s) \in 1 .. Len(r) => k \in Len(s) + 1 .. Len(s) + Len(r)
        BY <1>1, <1>3
      <4> QED
        BY <1>3, <4>1
    <3> QED
      BY <3>1, <3>2 DEF Contains
  <2> QED
    BY <1>4, <2>3, <2>4, <2>5
<1> QED
  BY <1>3, <1>5, <1>6 DEF w, v
=============================================================================
