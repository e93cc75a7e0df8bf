---------------------------- MODULE SequenceLemmas ----------------------------
(***************************************************************************)
(* Facts about numbers and sequences that the other proofs use: the least  *)
(* and the greatest element of a set, and parts of sequences.              *)
(***************************************************************************)
EXTENDS Integers, SequencesExt, SequenceTheorems, FiniteSetTheorems,
        WellFoundedInduction, TLAPS

(* A set of natural numbers that is not empty has a least element. *)
LEMMA LeastNumber ==
  ASSUME NEW S \in SUBSET Nat, S # {}
  PROVE  \E m \in S : \A n \in S : m <= n
  <1>1. PICK m \in S : \A n \in S : <<n, m>> \notin OpToRel(<, Nat)
    BY NatLessThanWellFounded, WFMin
  <1>2. ASSUME NEW n \in S
        PROVE  m <= n
    <2>1. <<n, m>> \in Nat \X Nat /\ <<n, m>>[1] = n /\ <<n, m>>[2] = m
      OBVIOUS
    <2>2. n < m => <<n, m>> \in OpToRel(<, Nat)
      BY <2>1 DEF OpToRel
    <2>3. ~(n < m)
      BY <1>1, <2>2, Zenon
    <2>4. m \in Nat /\ n \in Nat
      OBVIOUS
    <2>5. QED
      BY <2>3, <2>4
  <1>3. QED
    BY <1>2

(* So a set of natural numbers that are at most k has a greatest one. *)
LEMMA GreatestNumber ==
  ASSUME NEW k \in Nat, NEW S \in SUBSET (0..k), S # {}
  PROVE  \E m \in S : \A n \in S : n <= m
  <1> DEFINE T == {k - i : i \in S}
  <1>1. T \in SUBSET Nat /\ T # {}
    <2>1. \A i \in S : i \in 0..k
      OBVIOUS
    <2>2. \A i \in 0..k : k - i \in Nat
      OBVIOUS
    <2>3. QED
      BY <2>1, <2>2
  <1>2. PICK t \in T : \A u \in T : t <= u
    <2> HIDE DEF T
    <2>1. QED
      BY <1>1, LeastNumber
  <1>3. PICK m \in S : t = k - m
    OBVIOUS
  <1>4. ASSUME NEW n \in S
        PROVE  n <= m
    <2>1. k - n \in T
      OBVIOUS
    <2>2. k - m <= k - n
      BY <1>2, <1>3, <2>1
    <2>3. QED
      BY <2>2
  <1>5. QED
    BY <1>4

(* What Min and Max choose. *)
LEMMA MinOfSet ==
  ASSUME NEW S \in SUBSET Nat, S # {}
  PROVE  Min(S) \in S /\ \A n \in S : Min(S) <= n
  <1>1. \E m \in S : \A n \in S : m <= n
    BY LeastNumber
  <1>2. QED
    BY <1>1 DEF Min

(* Max picks the greatest of numbers that have a bound. *)
LEMMA MaxOfSet ==
  ASSUME NEW k \in Nat, NEW S \in SUBSET (0..k), S # {}
  PROVE  Max(S) \in S /\ \A n \in S : n <= Max(S)
  <1>1. \E m \in S : \A n \in S : m >= n
    BY GreatestNumber
  <1>2. QED
    BY <1>1 DEF Max

(* The smaller of two numbers. *)
LEMMA MinOfTwo ==
  ASSUME NEW a \in Nat, NEW b \in Nat
  PROVE  Min({a, b}) = IF a <= b THEN a ELSE b
  <1>1. Min({a, b}) \in {a, b} /\ \A n \in {a, b} : Min({a, b}) <= n
    BY MinOfSet
  <1>2. QED
    BY <1>1

(* A remainder of a number smaller than the divisor. *)
LEMMA SmallRemainder ==
  ASSUME NEW d \in Nat \ {0}, NEW a \in 0..(d - 1)
  PROVE  a % d = a
  OBVIOUS

(* The beginning of a sequence. *)
LEMMA BeginningOf ==
  ASSUME NEW S, NEW s \in Seq(S), NEW k \in 0..Len(s)
  PROVE  /\ SubSeq(s, 1, k) \in Seq(S)
         /\ Len(SubSeq(s, 1, k)) = k
         /\ \A i \in 1..k : SubSeq(s, 1, k)[i] = s[i]
  <1>1. Len(s) \in Nat /\ k \in Int /\ 1 \in Int /\ \A i \in 1..k : s[i] \in S
    BY ElementOfSeq, LenProperties
  <1>2. QED
    BY <1>1, SubSeqProperties

(* A sequence with one more element at its end. *)
LEMMA OneMore ==
  ASSUME NEW S, NEW s \in Seq(S), NEW x \in S
  PROVE  /\ s \o <<x>> \in Seq(S)
         /\ Len(s) \in Nat /\ Len(s \o <<x>>) = Len(s) + 1
         /\ (s \o <<x>>)[Len(s) + 1] = x
         /\ \A i \in 1..Len(s) : (s \o <<x>>)[i] = s[i]
  <1>1. Append(s, x) = s \o <<x>>
    BY AppendIsConcat
  <1>2. QED
    BY <1>1, AppendProperties, LenProperties

(* A beginning of a beginning is one of the sequence. *)
LEMMA BeginningOfBeginning ==
  ASSUME NEW S, NEW s \in Seq(S), NEW k \in 0..Len(s), NEW j \in 0..k
  PROVE  SubSeq(SubSeq(s, 1, k), 1, j) = SubSeq(s, 1, j)
  <1>1. Len(s) \in Nat
    BY LenProperties
  <1>2. /\ SubSeq(s, 1, k) \in Seq(S) /\ Len(SubSeq(s, 1, k)) = k
        /\ \A i \in 1..k : SubSeq(s, 1, k)[i] = s[i]
    BY BeginningOf
  <1> DEFINE t == SubSeq(s, 1, k)
  <1> HIDE DEF t
  <1>3. /\ SubSeq(t, 1, j) \in Seq(S) /\ Len(SubSeq(t, 1, j)) = j
        /\ \A i \in 1..j : SubSeq(t, 1, j)[i] = t[i]
    BY <1>2, BeginningOf DEF t
  <1>4. /\ SubSeq(s, 1, j) \in Seq(S) /\ Len(SubSeq(s, 1, j)) = j
        /\ \A i \in 1..j : SubSeq(s, 1, j)[i] = s[i]
    BY <1>1, BeginningOf
  <1>5. \A i \in 1..j : SubSeq(t, 1, j)[i] = SubSeq(s, 1, j)[i]
    BY <1>1, <1>2, <1>3, <1>4 DEF t
  <1>6. QED
    BY <1>1, <1>3, <1>4, <1>5, SeqEqual DEF t

(* A part of a sequence. *)
LEMMA PartOf ==
  ASSUME NEW S, NEW s \in Seq(S), NEW a \in Nat \ {0}, NEW b \in 0..Len(s)
  PROVE  /\ SubSeq(s, a, b) \in Seq(S)
         /\ Len(SubSeq(s, a, b)) = IF a <= b THEN b - a + 1 ELSE 0
         /\ \A i \in 1..(b - a + 1) :
              a + i - 1 \in 1..Len(s) /\ SubSeq(s, a, b)[i] = s[a + i - 1]
  <1>1. Len(s) \in Nat /\ a \in Int /\ b \in Int
    BY LenProperties
  <1>2. \A i \in a..b : s[i] \in S
    <2>1. \A i \in a..b : i \in 1..Len(s)
      BY <1>1
    <2>2. QED
      BY <2>1, ElementOfSeq
  <1>3. \A i \in 1..(b - a + 1) : a + i - 1 \in 1..Len(s)
    BY <1>1
  <1>4. QED
    BY <1>1, <1>2, <1>3, SubSeqProperties

(* Multiples of w that follow each other are w apart. *)
LEMMA NextMultiple ==
  ASSUME NEW w \in Nat \ {0}, NEW a \in Nat, a % w = 0, NEW r \in 1..w
  PROVE  (a + r) % w = 0 <=> r = w
  <1> DEFINE q == a \div w
             d == (a + r) \div w
             m == (a + r) % w
  <1>1. q \in Int /\ d \in Int /\ m \in 0..(w - 1)
    OBVIOUS
  <1>2. a = w * q
    OBVIOUS
  <1>3. a + r = w * d + m
    OBVIOUS
  <1> HIDE DEF q, d, m
  <1>4. w * d + m = w * q + r
    BY <1>2, <1>3
  <1>5. d <= q - 1 => w * d <= w * (q - 1)
    BY <1>1
  <1>6. d >= q + 1 => w * d >= w * (q + 1)
    BY <1>1
  <1>7. d >= q + 2 => w * d >= w * (q + 2)
    BY <1>1
  <1>8. w * (q - 1) = w * q - w /\ w * (q + 1) = w * q + w /\ w * (q + 2) = w * q + 2 * w
    BY <1>1
  <1>9. w * q \in Int /\ w * d \in Int
    BY <1>1
  <1>10. d = q \/ d = q + 1
    BY <1>1, <1>4, <1>5, <1>7, <1>8, <1>9
  <1>11. CASE d = q
    BY <1>1, <1>4, <1>9, <1>11 DEF m
  <1>12. CASE d = q + 1
    BY <1>1, <1>4, <1>8, <1>9, <1>12 DEF m
  <1>13. QED
    BY <1>10, <1>11, <1>12
===============================================================================
