------------------------------ MODULE PartsProofs ------------------------------
(***************************************************************************)
(* The lines of debug.ini, rdklogctrl and the appended logs, for all       *)
(* files, processes, names, messages and bounds.                           *)
(***************************************************************************)
EXTENDS ConfigFile, LogCtrl, AppendedLogs, SequenceLemmas

(***************************************************************************)
(* The lines of debug.ini.                                                 *)
(***************************************************************************)

(* The buffer holds a character at least, besides the terminating zero. *)
LEMMA BufferHolds == BufferLength - 1 \in Nat \ {0}
  BY ConfigFileAssumption

(* First finds the first place of a character. *)
LEMMA FirstPlace ==
  ASSUME NEW S, NEW s \in Seq(S), NEW c
  PROVE  /\ First(c, s) \in 0..Len(s)
         /\ First(c, s) # 0 => s[First(c, s)] = c
         /\ \A i \in 1..Len(s) : s[i] = c => First(c, s) # 0 /\ First(c, s) <= i
  <1> DEFINE places == {i \in DOMAIN s : s[i] = c}
  <1>1. Len(s) \in Nat /\ DOMAIN s = 1..Len(s)
    BY LenProperties
  <1>2. places \in SUBSET Nat /\ 0 \notin places
    BY <1>1
  <1>3. places # {} => Min(places) \in places /\ \A i \in places : Min(places) <= i
    BY <1>2, MinOfSet
  <1>4. QED
    BY <1>1, <1>2, <1>3 DEF First

(* trim keeps a part of the text that neither begins nor ends in a blank. *)
LEMMA TrimBare ==
  ASSUME NEW s \in Seq(Characters)
  PROVE  /\ Trim(s) \in Seq(Characters)
         /\ Trim(s) # << >> => {Head(Trim(s)), Last(Trim(s))} \cap Blanks = {}
         /\ \A i \in 1..Len(Trim(s)) : \E j \in 1..Len(s) : Trim(s)[i] = s[j]
  <1> DEFINE solid == {i \in DOMAIN s : s[i] \notin Blanks}
             t == SubSeq(s, Min(solid), Max(solid))
  <1>1. Len(s) \in Nat /\ DOMAIN s = 1..Len(s) /\ \A i \in 1..Len(s) : s[i] \in Characters
    BY LenProperties, ElementOfSeq
  <1>2. CASE solid = {}
    <2>1. Trim(s) = << >>
      BY <1>2 DEF Trim
    <2>2. QED
      BY <2>1, EmptySeq
  <1>3. CASE solid # {}
    <2>1. solid \in SUBSET (0..Len(s)) /\ solid \in SUBSET Nat
      <3>1. solid \subseteq 1..Len(s)
        BY <1>1
      <3>2. QED
        BY <1>1, <3>1
    <2>2. Min(solid) \in solid /\ \A i \in solid : Min(solid) <= i
      BY <1>3, <2>1, MinOfSet
    <2>3. Max(solid) \in solid
      BY <1>1, <1>3, <2>1, MaxOfSet
    <2>4. /\ Min(solid) \in 1..Len(s) /\ Max(solid) \in 1..Len(s) /\ Min(solid) <= Max(solid)
          /\ s[Min(solid)] \notin Blanks /\ s[Max(solid)] \notin Blanks
      BY <1>1, <2>2, <2>3
    <2>5. Trim(s) = t
      BY <1>3 DEF Trim
    <2> DEFINE a == Min(solid)
               b == Max(solid)
    <2> HIDE DEF solid, a, b
    <2>6. /\ a \in Nat \ {0} /\ b \in 0..Len(s) /\ a <= b
          /\ a \in 1..Len(s) /\ b \in 1..Len(s)
      BY <1>1, <2>4 DEF a, b
    <2>7. /\ SubSeq(s, a, b) \in Seq(Characters) /\ Len(SubSeq(s, a, b)) = b - a + 1
          /\ \A i \in 1..(b - a + 1) :
               a + i - 1 \in 1..Len(s) /\ SubSeq(s, a, b)[i] = s[a + i - 1]
      BY <2>6, PartOf
    <2>8. Trim(s) = SubSeq(s, a, b)
      BY <2>5 DEF a, b
    <2>9. Trim(s)[1] = s[a] /\ Trim(s)[Len(Trim(s))] = s[b]
      BY <1>1, <2>6, <2>7, <2>8
    <2>10. Head(Trim(s)) = s[a] /\ Last(Trim(s)) = s[b]
      BY <2>9 DEF Last
    <2>11. {Head(Trim(s)), Last(Trim(s))} \cap Blanks = {}
      BY <2>4, <2>10 DEF a, b
    <2>12. \A i \in 1..Len(Trim(s)) : \E j \in 1..Len(s) : Trim(s)[i] = s[j]
      BY <2>6, <2>7, <2>8
    <2>13. QED
      BY <2>7, <2>8, <2>11, <2>12
  <1>4. QED
    BY <1>2, <1>3

(* The name of a setting has no equals sign in it, and neither part begins or
   ends in a blank. *)
LEMMA SettingShape ==
  ASSUME NEW piece \in Seq(Characters), IsSetting(piece)
  PROVE  /\ Setting(piece) \in [name : Seq(Characters), value : Seq(Characters)]
         /\ First("=", Setting(piece).name) = 0
         /\ \A s \in {Setting(piece).name, Setting(piece).value} :
              s # << >> => {Head(s), Last(s)} \cap Blanks = {}
  <1> DEFINE e == First("=", piece)
             left == SubSeq(piece, 1, e - 1)
             right == SubSeq(piece, e + 1, Len(piece))
  <1>1. e \in 1..Len(piece) /\ \A i \in 1..Len(piece) : piece[i] = "=" => e <= i
    BY FirstPlace DEF IsSetting
  <1>2. Len(piece) \in Nat
    BY LenProperties
  <1> HIDE DEF e
  <1>3. /\ left \in Seq(Characters) /\ Len(left) = e - 1
        /\ \A i \in 1..(e - 1) : left[i] = piece[i]
    BY <1>1, <1>2, BeginningOf
  <1>4. right \in Seq(Characters)
    BY <1>1, <1>2, PartOf
  <1>5. Setting(piece) = [name |-> Trim(left), value |-> Trim(right)]
    BY DEF Setting, e
  <1> HIDE DEF left, right
  <1>6. \A j \in 1..Len(left) : left[j] # "="
    BY <1>1, <1>2, <1>3
  <1>7. First("=", Trim(left)) = 0
    <2>1. Trim(left) \in Seq(Characters)
      BY <1>3, TrimBare
    <2>2. /\ First("=", Trim(left)) \in 0..Len(Trim(left))
          /\ First("=", Trim(left)) # 0 => Trim(left)[First("=", Trim(left))] = "="
      BY <2>1, FirstPlace
    <2>3. \A i \in 1..Len(Trim(left)) : Trim(left)[i] # "="
      BY <1>3, <1>6, TrimBare
    <2>4. Len(Trim(left)) \in Nat
      BY <2>1, LenProperties
    <2>5. QED
      BY <2>2, <2>3, <2>4
  <1>8. QED
    BY <1>3, <1>4, <1>5, <1>7, TrimBare

(* The start of a line is the last one before. *)
LEMMA LineStartOf ==
  ASSUME text \in Seq(Characters), NEW i \in 1..Len(text)
  PROVE  /\ LineStart(i) \in LineStarts /\ LineStart(i) \in 1..i
         /\ \A j \in LineStarts : j <= i => j <= LineStart(i)
  <1> DEFINE before == {j \in LineStarts : j <= i}
  <1>1. Len(text) \in Nat /\ DOMAIN text = 1..Len(text)
    BY LenProperties
  <1>2. LineStarts \subseteq 1..Len(text) /\ 1 \in LineStarts
    BY <1>1 DEF LineStarts
  <1>3. before \in SUBSET (0..i) /\ 1 \in before
    <2>1. \A j \in before : j \in 0..i
      BY <1>1, <1>2
    <2>2. 1 \in before
      BY <1>1, <1>2
    <2> HIDE DEF before
    <2>3. QED
      BY <2>1, <2>2
  <1>4. Max(before) \in before /\ \A j \in before : j <= Max(before)
    <2> HIDE DEF before
    <2>1. i \in Nat
      BY <1>1
    <2>2. QED
      BY <1>3, <2>1, MaxOfSet
  <1>5. LineStart(i) = Max(before)
    BY DEF LineStart
  <1>6. Max(before) \in LineStarts /\ Max(before) <= i
    BY <1>4
  <1>7. \A j \in LineStarts : j <= i => j <= Max(before)
    BY <1>4
  <1> HIDE DEF before
  <1>8. Max(before) \in 1..Len(text)
    BY <1>2, <1>6
  <1>9. Max(before) \in 1..i
    BY <1>1, <1>6, <1>8
  <1>10. QED
    BY <1>5, <1>6, <1>7, <1>9

(* Where no line begins, the line is that of the character before. *)
LEMMA SameLine ==
  ASSUME text \in Seq(Characters), NEW i \in 1..Len(text), NEW j \in i..Len(text),
         \A k \in (i + 1)..j : k \notin LineStarts
  PROVE  LineStart(j) = LineStart(i)
  <1>1. Len(text) \in Nat
    BY LenProperties
  <1>2. j \in 1..Len(text)
    BY <1>1
  <1>3. /\ LineStart(i) \in LineStarts /\ LineStart(i) \in 1..i
        /\ \A k \in LineStarts : k <= i => k <= LineStart(i)
    BY LineStartOf
  <1>4. /\ LineStart(j) \in LineStarts /\ LineStart(j) \in 1..j
        /\ \A k \in LineStarts : k <= j => k <= LineStart(j)
    BY <1>2, LineStartOf
  <1>5. LineStart(j) <= i
    BY <1>1, <1>4
  <1>6. QED
    BY <1>1, <1>3, <1>4, <1>5

(* fgets, from where a piece begins, reads to its end, and the next piece
   begins behind it. *)
LEMMA PieceCut ==
  ASSUME text \in Seq(Characters), NEW p \in 0..(Len(text) - 1), p + 1 \in PieceStarts,
         NEW L, L = PieceLength(SubSeq(text, p + 1, Len(text)))
  PROVE  /\ L \in 1..(Len(text) - p) /\ L < BufferLength
         /\ PieceEnd(p + 1) = p + L
         /\ p + L = Len(text) \/ p + L + 1 \in PieceStarts
  <1> DEFINE w    == BufferLength - 1
             rest == SubSeq(text, p + 1, Len(text))
             eol  == First(Newline, rest)
             full == Min({Len(rest), w})
             a    == (p + 1) - LineStart(p + 1)
  <1>1. Len(text) \in Nat /\ DOMAIN text = 1..Len(text) /\ p \in Nat /\ p < Len(text)
    BY LenProperties
  <1>2. w \in Nat \ {0} /\ BufferLength = w + 1
    BY BufferHolds, ConfigFileAssumption
  <1>3. /\ rest \in Seq(Characters) /\ Len(rest) = Len(text) - p
        /\ \A i \in 1..(Len(text) - p) : rest[i] = text[p + i]
    <2>1. p + 1 \in Nat \ {0} /\ Len(text) \in 0..Len(text) /\ p + 1 <= Len(text)
      BY <1>1
    <2>2. /\ rest \in Seq(Characters) /\ Len(rest) = Len(text) - (p + 1) + 1
          /\ \A i \in 1..(Len(text) - (p + 1) + 1) : rest[i] = text[p + 1 + i - 1]
      BY <2>1, PartOf
    <2>3. Len(text) - (p + 1) + 1 = Len(text) - p /\ \A i \in Nat : p + 1 + i - 1 = p + i
      BY <1>1
    <2> HIDE DEF rest
    <2>4. QED
      BY <2>2, <2>3
  <1>4. L = IF eol = 0 THEN full ELSE Min({eol, full})
    BY DEF PieceLength
  <1>5. a \in Nat /\ a % w = 0 /\ p + 1 \in 1..Len(text)
    <2>1. p + 1 \in 1..Len(text)
      BY <1>1
    <2>2. LineStart(p + 1) \in 1..(p + 1)
      BY <2>1, LineStartOf
    <2>3. a % w = 0
      BY DEF PieceStarts
    <2>4. QED
      BY <1>1, <2>1, <2>2, <2>3
  <1> HIDE DEF w, rest
  <1>6. /\ eol \in 0..Len(rest) /\ (eol # 0 => rest[eol] = Newline)
        /\ \A i \in 1..Len(rest) : rest[i] = Newline => eol # 0 /\ eol <= i
    BY <1>3, FirstPlace
  <1> HIDE DEF eol, a
  <1>7. full = IF Len(rest) <= w THEN Len(rest) ELSE w
    BY <1>1, <1>2, <1>3, MinOfTwo
  <1> HIDE DEF full
  <1>8. eol # 0 => L = IF eol <= full THEN eol ELSE full
    <2>1. eol \in Nat /\ full \in Nat
      BY <1>1, <1>2, <1>3, <1>6, <1>7
    <2>2. Min({eol, full}) = IF eol <= full THEN eol ELSE full
      BY <2>1, MinOfTwo
    <2>3. QED
      BY <1>4, <2>2
  <1>9. /\ L \in 1..Len(rest) /\ L <= w /\ (eol = 0 \/ L <= eol)
        /\ L = eol \/ L = w \/ L = Len(rest)
    BY <1>1, <1>2, <1>3, <1>4, <1>6, <1>7, <1>8
  <1>10. \A i \in 1..(L - 1) : rest[i] # Newline
    BY <1>1, <1>3, <1>6, <1>9
  <1>11. \A j \in (p + 2)..(p + L) : j \notin LineStarts
    <2>1. TAKE j \in (p + 2)..(p + L)
    <2>2. /\ j - 1 - p \in 1..(L - 1) /\ j - 1 - p \in 1..(Len(text) - p)
          /\ p + (j - 1 - p) = j - 1 /\ j # 1
      BY <1>1, <1>3, <1>9
    <2>3. text[j - 1] # Newline
      BY <1>3, <1>10, <2>2
    <2>4. QED
      BY <2>2, <2>3 DEF LineStarts
  <1>12. \A j \in (p + 2)..(p + L) : LineStart(j) = LineStart(p + 1)
    <2>1. TAKE j \in (p + 2)..(p + L)
    <2>2. j \in (p + 1)..Len(text) /\ \A k \in (p + 1 + 1)..j : k \in (p + 2)..(p + L)
      BY <1>1, <1>3, <1>9
    <2>3. QED
      BY <1>5, <1>11, <2>2, SameLine
  <1>13. \A j \in (p + 2)..(p + L) : j \notin PieceStarts
    <2>1. TAKE j \in (p + 2)..(p + L)
    <2> DEFINE r == j - (p + 1)
    <2>2. r \in 1..w /\ r # w
      BY <1>1, <1>2, <1>3, <1>9
    <2>3. j - LineStart(j) = a + r
      <3>1. LineStart(p + 1) \in 1..(p + 1)
        BY <1>5, LineStartOf
      <3>2. QED
        BY <1>1, <1>12, <3>1 DEF a
    <2> HIDE DEF r
    <2>4. (a + r) % w # 0
      BY <1>2, <1>5, <2>2, NextMultiple
    <2>5. QED
      BY <2>3, <2>4 DEF PieceStarts, w
  <1> DEFINE next == p + L + 1
  <1>14. p + L = Len(text) \/ next \in PieceStarts
    <2>1. SUFFICES ASSUME p + L # Len(text) PROVE next \in PieceStarts
      OBVIOUS
    <2>2. next \in 1..Len(text) /\ next - 1 = p + L /\ L < Len(rest)
      BY <1>1, <1>3, <1>9, <2>1
    <2>3. text[next - 1] = rest[L]
      BY <1>3, <1>9, <2>2
    <2>4. LineStart(next) \in 1..next /\ (next \in LineStarts => next <= LineStart(next))
      BY <1>1, <2>2, LineStartOf
    <2>5. CASE L = eol
      <3>1. next \in LineStarts
        BY <1>1, <1>6, <1>9, <2>2, <2>3, <2>5 DEF LineStarts
      <3>2. next - LineStart(next) = 0
        BY <1>1, <2>2, <2>4, <3>1
      <3>3. 0 % w = 0
        BY <1>2, SmallRemainder
      <3>4. QED
        BY <1>1, <2>2, <3>2, <3>3 DEF PieceStarts, w
    <2>6. CASE L # eol
      <3>1. rest[L] # Newline
        BY <1>1, <1>3, <1>6, <1>9, <2>6
      <3>2. next \notin LineStarts
        BY <1>1, <1>9, <1>3, <2>2, <2>3, <3>1 DEF LineStarts
      <3>3. /\ next \in (p + 1)..Len(text)
            /\ \A k \in (p + 1 + 1)..next : k = next \/ k \in (p + 2)..(p + L)
        BY <1>1, <1>3, <1>9, <2>2
      <3>4. LineStart(next) = LineStart(p + 1)
        BY <1>5, <1>11, <3>2, <3>3, SameLine
      <3>5. L = w
        BY <1>9, <2>2, <2>6
      <3>6. next - LineStart(next) = a + w
        <4>1. LineStart(p + 1) \in 1..(p + 1)
          BY <1>5, LineStartOf
        <4>2. QED
          BY <1>1, <1>2, <3>4, <3>5, <4>1 DEF a
      <3>7. (a + w) % w = 0
        <4>1. w \in 1..w
          BY <1>2
        <4>2. QED
          BY <1>2, <1>5, <4>1, NextMultiple
      <3>8. QED
        BY <1>1, <2>2, <3>6, <3>7 DEF PieceStarts, w
    <2>7. QED
      BY <2>5, <2>6
  <1>15. PieceEnd(p + 1) = p + L
    <2> DEFINE later == {j \in PieceStarts : j > p + 1} \cup {Len(text) + 1}
    <2>1. \A j \in PieceStarts : j \in 1..Len(text)
      BY <1>1 DEF PieceStarts
    <2>2. \A j \in later : j \in Nat /\ j >= next
      <3>1. TAKE j \in later
      <3>2. CASE j = Len(text) + 1
        BY <1>1, <1>3, <1>9, <3>2
      <3>3. CASE j \in PieceStarts /\ j > p + 1
        <4>1. j \in 1..Len(text) /\ j \notin (p + 2)..(p + L)
          BY <1>13, <2>1, <3>3
        <4>2. QED
          BY <1>1, <1>3, <1>9, <3>3, <4>1
      <3>4. QED
        BY <3>2, <3>3
    <2>3. next \in later
      <3>1. CASE p + L = Len(text)
        BY <3>1
      <3>2. CASE next \in PieceStarts
        <4>1. next > p + 1
          BY <1>1, <1>3, <1>9
        <4>2. QED
          BY <3>2, <4>1
      <3>3. QED
        BY <1>14, <3>1, <3>2
    <2> HIDE DEF later
    <2>4. Min(later) \in later /\ \A j \in later : Min(later) <= j
      <3>1. later \in SUBSET Nat /\ later # {}
        BY <2>2, <2>3
      <3>2. QED
        BY <3>1, MinOfSet
    <2>5. Min(later) = next
      BY <1>1, <1>9, <1>3, <2>2, <2>3, <2>4
    <2>6. PieceEnd(p + 1) = Min(later) - 1
      BY DEF PieceEnd, later
    <2>7. QED
      BY <1>1, <1>3, <1>9, <2>5, <2>6
  <1>16. QED
    BY <1>2, <1>1, <1>3, <1>9, <1>14, <1>15

(* No piece begins inside another. *)
LEMMA NothingInside ==
  ASSUME text \in Seq(Characters), NEW i \in PieceStarts, NEW j \in PieceStarts, j > i
  PROVE  j > PieceEnd(i)
  <1> DEFINE later == {k \in PieceStarts : k > i} \cup {Len(text) + 1}
  <1>1. Len(text) \in Nat /\ DOMAIN text = 1..Len(text)
    BY LenProperties
  <1>2. j \in later /\ later \in SUBSET Nat /\ j \in Nat
    <2>1. \A k \in PieceStarts : k \in Nat
      BY <1>1 DEF PieceStarts
    <2>2. \A k \in later : k \in Nat
      BY <1>1, <2>1
    <2>3. QED
      BY <2>1, <2>2
  <1>3. PieceEnd(i) = Min(later) - 1
    BY DEF PieceEnd
  <1> HIDE DEF later
  <1>4. Min(later) \in Nat /\ Min(later) <= j
    BY <1>2, MinOfSet
  <1>5. QED
    BY <1>2, <1>3, <1>4

SettingRecords == [name : Seq(Characters), value : Seq(Characters)]

(* The settings st are those that begin at the places S, in order. *)
InOrder(S, st) ==
  /\ Len(st) = Cardinality(S)
  /\ \A i \in S : st[Cardinality({j \in S : j <= i})] = Setting(PieceAt(i))

(* One more setting, behind the others. *)
LEMMA InOrderExtended ==
  ASSUME NEW st \in Seq(SettingRecords), NEW k \in Nat, NEW S \in SUBSET (1..k), InOrder(S, st),
         Setting(PieceAt(k + 1)) \in SettingRecords
  PROVE  InOrder(S \cup {k + 1}, Append(st, Setting(PieceAt(k + 1))))
  <1> DEFINE i0 == k + 1
             x == Setting(PieceAt(i0))
             T == S \cup {i0}
             upTo(U, i) == {j \in U : j <= i}
  <1>1. IsFiniteSet(S) /\ Cardinality(S) \in Nat /\ i0 \notin S /\ Len(st) = Cardinality(S)
    <2>1. IsFiniteSet(1..k)
      BY FS_Interval
    <2>2. IsFiniteSet(S)
      BY <2>1, FS_Subset
    <2>3. QED
      BY <2>2, FS_CardinalityType DEF InOrder
  <1>2. Cardinality(T) = Cardinality(S) + 1
    BY <1>1, FS_AddElement
  <1>3. /\ Len(Append(st, x)) = Len(st) + 1
        /\ \A i \in 1..Len(st) : Append(st, x)[i] = st[i]
        /\ Append(st, x)[Len(st) + 1] = x
    BY AppendProperties
  <1>4. \A i \in S : i \in 1..k
    OBVIOUS
  <1>5. ASSUME NEW i \in S
        PROVE  Append(st, x)[Cardinality(upTo(T, i))] = Setting(PieceAt(i))
    <2>1. ~(i0 <= i) /\ i \in Nat
      BY <1>4
    <2>2. upTo(T, i) = upTo(S, i)
      BY <2>1
    <2>3. i \in upTo(S, i) /\ upTo(S, i) \subseteq S
      BY <2>1
    <2>4. /\ IsFiniteSet(upTo(S, i)) /\ Cardinality(upTo(S, i)) \in Nat
          /\ Cardinality(upTo(S, i)) <= Cardinality(S)
      BY <1>1, <2>3, FS_Subset, FS_CardinalityType
    <2>5. Cardinality(upTo(S, i)) # 0
      BY <2>3, <2>4, FS_EmptySet
    <2>6. Cardinality(upTo(S, i)) \in 1..Len(st)
      BY <1>1, <2>4, <2>5
    <2>7. st[Cardinality(upTo(S, i))] = Setting(PieceAt(i))
      BY DEF InOrder
    <2> HIDE DEF upTo, x
    <2>8. QED
      BY <1>3, <2>2, <2>6, <2>7
  <1>6. Append(st, x)[Cardinality(upTo(T, i0))] = x
    <2>1. \A i \in T : i <= i0
      BY <1>4
    <2>2. upTo(T, i0) = T
      BY <2>1
    <2>3. QED
      BY <1>1, <1>2, <1>3, <2>2
  <1>7. QED
    BY <1>1, <1>2, <1>3, <1>5, <1>6 DEF InOrder

(* The file is read up to the end of a piece, and the settings are those of the
   pieces that have been dealt with. *)
ConfigInv ==
  /\ text \in Seq(Characters) /\ position \in 0..Len(text)
  /\ lineBuffer \in Seq(Characters) /\ Len(lineBuffer) < BufferLength
  /\ settings \in Seq(SettingRecords)
  /\ position = Len(text) \/ position + 1 \in PieceStarts
  /\ lineBuffer # << >> =>
       LET i == position - Len(lineBuffer) + 1
       IN  i \in PieceStarts /\ lineBuffer = PieceAt(i) /\ PieceEnd(i) = position
  /\ position - Len(lineBuffer) \in Nat
  /\ InOrder(SettingStarts(position - Len(lineBuffer)), settings)
  /\ SettingsBare

(* The text stays, and with it where its pieces are. *)
LEMMA TextKept ==
  ASSUME UNCHANGED text
  PROVE  /\ PieceStarts' = PieceStarts
         /\ \A i : PieceEnd(i)' = PieceEnd(i) /\ PieceAt(i)' = PieceAt(i)
         /\ \A k : SettingStarts(k)' = SettingStarts(k)
         /\ \A S, st : InOrder(S, st)' = InOrder(S, st)
  <1>1. PieceStarts' = PieceStarts
    BY DEF PieceStarts, LineStart, LineStarts
  <1>2. \A i : PieceEnd(i)' = PieceEnd(i)
    BY <1>1 DEF PieceEnd
  <1>3. \A i : PieceAt(i)' = PieceAt(i)
    BY <1>2 DEF PieceAt
  <1>4. \A k : SettingStarts(k)' = SettingStarts(k)
    BY <1>1, <1>3 DEF SettingStarts
  <1>5. \A S, st : InOrder(S, st)' = InOrder(S, st)
    BY <1>3 DEF InOrder
  <1>6. QED
    BY <1>1, <1>2, <1>3, <1>4, <1>5

(* What is to be shown of the settings after a step. *)
LEMMA InOrderNext ==
  ASSUME UNCHANGED text, NEW k, k = (position - Len(lineBuffer))',
         NEW st, st = settings', InOrder(SettingStarts(k), st)
  PROVE  InOrder(SettingStarts(position - Len(lineBuffer)), settings)'
  <1>1. PieceStarts' = PieceStarts /\ \A i : PieceAt(i)' = PieceAt(i)
    BY TextKept
  <1> DEFINE S == {i \in PieceStarts : i <= k /\ IsSetting(PieceAt(i))}
  <1>2. SettingStarts(position - Len(lineBuffer))' = S
    BY <1>1 DEF SettingStarts
  <1>3. InOrder(S, st)
    BY DEF SettingStarts
  <1> HIDE DEF S
  <1>4. QED
    BY <1>1, <1>2, <1>3 DEF InOrder

(* The first piece begins where the file begins. *)
LEMMA ConfigInit == ConfigFileInit => ConfigInv
  <1> SUFFICES ASSUME ConfigFileInit PROVE ConfigInv
    OBVIOUS
  <1>1. text \in Seq(Characters) /\ position = 0 /\ lineBuffer = << >> /\ settings = << >>
    BY ConfigFileAssumption DEF ConfigFileInit
  <1>2. Len(text) \in Nat /\ DOMAIN text = 1..Len(text)
    BY <1>1, LenProperties
  <1>3. Len(text) # 0 => 1 \in PieceStarts
    <2>1. SUFFICES ASSUME 1 \in 1..Len(text) PROVE 1 \in PieceStarts
      BY <1>2
    <2>2. LineStart(1) = 1
      BY <1>1, <2>1, LineStartOf
    <2>3. 0 % (BufferLength - 1) = 0
      <3>1. 0 \in 0..((BufferLength - 1) - 1)
        BY ConfigFileAssumption
      <3>2. QED
        BY <3>1, BufferHolds, SmallRemainder
    <2>4. QED
      BY <1>2, <2>1, <2>2, <2>3 DEF PieceStarts
  <1>4. InOrder(SettingStarts(0), settings)
    <2>1. SettingStarts(0) = {}
      BY <1>2 DEF SettingStarts, PieceStarts
    <2>2. QED
      BY <1>1, <2>1, FS_EmptySet DEF InOrder
  <1>5. position - Len(lineBuffer) = 0
    <2>1. Len(lineBuffer) = 0
      BY <1>1, EmptySeq
    <2>2. position = 0
      BY <1>1
    <2>3. QED
      BY <2>1, <2>2
  <1>6. << >> \in Seq(Characters) /\ << >> \in Seq(SettingRecords) /\ SettingsBare
    BY <1>1 DEF SettingsBare
  <1>7. QED
    BY <1>1, <1>2, <1>3, <1>4, <1>5, <1>6, ConfigFileAssumption DEF ConfigInv

(* What fgets reads is a piece of the file. *)
LEMMA ReadStep == ConfigInv /\ ReadPiece => ConfigInv'
  <1> SUFFICES ASSUME ConfigInv, ReadPiece PROVE ConfigInv'
    OBVIOUS
  <1> DEFINE rest == SubSeq(text, position + 1, Len(text))
             L == PieceLength(rest)
  <1>1. /\ text \in Seq(Characters) /\ position \in 0..Len(text)
        /\ lineBuffer = << >> /\ rest # << >>
        /\ lineBuffer' = SubSeq(rest, 1, L) /\ position' = position + L
        /\ text' = text /\ settings' = settings
    BY DEF ConfigInv, ReadPiece
  <1>2. Len(text) \in Nat /\ position \in Nat
    BY <1>1, LenProperties
  <1>3. position \in 0..(Len(text) - 1)
    <2>1. position >= Len(text) => rest = << >>
      BY <1>2, SubSeqEmpty
    <2>2. QED
      BY <1>1, <1>2, <2>1
  <1>4. position + 1 \in PieceStarts
    BY <1>2, <1>3 DEF ConfigInv
  <1>5. /\ L \in 1..(Len(text) - position) /\ L < BufferLength
        /\ PieceEnd(position + 1) = position + L
        /\ position + L = Len(text) \/ position + L + 1 \in PieceStarts
    BY <1>1, <1>3, <1>4, PieceCut
  <1> HIDE DEF rest, L
  <1>6. SubSeq(rest, 1, L) = SubSeq(text, position + 1, position + L)
    <2>1. /\ position + 1 \in 1..Len(text) /\ Len(text) \in 1..Len(text)
          /\ 1 \in 1..(Len(text) - (position + 1) + 1) /\ L \in 1..(Len(text) - (position + 1) + 1)
          /\ position + 1 + 1 - 1 = position + 1 /\ position + 1 + L - 1 = position + L
      BY <1>2, <1>3, <1>5
    <2>2. QED
      BY <1>1, <2>1, SubSeqOfSubSeq DEF rest
  <1>7. lineBuffer' = PieceAt(position + 1)
    BY <1>1, <1>5, <1>6 DEF PieceAt
  <1>8. lineBuffer' \in Seq(Characters) /\ Len(lineBuffer') = L
    <2>1. /\ position + 1 \in Nat \ {0} /\ position + L \in 0..Len(text)
          /\ position + 1 <= position + L /\ (position + L) - (position + 1) + 1 = L
      BY <1>2, <1>3, <1>5
    <2>2. QED
      BY <1>1, <1>6, <2>1, PartOf
  <1>9. /\ position' - Len(lineBuffer') = position /\ position - Len(lineBuffer) = position
        /\ position' - Len(lineBuffer') + 1 = position + 1 /\ position' \in 0..Len(text)
    BY <1>1, <1>2, <1>5, <1>8
  <1>10. InOrder(SettingStarts(position), settings)
    BY <1>9 DEF ConfigInv
  <1>11. InOrder(SettingStarts(position - Len(lineBuffer)), settings)'
    BY <1>1, <1>9, <1>10, InOrderNext
  <1>12. SettingsBare'
    BY <1>1 DEF ConfigInv, SettingsBare
  <1>13. PieceStarts' = PieceStarts /\ \A i : PieceEnd(i)' = PieceEnd(i) /\ PieceAt(i)' = PieceAt(i)
    BY <1>1, TextKept
  <1>14. (lineBuffer # << >> =>
            LET i == position - Len(lineBuffer) + 1
            IN  i \in PieceStarts /\ lineBuffer = PieceAt(i) /\ PieceEnd(i) = position)'
    <2>1. PICK i : i = position + 1
      OBVIOUS
    <2>2. i \in PieceStarts' /\ lineBuffer' = PieceAt(i)' /\ PieceEnd(i)' = position'
      BY <1>1, <1>4, <1>5, <1>7, <1>13, <2>1
    <2>3. position' - Len(lineBuffer') + 1 = i
      BY <1>9, <2>1
    <2>4. QED
      BY <2>2, <2>3 DEF PieceAt, PieceEnd
  <1>15. QED
    BY <1>1, <1>2, <1>5, <1>8, <1>9, <1>11, <1>12, <1>13, <1>14 DEF ConfigInv

(* A setting is added behind those of the pieces before. *)
LEMMA ParseStep == ConfigInv /\ ParsePiece => ConfigInv'
  <1> SUFFICES ASSUME ConfigInv, ParsePiece PROVE ConfigInv'
    OBVIOUS
  <1>1. /\ lineBuffer # << >> /\ lineBuffer' = << >> /\ text' = text /\ position' = position
        /\ settings' = IF IsSetting(lineBuffer)
                       THEN Append(settings, Setting(lineBuffer)) ELSE settings
        /\ text \in Seq(Characters) /\ position \in 0..Len(text)
        /\ lineBuffer \in Seq(Characters) /\ settings \in Seq(SettingRecords)
    BY DEF ConfigInv, ParsePiece
  <1>2. Len(text) \in Nat /\ DOMAIN text = 1..Len(text) /\ position \in Nat
    BY <1>1, LenProperties
  <1>3. PICK k \in Nat : k = position - Len(lineBuffer)
    BY DEF ConfigInv
  <1>4. k + 1 \in PieceStarts /\ lineBuffer = PieceAt(k + 1) /\ PieceEnd(k + 1) = position
    BY <1>1, <1>3 DEF ConfigInv
  <1>5. k + 1 <= position
    <2>1. Len(lineBuffer) \in Nat /\ Len(lineBuffer) # 0
      BY <1>1, EmptySeq, LenProperties
    <2>2. QED
      BY <1>2, <1>3, <2>1
  <1>6. \A i \in PieceStarts : i \in Nat \ {0} /\ (i <= position <=> i <= k \/ i = k + 1)
    <2>1. TAKE i \in PieceStarts
    <2>2. i \in Nat \ {0}
      BY <1>2 DEF PieceStarts
    <2>3. i > k + 1 => i > position
      BY <1>1, <1>4, NothingInside
    <2>4. QED
      BY <1>2, <1>5, <2>2, <2>3
  <1> DEFINE S == SettingStarts(k)
  <1>7. SettingStarts(position) = IF IsSetting(lineBuffer) THEN S \cup {k + 1} ELSE S
    <2>1. \A i : i \in SettingStarts(position) <=>
                  i \in PieceStarts /\ (i <= k \/ i = k + 1) /\ IsSetting(PieceAt(i))
      BY <1>6 DEF SettingStarts
    <2>2. \A i : i \in S <=> i \in PieceStarts /\ i <= k /\ IsSetting(PieceAt(i))
      BY DEF SettingStarts
    <2> HIDE DEF S
    <2>3. \A i : i \in SettingStarts(position) <=>
                  i \in S \/ (i = k + 1 /\ IsSetting(lineBuffer))
      BY <1>4, <2>1, <2>2
    <2>4. QED
      BY <2>3
  <1>8. S \in SUBSET (1..k)
    <2>1. \A i \in S : i \in Nat \ {0} /\ i <= k
      BY <1>6 DEF SettingStarts
    <2> HIDE DEF S
    <2>2. \A i \in S : i \in 1..k
      BY <2>1
    <2>3. QED
      BY <2>2
  <1>9. InOrder(S, settings)
    BY <1>3 DEF ConfigInv
  <1>10. IsSetting(lineBuffer) =>
           /\ Setting(lineBuffer) \in SettingRecords
           /\ First("=", Setting(lineBuffer).name) = 0
           /\ \A s \in {Setting(lineBuffer).name, Setting(lineBuffer).value} :
                s # << >> => {Head(s), Last(s)} \cap Blanks = {}
    BY <1>1, SettingShape DEF SettingRecords
  <1> HIDE DEF S
  <1>11. InOrder(SettingStarts(position), settings')
    <2>1. CASE IsSetting(lineBuffer)
      <3>1. InOrder(S \cup {k + 1}, Append(settings, Setting(PieceAt(k + 1))))
        BY <1>1, <1>4, <1>8, <1>9, <1>10, <2>1, InOrderExtended
      <3>2. QED
        BY <1>1, <1>4, <1>7, <2>1, <3>1
    <2>2. CASE ~IsSetting(lineBuffer)
      BY <1>1, <1>7, <1>9, <2>2
    <2>3. QED
      BY <2>1, <2>2
  <1>12. position' - Len(lineBuffer') = position
    <2>1. Len(lineBuffer') = 0
      BY <1>1, EmptySeq
    <2>2. QED
      BY <1>1, <1>2, <2>1
  <1>13. InOrder(SettingStarts(position - Len(lineBuffer)), settings)'
    BY <1>1, <1>11, <1>12, InOrderNext
  <1>14. settings' \in Seq(SettingRecords)
    BY <1>1, <1>10, AppendProperties
  <1>15. SettingsBare'
    <2>1. SettingsBare
      BY DEF ConfigInv
    <2>2. CASE IsSetting(lineBuffer)
      <3> DEFINE x == Setting(lineBuffer)
      <3>1. /\ Append(settings, x) \in Seq(SettingRecords)
            /\ Len(Append(settings, x)) = Len(settings) + 1
            /\ \A i \in 1..Len(settings) : Append(settings, x)[i] = settings[i]
            /\ Append(settings, x)[Len(settings) + 1] = x
        BY <1>1, <1>10, <2>2, AppendProperties
      <3>2. /\ DOMAIN Append(settings, x) = 1..(Len(settings) + 1) /\ Len(settings) \in Nat
            /\ DOMAIN settings = 1..Len(settings)
        BY <1>1, <3>1, LenProperties
      <3>3. settings' = Append(settings, x)
        BY <1>1, <2>2
      <3> HIDE DEF x
      <3>4. \A i \in DOMAIN settings' : \/ i \in DOMAIN settings /\ settings'[i] = settings[i]
                                     \/ settings'[i] = x
        BY <3>1, <3>2, <3>3
      <3>5. /\ First("=", x.name) = 0
            /\ \A s \in {x.name, x.value} : s # << >> => {Head(s), Last(s)} \cap Blanks = {}
        BY <1>10, <2>2 DEF x
      <3>6. QED
        BY <2>1, <3>4, <3>5 DEF SettingsBare
    <2>3. CASE ~IsSetting(lineBuffer)
      BY <1>1, <2>1, <2>3 DEF SettingsBare
    <2>4. QED
      BY <2>2, <2>3
  <1>16. /\ position = Len(text) \/ position + 1 \in PieceStarts
         /\ PieceStarts' = PieceStarts
    BY <1>1, TextKept DEF ConfigInv
  <1>17. lineBuffer' \in Seq(Characters) /\ Len(lineBuffer') < BufferLength
    <2>1. Len(lineBuffer') = 0
      BY <1>1, EmptySeq
    <2>2. QED
      BY <1>1, <2>1, EmptySeq, ConfigFileAssumption
  <1>18. QED
    BY <1>1, <1>2, <1>12, <1>13, <1>14, <1>15, <1>16, <1>17 DEF ConfigInv

(* Nothing about the file changes while another part takes a step. *)
LEMMA ConfigStutter == ConfigInv /\ UNCHANGED configFileVars => ConfigInv'
  <1> SUFFICES ASSUME ConfigInv, UNCHANGED configFileVars PROVE ConfigInv'
    OBVIOUS
  <1>1. UNCHANGED <<text, position, lineBuffer, settings>>
    BY DEF configFileVars
  <1>2. /\ PieceStarts' = PieceStarts
        /\ \A i : PieceEnd(i)' = PieceEnd(i) /\ PieceAt(i)' = PieceAt(i)
    BY <1>1, TextKept
  <1>3. InOrder(SettingStarts(position - Len(lineBuffer)), settings)'
    <2>1. PICK k : k = position - Len(lineBuffer)
      OBVIOUS
    <2>2. InOrder(SettingStarts(k), settings) /\ k = (position - Len(lineBuffer))'
      BY <1>1, <2>1 DEF ConfigInv
    <2>3. QED
      BY <1>1, <2>2, InOrderNext
  <1>4. (lineBuffer # << >> =>
           LET i == position - Len(lineBuffer) + 1
           IN  i \in PieceStarts /\ lineBuffer = PieceAt(i) /\ PieceEnd(i) = position)'
    <2>1. PICK i : i = position - Len(lineBuffer) + 1
      OBVIOUS
    <2>2. lineBuffer # << >> =>
            i \in PieceStarts' /\ lineBuffer' = PieceAt(i)' /\ PieceEnd(i)' = position'
      BY <1>1, <1>2, <2>1 DEF ConfigInv
    <2>3. position' - Len(lineBuffer') + 1 = i
      BY <1>1, <2>1
    <2>4. QED
      BY <1>1, <2>2, <2>3 DEF PieceAt, PieceEnd
  <1>5. SettingsBare'
    BY <1>1 DEF ConfigInv, SettingsBare
  <1>6. QED
    BY <1>1, <1>2, <1>3, <1>4, <1>5 DEF ConfigInv

(* The invariant from which the theorems follow. *)
LEMMA ConfigInvHolds == ConfigFileSpec => []ConfigInv
  <1>1. ConfigInv /\ [ConfigFileNext]_configFileVars => ConfigInv'
    BY ReadStep, ParseStep, ConfigStutter DEF ConfigFileNext
  <1>2. QED
    BY <1>1, ConfigInit, PTL DEF ConfigFileSpec

(* The piece in the buffer fits, and every setting has a name and a value. *)
THEOREM ConfigFileTypeHolds == ConfigFileSpec => []ConfigFileTypeOK
<1>1. ConfigInv => ConfigFileTypeOK
  BY DEF ConfigInv, ConfigFileTypeOK, SettingRecords
<1>2. QED
  BY <1>1, ConfigInvHolds, PTL

(* For files and lines of any length and a buffer of any size, the settings are
   those of the file's lines, in order. *)
THEOREM LinesReadHolds == ConfigFileSpec => []LinesRead
<1>1. ConfigInv => LinesRead
  BY DEF ConfigInv, LinesRead, InOrder
<1>2. QED
  BY <1>1, ConfigInvHolds, PTL

(* However the file is cut into pieces, names and values are bare words. *)
THEOREM SettingsBareHolds == ConfigFileSpec => []SettingsBare
<1>1. ConfigInv => SettingsBare
  BY DEF ConfigInv
<1>2. QED
  BY <1>1, ConfigInvHolds, PTL

(***************************************************************************)
(* rdklogctrl                                                              *)
(***************************************************************************)

(* What rdklogctrl has checked so far still holds of its arguments; what it has
   read of the process does unless something got in the way. *)
LogCtrlInv ==
  /\ args \in ArgumentLists
  /\ progname \in [Pids -> Programs \cup {Nothing}]
  /\ cmdline \in [Pids -> Programs \cup {Nothing}]
  /\ ~disturbed => cmdline = progname
  /\ step \in {"check", "resolve", "send", "end"}
  /\ result \in {Nothing, 0, -1} /\ (result # Nothing <=> step = "end")
  /\ received # Nothing <=> result = 0
  /\ step \in {"resolve", "send"} => Usable(args)
  /\ step = "send" =>
       /\ process_name \in Programs /\ process_name.length \in 1..NameMax
       /\ ~disturbed => args.pid \in Pids /\ process_name = progname[args.pid]
  /\ NoneRefused

(* Nothing is cut when a name of a permitted length is copied into a datagram. *)
LEMMA FieldWhole ==
  ASSUME NEW name \in Names, name.length <= NameMax
  PROVE  Field(name) = name
  BY DEF Field, Names

(* A word that validate_loglevel takes has the code of the level of that name. *)
LEMMA CodesAndNames ==
  ASSUME NEW level \in [word : STRING, longer : BOOLEAN], LevelOf(level) # -1
  PROVE  LevelOf(level) \in Levels /\ LevelNames[LevelOf(level) + 1] = level.word
  <1>1. level.word \in {"FATAL", "ERROR", "WARN", "NOTICE", "INFO", "DEBUG", "TRACE", "NONE"}
        /\ LevelOf(level) = Codes[level.word]
    BY DEF LevelOf, Codes
  <1>2. QED
    BY <1>1 DEF Codes, LevelNames, Levels, FATAL, NONE

(* And the name of every level has a code. *)
LEMMA EveryNameHasCode ==
  ASSUME NEW l \in Levels
  PROVE  LevelNames[l + 1] \in DOMAIN Codes /\ Codes[LevelNames[l + 1]] # -1
  <1>1. l \in {0, 1, 2, 3, 4, 5, 6, 7}
    BY DEF Levels, FATAL, NONE
  <1>2. QED
    BY <1>1 DEF Codes, LevelNames

(* The datagram rdklogctrl sends, field by field. *)
LEMMA MessageWhole ==
  ASSUME LogCtrlInv, step = "send"
  PROVE  /\ Message \in Messages
         /\ LevelNames[Message.log_level + 1] = args.level.word
         /\ Message.app_name = process_name
         /\ Message.component_name = args.component
  <1>1. Usable(args) /\ process_name \in Names /\ process_name.length <= NameMax
    BY LogCtrlAssumption DEF LogCtrlInv
  <1>2. args.component \in Names /\ args.component.length <= NameMax
    BY <1>1, LogCtrlAssumption DEF LogCtrlInv, Usable, ComponentFits
  <1>3. /\ LevelOf(args.level) \in Levels
        /\ LevelNames[LevelOf(args.level) + 1] = args.level.word
    BY <1>1, CodesAndNames, LogCtrlAssumption DEF Usable, LogCtrlInv
  <1>4. Field(process_name) = process_name /\ Field(args.component) = args.component
    BY <1>1, <1>2, FieldWhole
  <1>5. QED
    BY <1>1, <1>2, <1>3, <1>4 DEF Message, Messages

(* Arguments that main refuses before it looks at the process. *)
LEMMA RefusedArguments ==
  ASSUME args \in ArgumentLists, args.pid \in Pids, ~Usable(args)
  PROVE  \/ args.argc # 4 \/ ~args.prefixed
         \/ args.level.word \notin {LevelNames[l + 1] : l \in Levels}
         \/ args.level.word = "TRACE" /\ args.level.longer
         \/ args.component.length \notin 1..NameMax
  <1>1. args.pid # Nothing /\ args.pid > 0 /\ args.pid <= IntMax /\ args.pid <= LongMax
    <2>1. /\ args.pid \in 1..IntMax /\ Nothing \notin Int
          /\ IntMax \in Nat /\ LongMax \in Nat /\ IntMax <= LongMax
      BY LogCtrlAssumption
    <2>2. QED
      BY <2>1
  <1>2. args.component.length \in Nat
    BY LogCtrlAssumption DEF Names
  <1>3. \/ LevelOf(args.level) # -1
        \/ args.level.word \notin {LevelNames[l + 1] : l \in Levels}
        \/ args.level.word = "TRACE" /\ args.level.longer
    BY EveryNameHasCode, LogCtrlAssumption DEF LevelOf
  <1>4. QED
    BY <1>1, <1>2, <1>3, LogCtrlAssumption DEF Usable, ComponentFits

(* Main has not returned at the start. *)
LEMMA LogCtrlInvInit == LogCtrlInit => LogCtrlInv
  BY LogCtrlAssumption DEF LogCtrlInit, LogCtrlInv, NoneRefused

(* One step per action of rdklogctrl and of the processes around it. *)
LEMMA LogCtrlInvStep ==
  ASSUME PathsFit, LogCtrlInv, [LogCtrlNext]_logCtrlVars
  PROVE  LogCtrlInv'
  <1>a. Nothing \notin Int \cup Programs
    BY LogCtrlAssumption
  <1> USE <1>a
  <1>1. CASE Check
    <2>1. CASE Usable(args)
      BY <1>1, <2>1 DEF Check, LogCtrlInv, NoneRefused
    <2>2. CASE ~Usable(args)
      BY <1>1, <2>2, RefusedArguments DEF Check, Return, LogCtrlInv, NoneRefused
    <2>3. QED
      BY <2>1, <2>2
  <1>2. CASE Resolve
    <2> DEFINE name == IF args.pid \in Pids THEN cmdline[args.pid] ELSE Nothing
    <2>1. CASE name # Nothing /\ name.length \in 1..NameMax
      BY <1>2, <2>1 DEF Resolve, LogCtrlInv, NoneRefused
    <2>2. CASE ~(name # Nothing /\ name.length \in 1..NameMax)
      BY <1>2, <2>2 DEF Resolve, Return, LogCtrlInv, NoneRefused
    <2>3. QED
      BY <2>1, <2>2
  <1>3. CASE Send
    <2>1. CASE /\ Listens(args.pid, process_name)
               /\ received' = [pid |-> args.pid, message |-> Message]
               /\ Return(0)
               /\ UNCHANGED disturbed
      <3>1. received' \in [pid : Pids, message : Messages]
        BY <1>3, <2>1, MessageWhole DEF Send, Listens
      <3>2. received' # Nothing
        BY <3>1, LogCtrlAssumption
      <3>3. QED
        BY <1>3, <2>1, <3>2 DEF Send, Return, LogCtrlInv, NoneRefused
    <2>2. CASE /\ Return(-1)
               /\ disturbed' = (disturbed \/ Listens(args.pid, process_name))
               /\ UNCHANGED received
      <3>1. ~disturbed => Listens(args.pid, process_name)
        BY <1>3 DEF Send, LogCtrlInv, Listens, PathsFit
      <3>2. disturbed' = TRUE
        BY <2>2, <3>1
      <3>3. QED
        BY <1>3, <2>2, <3>2 DEF Send, Return, LogCtrlInv, NoneRefused
    <2>3. QED
      BY <1>3, <2>1, <2>2 DEF Send
  <1>4. ASSUME NEW p \in Pids, NEW name \in Programs \cup {Nothing}, Replace(p, name)
        PROVE  LogCtrlInv'
    BY <1>4 DEF Replace, LogCtrlInv, NoneRefused
  <1>5. ASSUME NEW p \in Pids, NEW name \in Programs, Rename(p, name)
        PROVE  LogCtrlInv'
    BY <1>5 DEF Rename, LogCtrlInv, NoneRefused
  <1>6. CASE UNCHANGED logCtrlVars
    BY <1>6 DEF logCtrlVars, LogCtrlInv, NoneRefused
  <1>7. QED
    BY <1>1, <1>2, <1>3, <1>4, <1>5, <1>6 DEF LogCtrlNext

(* rdklogctrl returns 0 if, and only if, it has sent the change. *)
THEOREM ResultTrueHolds == ASSUME PathsFit PROVE LogCtrlSpec => []ResultTrue
<1>1. LogCtrlInv => ResultTrue
  BY DEF LogCtrlInv, ResultTrue
<1>2. LogCtrlInv /\ [LogCtrlNext]_logCtrlVars => LogCtrlInv'
  BY LogCtrlInvStep
<1>3. QED
  BY <1>1, <1>2, LogCtrlInvInit, PTL DEF LogCtrlSpec

(* A change that can be sent is sent, unless something got in the way. *)
THEOREM NoneRefusedHolds == ASSUME PathsFit PROVE LogCtrlSpec => []NoneRefused
<1>1. LogCtrlInv => NoneRefused
  BY DEF LogCtrlInv
<1>2. LogCtrlInv /\ [LogCtrlNext]_logCtrlVars => LogCtrlInv'
  BY LogCtrlInvStep
<1>3. QED
  BY <1>1, <1>2, LogCtrlInvInit, PTL DEF LogCtrlSpec

(* What a process receives is the change that was asked for, and it accepts
   it. *)
THEOREM SentIsAppliedHolds == ASSUME PathsFit PROVE LogCtrlSpec => SentIsApplied
<1>1. LogCtrlInv /\ [LogCtrlNext]_logCtrlVars =>
        [received' # received =>
           /\ Accepts(progname[received'.pid], received'.message)
           /\ received'.pid = args.pid
           /\ LevelNames[received'.message.log_level + 1] = args.level.word
           /\ received'.message.component_name = args.component]_logCtrlVars
  <2>1. ASSUME LogCtrlInv, LogCtrlNext, received' # received
        PROVE  /\ Accepts(progname[received'.pid], received'.message)
               /\ received'.pid = args.pid
               /\ LevelNames[received'.message.log_level + 1] = args.level.word
               /\ received'.message.component_name = args.component
    <3>1. Send
      BY <2>1 DEF LogCtrlNext, Check, Resolve, Replace, Rename
    <3>2. /\ Listens(args.pid, process_name)
          /\ received' = [pid |-> args.pid, message |-> Message]
      BY <2>1, <3>1 DEF Send
    <3>3. QED
      BY <2>1, <3>1, <3>2, MessageWhole DEF Send, Listens, Accepts, Messages
  <2>2. QED
    BY <2>1
<1>2. LogCtrlInv /\ [LogCtrlNext]_logCtrlVars => LogCtrlInv'
  BY LogCtrlInvStep
<1>3. QED
  BY <1>1, <1>2, LogCtrlInvInit, PTL DEF LogCtrlSpec, SentIsApplied

(***************************************************************************)
(* The onboarding log and the milestones                                   *)
(***************************************************************************)

(* The characters of lines. *)
Glyphs == STRING \cup ControlCharacters \cup {" "}

Strings == Seq(Glyphs)

LineTypes ==
  [process : Processes \cup {NoText}, number : Nat, time : Nat,
   module : Strings \cup {NoText}, text : Strings, before : Nat]

LogsType ==
  /\ now \in 0..MaxTime /\ markers \subseteq Markers
  /\ onboarding \in Seq(LineTypes) /\ milestones \in Seq(LineTypes)
  /\ at \in [Processes -> {"idle", "marker 1", "marker 2", "format", "write", "open", "append"}]
  /\ line \in [Processes -> LineTypes]
  /\ made \in [Processes -> 0..MaxCalls] /\ late \in [Processes -> 0..1]

(* A line that fits into the buffer and cannot look like two. *)
Bare(s) == ToSet(s) \cap ControlCharacters = {}

Printable(l) ==
  /\ Len(l.text) < MaxBufSize /\ Bare(l.text)
  /\ l.module # NoText => Bare(l.module)

(* The line of the call a process is making. *)
LinesUnderway ==
  \A p \in Processes :
    /\ at[p] # "idle" =>
         /\ line[p].process = p /\ line[p].number = made[p] /\ made[p] > 0
         /\ line[p].before <= Len(milestones)
    /\ at[p] = "write" => Printable(line[p])
    /\ at[p] = "append" =>
         /\ line[p].time <= now
         /\ \A i \in 1..line[p].before : milestones[i].time <= line[p].time

(* The lines of the onboarding log come from calls that have ended. *)
LinesOfCalls ==
  /\ \A i \in DOMAIN onboarding :
       LET l == onboarding[i]
       IN  /\ Printable(l) /\ l.process \in Processes
           /\ l.number <= made[l.process]
           /\ at[l.process] # "idle" => l.number < made[l.process]
  /\ \A i, j \in DOMAIN onboarding :
       i # j => <<onboarding[i].process, onboarding[i].number>>
                  # <<onboarding[j].process, onboarding[j].number>>

(* A process that has written late finds a marker before it can write again:
   past the first test only if it is the other one that was there. *)
LateSteps ==
  \A p \in Processes : late[p] = 1 =>
    /\ markers # {} /\ made[p] > 0
    /\ at[p] = "marker 2" => "disabled" \in markers
    /\ at[p] \notin {"format", "write"}

(* No time is later than now, and a call begins before its line is there. *)
MilestoneTimes ==
  /\ \A i \in DOMAIN milestones :
       milestones[i].time <= now /\ milestones[i].before < i
  /\ MilestonesInOrder

LogsInv ==
  LogsType /\ LinesUnderway /\ LinesOfCalls /\ LateSteps /\ MilestoneTimes

(* A sequence is a function on its positions. *)
LEMMA Elements ==
  ASSUME NEW S, NEW s \in Seq(S)
  PROVE  DOMAIN s = 1..Len(s) /\ Len(s) \in Nat /\ \A i \in DOMAIN s : s[i] \in S
  OBVIOUS

(* The arguments of calls are strings, also with the newline of
   rdk_logger_onboard_main. *)
LEMMA ArgumentStrings ==
  ASSUME NEW s \in Arguments
  PROVE  s \in Strings /\ Append(s, EOL) \in Strings
  <1>1. STRING \subseteq Glyphs /\ EOL \in Glyphs
    BY DEF Glyphs, ControlCharacters
  <1>2. s \in Seq(STRING)
    BY AppendedLogsAssumption
  <1>3. s \in Strings
    BY <1>1, <1>2, SeqMonotonic DEF Strings
  <1>4. QED
    BY <1>1, <1>3 DEF Strings

(* What vsnprintf leaves fits. *)
LEMMA CutShort ==
  ASSUME NEW s \in Strings
  PROVE  Cut(s) \in Strings /\ Len(Cut(s)) < MaxBufSize
  <1> DEFINE k == Min({Len(s), MaxBufSize - 1})
  <1>1. Len(s) \in Nat /\ MaxBufSize \in Nat /\ MaxBufSize - 1 \in Nat
    BY AppendedLogsAssumption DEF Strings
  <1>2. k \in 0..Len(s) /\ k < MaxBufSize
    BY <1>1, MinOfTwo
  <1>3. SubSeq(s, 1, k) \in Seq(Glyphs) /\ Len(SubSeq(s, 1, k)) = k
    BY <1>2, BeginningOf DEF Strings
  <1>4. QED
    BY <1>2, <1>3 DEF Cut, Strings

(* sanitize_log_message changes control characters and nothing else. *)
LEMMA SanitizeBare ==
  ASSUME NEW s \in Strings
  PROVE  Sanitize(s) \in Strings /\ Len(Sanitize(s)) = Len(s) /\ Bare(Sanitize(s))
  <1>1. DOMAIN s = 1..Len(s) /\ Len(s) \in Nat /\ \A i \in DOMAIN s : s[i] \in Glyphs
    BY Elements DEF Strings
  <1>2. Sanitize(s) \in [1..Len(s) -> Glyphs]
    <2>1. " " \in Glyphs
      BY DEF Glyphs
    <2>2. QED
      BY <1>1, <2>1 DEF Sanitize
  <1>3. Sanitize(s) \in Strings /\ Len(Sanitize(s)) = Len(s)
    BY <1>1, <1>2 DEF Strings
  <1>4. " " \notin ControlCharacters
    BY DEF ControlCharacters, EOL
  <1>5. \A i \in DOMAIN Sanitize(s) : Sanitize(s)[i] \notin ControlCharacters
    BY <1>4 DEF Sanitize
  <1>6. QED
    BY <1>3, <1>5 DEF Bare, ToSet

(* Formatting makes a line printable, whatever the call was given. *)
LEMMA FormatPrintable ==
  ASSUME LogsType, NEW p \in Processes, Format(p)
  PROVE  /\ line'[p] \in LineTypes /\ Printable(line'[p])
         /\ line'[p].process = line[p].process
         /\ line'[p].number = line[p].number /\ line'[p].before = line[p].before
         /\ \A q \in Processes \ {p} : line'[q] = line[q]
  <1> DEFINE l == line[p]
             module == IF l.module = NoText THEN NoText ELSE Sanitize(Cut(l.module))
  <1>1. /\ line \in [Processes -> LineTypes] /\ l \in LineTypes /\ now \in Nat
        /\ l.text \in Strings /\ l.module \in Strings \cup {NoText}
    <2>1. line \in [Processes -> LineTypes] /\ now \in 0..MaxTime /\ MaxTime \in Nat
      BY AppendedLogsAssumption DEF LogsType
    <2>2. QED
      BY <2>1 DEF LineTypes
  <1>2. /\ Sanitize(Cut(l.text)) \in Strings /\ Bare(Sanitize(Cut(l.text)))
        /\ Len(Sanitize(Cut(l.text))) < MaxBufSize
    <2>1. Cut(l.text) \in Strings /\ Len(Cut(l.text)) < MaxBufSize
      BY <1>1, CutShort
    <2>2. QED
      BY <2>1, SanitizeBare
  <1>3. module \in Strings \cup {NoText} /\ (module # NoText => Bare(module))
    <2>1. CASE l.module = NoText
      BY <2>1
    <2>2. CASE l.module \in Strings
      BY <2>2, CutShort, SanitizeBare
    <2>3. QED
      BY <1>1, <2>1, <2>2
  <1>4. line' = [line EXCEPT ![p] =
          [l EXCEPT !.time = now, !.text = Sanitize(Cut(l.text)), !.module = module]]
    BY <1>1 DEF Format, LineTypes
  <1>5. /\ line'[p].time = now /\ line'[p].text = Sanitize(Cut(l.text))
        /\ line'[p].module = module
        /\ line'[p].process = l.process /\ line'[p].number = l.number
        /\ line'[p].before = l.before /\ line'[p] \in LineTypes
    BY <1>1, <1>2, <1>3, <1>4 DEF LineTypes
  <1>6. QED
    BY <1>1, <1>2, <1>3, <1>4, <1>5 DEF Printable

(* The line of a process that makes no call. *)
LEMMA NoLineType == NoLine \in LineTypes
  BY DEF NoLine, LineTypes, Strings

(* Nobody has called anything at the start. *)
LEMMA LogsInit == AppendedLogsInit => LogsInv
  <1>1. NoLine \in LineTypes
    BY NoLineType
  <1>2. MaxTime \in Nat /\ MaxCalls \in Nat
    BY AppendedLogsAssumption
  <1>3. << >> \in Seq(LineTypes) /\ DOMAIN << >> = {}
    OBVIOUS
  <1>4. QED
    BY <1>1, <1>2, <1>3 DEF AppendedLogsInit, LogsInv, LogsType, LinesUnderway, LinesOfCalls,
       LateSteps, MilestoneTimes, MilestonesInOrder

(* The line at the beginning of a call. *)
LEMMA CalledLine ==
  ASSUME LogsType, NEW p \in Processes, NEW module \in Arguments \cup {NoText},
         NEW text_ \in Strings, Called(p, module, text_)
  PROVE  /\ line' \in [Processes -> LineTypes]
         /\ line'[p].process = p /\ line'[p].number = made[p] + 1
         /\ line'[p].before = Len(milestones)
         /\ \A q \in Processes \ {p} : line'[q] = line[q]
         /\ at[p] = "idle" /\ made' = [made EXCEPT ![p] = @ + 1]
         /\ made'[p] \in 1..MaxCalls /\ made' \in [Processes -> 0..MaxCalls]
  <1>1. made[p] \in Nat /\ Len(milestones) \in Nat /\ module \in Strings \cup {NoText}
    <2>1. made \in [Processes -> 0..MaxCalls] /\ milestones \in Seq(LineTypes)
      BY DEF LogsType
    <2>2. module \in Strings \cup {NoText}
      BY ArgumentStrings
    <2>3. QED
      BY <2>1, <2>2, Elements
  <1>2. [process |-> p, number |-> made[p] + 1, time |-> 0, module |-> module, text |-> text_,
         before |-> Len(milestones)] \in LineTypes
    BY <1>1 DEF LineTypes
  <1>3. made[p] < MaxCalls /\ MaxCalls \in Nat
    BY AppendedLogsAssumption DEF Called
  <1>4. line \in [Processes -> LineTypes] /\ made \in [Processes -> 0..MaxCalls]
    BY DEF LogsType
  <1>5. made' = [made EXCEPT ![p] = @ + 1] /\ at[p] = "idle"
    BY DEF Called
  <1>6. /\ line' = [line EXCEPT ![p] =
             [process |-> p, number |-> made[p] + 1, time |-> 0, module |-> module,
              text |-> text_, before |-> Len(milestones)]]
    BY DEF Called
  <1>7. made'[p] \in 1..MaxCalls /\ made' \in [Processes -> 0..MaxCalls]
    BY <1>1, <1>3, <1>4, <1>5
  <1>8. QED
    BY <1>2, <1>4, <1>5, <1>6, <1>7

(* What every step uses of the invariant. *)
LEMMA LogsFacts ==
  ASSUME LogsInv
  PROVE  /\ now \in 0..MaxTime /\ MaxTime \in Nat /\ MaxCalls \in Nat
         /\ DOMAIN onboarding = 1..Len(onboarding) /\ Len(onboarding) \in Nat
         /\ DOMAIN milestones = 1..Len(milestones) /\ Len(milestones) \in Nat
         /\ \A i \in DOMAIN onboarding : onboarding[i] \in LineTypes
         /\ \A i \in DOMAIN milestones :
              /\ milestones[i] \in LineTypes
              /\ milestones[i].time \in Nat /\ milestones[i].before \in Nat
         /\ \A p \in Processes :
              /\ made[p] \in 0..MaxCalls /\ late[p] \in 0..1 /\ line[p] \in LineTypes
              /\ line[p].time \in Nat /\ line[p].before \in Nat /\ line[p].number \in Nat
  <1>1. /\ onboarding \in Seq(LineTypes) /\ milestones \in Seq(LineTypes)
        /\ line \in [Processes -> LineTypes] /\ now \in 0..MaxTime
        /\ made \in [Processes -> 0..MaxCalls] /\ late \in [Processes -> 0..1]
    BY DEF LogsInv, LogsType
  <1>2. \A l \in LineTypes : l.time \in Nat /\ l.before \in Nat /\ l.number \in Nat
    BY DEF LineTypes
  <1>3. QED
    BY <1>1, <1>2, Elements, AppendedLogsAssumption

(* p is the only process that moves. *)
MovesAlone(p) ==
  /\ at' \in [Processes -> {"idle", "marker 1", "marker 2", "format", "write", "open", "append"}]
  /\ \A q \in Processes \ {p} : at'[q] = at[q]

StartsCall(p) == MovesAlone(p) /\ at'[p] \in {"marker 1", "open"}

(* p moves between the steps of a call, or ends it, and writes nothing. *)
MovesQuietly(p) ==
  /\ MovesAlone(p) /\ at[p] # "idle" /\ at'[p] \in {"idle", "marker 2", "format"}
  /\ \/ line' = line /\ at'[p] # "idle"
     \/ line' = [line EXCEPT ![p] = NoLine] /\ at'[p] = "idle"
  /\ late[p] = 1 /\ at'[p] = "marker 2" => "disabled" \in markers
  /\ late[p] = 1 => at'[p] # "format"
  /\ UNCHANGED <<now, markers, onboarding, milestones, made, late>>

(* A call begins. *)
LEMMA CalledStep ==
  ASSUME LogsInv, NEW p \in Processes, NEW module \in Arguments \cup {NoText},
         NEW text_ \in Strings, Called(p, module, text_),
         StartsCall(p)
  PROVE  LogsInv'
  <1>1. /\ line' \in [Processes -> LineTypes]
        /\ line'[p].process = p /\ line'[p].number = made[p] + 1
        /\ line'[p].before = Len(milestones)
        /\ \A q \in Processes \ {p} : line'[q] = line[q]
        /\ at[p] = "idle" /\ made' = [made EXCEPT ![p] = @ + 1]
        /\ made'[p] \in 1..MaxCalls /\ made' \in [Processes -> 0..MaxCalls]
    BY CalledLine DEF LogsInv
  <1>2. UNCHANGED <<now, markers, onboarding, milestones, late>>
    BY DEF Called
  <1>3. /\ at' \in [Processes -> {"idle", "marker 1", "marker 2", "format", "write", "open", "append"}]
        /\ \A q \in Processes \ {p} : at'[q] = at[q]
        /\ made \in [Processes -> 0..MaxCalls] /\ MaxCalls \in Nat
    BY AppendedLogsAssumption DEF StartsCall, MovesAlone, LogsInv, LogsType
  <1>4. LogsType'
    BY <1>1, <1>2, <1>3 DEF LogsInv, LogsType
  <1>a. /\ made'[p] = made[p] + 1 /\ made[p] \in Nat
        /\ \A q \in Processes \ {p} : at'[q] = at[q] /\ made'[q] = made[q]
    <2>1. made[p] \in 0..MaxCalls
      BY <1>3
    <2>2. made'[p] = made[p] + 1
      BY <1>1, <1>3
    <2>0. MaxCalls \in Nat
      BY AppendedLogsAssumption
    <2>3. made[p] \in Nat
      BY <2>0, <2>1
    <2>4. \A q \in Processes \ {p} : at'[q] = at[q] /\ made'[q] = made[q]
      BY <1>1, <1>3
    <2>5. QED
      BY <1>3, <2>1, <2>2, <2>3, <2>4
  <1>b. Len(milestones) \in Nat /\ made'[p] > 0 /\ made'[p] > made[p]
    BY <1>a, LogsFacts
  <1>c. at'[p] \notin {"idle", "write", "append", "marker 2", "format"}
    BY DEF StartsCall
  <1>5. LinesUnderway'
    <2>1. ASSUME NEW q \in Processes \ {p}
          PROVE  line'[q] = line[q] /\ at'[q] = at[q] /\ made'[q] = made[q]
      BY <1>1, <1>a
    <2>2. UNCHANGED <<now, milestones>>
      BY <1>2
    <2>3. /\ line'[p].process = p /\ line'[p].number = made'[p]
          /\ made'[p] > 0 /\ line'[p].before <= Len(milestones')
      BY <1>1, <1>2, <1>a, <1>b
    <2>4. QED
      BY <1>a, <1>c, <2>1, <2>2, <2>3 DEF LogsInv, LinesUnderway, Printable
  <1>6. LinesOfCalls'
    <2>1. ASSUME NEW i \in DOMAIN onboarding
          PROVE  /\ onboarding[i].process \in Processes /\ onboarding[i].number \in Nat
                 /\ onboarding[i].number <= made[onboarding[i].process]
      BY LogsFacts DEF LogsInv, LinesOfCalls, LineTypes
    <2>2. ASSUME NEW i \in DOMAIN onboarding
          PROVE  LET l == onboarding[i]
                 IN  /\ l.number <= made'[l.process]
                     /\ at'[l.process] # "idle" => l.number < made'[l.process]
      <3>1. CASE onboarding[i].process = p
        BY <1>a, <2>1, <3>1
      <3>2. CASE onboarding[i].process # p
        BY <1>a, <2>1, <3>2 DEF LogsInv, LinesOfCalls
      <3>3. QED
        BY <3>1, <3>2
    <2>3. QED
      BY <1>2, <2>2 DEF LogsInv, LinesOfCalls
  <1>7. LateSteps'
    BY <1>2, <1>a, <1>b, <1>c DEF LogsInv, LateSteps
  <1>8. MilestoneTimes'
    BY <1>2 DEF LogsInv, MilestoneTimes, MilestonesInOrder
  <1>9. QED
    BY <1>4, <1>5, <1>6, <1>7, <1>8 DEF LogsInv

(* A step between those that write. *)
LEMMA QuietStep ==
  ASSUME LogsInv, NEW p \in Processes, MovesQuietly(p)
  PROVE  LogsInv'
  <1>1. /\ at' \in [Processes -> {"idle", "marker 1", "marker 2", "format", "write", "open", "append"}]
        /\ \A q \in Processes \ {p} : at'[q] = at[q]
        /\ line \in [Processes -> LineTypes]
    BY DEF MovesQuietly, MovesAlone, LogsInv, LogsType
  <1>2. UNCHANGED <<now, markers, onboarding, milestones, made, late>>
    BY DEF MovesQuietly
  <1>3. /\ at[p] # "idle" /\ at'[p] \in {"idle", "marker 2", "format"}
        /\ \/ line' = line
           \/ line' = [line EXCEPT ![p] = NoLine] /\ at'[p] = "idle"
    BY DEF MovesQuietly
  <1>4. LogsType'
    BY <1>1, <1>2, <1>3, NoLineType DEF LogsInv, LogsType
  <1>5. LinesUnderway'
    <2>1. ASSUME NEW q \in Processes \ {p}
          PROVE  line'[q] = line[q] /\ at'[q] = at[q] /\ made'[q] = made[q]
      BY <1>1, <1>2, <1>3
    <2>2. at'[p] # "idle" => line'[p] = line[p]
      BY DEF MovesQuietly
    <2>3. UNCHANGED <<now, milestones, made>>
      BY <1>2
    <2>4. at[p] # "idle" /\ at'[p] \notin {"write", "append"}
      BY <1>3
    <2>5. QED
      BY <2>1, <2>2, <2>3, <2>4 DEF LogsInv, LinesUnderway, Printable
  <1>6. LinesOfCalls'
    <2>1. \A q \in Processes : at'[q] # "idle" => at[q] # "idle"
      BY <1>1, <1>3
    <2>2. UNCHANGED <<onboarding, made>>
      BY <1>2
    <2>3. QED
      BY <2>1, <2>2 DEF LogsInv, LinesOfCalls
  <1>7. LateSteps'
    BY <1>1, <1>2 DEF MovesQuietly, LogsInv, LateSteps
  <1>8. MilestoneTimes'
    BY <1>2 DEF LogsInv, MilestoneTimes, MilestonesInOrder
  <1>9. QED
    BY <1>4, <1>5, <1>6, <1>7, <1>8 DEF LogsInv

(* A marker ends the call, or the next one is looked for. *)
LEMMA SeeMarkerStep ==
  ASSUME LogsInv, NEW p \in Processes, SeeMarker(p)
  PROVE  LogsInv'
  <1> DEFINE marker == IF at[p] = "marker 1" THEN "onboarded" ELSE "disabled"
             label == IF at[p] = "marker 1" THEN "marker 2" ELSE "format"
  <1>1. /\ at[p] \in {"marker 1", "marker 2"}
        /\ UNCHANGED <<now, markers, onboarding, milestones, made, late>>
        /\ at \in [Processes -> {"idle", "marker 1", "marker 2", "format", "write", "open", "append"}]
        /\ markers \subseteq {"onboarded", "disabled"}
    BY AppendedLogsAssumption DEF SeeMarker, LogsInv, LogsType
  <1>2. \/ /\ marker \in markers
           /\ line' = [line EXCEPT ![p] = NoLine] /\ at' = [at EXCEPT ![p] = "idle"]
        \/ /\ marker \notin markers
           /\ line' = line /\ at' = [at EXCEPT ![p] = label]
    BY DEF SeeMarker, Done, Move
  <1>3. late[p] = 1 => markers # {} /\ (at[p] = "marker 2" => "disabled" \in markers)
    BY DEF LogsInv, LateSteps
  <1>4. MovesAlone(p)
    BY <1>1, <1>2 DEF MovesAlone
  <1>5. late[p] = 1 /\ at'[p] = "marker 2" => "disabled" \in markers
    BY <1>1, <1>2, <1>3
  <1>6. late[p] = 1 => at'[p] # "format"
    BY <1>1, <1>2, <1>3
  <1>7. /\ at[p] # "idle" /\ at'[p] \in {"idle", "marker 2", "format"}
        /\ \/ line' = line /\ at'[p] # "idle"
           \/ line' = [line EXCEPT ![p] = NoLine] /\ at'[p] = "idle"
    BY <1>1, <1>2
  <1>8. MovesQuietly(p)
    BY <1>1, <1>4, <1>5, <1>6, <1>7 DEF MovesQuietly
  <1>9. QED
    BY <1>8, QuietStep

(* A call has its text formatted. *)
LEMMA FormatStep ==
  ASSUME LogsInv, NEW p \in Processes, Format(p)
  PROVE  LogsInv'
  <1>1. /\ line'[p] \in LineTypes /\ Printable(line'[p])
        /\ line'[p].process = line[p].process
        /\ line'[p].number = line[p].number /\ line'[p].before = line[p].before
        /\ \A q \in Processes \ {p} : line'[q] = line[q]
    BY FormatPrintable DEF LogsInv
  <1>2. /\ at[p] = "format" /\ at' = [at EXCEPT ![p] = "write"]
        /\ UNCHANGED <<now, markers, onboarding, milestones, made, late>>
    BY DEF Format, Move
  <1>3. /\ at \in [Processes -> {"idle", "marker 1", "marker 2", "format", "write", "open", "append"}]
        /\ line \in [Processes -> LineTypes]
    BY DEF LogsInv, LogsType
  <1>4. line' \in [Processes -> LineTypes]
    <2>1. \E f : line' = [line EXCEPT ![p] = f]
      BY DEF Format
    <2>2. QED
      BY <1>1, <1>3, <2>1
  <1>5. LogsType'
    BY <1>2, <1>3, <1>4 DEF LogsInv, LogsType
  <1>6. LinesUnderway'
    BY <1>1, <1>2, <1>3 DEF LogsInv, LinesUnderway, Printable
  <1>7. LinesOfCalls'
    BY <1>2, <1>3 DEF LogsInv, LinesOfCalls
  <1>8. LateSteps'
    BY <1>2, <1>3 DEF LogsInv, LateSteps
  <1>9. MilestoneTimes'
    BY <1>2 DEF LogsInv, MilestoneTimes, MilestonesInOrder
  <1>10. QED
    BY <1>5, <1>6, <1>7, <1>8, <1>9 DEF LogsInv

(* A line is added behind the others. *)
LEMMA Added ==
  ASSUME NEW S, NEW s \in Seq(S), NEW x \in S
  PROVE  /\ Append(s, x) \in Seq(S) /\ Len(Append(s, x)) = Len(s) + 1
         /\ \A i \in 1..Len(s) : Append(s, x)[i] = s[i]
         /\ Append(s, x)[Len(s) + 1] = x
         /\ DOMAIN Append(s, x) = 1..(Len(s) + 1)
         /\ IsPrefix(s, s) /\ IsPrefix(s, Append(s, x))
  BY DEF IsPrefix

(* The line of a call is added, or it goes to the console. *)
LEMMA WriteOnboardStep ==
  ASSUME LogsInv, NEW p \in Processes, WriteOnboard(p)
  PROVE  LogsInv'
  <1>1. /\ at[p] = "write" /\ at' = [at EXCEPT ![p] = "idle"]
        /\ line' = [line EXCEPT ![p] = NoLine]
        /\ late' = [late EXCEPT ![p] = IF markers = {} THEN @ ELSE @ + 1]
        /\ UNCHANGED <<now, markers, milestones, made>>
        /\ onboarding' \in {onboarding, Append(onboarding, line[p])}
    BY DEF WriteOnboard, Done, Move
  <1>2. /\ at \in [Processes -> {"idle", "marker 1", "marker 2", "format", "write", "open", "append"}]
        /\ line \in [Processes -> LineTypes] /\ late \in [Processes -> 0..1]
        /\ onboarding \in Seq(LineTypes)
    BY DEF LogsInv, LogsType
  <1>3. NoLine \in LineTypes
    BY NoLineType
  <1>4. late[p] = 0
    <2>1. late[p] # 1
      BY <1>1 DEF LogsInv, LateSteps
    <2>2. late[p] \in 0..1
      BY <1>2
    <2>3. QED
      BY <2>1, <2>2
  <1>5. late' \in [Processes -> 0..1] /\ (late'[p] = 1 => markers # {})
    <2>1. /\ late \in [Processes -> 0..1]
          /\ late' = [late EXCEPT ![p] = IF markers = {} THEN late[p] ELSE late[p] + 1]
      BY <1>1, <1>2
    <2>2. late' = [late EXCEPT ![p] = IF markers = {} THEN 0 ELSE 1]
      BY <1>4, <2>1
    <2>3. QED
      BY <2>1, <2>2
  <1>6. onboarding' \in Seq(LineTypes)
    <2>1. line[p] \in LineTypes
      BY <1>2
    <2>2. Append(onboarding, line[p]) \in Seq(LineTypes)
      BY <1>2, <2>1, Added
    <2>3. QED
      BY <1>1, <1>2, <2>2
  <1>7. LogsType'
    BY <1>1, <1>2, <1>3, <1>5, <1>6 DEF LogsInv, LogsType
  <1>8. LinesUnderway'
    BY <1>1, <1>2 DEF LogsInv, LinesUnderway, Printable
  <1>9. LinesOfCalls'
    <2>1. /\ line[p].process = p /\ line[p].number = made[p] /\ Printable(line[p])
      BY <1>1 DEF LogsInv, LinesUnderway
    <2>2. \A i \in DOMAIN onboarding :
            onboarding[i].process = p => onboarding[i].number < made[p]
      BY <1>1 DEF LogsInv, LinesOfCalls
    <2>3. CASE onboarding' = onboarding
      BY <1>1, <1>2, <2>3 DEF LogsInv, LinesOfCalls
    <2>4. CASE onboarding' = Append(onboarding, line[p])
      <3> DEFINE N == Len(onboarding)
      <3>1. /\ N \in Nat /\ DOMAIN onboarding = 1..N /\ DOMAIN onboarding' = 1..(N + 1)
            /\ \A i \in 1..N : onboarding'[i] = onboarding[i]
            /\ onboarding'[N + 1] = line[p]
        <4>1. line[p] \in LineTypes
          BY <1>2
        <4>2. /\ \A i \in 1..N : Append(onboarding, line[p])[i] = onboarding[i]
              /\ Append(onboarding, line[p])[N + 1] = line[p]
              /\ DOMAIN Append(onboarding, line[p]) = 1..(N + 1)
          <5>1. onboarding \in Seq(LineTypes)
            BY <1>2
          <5>2. QED
            BY <4>1, <5>1, Added
        <4>3. N \in Nat /\ DOMAIN onboarding = 1..N
          BY <1>2, Elements
        <4>4. QED
          BY <2>4, <4>2, <4>3
      <3>2. \A q \in Processes : made[q] \in Nat
        BY LogsFacts
      <3>3. ASSUME NEW i \in DOMAIN onboarding'
            PROVE  LET l == onboarding'[i]
                   IN  /\ Printable(l) /\ l.process \in Processes
                       /\ l.number <= made'[l.process]
                       /\ at'[l.process] # "idle" => l.number < made'[l.process]
        <4>1. CASE i \in 1..N
          BY <1>1, <1>2, <3>1, <4>1 DEF LogsInv, LinesOfCalls
        <4>2. CASE i = N + 1
          <5>1. onboarding'[i] = line[p] /\ at'[p] = "idle" /\ made' = made
            BY <1>1, <1>2, <3>1, <4>2
          <5>2. made[p] \in Nat
            BY <3>2
          <5>3. QED
            BY <2>1, <5>1, <5>2
        <4>3. QED
          BY <3>1, <4>1, <4>2
      <3>4. ASSUME NEW i \in DOMAIN onboarding', NEW j \in DOMAIN onboarding', i # j
            PROVE  <<onboarding'[i].process, onboarding'[i].number>>
                     # <<onboarding'[j].process, onboarding'[j].number>>
        <4>1. CASE i \in 1..N /\ j \in 1..N
          BY <3>1, <3>4, <4>1 DEF LogsInv, LinesOfCalls
        <4>2. ASSUME NEW k \in 1..N
              PROVE  <<onboarding'[k].process, onboarding'[k].number>>
                       # <<line[p].process, line[p].number>>
          <5>1. onboarding'[k] = onboarding[k] /\ onboarding[k].number \in Nat
            BY <3>1, LogsFacts DEF LineTypes
          <5>2. onboarding[k].process = p => onboarding[k].number < made[p]
            BY <2>2, <3>1
          <5>3. QED
            BY <2>1, <3>2, <5>1, <5>2
        <4>3. QED
          BY <3>1, <3>4, <4>1, <4>2
      <3>5. QED
        BY <1>1, <3>3, <3>4 DEF LinesOfCalls
    <2>5. QED
      BY <1>1, <2>3, <2>4
  <1>10. LateSteps'
    <2>1. made[p] > 0
      BY <1>1 DEF LogsInv, LinesUnderway
    <2>2. QED
      BY <1>1, <1>2, <1>5, <2>1 DEF LogsInv, LateSteps
  <1>11. MilestoneTimes'
    BY <1>1 DEF LogsInv, MilestoneTimes, MilestonesInOrder
  <1>12. QED
    BY <1>7, <1>8, <1>9, <1>10, <1>11 DEF LogsInv
(* A call of rdk_logger_log_onboard begins. *)
LEMMA CallOnboardStep ==
  ASSUME LogsInv, NEW p \in Processes, CallOnboard(p)
  PROVE  LogsInv'
  <1>1. PICK module \in Arguments \cup {NoText}, argument \in Arguments :
          Called(p, module, Append(argument, EOL)) /\ Move(p, "marker 1")
    BY DEF CallOnboard
  <1>2. Append(argument, EOL) \in Strings
    BY ArgumentStrings
  <1>3. StartsCall(p)
    BY <1>1 DEF StartsCall, MovesAlone, Move, LogsInv, LogsType
  <1>4. QED
    BY <1>1, <1>2, <1>3, CalledStep

(* A call of logMilestone begins. *)
LEMMA CallMilestoneStep ==
  ASSUME LogsInv, NEW p \in Processes, CallMilestone(p)
  PROVE  LogsInv'
  <1>1. PICK argument \in Arguments : Called(p, NoText, argument) /\ Move(p, "open")
    BY DEF CallMilestone
  <1>2. argument \in Strings
    BY ArgumentStrings
  <1>3. StartsCall(p)
    BY <1>1 DEF StartsCall, MovesAlone, Move, LogsInv, LogsType
  <1>4. QED
    BY <1>1, <1>2, <1>3, CalledStep

(* A milestone gets its time when everything it must not precede is in the
   file. *)
LEMMA OpenMilestonesStep ==
  ASSUME LogsInv, NEW p \in Processes, OpenMilestones(p)
  PROVE  LogsInv'
  <1>0. at \in [Processes -> {"idle", "marker 1", "marker 2", "format", "write", "open", "append"}]
    BY DEF LogsInv, LogsType
  <1>1. at[p] = "open" /\ UNCHANGED <<now, markers, onboarding, milestones, made, late>>
    BY DEF OpenMilestones
  <1>2. CASE Done(p)
    <2>1. /\ at' = [at EXCEPT ![p] = "idle"] /\ line' = [line EXCEPT ![p] = NoLine]
      BY <1>2 DEF Done, Move
    <2>2. MovesAlone(p) /\ at'[p] = "idle"
      BY <1>0, <2>1 DEF MovesAlone
    <2>3. MovesQuietly(p)
      BY <1>1, <2>1, <2>2 DEF MovesQuietly
    <2>4. QED
      BY <2>3, QuietStep
  <1>3. CASE Move(p, "append") /\ line' = [line EXCEPT ![p].time = UptimeMS(now)]
    <2>1. /\ now \in Nat /\ line[p] \in LineTypes /\ line[p].before \in Nat
          /\ DOMAIN milestones = 1..Len(milestones) /\ Len(milestones) \in Nat
      <3>1. now \in 0..MaxTime /\ MaxTime \in Nat
        BY LogsFacts
      <3>2. QED
        BY <3>1, LogsFacts
    <2>2. /\ line' = [line EXCEPT ![p] = [line[p] EXCEPT !.time = now]]
          /\ line \in [Processes -> LineTypes]
      BY <1>3 DEF UptimeMS, LogsInv, LogsType
    <2>3. /\ line'[p].process = line[p].process /\ line'[p].number = line[p].number
          /\ line'[p].before = line[p].before /\ line'[p].time = now
          /\ line'[p] \in LineTypes
      BY <2>1, <2>2 DEF LineTypes
    <2>4. line' \in [Processes -> LineTypes] /\ \A q \in Processes \ {p} : line'[q] = line[q]
      BY <2>2, <2>3
    <2>5. /\ at' = [at EXCEPT ![p] = "append"] /\ at'[p] = "append"
          /\ \A q \in Processes \ {p} : at'[q] = at[q]
      BY <1>0, <1>3 DEF Move
    <2>6. LogsType'
      BY <1>0, <1>1, <2>4, <2>5 DEF LogsInv, LogsType
    <2>7. LinesUnderway'
      <3>1. /\ line[p].process = p /\ line[p].number = made[p] /\ made[p] > 0
            /\ line[p].before <= Len(milestones)
        BY <1>1 DEF LogsInv, LinesUnderway
      <3>2. \A i \in DOMAIN milestones : milestones[i].time <= now
        BY DEF LogsInv, MilestoneTimes
      <3>3. \A i \in 1..line[p].before : milestones[i].time <= now
        BY <2>1, <3>1, <3>2
      <3>4. now <= now
        BY <2>1
      <3>5. UNCHANGED <<now, milestones, made>>
        BY <1>1
      <3>6. QED
        BY <2>3, <2>4, <2>5, <3>1, <3>3, <3>4, <3>5 DEF LogsInv, LinesUnderway, Printable
    <2>8. LinesOfCalls'
      BY <1>1, <2>5 DEF LogsInv, LinesOfCalls
    <2>9. LateSteps'
      BY <1>1, <2>5 DEF LogsInv, LateSteps
    <2>10. MilestoneTimes'
      BY <1>1 DEF LogsInv, MilestoneTimes, MilestonesInOrder
    <2>11. QED
      BY <2>6, <2>7, <2>8, <2>9, <2>10 DEF LogsInv
  <1>4. QED
    BY <1>2, <1>3 DEF OpenMilestones

(* The line of a milestone stands behind all it must not precede. *)
LEMMA AppendMilestoneStep ==
  ASSUME LogsInv, NEW p \in Processes, AppendMilestone(p)
  PROVE  LogsInv'
  <1> DEFINE N == Len(milestones)
  <1>1. /\ at[p] = "append" /\ milestones' = Append(milestones, line[p])
        /\ at' = [at EXCEPT ![p] = "idle"] /\ line' = [line EXCEPT ![p] = NoLine]
        /\ UNCHANGED <<now, markers, onboarding, made, late>>
    BY DEF AppendMilestone, Done, Move
  <1>2. /\ at \in [Processes -> {"idle", "marker 1", "marker 2", "format", "write", "open", "append"}]
        /\ line \in [Processes -> LineTypes] /\ milestones \in Seq(LineTypes)
    BY DEF LogsInv, LogsType
  <1>3. NoLine \in LineTypes /\ line[p] \in LineTypes
    BY <1>2, NoLineType
  <1>4. /\ milestones' \in Seq(LineTypes) /\ Len(milestones') = N + 1
        /\ DOMAIN milestones' = 1..(N + 1) /\ milestones'[N + 1] = line[p]
        /\ \A i \in 1..N : milestones'[i] = milestones[i]
    <2>1. milestones \in Seq(LineTypes) /\ line[p] \in LineTypes
      BY <1>2, <1>3
    <2>2. /\ Append(milestones, line[p]) \in Seq(LineTypes)
          /\ Len(Append(milestones, line[p])) = N + 1
          /\ DOMAIN Append(milestones, line[p]) = 1..(N + 1)
          /\ Append(milestones, line[p])[N + 1] = line[p]
          /\ \A i \in 1..N : Append(milestones, line[p])[i] = milestones[i]
      BY <2>1, Added
    <2>3. QED
      BY <1>1, <2>2
  <1>5. N \in Nat /\ DOMAIN milestones = 1..N
    BY <1>2, Elements
  <1>6. at'[p] = "idle" /\ \A q \in Processes \ {p} : at'[q] = at[q] /\ line'[q] = line[q]
    BY <1>1, <1>2
  <1>7. LogsType'
    BY <1>1, <1>2, <1>3, <1>4 DEF LogsInv, LogsType
  <1>8. LinesUnderway'
    <2>1. ASSUME NEW q \in Processes, at'[q] # "idle"
          PROVE  /\ line'[q].process = q /\ line'[q].number = made'[q] /\ made'[q] > 0
                 /\ line'[q].before <= Len(milestones')
                 /\ at'[q] = "write" => Printable(line'[q])
                 /\ at'[q] = "append" =>
                      /\ line'[q].time <= now'
                      /\ \A i \in 1..line'[q].before : milestones'[i].time <= line'[q].time
      <3>1. q # p /\ at'[q] = at[q] /\ line'[q] = line[q] /\ made' = made /\ now' = now
        BY <1>1, <1>6, <2>1
      <3>2. /\ line[q].process = q /\ line[q].number = made[q] /\ made[q] > 0
            /\ line[q].before <= N /\ line[q].before \in Nat
            /\ at[q] = "write" => Printable(line[q])
            /\ at[q] = "append" =>
                 /\ line[q].time <= now
                 /\ \A i \in 1..line[q].before : milestones[i].time <= line[q].time
        BY <2>1, <3>1, LogsFacts DEF LogsInv, LinesUnderway
      <3>3. line[q].before <= Len(milestones')
        BY <1>4, <1>5, <3>2
      <3>4. \A i \in 1..line[q].before : milestones'[i] = milestones[i]
        BY <1>4, <1>5, <3>2
      <3>5. QED
        BY <3>1, <3>2, <3>3, <3>4
    <2>2. QED
      BY <2>1 DEF LinesUnderway, Printable
  <1>9. LinesOfCalls'
    BY <1>1, <1>6 DEF LogsInv, LinesOfCalls
  <1>10. LateSteps'
    BY <1>1, <1>6 DEF LogsInv, LateSteps
  <1>11. MilestoneTimes'
    <2>1. /\ line[p].before \in Nat /\ line[p].before <= N /\ line[p].time <= now
          /\ line[p].time \in Nat
          /\ \A i \in 1..line[p].before : milestones[i].time <= line[p].time
      BY <1>1, LogsFacts DEF LogsInv, LinesUnderway
    <2>2. \A i \in 1..N :
            milestones[i].time <= now /\ milestones[i].before < i /\ milestones[i].before \in Nat
      BY <1>5, LogsFacts DEF LogsInv, MilestoneTimes
    <2>3. \A i \in DOMAIN milestones' :
            milestones'[i].time <= now' /\ milestones'[i].before < i
      <3>1. line[p].before < N + 1
        BY <1>5, <2>1
      <3>2. now' = now
        BY <1>1
      <3>3. QED
        BY <1>4, <1>5, <2>1, <2>2, <3>1, <3>2
    <2>4. ASSUME NEW i \in DOMAIN milestones', NEW j \in DOMAIN milestones',
                 i <= milestones'[j].before
          PROVE  milestones'[i].time <= milestones'[j].time
      <3>1. CASE j \in 1..N
        <4>1. milestones'[j] = milestones[j] /\ i <= milestones[j].before
          BY <1>4, <2>4, <3>1
        <4>2. i \in 1..N
          BY <1>4, <1>5, <2>2, <3>1, <4>1
        <4>3. QED
          BY <1>4, <1>5, <3>1, <4>1, <4>2 DEF LogsInv, MilestoneTimes, MilestonesInOrder
      <3>2. CASE j = N + 1
        <4>1. milestones'[j] = line[p] /\ i <= line[p].before
          BY <1>4, <2>4, <3>2
        <4>2. i \in 1..line[p].before /\ i \in 1..N
          BY <1>4, <1>5, <2>1, <4>1
        <4>3. QED
          BY <1>4, <2>1, <4>1, <4>2
      <3>3. QED
        BY <1>4, <1>5, <3>1, <3>2
    <2>5. QED
      BY <2>3, <2>4 DEF MilestoneTimes, MilestonesInOrder
  <1>12. QED
    BY <1>7, <1>8, <1>9, <1>10, <1>11 DEF LogsInv

(* The clock goes forward only. *)
LEMMA TickStep == ASSUME LogsInv, Tick PROVE LogsInv'
  <1>1. /\ now' = now + 1 /\ now \in 0..MaxTime /\ now < MaxTime /\ MaxTime \in Nat
        /\ UNCHANGED <<markers, onboarding, milestones, at, line, made, late>>
    BY LogsFacts DEF Tick
  <1>2. now' \in 0..MaxTime /\ \A n \in Nat : n <= now => n <= now'
    BY <1>1
  <1>3. LogsType'
    BY <1>1, <1>2 DEF LogsInv, LogsType
  <1>4. LinesUnderway'
    BY <1>1, <1>2, LogsFacts DEF LogsInv, LinesUnderway, Printable
  <1>5. MilestoneTimes'
    BY <1>1, <1>2, LogsFacts DEF LogsInv, MilestoneTimes, MilestonesInOrder
  <1>6. LinesOfCalls' /\ LateSteps'
    BY <1>1 DEF LogsInv, LinesOfCalls, LateSteps
  <1>7. QED
    BY <1>3, <1>4, <1>5, <1>6 DEF LogsInv

(* A marker that has appeared stays. *)
LEMMA MarkStep == ASSUME LogsInv, NEW m \in Markers, Mark(m) PROVE LogsInv'
  <1>1. /\ markers' = markers \cup {m}
        /\ UNCHANGED <<now, onboarding, milestones, at, line, made, late>>
    BY DEF Mark
  <1>2. LogsType'
    BY <1>1 DEF LogsInv, LogsType
  <1>3. LinesUnderway' /\ LinesOfCalls' /\ MilestoneTimes'
    BY <1>1 DEF LogsInv, LinesUnderway, LinesOfCalls, MilestoneTimes, MilestonesInOrder, Printable
  <1>4. LateSteps'
    BY <1>1 DEF LogsInv, LateSteps
  <1>5. QED
    BY <1>2, <1>3, <1>4 DEF LogsInv

(* One step per action of the processes and of the rest of the system. *)
LEMMA LogsInvStep ==
  ASSUME LogsInv, [AppendedLogsNext]_appendedLogsVars
  PROVE  LogsInv'
  <1>1. ASSUME NEW p \in Processes, Step(p)
        PROVE  LogsInv'
    BY <1>1, CallOnboardStep, SeeMarkerStep, FormatStep, WriteOnboardStep, CallMilestoneStep,
       OpenMilestonesStep, AppendMilestoneStep DEF Step
  <1>2. CASE Tick
    BY <1>2, TickStep
  <1>3. ASSUME NEW m \in Markers, Mark(m)
        PROVE  LogsInv'
    BY <1>3, MarkStep
  <1>4. CASE UNCHANGED appendedLogsVars
    BY <1>4 DEF appendedLogsVars, LogsInv, LogsType, LinesUnderway, LinesOfCalls, LateSteps,
       MilestoneTimes, MilestonesInOrder, Printable
  <1>5. QED
    BY <1>1, <1>2, <1>3, <1>4 DEF AppendedLogsNext

(* Every state of every behaviour is as LogsInv says. *)
LEMMA LogsInvHolds == AppendedLogsSpec => []LogsInv
<1>1. LogsInv /\ [AppendedLogsNext]_appendedLogsVars => LogsInv'
  BY LogsInvStep
<1>2. QED
  BY <1>1, LogsInit, PTL DEF AppendedLogsSpec

(* The variables have their types, and a line of the onboarding log fits into
   the buffer it was formatted in. *)
THEOREM AppendedLogsTypeHolds == AppendedLogsSpec => []AppendedLogsTypeOK
<1>1. LogsInv => AppendedLogsTypeOK
  <2>1. ASSUME LogsInv
        PROVE  late \in [Processes -> 0..MaxCalls]
    <3>1. \A p \in Processes : late[p] \in 0..1 /\ made[p] \in 0..MaxCalls /\ MaxCalls \in Nat
      BY <2>1, LogsFacts
    <3>2. \A p \in Processes : late[p] = 1 => made[p] > 0
      BY <2>1 DEF LogsInv, LateSteps
    <3>3. \A p \in Processes : late[p] \in 0..MaxCalls
      BY <3>1, <3>2
    <3>4. QED
      BY <2>1, <3>3 DEF LogsInv, LogsType
  <2>2. QED
    BY <2>1 DEF LogsInv, LogsType, LinesOfCalls, Printable, AppendedLogsTypeOK
<1>2. QED
  BY <1>1, LogsInvHolds, PTL

(* No call of rdk_logger_log_onboard adds what looks like two lines, and none
   adds two. *)
THEOREM OneLinePerCallHolds == AppendedLogsSpec => []OneLinePerCall
<1>1. LogsInv => OneLinePerCall
  BY DEF LogsInv, LinesOfCalls, Printable, Bare, OneLinePerCall
<1>2. QED
  BY <1>1, LogsInvHolds, PTL

(* A process adds one line at most when a marker is there. *)
THEOREM LateOnceHolds == AppendedLogsSpec => []LateOnce
<1>1. LogsInv => LateOnce
  BY LogsFacts DEF LateOnce
<1>2. QED
  BY <1>1, LogsInvHolds, PTL

(* A milestone that was in the file when another call began has no later time
   than the line of that call. *)
THEOREM MilestonesInOrderHolds == AppendedLogsSpec => []MilestonesInOrder
<1>1. LogsInv => MilestonesInOrder
  BY DEF LogsInv, MilestoneTimes
<1>2. QED
  BY <1>1, LogsInvHolds, PTL

================================================================================
