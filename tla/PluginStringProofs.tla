------------------------- MODULE PluginStringProofs -------------------------
(***************************************************************************)
(* Facts about the operators of PluginString, for strings and limits of    *)
(* any size.                                                               *)
(***************************************************************************)
EXTENDS PluginString, FiniteSetTheorems, WellFoundedInduction, SequenceTheorems, TLAPS

-----------------------------------------------------------------------------
(* The largest number of a set. *)

LEMMA Innermost ==
  ASSUME NEW S, IsFiniteSet(S), NEW Sets \in SUBSET (SUBSET S), Sets # {}
  PROVE  \E T \in Sets : \A U \in Sets : U \subseteq T => U = T
<1>1. FiniteSubsetsOf(S) = SUBSET S
  BY FS_FiniteSubsetsOfFinite
<1>2. IsWellFoundedOn(StrictSubsetOrdering(S), SUBSET S)
  BY <1>1, FS_StrictSubsetOrderingWellFounded
<1>3. PICK T \in Sets : \A U \in Sets : ~(<<U, T>> \in StrictSubsetOrdering(S))
  BY <1>2, WFMin
<1>. QED BY <1>3 DEF StrictSubsetOrdering

LEMMA MaxIsMost ==
  ASSUME NEW n \in Nat, NEW S \in SUBSET (0..n), S # {}
  PROVE  Max(S) \in S /\ \A x \in S : x <= Max(S)
<1>. DEFINE Sets == {m..n : m \in S}  S0 == 0..n
<1>1. Sets \in SUBSET (SUBSET S0) /\ Sets # {}
  <2>1. ASSUME NEW m \in S
        PROVE  m..n \subseteq S0
    OBVIOUS
  <2>2. PICK m \in S : TRUE
    OBVIOUS
  <2>3. m..n \in Sets
    OBVIOUS
  <2>. QED BY <2>1, <2>3
<1>2. IsFiniteSet(S0)
  BY FS_Interval
<1>3. PICK T \in Sets : \A U \in Sets : U \subseteq T => U = T
  <2>. HIDE DEF Sets, S0
  <2>. QED BY <1>1, <1>2, Innermost
<1>4. PICK m \in S : T = m..n
  OBVIOUS
<1>5. ASSUME NEW x \in S, m < x
      PROVE  FALSE
  <2>1. x..n \in Sets /\ x..n \subseteq T
    BY <1>4, <1>5
  <2>2. x..n = T
    BY <1>3, <2>1
  <2>3. m \in T /\ m \notin x..n
    BY <1>4, <1>5
  <2>. QED BY <2>2, <2>3
<1>6. \A x \in S : m >= x
  BY <1>5
<1>. QED BY <1>6 DEF Max

-----------------------------------------------------------------------------
(* Characters. *)

LEMMA CharLenIs ==
  ASSUME NEW b \in Bytes
  PROVE  /\ CharLen(b) \in 0..3
         /\ b = "cont" => CharLen(b) = 0
         /\ b \notin {"cont", "bad"} => CharLen(b) > 0
BY DEF Bytes, Ascii, CharLen

(* How far the continuations behind i go, of at most n. *)
Continued(s, i, n, k) ==
  /\ k \in 0..n
  /\ \A j \in 1..k : i + j \in DOMAIN s /\ s[i + j] = "cont"
  /\ k < n => i + k + 1 \notin DOMAIN s \/ s[i + k + 1] # "cont"

LEMMA FollowingIs ==
  ASSUME NEW s \in Seq(Bytes), NEW i \in 1..Len(s), CharLen(s[i]) > 0
  PROVE  /\ Continued(s, i, CharLen(s[i]) - 1, Following(s, i))
         /\ \A k : Continued(s, i, CharLen(s[i]) - 1, k) => k = Following(s, i)
<1>. DEFINE n == CharLen(s[i]) - 1
            All(k) == \A j \in 1..k : i + j \in DOMAIN s /\ s[i + j] = "cont"
<1>1. n \in 0..2
  BY CharLenIs
<1>2. Following(s, i) = CHOOSE k \in 0..n : All(k) /\ (k < n => ~All(k + 1))
  BY DEF Following
<1>. HIDE DEF n
<1>3. ASSUME NEW k \in 0..n
      PROVE  All(k) /\ (k < n => ~All(k + 1)) <=> Continued(s, i, n, k)
  <2>1. ASSUME All(k)
        PROVE  All(k + 1) <=> i + k + 1 \in DOMAIN s /\ s[i + k + 1] = "cont"
    <3>1. 1..(k + 1) = (1..k) \cup {k + 1}
      BY <1>1, <1>3
    <3>2. i + (k + 1) = i + k + 1
      BY <1>1, <1>3
    <3>3. ASSUME i + k + 1 \in DOMAIN s /\ s[i + k + 1] = "cont"
          PROVE  All(k + 1)
      <4>1. SUFFICES ASSUME NEW j \in 1..(k + 1)
                     PROVE  i + j \in DOMAIN s /\ s[i + j] = "cont"
        OBVIOUS
      <4>2. CASE j \in 1..k
        BY <2>1, <4>2
      <4>3. CASE j = k + 1
        BY <3>2, <3>3, <4>3
      <4>. QED BY <3>1, <4>2, <4>3
    <3>4. ASSUME All(k + 1)
          PROVE  i + k + 1 \in DOMAIN s /\ s[i + k + 1] = "cont"
      <4>1. k + 1 \in 1..(k + 1)
        BY <1>1, <1>3
      <4>2. i + (k + 1) \in DOMAIN s /\ s[i + (k + 1)] = "cont"
        BY <3>4, <4>1
      <4>. QED BY <3>2, <4>2
    <3>. QED BY <3>3, <3>4
  <2>. QED BY <2>1, <1>3 DEF Continued
<1>4. \E k \in 0..n : Continued(s, i, n, k)
  <2>1. All(0)
    OBVIOUS
  <2>2. CASE n = 0
    BY <2>1, <2>2, <1>3
  <2>3. CASE n = 1
    BY <2>1, <2>3, <1>3
  <2>4. CASE n = 2
    BY <2>1, <2>4, <1>3
  <2>. QED BY <1>1, <2>2, <2>3, <2>4
<1>5. Continued(s, i, n, Following(s, i))
  BY <1>2, <1>3, <1>4
<1>6. ASSUME NEW k, NEW m, Continued(s, i, n, k), Continued(s, i, n, m), k < m
      PROVE  FALSE
  <2>1. k + 1 \in 1..m /\ k < n /\ i + (k + 1) = i + k + 1
    BY <1>1, <1>6 DEF Continued
  <2>. QED BY <1>6, <2>1 DEF Continued
<1>7. ASSUME NEW k, Continued(s, i, n, k)
      PROVE  k = Following(s, i)
  <2>1. k \in Int /\ Following(s, i) \in Int
    BY <1>1, <1>5, <1>7 DEF Continued
  <2>2. ~(k < Following(s, i)) /\ ~(Following(s, i) < k)
    BY <1>5, <1>6, <1>7
  <2>. QED BY <2>1, <2>2
<1>. QED BY <1>5, <1>7 DEF n

(* A character is whole when every continuation it needs is there. *)
LEMMA WholeAtIs ==
  ASSUME NEW s \in Seq(Bytes), NEW i \in 1..Len(s)
  PROVE  WholeAt(s, i) <=>
           /\ CharLen(s[i]) > 0
           /\ i + CharLen(s[i]) - 1 <= Len(s)
           /\ \A j \in 1..(CharLen(s[i]) - 1) : s[i + j] = "cont"
<1>. DEFINE n == CharLen(s[i]) - 1  f == Following(s, i)
<1>1. CASE CharLen(s[i]) = 0
  BY <1>1 DEF WholeAt
<1>2. CASE CharLen(s[i]) > 0
  <2>1. n \in 0..2
    BY <1>2, CharLenIs
  <2>2. Continued(s, i, n, f) /\ \A k : Continued(s, i, n, k) => k = f
    BY <1>2, FollowingIs
  <2>3. WholeAt(s, i) <=> f = n
    BY <1>2 DEF WholeAt
  <2>4. n = CharLen(s[i]) - 1
    OBVIOUS
  <2>. HIDE DEF n, f
  <2>5. f = n => i + n <= Len(s) /\ \A j \in 1..n : s[i + j] = "cont"
    <3>1. SUFFICES ASSUME f = n
                   PROVE  i + n <= Len(s) /\ \A j \in 1..n : s[i + j] = "cont"
      OBVIOUS
    <3>2. \A j \in 1..n : i + j \in DOMAIN s /\ s[i + j] = "cont"
      BY <2>2, <3>1 DEF Continued
    <3>3. n \in 1..n => i + n \in DOMAIN s
      BY <3>2
    <3>. QED BY <2>1, <3>2, <3>3
  <2>6. i + n <= Len(s) /\ (\A j \in 1..n : s[i + j] = "cont") => f = n
    <3>1. SUFFICES ASSUME i + n <= Len(s), \A j \in 1..n : s[i + j] = "cont"
                   PROVE  Continued(s, i, n, n)
      BY <2>2
    <3>2. \A j \in 1..n : i + j \in DOMAIN s
      BY <2>1, <3>1
    <3>. QED BY <2>1, <3>1, <3>2 DEF Continued
  <2>7. i + CharLen(s[i]) - 1 = i + n
    BY <2>1, <2>4, CharLenIs
  <2>. QED BY <1>2, <2>3, <2>4, <2>5, <2>6, <2>7
<1>. QED BY <1>1, <1>2, CharLenIs

(* A lead and the continuations it has. *)
LEMMA Covers ==
  ASSUME NEW s \in Seq(Bytes), NEW i \in 1..Len(s), CharLen(s[i]) > 0
  PROVE  /\ Following(s, i) \in 0..(CharLen(s[i]) - 1)
         /\ i + Following(s, i) <= Len(s)
         /\ \A j \in (i + 1)..(i + Following(s, i)) : s[j] = "cont" /\ CharLen(s[j]) = 0
<1>. DEFINE n == CharLen(s[i]) - 1  f == Following(s, i)
<1>1. Continued(s, i, n, f)
  BY FollowingIs
<1>2. n \in 0..2
  BY CharLenIs
<1>. HIDE DEF n, f
<1>3. f \in 0..n /\ \A j \in 1..f : i + j \in DOMAIN s /\ s[i + j] = "cont"
  BY <1>1 DEF Continued
<1>4. i + f <= Len(s)
  <2>1. f \in 1..f => i + f \in DOMAIN s
    BY <1>3
  <2>. QED BY <1>2, <1>3, <2>1
<1>5. ASSUME NEW j \in (i + 1)..(i + f)
      PROVE  s[j] = "cont" /\ CharLen(s[j]) = 0
  <2>1. j - i \in 1..f /\ i + (j - i) = j
    BY <1>2, <1>3
  <2>2. s[j] = "cont"
    BY <1>3, <2>1
  <2>. QED BY <2>2 DEF CharLen, Ascii
<1>. QED BY <1>3, <1>4, <1>5 DEF n, f

-----------------------------------------------------------------------------
(* The valid bytes up front, and what is broken behind them. *)

LEMMA ValidUpToIs ==
  ASSUME NEW s \in Seq(Bytes)
  PROVE  /\ ValidUpTo(s) \in 0..Len(s) /\ Whole(s, ValidUpTo(s))
         /\ \A n \in 0..Len(s) : Whole(s, n) => n <= ValidUpTo(s)
<1>. DEFINE ends == {n \in 0..Len(s) : Whole(s, n)}
<1>1. Len(s) \in Nat /\ ends \in SUBSET (0..Len(s))
  OBVIOUS
<1>2. 0 \in ends
  BY DEF Whole
<1>3. ValidUpTo(s) = Max(ends)
  BY DEF ValidUpTo
<1>. HIDE DEF ends
<1>4. Max(ends) \in ends /\ \A n \in ends : n <= Max(ends)
  BY <1>1, <1>2, MaxIsMost
<1>. QED BY <1>3, <1>4 DEF ends

(* One character more is whole. *)
LEMMA WholeGrows ==
  ASSUME NEW s \in Seq(Bytes), NEW n \in 0..(Len(s) - 1), Whole(s, n), WholeAt(s, n + 1)
  PROVE  n + CharLen(s[n + 1]) \in 0..Len(s) /\ Whole(s, n + CharLen(s[n + 1]))
<1>. DEFINE c == CharLen(s[n + 1])
<1>0. n + 1 \in 1..Len(s) /\ s[n + 1] \in Bytes
  OBVIOUS
<1>1. c \in 1..3 /\ n + c <= Len(s) /\ \A j \in 1..(c - 1) : s[n + 1 + j] = "cont"
  BY <1>0, WholeAtIs, CharLenIs
<1>2. ASSUME NEW i \in 1..(n + c)
      PROVE  IF CharLen(s[i]) > 0
             THEN i + CharLen(s[i]) - 1 <= n + c /\ \A j \in 1..(CharLen(s[i]) - 1) : s[i + j] = "cont"
             ELSE \E j \in 1..(i - 1) : i < j + CharLen(s[j])
  <2>1. CASE i <= n
    <3>1. i \in 1..n /\ CharLen(s[i]) \in 0..3
      BY <1>1, <2>1, CharLenIs
    <3>2. IF CharLen(s[i]) > 0
          THEN i + CharLen(s[i]) - 1 <= n /\ \A j \in 1..(CharLen(s[i]) - 1) : s[i + j] = "cont"
          ELSE \E j \in 1..(i - 1) : i < j + CharLen(s[j])
      BY <3>1 DEF Whole
    <3>3. i + CharLen(s[i]) - 1 <= n => i + CharLen(s[i]) - 1 <= n + c
      BY <3>1, <1>1
    <3>. QED BY <3>2, <3>3
  <2>2. CASE i = n + 1
    BY <1>1, <2>2
  <2>3. CASE i > n + 1
    <3>1. i - (n + 1) \in 1..(c - 1) /\ n + 1 + (i - (n + 1)) = i
      BY <1>1, <2>3
    <3>2. s[i] = "cont"
      BY <1>1, <3>1
    <3>3. CharLen(s[i]) = 0
      BY <3>2 DEF CharLen, Ascii
    <3>4. n + 1 \in 1..(i - 1) /\ i < n + 1 + c
      BY <1>1, <2>3
    <3>. QED BY <3>3, <3>4
  <2>. QED BY <1>1, <2>1, <2>2, <2>3
<1>3. Whole(s, n + c)
  BY <1>2 DEF Whole
<1>. QED BY <1>1, <1>3

(* Where the valid bytes end, nothing whole starts. *)
LEMMA BrokenThere ==
  ASSUME NEW s \in Seq(Bytes), ValidUpTo(s) < Len(s)
  PROVE  LET i == ValidUpTo(s) + 1
             b == BrokenLen(s)
         IN  /\ i \in 1..Len(s) /\ ~WholeAt(s, i)
             /\ b \in 1..2 /\ i + b - 1 <= Len(s)
             /\ CharLen(s[i]) > 0 => b = 1 + Following(s, i)
             /\ CharLen(s[i]) = 0 => b = 1
             /\ \A j \in (i + 1)..(i + b - 1) : s[j] = "cont" /\ CharLen(s[j]) = 0
<1>. DEFINE v == ValidUpTo(s)  i == v + 1  b == BrokenLen(s)
<1>1. v \in 0..Len(s) /\ Whole(s, v) /\ \A n \in 0..Len(s) : Whole(s, n) => n <= v
  BY ValidUpToIs
<1>2. b = IF CharLen(s[i]) = 0 THEN 1 ELSE 1 + Following(s, i)
  BY DEF BrokenLen
<1>3. v < Len(s)
  OBVIOUS
<1>. HIDE DEF v, b
<1>4. i \in 1..Len(s) /\ v \in 0..(Len(s) - 1)
  BY <1>1, <1>3
<1>5. ~WholeAt(s, i)
  <2>1. SUFFICES ASSUME WholeAt(s, v + 1)
                 PROVE  FALSE
    OBVIOUS
  <2>2. v + CharLen(s[v + 1]) \in 0..Len(s) /\ Whole(s, v + CharLen(s[v + 1]))
    BY <1>1, <1>4, <2>1, WholeGrows
  <2>3. v + CharLen(s[v + 1]) <= v
    BY <1>1, <2>2
  <2>4. CharLen(s[v + 1]) \in 1..3
    BY <1>4, <2>1, WholeAtIs, CharLenIs
  <2>. QED BY <1>4, <2>3, <2>4
<1>6. CASE CharLen(s[i]) = 0
  BY <1>2, <1>4, <1>5, <1>6 DEF v, b
<1>7. CASE CharLen(s[i]) > 0
  <2>1. /\ Following(s, i) \in 0..(CharLen(s[i]) - 1)
        /\ i + Following(s, i) <= Len(s)
        /\ \A j \in (i + 1)..(i + Following(s, i)) : s[j] = "cont" /\ CharLen(s[j]) = 0
    BY <1>4, <1>7, Covers
  <2>2. Following(s, i) # CharLen(s[i]) - 1 /\ CharLen(s[i]) \in 1..3
    BY <1>4, <1>5, <1>7, CharLenIs DEF WholeAt
  <2>3. b = 1 + Following(s, i)
    BY <1>2, <1>7
  <2>4. b \in 1..2 /\ i + b - 1 = i + Following(s, i)
    BY <1>4, <2>1, <2>2, <2>3
  <2>. QED BY <1>4, <1>5, <1>7, <2>1, <2>3, <2>4 DEF v, b
<1>8. CharLen(s[i]) \in 0..3
  BY <1>4, CharLenIs
<1>. QED BY <1>6, <1>7, <1>8

-----------------------------------------------------------------------------
(* Counting the numbers of a set up to one. *)

LEMMA CountType ==
  ASSUME NEW S, NEW n \in Nat
  PROVE  IsFiniteSet(S \cap 1..n) /\ Count(S, n) \in Nat /\ Count(S, n) <= n
<1>1. IsFiniteSet(1..n) /\ Cardinality(1..n) = n
  BY FS_Interval
<1>2. S \cap 1..n \in SUBSET (1..n)
  OBVIOUS
<1>3. IsFiniteSet(S \cap 1..n) /\ Cardinality(S \cap 1..n) <= n
  BY <1>1, <1>2, FS_Subset
<1>. QED BY <1>3, FS_CardinalityType DEF Count

LEMMA CountAll ==
  ASSUME NEW S, NEW n \in Nat, \A i \in 1..n : i \in S
  PROVE  Count(S, n) = n
<1>1. S \cap 1..n = 1..n
  OBVIOUS
<1>2. Cardinality(1..n) = n
  BY FS_Interval
<1>. QED BY <1>1, <1>2 DEF Count

LEMMA CountNone ==
  ASSUME NEW S, NEW n \in Nat, \A i \in 1..n : i \notin S
  PROVE  Count(S, n) = 0
<1>1. S \cap 1..n = {}
  OBVIOUS
<1>. QED BY <1>1, FS_EmptySet DEF Count

LEMMA CountFirst ==
  ASSUME NEW S, NEW n \in Nat \ {0}, 1 \in S, \A i \in 2..n : i \notin S
  PROVE  Count(S, n) = 1
<1>1. S \cap 1..n = {1}
  OBVIOUS
<1>. QED BY <1>1, FS_Singleton DEF Count

LEMMA CountGrows ==
  ASSUME NEW S, NEW n \in Nat, NEW m \in Nat, m <= n
  PROVE  Count(S, m) <= Count(S, n)
<1>1. IsFiniteSet(S \cap 1..n)
  BY CountType
<1>2. S \cap 1..m \in SUBSET (S \cap 1..n)
  OBVIOUS
<1>. QED BY <1>1, <1>2, FS_Subset DEF Count

(* Up to q, and of what is behind it. *)
LEMMA CountShift ==
  ASSUME NEW S, NEW T, NEW q \in Nat, NEW m \in Nat,
         \A i \in 1..m : i \in T <=> q + i \in S
  PROVE  Count(S, q + m) = Count(S, q) + Count(T, m)
<1>. DEFINE A == S \cap 1..q  B == T \cap 1..m  C == {q + i : i \in B}
            f == [i \in B |-> q + i]
<1>1. IsFiniteSet(A) /\ IsFiniteSet(B)
  BY CountType
<1>2. f \in Bijection(B, C)
  BY DEF Bijection, Injection, Surjection, IsInjective
<1>3. ExistsBijection(B, C)
  BY <1>2 DEF ExistsBijection
<1>4. S \cap 1..(q + m) = A \cup C /\ A \cap C = {}
  <2>1. ASSUME NEW x \in S \cap 1..(q + m), x \notin A
        PROVE  x \in C
    <3>1. x - q \in 1..m /\ q + (x - q) = x
      BY <2>1
    <3>2. x - q \in B
      BY <3>1
    <3>. QED BY <3>1, <3>2
  <2>2. ASSUME NEW x \in C
        PROVE  x \in S \cap 1..(q + m) /\ x \notin A
    OBVIOUS
  <2>3. \A x \in A : x \in S \cap 1..(q + m)
    OBVIOUS
  <2>. QED BY <2>1, <2>2, <2>3
<1>5. Count(S, q) = Cardinality(A) /\ Count(T, m) = Cardinality(B)
  BY DEF Count
<1>6. Count(S, q + m) = Cardinality(A \cup C)
  BY <1>4 DEF Count
<1>7. A \cap C = {}
  BY <1>4
<1>. HIDE DEF A, B, C
<1>8. IsFiniteSet(C) /\ Cardinality(C) = Cardinality(B)
  BY <1>1, <1>3, FS_Bijection
<1>9. Cardinality(A \cup C) = Cardinality(A) + Cardinality(C) - Cardinality(A \cap C)
  BY <1>1, <1>8, FS_Union
<1>10. Cardinality(A \cap C) = 0
  BY <1>7, FS_EmptySet
<1>11. Cardinality(A) \in Nat /\ Cardinality(B) \in Nat
  BY <1>1, FS_CardinalityType
<1>. QED BY <1>5, <1>6, <1>8, <1>9, <1>10, <1>11

LEMMA CountIn ==
  ASSUME NEW S, NEW n \in Nat \ {0}, n \in S
  PROVE  Count(S, n) >= 1
<1>1. IsFiniteSet(S \cap 1..n) /\ Count(S, n) \in Nat
  BY CountType
<1>2. n \in S \cap 1..n
  OBVIOUS
<1>3. Cardinality(S \cap 1..n) # 0
  BY <1>1, <1>2, FS_EmptySet
<1>. QED BY <1>1, <1>3 DEF Count

-----------------------------------------------------------------------------
(* Text, and its length. *)

TextOfBytes == Seq(Bytes \cup {Replacement})

Replaced(text) == {i \in DOMAIN text : text[i] = Replacement}

LEMMA TextLenType ==
  ASSUME NEW text \in TextOfBytes
  PROVE  TextLen(text) \in Nat /\ Len(text) <= TextLen(text)
<1>1. Len(text) \in Nat
  BY DEF TextOfBytes
<1>2. Count(Replaced(text), Len(text)) \in Nat
  BY <1>1, CountType
<1>. QED BY <1>1, <1>2 DEF TextLen, Replaced

LEMMA TextLenBytes ==
  ASSUME NEW bytes \in Seq(Bytes)
  PROVE  bytes \in TextOfBytes /\ TextLen(bytes) = Len(bytes)
<1>1. \A i \in 1..Len(bytes) : i \notin Replaced(bytes)
  BY DEF Replaced, Replacement, Bytes, Ascii
<1>2. Count(Replaced(bytes), Len(bytes)) = 0
  BY <1>1, CountNone
<1>3. bytes \in TextOfBytes
  BY DEF TextOfBytes
<1>. QED BY <1>2, <1>3 DEF TextLen, Replaced

LEMMA TextLenReplacement ==
  <<Replacement>> \in TextOfBytes /\ Len(<<Replacement>>) = 1 /\ TextLen(<<Replacement>>) = 3
<1>1. 1 \in Replaced(<<Replacement>>)
  BY DEF Replaced
<1>2. Len(<<Replacement>>) = 1
  OBVIOUS
<1>3. Count(Replaced(<<Replacement>>), 1) = 1
  BY <1>1, CountAll
<1>. QED BY <1>2, <1>3 DEF TextOfBytes, TextLen, Replaced

LEMMA TextLenJoined ==
  ASSUME NEW a \in TextOfBytes, NEW b \in TextOfBytes
  PROVE  a \o b \in TextOfBytes /\ TextLen(a \o b) = TextLen(a) + TextLen(b)
<1>1. /\ a \o b \in TextOfBytes /\ Len(a \o b) = Len(a) + Len(b)
      /\ \A i \in 1..(Len(a) + Len(b)) :
           (a \o b)[i] = IF i <= Len(a) THEN a[i] ELSE b[i - Len(a)]
  BY ConcatProperties DEF TextOfBytes
<1>2. Len(a) \in Nat /\ Len(b) \in Nat /\ DOMAIN a = 1..Len(a) /\ DOMAIN b = 1..Len(b)
  BY DEF TextOfBytes
<1>. DEFINE c == a \o b
<1>3. DOMAIN c = 1..(Len(a) + Len(b))
  BY <1>1 DEF TextOfBytes
<1>. HIDE DEF c
<1>4. \A i \in 1..Len(b) : i \in Replaced(b) <=> Len(a) + i \in Replaced(c)
  <2>1. ASSUME NEW i \in 1..Len(b)
        PROVE  Len(a) + i \in DOMAIN c /\ c[Len(a) + i] = b[i]
    BY <1>1, <1>2, <1>3 DEF c
  <2>. QED BY <1>2, <2>1 DEF Replaced
<1>5. Count(Replaced(c), Len(a) + Len(b)) = Count(Replaced(c), Len(a)) + Count(Replaced(b), Len(b))
  BY <1>2, <1>4, CountShift
<1>6. Replaced(c) \cap 1..Len(a) = Replaced(a) \cap 1..Len(a)
  <2>1. ASSUME NEW i \in 1..Len(a)
        PROVE  i \in DOMAIN c /\ c[i] = a[i] /\ i \in DOMAIN a
    BY <1>1, <1>2, <1>3 DEF c
  <2>. QED BY <2>1 DEF Replaced
<1>7. Count(Replaced(c), Len(a)) = Count(Replaced(a), Len(a))
  BY <1>6 DEF Count
<1>8. Count(Replaced(a), Len(a)) \in Nat /\ Count(Replaced(b), Len(b)) \in Nat
  BY <1>2, CountType
<1>9. /\ TextLen(c) = Len(a) + Len(b) + 2 * Count(Replaced(c), Len(a) + Len(b))
      /\ TextLen(a) = Len(a) + 2 * Count(Replaced(a), Len(a))
      /\ TextLen(b) = Len(b) + 2 * Count(Replaced(b), Len(b))
  BY <1>1 DEF TextLen, Replaced, c
<1>10. TextLen(c) = TextLen(a) + TextLen(b)
  BY <1>2, <1>5, <1>7, <1>8, <1>9
<1>. QED BY <1>1, <1>10 DEF c

-----------------------------------------------------------------------------
(* The valid bytes there is room for. *)

(* Whether bytes are whole characters is seen in them alone. *)
LEMMA WholePrefix ==
  ASSUME NEW s, NEW t, NEW n \in Nat, \A i \in 1..n : s[i] = t[i] /\ CharLen(t[i]) \in 0..3
  PROVE  Whole(s, n) <=> Whole(t, n)
<1>1. ASSUME NEW i \in 1..n
      PROVE  (IF CharLen(s[i]) > 0
              THEN i + CharLen(s[i]) - 1 <= n /\ \A j \in 1..(CharLen(s[i]) - 1) : s[i + j] = "cont"
              ELSE \E j \in 1..(i - 1) : i < j + CharLen(s[j]))
             <=>
             (IF CharLen(t[i]) > 0
              THEN i + CharLen(t[i]) - 1 <= n /\ \A j \in 1..(CharLen(t[i]) - 1) : t[i + j] = "cont"
              ELSE \E j \in 1..(i - 1) : i < j + CharLen(t[j]))
  <2>1. CharLen(s[i]) = CharLen(t[i]) /\ CharLen(t[i]) \in 0..3
    OBVIOUS
  <2>2. ASSUME i + CharLen(t[i]) - 1 <= n, NEW j \in 1..(CharLen(t[i]) - 1)
        PROVE  s[i + j] = t[i + j]
    <3>1. i + j \in 1..n
      BY <2>1, <2>2
    <3>. QED BY <3>1
  <2>3. \A j \in 1..(i - 1) : CharLen(s[j]) = CharLen(t[j])
    OBVIOUS
  <2>. QED BY <2>1, <2>2, <2>3
<1>. QED BY <1>1 DEF Whole

LEMMA PrefixIs ==
  ASSUME NEW s \in Seq(Bytes), NEW n \in 0..Len(s)
  PROVE  LET t == SubSeq(s, 1, n)
         IN  /\ t \in Seq(Bytes) /\ Len(t) = n /\ \A i \in 1..n : t[i] = s[i]
             /\ \A m \in 0..n : Whole(t, m) <=> Whole(s, m)
<1>. DEFINE t == SubSeq(s, 1, n)
<1>1. \A i \in 1..n : s[i] \in Bytes
  OBVIOUS
<1>2. /\ t \in Seq(Bytes) /\ Len(t) = (IF 1 <= n THEN n - 1 + 1 ELSE 0)
      /\ \A i \in 1..(n - 1 + 1) : t[i] = s[1 + i - 1]
  BY <1>1, SubSeqProperties
<1>. HIDE DEF t
<1>3. t \in Seq(Bytes) /\ Len(t) = n /\ \A i \in 1..n : t[i] = s[i]
  BY <1>2
<1>4. ASSUME NEW m \in 0..n
      PROVE  Whole(t, m) <=> Whole(s, m)
  <2>1. \A i \in 1..m : t[i] = s[i] /\ CharLen(s[i]) \in 0..3
    BY <1>1, <1>3, CharLenIs
  <2>. QED BY <2>1, WholePrefix
<1>. QED BY <1>3, <1>4 DEF t

LEMMA PushValidIs ==
  ASSUME NEW s \in Seq(Bytes), NEW v \in 0..Len(s), NEW room \in Nat
  PROVE  LET pushed == push_valid(SubSeq(s, 1, v), room)
             w == Len(pushed)
         IN  /\ pushed \in Seq(Bytes) /\ w \in 0..v /\ w <= room /\ Whole(s, w)
             /\ \A i \in 1..w : pushed[i] = s[i]
             /\ \A n \in 0..v : n <= room /\ Whole(s, n) => n <= w
<1>. DEFINE valid == SubSeq(s, 1, v)
            ends == {n \in 0..Len(valid) : n <= room /\ Whole(valid, n)}
            n0 == Max(ends)  pushed == SubSeq(valid, 1, n0)
<1>1. /\ valid \in Seq(Bytes) /\ Len(valid) = v /\ \A i \in 1..v : valid[i] = s[i]
      /\ \A n \in 0..v : Whole(valid, n) <=> Whole(s, n)
  BY PrefixIs
<1>2. push_valid(SubSeq(s, 1, v), room) = pushed
  BY DEF push_valid
<1>. HIDE DEF valid
<1>4. n0 \in ends /\ \A n \in ends : n <= n0
  <2>1. 0 \in ends
    BY <1>1 DEF Whole
  <2>2. ends \in SUBSET (0..v)
    BY <1>1
  <2>3. v \in Nat /\ ends # {}
    BY <2>1
  <2>. HIDE DEF ends
  <2>4. Max(ends) \in ends /\ \A n \in ends : n <= Max(ends)
    BY <2>2, <2>3, MaxIsMost
  <2>. QED BY <2>4
<1>5. n0 \in 0..v /\ n0 <= room /\ Whole(s, n0)
  BY <1>1, <1>4
<1>6. \A n \in 0..v : n <= room /\ Whole(s, n) => n <= n0
  BY <1>1, <1>4
<1>. HIDE DEF n0
<1>7. pushed \in Seq(Bytes) /\ Len(pushed) = n0 /\ \A i \in 1..n0 : pushed[i] = s[i]
  <2>1. pushed \in Seq(Bytes) /\ Len(pushed) = n0 /\ \A i \in 1..n0 : pushed[i] = valid[i]
    BY <1>1, <1>5, PrefixIs
  <2>. HIDE DEF pushed
  <2>. QED BY <1>1, <1>5, <2>1
<1>. QED BY <1>2, <1>5, <1>6, <1>7

-----------------------------------------------------------------------------
(* lossy_with_limit, plugin_str and decode. *)

Steps(f, bytes, limit) ==
  f = [n \in 0..Len(bytes) |->
         IF n = 0 THEN [text |-> <<>>, rest |-> bytes]
         ELSE LET st == f[n - 1] IN IF More(st, limit) THEN LossyStep(st, limit) ELSE st]

(* The recursion of lossy_with_limit. *)
LEMMA LossyFold ==
  ASSUME NEW bytes, NEW limit, ~IsUtf8(bytes), \E f : Steps(f, bytes, limit)
  PROVE  \E f : Steps(f, bytes, limit) /\ lossy_with_limit(bytes, limit) = f[Len(bytes)].text
<1>. DEFINE f == CHOOSE f : Steps(f, bytes, limit)
<1>1. Steps(f, bytes, limit)
  BY Zenon
<1>2. lossy_with_limit(bytes, limit) = f[Len(bytes)].text
  BY DEF lossy_with_limit, Steps
<1>. QED BY <1>1, <1>2

(* A step taken over and over. *)
Repeats(X, x0, g, m) ==
  \E f \in [0..m -> X] : f[0] = x0 /\ \A n \in 1..m : f[n] = g[f[n - 1]]

LEMMA StepsExist ==
  ASSUME NEW X, NEW x0 \in X, NEW g \in [X -> X], NEW N \in Nat
  PROVE  Repeats(X, x0, g, N)
<1>. DEFINE Up(m) == \E f \in [0..m -> X] : f[0] = x0 /\ \A n \in 1..m : f[n] = g[f[n - 1]]
            S == {m \in 0..N : Up(m)}
<1>1. Up(0)
  <2>. DEFINE f == [n \in 0..0 |-> x0]
  <2>1. f \in [0..0 -> X] /\ f[0] = x0
    OBVIOUS
  <2>2. 1..0 = {}
    OBVIOUS
  <2>. QED BY <2>1, <2>2
<1>2. S \in SUBSET (0..N) /\ S # {}
  <2>. HIDE DEF Up
  <2>1. 0 \in S
    BY <1>1
  <2>. QED BY <2>1
<1>3. ASSUME NEW m \in 0..(N - 1), Up(m)
      PROVE  Up(m + 1)
  <2>1. PICK f \in [0..m -> X] : f[0] = x0 /\ \A n \in 1..m : f[n] = g[f[n - 1]]
    BY <1>3
  <2>. DEFINE h == [n \in 0..(m + 1) |-> IF n = m + 1 THEN g[f[m]] ELSE f[n]]
  <2>2. g[f[m]] \in X /\ m \in 0..m /\ m \in Nat
    BY <2>1
  <2>3. \A n \in 0..(m + 1) : n # m + 1 => n \in 0..m
    BY <2>2
  <2>4. h \in [0..(m + 1) -> X]
    BY <2>2, <2>3
  <2>5. h[0] = x0
    BY <2>1, <2>2
  <2>6. ASSUME NEW n \in 1..(m + 1)
        PROVE  h[n] = g[h[n - 1]]
    <3>1. n - 1 \in 0..m /\ n - 1 # m + 1 /\ n - 1 \in 0..(m + 1) /\ n \in 0..(m + 1)
      BY <2>2
    <3>2. h[n - 1] = f[n - 1]
      BY <3>1
    <3>3. CASE n = m + 1
      <4>1. n - 1 = m /\ h[n] = g[f[m]]
        BY <2>2, <3>1, <3>3
      <4>. HIDE DEF h
      <4>. QED BY <3>2, <4>1
    <3>4. CASE n # m + 1
      <4>1. n \in 1..m
        BY <2>2, <3>4
      <4>2. h[n] = f[n]
        BY <3>1, <3>4
      <4>3. f[n] = g[f[n - 1]]
        BY <2>1, <4>1
      <4>. HIDE DEF h
      <4>. QED BY <3>2, <4>2, <4>3
    <3>. QED BY <3>3, <3>4
  <2>. HIDE DEF h
  <2>. QED BY <2>4, <2>5, <2>6
<1>. HIDE DEF Up
<1>4. Max(S) \in S /\ \A x \in S : x <= Max(S)
  <2>. HIDE DEF S
  <2>. QED BY <1>2, MaxIsMost
<1>5. Max(S) = N
  <2>1. SUFFICES ASSUME Max(S) # N
                 PROVE  FALSE
    OBVIOUS
  <2>2. Max(S) \in 0..(N - 1) /\ Up(Max(S))
    BY <1>4, <2>1
  <2>3. Max(S) + 1 \in S
    BY <1>3, <2>2
  <2>. QED BY <1>4, <2>2, <2>3
<1>6. Up(N)
  BY <1>4, <1>5
<1>. QED BY <1>6 DEF Up, Repeats

(* What a loop of lossy_with_limit has, and keeps. *)
LossyStates(limit) ==
  {st \in [text : TextOfBytes, rest : Seq(Bytes)] : TextLen(st.text) <= limit}

LEMMA RoundFits ==
  ASSUME NEW limit \in Nat, NEW st \in LossyStates(limit), More(st, limit)
  PROVE  LossyStep(st, limit) \in LossyStates(limit)
<1>. DEFINE s == st.rest  room == limit - TextLen(st.text)
            v == ValidUpTo(s)  b == BrokenLen(s)
            pushed == push_valid(SubSeq(s, 1, v), room)  text == st.text \o pushed
            left == SubSeq(s, v + b + 1, Len(s))  one == <<Replacement>>
<1>1. LossyStep(st, limit) =
        IF v = Len(s) \/ Len(pushed) < v \/ TextLen(text) + 3 > limit
        THEN [text |-> text, rest |-> <<>>]
        ELSE [text |-> Append(text, Replacement), rest |-> left]
  BY DEF LossyStep, LossyRound, Pushed
<1>2. /\ st.text \in TextOfBytes /\ s \in Seq(Bytes) /\ Len(s) \in Nat
      /\ TextLen(st.text) \in Nat /\ room \in Nat
  BY TextLenType DEF LossyStates
<1>3. v \in 0..Len(s)
  BY <1>2, ValidUpToIs
<1>4. pushed \in Seq(Bytes) /\ Len(pushed) \in 0..v /\ Len(pushed) <= room
  <2>. HIDE DEF s, room, v
  <2>. QED BY <1>2, <1>3, PushValidIs
<1>5. room = limit - TextLen(st.text)
  OBVIOUS
<1>. HIDE DEF pushed, room
<1>6. pushed \in TextOfBytes /\ TextLen(pushed) = Len(pushed)
  BY <1>4, TextLenBytes
<1>7. text \in TextOfBytes /\ TextLen(text) = TextLen(st.text) + Len(pushed)
  BY <1>2, <1>6, TextLenJoined
<1>. HIDE DEF text
<1>8. TextLen(text) \in Nat /\ TextLen(text) <= limit
  BY <1>2, <1>3, <1>4, <1>5, <1>7
<1>9. <<>> \in Seq(Bytes)
  OBVIOUS
<1>10. ASSUME ~(v = Len(s)), TextLen(text) + 3 <= limit
       PROVE  /\ Append(text, Replacement) \in TextOfBytes /\ left \in Seq(Bytes)
              /\ TextLen(Append(text, Replacement)) <= limit
  <2>1. one \in TextOfBytes /\ TextLen(one) = 3
    BY TextLenReplacement
  <2>2. Append(text, Replacement) = text \o one
    BY <1>7 DEF TextOfBytes
  <2>3. text \o one \in TextOfBytes /\ TextLen(text \o one) = TextLen(text) + 3
    <3>. HIDE DEF one
    <3>. QED BY <1>7, <2>1, TextLenJoined
  <2>4. b \in 1..2
    BY <1>2, <1>3, <1>10, BrokenThere
  <2>. HIDE DEF v, b, s
  <2>5. \A i \in (v + b + 1)..Len(s) : s[i] \in Bytes
    BY <1>2, <1>3, <2>4
  <2>6. v + b + 1 \in Int
    BY <1>2, <1>3, <2>4
  <2>7. left \in Seq(Bytes)
    BY <1>2, <2>5, <2>6, SubSeqProperties
  <2>. QED BY <1>10, <2>2, <2>3, <2>7
<1>. HIDE DEF left, v, s
<1>11. CASE v = Len(s) \/ Len(pushed) < v \/ TextLen(text) + 3 > limit
  <2>1. LossyStep(st, limit) = [text |-> text, rest |-> <<>>]
    BY <1>1, <1>11
  <2>. QED BY <1>7, <1>8, <1>9, <2>1 DEF LossyStates
<1>12. CASE ~(v = Len(s) \/ Len(pushed) < v \/ TextLen(text) + 3 > limit)
  <2>1. LossyStep(st, limit) = [text |-> Append(text, Replacement), rest |-> left]
    BY <1>1, <1>12
  <2>2. TextLen(text) + 3 <= limit
    BY <1>8, <1>12
  <2>. DEFINE longer == Append(text, Replacement)
  <2>3. /\ longer \in TextOfBytes /\ left \in Seq(Bytes) /\ TextLen(longer) <= limit
        /\ LossyStep(st, limit) = [text |-> longer, rest |-> left]
    BY <1>10, <1>12, <2>1, <2>2
  <2>. HIDE DEF longer
  <2>. QED BY <2>3 DEF LossyStates
<1>. QED BY <1>11, <1>12

(* What lossy_with_limit makes of bytes fits the limit. *)
LEMMA LossyIs ==
  ASSUME NEW bytes \in Seq(Bytes), NEW limit \in Nat
  PROVE  /\ lossy_with_limit(bytes, limit) \in TextOfBytes
         /\ IsUtf8(bytes) => lossy_with_limit(bytes, limit) = bytes
         /\ ~IsUtf8(bytes) \/ Len(bytes) <= limit
              => TextLen(lossy_with_limit(bytes, limit)) <= limit
<1>1. CASE IsUtf8(bytes)
  <2>1. lossy_with_limit(bytes, limit) = bytes
    BY <1>1 DEF lossy_with_limit
  <2>. QED BY <1>1, <2>1, TextLenBytes
<1>2. CASE ~IsUtf8(bytes)
  <2>. DEFINE X == LossyStates(limit)  x0 == [text |-> <<>>, rest |-> bytes]
              g == [st \in X |-> IF More(st, limit) THEN LossyStep(st, limit) ELSE st]
              N == Len(bytes)
  <2>1. x0 \in X
    <3>1. <<>> \in Seq(Bytes) /\ Len(<<>>) = 0
      OBVIOUS
    <3>2. <<>> \in TextOfBytes /\ TextLen(<<>>) = 0
      BY <3>1, TextLenBytes
    <3>. QED BY <3>2 DEF LossyStates
  <2>2. g \in [X -> X]
    <3>1. \A st \in X : (IF More(st, limit) THEN LossyStep(st, limit) ELSE st) \in X
      BY RoundFits
    <3>. HIDE DEF X
    <3>. QED BY <3>1
  <2>3. N \in Nat
    OBVIOUS
  <2>4. \A st \in X : g[st] = IF More(st, limit) THEN LossyStep(st, limit) ELSE st
    OBVIOUS
  <2>. HIDE DEF X, x0, g, N
  <2>5. PICK h \in [0..N -> X] : h[0] = x0 /\ \A n \in 1..N : h[n] = g[h[n - 1]]
    <3>1. Repeats(X, x0, g, N)
      BY <2>1, <2>2, <2>3, StepsExist
    <3>. QED BY <3>1 DEF Repeats
  <2>6. Steps(h, bytes, limit)
    <3>1. ASSUME NEW n \in 0..N
          PROVE  h[n] = IF n = 0 THEN [text |-> <<>>, rest |-> bytes]
                        ELSE LET st == h[n - 1] IN IF More(st, limit) THEN LossyStep(st, limit) ELSE st
      <4>1. CASE n = 0
        BY <2>5, <4>1 DEF x0
      <4>2. CASE n # 0
        <5>1. n \in 1..N /\ n - 1 \in 0..N
          BY <2>3, <4>2
        <5>2. h[n - 1] \in X /\ h[n] = g[h[n - 1]]
          BY <2>5, <5>1
        <5>. QED BY <2>4, <4>2, <5>2
      <4>. QED BY <4>1, <4>2
    <3>2. h = [n \in 0..N |-> h[n]]
      BY <2>5
    <3>. QED BY <3>1, <3>2, Zenon DEF Steps, N
  <2>7. PICK f : Steps(f, bytes, limit) /\ lossy_with_limit(bytes, limit) = f[Len(bytes)].text
    BY <1>2, <2>6, LossyFold
  <2>8. /\ f[0] = x0
        /\ \A n \in 1..N : f[n] = IF More(f[n - 1], limit) THEN LossyStep(f[n - 1], limit) ELSE f[n - 1]
    BY <2>3, <2>7 DEF Steps, x0, N
  <2>. DEFINE S == {m \in 0..N : f[m] \in X}
  <2>9. S \in SUBSET (0..N) /\ S # {}
    <3>1. 0 \in S
      BY <2>1, <2>3, <2>8
    <3>. QED BY <3>1
  <2>10. ASSUME NEW m \in 0..(N - 1), f[m] \in X
         PROVE  f[m + 1] \in X
    <3>1. m + 1 \in 1..N /\ m + 1 - 1 = m
      BY <2>3
    <3>2. f[m + 1] = IF More(f[m], limit) THEN LossyStep(f[m], limit) ELSE f[m]
      BY <2>8, <3>1
    <3>. QED BY <2>10, <3>2, RoundFits DEF X
  <2>11. Max(S) \in S /\ \A x \in S : x <= Max(S)
    <3>. HIDE DEF S
    <3>. QED BY <2>3, <2>9, MaxIsMost
  <2>12. Max(S) = N
    <3>1. SUFFICES ASSUME Max(S) # N
                   PROVE  FALSE
      OBVIOUS
    <3>2. Max(S) \in 0..(N - 1) /\ f[Max(S)] \in X
      BY <2>3, <2>11, <3>1
    <3>3. Max(S) + 1 \in S
      BY <2>3, <2>10, <3>2
    <3>. QED BY <2>11, <3>2, <3>3
  <2>13. f[N] \in X
    BY <2>11, <2>12
  <2>14. lossy_with_limit(bytes, limit) = f[N].text
    BY <2>7 DEF N
  <2>. QED BY <1>2, <2>13, <2>14 DEF X, LossyStates
<1>. QED BY <1>1, <1>2

(* A text is none of the answers there are beside one. *)
LEMMA TextIsNoAnswer ==
  ASSUME NEW text \in TextOfBytes
  PROVE  text # Null /\ text # Refused
<1>1. SUFFICES ASSUME text = Null \/ text = Refused
               PROVE  FALSE
  OBVIOUS
<1>2. Len(text) = 1 /\ (text[1] = "null" \/ text[1] = "over the limit")
  <2>1. Len(Null) = 1 /\ Null[1] = "null"
    BY DEF Null
  <2>2. Len(Refused) = 1 /\ Refused[1] = "over the limit"
    BY DEF Refused
  <2>. QED BY <1>1, <2>1, <2>2
<1>3. text[1] \in Bytes \cup {Replacement}
  <2>1. 1 \in 1..1 /\ \A i \in 1..Len(text) : text[i] \in Bytes \cup {Replacement}
    BY DEF TextOfBytes
  <2>2. 1..Len(text) = 1..1
    BY <1>2
  <2>. QED BY <2>1, <2>2
<1>. QED BY <1>2, <1>3 DEF Bytes, Ascii, Replacement

Fitting(limit) == {text \in TextOfBytes : TextLen(text) <= limit}

LEMMA BytesAreNotNull == Null \notin Seq(Bytes)
<1>1. SUFFICES ASSUME Null \in Seq(Bytes)
               PROVE  FALSE
  OBVIOUS
<1>. QED BY <1>1, TextLenBytes, TextIsNoAnswer

(* plugin_str: null stays null, a string over the limit is refused, and of any
   other there is a text that fits. *)
LEMMA PluginStrIs ==
  ASSUME NEW value \in {Null} \cup Seq(Bytes), NEW limit \in Nat
  PROVE  LET x == plugin_str(value, limit)
         IN  /\ value = Null => x = Null
             /\ value # Null /\ Len(value) > limit => x = Refused
             /\ value # Null /\ Len(value) <= limit =>
                  /\ x \in Fitting(limit) /\ x # Null /\ x # Refused
                  /\ IsUtf8(value) => x = value
<1>1. CASE value = Null
  BY <1>1 DEF plugin_str, bounded_bytes
<1>2. CASE value \in Seq(Bytes)
  <2>. DEFINE x == plugin_str(value, limit)
  <2>1. value # Null
    BY <1>2, BytesAreNotNull
  <2>2. Len(value) \in Nat
    BY <1>2
  <2>3. CASE Len(value) > limit
    <3>1. x = Refused
      BY <2>1, <2>2, <2>3 DEF plugin_str, bounded_bytes
    <3>. QED BY <2>1, <2>2, <2>3, <3>1
  <2>4. CASE Len(value) <= limit
    <3>1. x = lossy_with_limit(value, limit)
      BY <2>1, <2>2, <2>4 DEF plugin_str, bounded_bytes
    <3>2. /\ x \in TextOfBytes /\ TextLen(x) <= limit
          /\ IsUtf8(value) => x = value
      BY <1>2, <2>4, <3>1, LossyIs
    <3>. HIDE DEF x
    <3>3. x # Null /\ x # Refused
      BY <3>2, TextIsNoAnswer
    <3>. QED BY <2>1, <2>2, <2>4, <3>2, <3>3 DEF x, Fitting
  <2>. QED BY <2>2, <2>3, <2>4
<1>. QED BY <1>1, <1>2

(* decode: of every string a text that fits, with the bytes it was read from when
   they were not UTF-8. *)
LEMMA DecodeIs ==
  ASSUME NEW value \in {Null} \cup Seq(Bytes), NEW limit \in Nat
  PROVE  /\ decode(value, limit).text \in Fitting(limit)
         /\ \/ decode(value, limit).raw = Null
            \/ decode(value, limit).raw \in Seq(Bytes) /\ Len(decode(value, limit).raw) <= limit
         /\ decode(value, limit).truncated \in BOOLEAN /\ decode(value, limit).invalid \in BOOLEAN
<1>. DEFINE read == bounded_bytes(value, limit)  cut == read.kind = "LimitExceeded"
            kept == IF cut THEN TrimPartial(read.bytes) ELSE read.bytes
<1>1. read.bytes \in Seq(Bytes) /\ Len(read.bytes) <= limit
  <2>1. CASE value = Null
    BY <2>1 DEF bounded_bytes
  <2>2. CASE value \in Seq(Bytes)
    <3>1. value # Null /\ Len(value) \in Nat
      BY <2>2, BytesAreNotNull
    <3>2. CASE Len(value) <= limit
      BY <2>2, <3>1, <3>2 DEF bounded_bytes
    <3>3. CASE ~(Len(value) <= limit)
      <4>1. limit \in 0..Len(value)
        BY <3>1, <3>3
      <4>2. SubSeq(value, 1, limit) \in Seq(Bytes) /\ Len(SubSeq(value, 1, limit)) = limit
        BY <2>2, <4>1, PrefixIs
      <4>3. read.bytes = SubSeq(value, 1, limit)
        BY <3>1, <3>3 DEF bounded_bytes
      <4>. HIDE DEF read
      <4>. QED BY <4>2, <4>3
    <3>. QED BY <3>2, <3>3
  <2>. QED BY <2>1, <2>2
<1>. DEFINE bytes == read.bytes
<1>2. bytes \in Seq(Bytes) /\ Len(bytes) <= limit
  BY <1>1
<1>3. kept = IF cut THEN TrimPartial(bytes) ELSE bytes
  OBVIOUS
<1>4. decode(value, limit) = DecodedBytes(kept, limit, cut) /\ cut \in BOOLEAN
  BY DEF decode
<1>. HIDE DEF bytes, read, cut, kept
<1>5. TrimPartial(bytes) \in Seq(Bytes) /\ Len(TrimPartial(bytes)) <= limit
  <2>1. ValidUpTo(bytes) \in 0..Len(bytes)
    BY <1>2, ValidUpToIs
  <2>2. SubSeq(bytes, 1, ValidUpTo(bytes)) \in Seq(Bytes)
        /\ Len(SubSeq(bytes, 1, ValidUpTo(bytes))) = ValidUpTo(bytes)
    BY <1>2, <2>1, PrefixIs
  <2>3. ValidUpTo(bytes) <= limit
    BY <1>2, <2>1
  <2>. QED BY <1>2, <2>2, <2>3 DEF TrimPartial
<1>6. kept \in Seq(Bytes) /\ Len(kept) <= limit
  BY <1>2, <1>3, <1>5
<1>7. lossy_with_limit(kept, limit) \in Fitting(limit)
  BY <1>6, LossyIs DEF Fitting
<1>8. /\ decode(value, limit).text = lossy_with_limit(kept, limit)
      /\ decode(value, limit).truncated = cut
      /\ decode(value, limit).invalid = ~IsUtf8(kept)
      /\ decode(value, limit).raw = IF IsUtf8(kept) THEN Null ELSE kept
  BY <1>4 DEF DecodedBytes
<1>. QED BY <1>4, <1>6, <1>7, <1>8
=============================================================================
