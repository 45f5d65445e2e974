----------------------- MODULE PluginStringReadProofs -----------------------
(***************************************************************************)
(* Proofs about PluginStringRead, for strings and limits of any size.      *)
(*                                                                         *)
(* A string is cut into pieces: whole characters, and broken ones, each of  *)
(* them one replacement.  What follows the end of a piece is cut up by      *)
(* itself, so the invariant of the loop is that the longest text of the     *)
(* bytes to go makes the text so far the longest text of all bytes.         *)
(***************************************************************************)
EXTENDS PluginStringRead, PluginStringProofs

-----------------------------------------------------------------------------
(* The pieces of a string. *)

(* Only a continuation may belong to a character that started before. *)
LEMMA OthersStart ==
  ASSUME NEW s \in Seq(Bytes), NEW i \in 1..Len(s), CharLen(s[i]) > 0 \/ s[i] # "cont"
  PROVE  i \in Starts(s)
<1>1. SUFFICES ASSUME NEW j \in 1..(i - 1), CharLen(s[j]) > 0, ~(j + Following(s, j) < i)
               PROVE  FALSE
  <2>1. \A j \in 1..(i - 1) : CharLen(s[j]) \in 0..3
    BY CharLenIs
  <2>2. \A j \in 1..(i - 1) : CharLen(s[j]) = 0 \/ CharLen(s[j]) > 0
    BY <2>1
  <2>. QED BY <2>2, <1>1 DEF Starts
<1>2. j \in 1..Len(s) /\ CharLen(s[j]) \in 1..3
  BY <1>1, CharLenIs
<1>3. Following(s, j) \in 0..(CharLen(s[j]) - 1)
  BY <1>1, <1>2, Covers
<1>4. i \in (j + 1)..(j + Following(s, j))
  BY <1>1, <1>2, <1>3
<1>5. s[i] = "cont" /\ CharLen(s[i]) = 0
  BY <1>1, <1>2, <1>4, Covers
<1>. QED BY <1>5

(* A start that is no lead belongs to nothing. *)
LEMMA StartsIs ==
  ASSUME NEW s \in Seq(Bytes), NEW i \in 1..Len(s), i \in Starts(s),
         NEW j \in 1..(i - 1), CharLen(s[j]) > 0
  PROVE  j + Following(s, j) < i
BY DEF Starts

(* Among whole characters, pieces end where characters do. *)
LEMMA WholePieces ==
  ASSUME NEW s \in Seq(Bytes), NEW v \in 0..Len(s), Whole(s, v)
  PROVE  /\ \A m \in 0..v : m \in Ends(s) <=> Whole(s, m)
         /\ \A i \in 1..v : i \in Kept(s) /\ i \notin Broken(s)
<1>1. ASSUME NEW i \in 1..v, CharLen(s[i]) > 0
      PROVE  WholeAt(s, i) /\ Following(s, i) = CharLen(s[i]) - 1 /\ i + CharLen(s[i]) - 1 <= v
  <2>1. i + CharLen(s[i]) - 1 <= v /\ \A j \in 1..(CharLen(s[i]) - 1) : s[i + j] = "cont"
    BY <1>1 DEF Whole
  <2>2. i \in 1..Len(s) /\ CharLen(s[i]) \in 0..3
    BY CharLenIs
  <2>3. WholeAt(s, i)
    BY <1>1, <2>1, <2>2, WholeAtIs
  <2>. QED BY <2>1, <2>3 DEF WholeAt
<1>2. ASSUME NEW m \in 0..v, Whole(s, m)
      PROVE  m \in Ends(s)
  <2>1. SUFFICES ASSUME m < Len(s), NEW j \in 1..m, CharLen(s[j]) > 0
                 PROVE  j + Following(s, j) < m + 1
    <3>1. \A j \in 1..m : CharLen(s[j]) \in 0..3
      BY CharLenIs
    <3>2. \A j \in 1..m : CharLen(s[j]) = 0 \/ CharLen(s[j]) > 0
      BY <3>1
    <3>3. m < Len(s) => m + 1 \in DOMAIN s /\ (m + 1) - 1 = m
      OBVIOUS
    <3>4. m < Len(s) => m + 1 \in Starts(s)
      BY <2>1, <3>2, <3>3 DEF Starts
    <3>5. m \in 0..Len(s) /\ (m = Len(s) \/ m < Len(s))
      OBVIOUS
    <3>. QED BY <3>4, <3>5 DEF Ends
  <2>2. j + CharLen(s[j]) - 1 <= m
    BY <1>2, <2>1 DEF Whole
  <2>3. Following(s, j) = CharLen(s[j]) - 1 /\ CharLen(s[j]) \in 0..3
    BY <1>1, <2>1, CharLenIs
  <2>. QED BY <2>2, <2>3
<1>3. ASSUME NEW m \in 0..v, m \in Ends(s)
      PROVE  Whole(s, m)
  <2>1. CASE m = v
    BY <2>1
  <2>2. CASE m < v
    <3>1. m + 1 \in Starts(s) /\ m + 1 \in 1..Len(s)
      BY <1>3, <2>2 DEF Ends
    <3>2. ASSUME NEW i \in 1..m
          PROVE  IF CharLen(s[i]) > 0
                 THEN i + CharLen(s[i]) - 1 <= m /\ \A j \in 1..(CharLen(s[i]) - 1) : s[i + j] = "cont"
                 ELSE \E j \in 1..(i - 1) : i < j + CharLen(s[j])
      <4>1. i \in 1..v /\ CharLen(s[i]) \in 0..3 /\ i \in 1..((m + 1) - 1)
        BY CharLenIs
      <4>2. IF CharLen(s[i]) > 0
            THEN i + CharLen(s[i]) - 1 <= v /\ \A j \in 1..(CharLen(s[i]) - 1) : s[i + j] = "cont"
            ELSE \E j \in 1..(i - 1) : i < j + CharLen(s[j])
        BY <4>1 DEF Whole
      <4>3. CharLen(s[i]) > 0 => i + Following(s, i) < m + 1
        BY <3>1, <4>1, StartsIs
      <4>4. CharLen(s[i]) > 0 => Following(s, i) = CharLen(s[i]) - 1
        BY <1>1, <4>1
      <4>5. CharLen(s[i]) > 0 => i + CharLen(s[i]) - 1 <= m
        BY <4>1, <4>3, <4>4
      <4>. QED BY <4>2, <4>5
    <3>. QED BY <3>2 DEF Whole
  <2>. QED BY <2>1, <2>2
<1>4. ASSUME NEW i \in 1..v
      PROVE  i \in Kept(s) /\ i \notin Broken(s)
  <2>1. i \in 1..Len(s) /\ CharLen(s[i]) \in 0..3
    BY CharLenIs
  <2>2. CASE CharLen(s[i]) > 0
    <3>1. i \in Starts(s)
      BY <2>1, <2>2, OthersStart
    <3>2. WholeAt(s, i)
      BY <1>1, <2>2
    <3>. QED BY <3>1, <3>2 DEF Kept, Broken
  <2>3. CASE CharLen(s[i]) = 0
    <3>1. ~(CharLen(s[i]) > 0)
      BY <2>3
    <3>2. PICK j \in 1..(i - 1) : i < j + CharLen(s[j])
      BY <3>1 DEF Whole
    <3>3. j \in 1..v /\ j \in 1..Len(s) /\ CharLen(s[j]) \in 0..3 /\ CharLen(s[j]) > 0
      BY <3>2, CharLenIs
    <3>4. WholeAt(s, j) /\ Following(s, j) = CharLen(s[j]) - 1
      BY <1>1, <3>3
    <3>5. i <= j + Following(s, j) /\ j \in 1..i
      BY <3>2, <3>3, <3>4
    <3>6. i \notin Starts(s)
      <4>1. SUFFICES ASSUME i \in Starts(s) PROVE FALSE
        OBVIOUS
      <4>2. j + Following(s, j) < i
        BY <2>1, <3>3, <4>1, StartsIs
      <4>. QED BY <3>3, <3>4, <3>5, <4>2
    <3>7. i \in DOMAIN s
      OBVIOUS
    <3>. QED BY <3>4, <3>5, <3>6, <3>7 DEF Kept, Broken
  <2>. QED BY <2>1, <2>2, <2>3
<1>. QED BY <1>2, <1>3, <1>4

(* A broken piece is a replacement and nothing more. *)
LEMMA BrokenPiece ==
  ASSUME NEW s \in Seq(Bytes), ValidUpTo(s) < Len(s)
  PROVE  LET v == ValidUpTo(s)
             b == BrokenLen(s)
         IN  /\ v \in 0..Len(s) /\ b \in 1..2 /\ v + b <= Len(s)
             /\ v + 1 \in Broken(s) /\ v + 1 \in Kept(s)
             /\ v + b \in Ends(s) /\ \A m \in (v + 1)..(v + b - 1) : m \notin Ends(s)
             /\ \A i \in (v + 2)..(v + b) : i \notin Kept(s) /\ i \notin Broken(s)
<1>. DEFINE v == ValidUpTo(s)  b == BrokenLen(s)
<1>1. v \in 0..Len(s) /\ Whole(s, v)
  BY ValidUpToIs
<1>2. /\ v + 1 \in 1..Len(s) /\ ~WholeAt(s, v + 1)
      /\ b \in 1..2 /\ v + 1 + b - 1 <= Len(s)
      /\ CharLen(s[v + 1]) > 0 => b = 1 + Following(s, v + 1)
      /\ CharLen(s[v + 1]) = 0 => b = 1
      /\ \A j \in (v + 1 + 1)..(v + 1 + b - 1) : s[j] = "cont" /\ CharLen(s[j]) = 0
  BY BrokenThere
<1>. HIDE DEF v, b
<1>3. v + b <= Len(s) /\ \A j \in (v + 2)..(v + b) : s[j] = "cont" /\ CharLen(s[j]) = 0
  <2>1. v + 1 + 1 = v + 2 /\ v + 1 + b - 1 = v + b
    BY <1>1, <1>2
  <2>. QED BY <1>2, <2>1
<1>4. ASSUME NEW j \in 1..v
      PROVE  CharLen(s[j]) = 0 \/ j + Following(s, j) <= v
  <2>1. j \in 1..Len(s) /\ CharLen(s[j]) \in 0..3
    BY <1>1, CharLenIs
  <2>2. CASE CharLen(s[j]) > 0
    <3>1. j + CharLen(s[j]) - 1 <= v
      BY <1>1, <2>2 DEF Whole
    <3>2. Following(s, j) \in 0..(CharLen(s[j]) - 1)
      BY <2>1, <2>2, Covers
    <3>3. j + Following(s, j) <= j + CharLen(s[j]) - 1 /\ j + Following(s, j) \in Int
      BY <2>1, <3>2
    <3>. QED BY <1>1, <2>1, <3>1, <3>3
  <2>. QED BY <2>1, <2>2
(* Of the bytes before, none reaches behind the piece. *)
<1>5. ASSUME NEW i \in (v + 1)..(v + b + 1), NEW j \in 1..(i - 1), i = v + 1 \/ i = v + b + 1
      PROVE  CharLen(s[j]) = 0 \/ j + Following(s, j) < i
  <2>1. CASE j <= v
    <3>1. j \in 1..v /\ j \in 1..Len(s)
      BY <1>1, <1>2, <2>1
    <3>2. CharLen(s[j]) = 0 \/ j + Following(s, j) <= v
      BY <1>4, <3>1
    <3>3. CharLen(s[j]) > 0 => Following(s, j) \in 0..(CharLen(s[j]) - 1) /\ CharLen(s[j]) \in 0..3
      BY <3>1, Covers, CharLenIs
    <3>4. CharLen(s[j]) \in 0..3
      BY <3>1, CharLenIs
    <3>. QED BY <1>1, <1>2, <1>5, <3>1, <3>2, <3>3, <3>4
  <2>2. CASE j = v + 1
    <3>1. i = v + b + 1
      BY <1>1, <1>5, <2>2
    <3>2. CharLen(s[j]) \in 0..3
      BY <1>2, <2>2, CharLenIs
    <3>3. CharLen(s[j]) > 0 => Following(s, j) \in 0..(CharLen(s[j]) - 1)
      BY <1>2, <2>2, Covers
    <3>4. CharLen(s[j]) > 0 => b = 1 + Following(s, j)
      BY <1>2, <2>2
    <3>. QED BY <1>1, <1>2, <2>2, <3>1, <3>2, <3>3, <3>4
  <2>3. CASE j \in (v + 2)..(v + b)
    BY <1>3, <2>3
  <2>. QED BY <1>1, <1>2, <1>5, <2>1, <2>2, <2>3
<1>6. v + 1 \in Starts(s)
  <2>1. v + 1 \in (v + 1)..(v + b + 1) /\ v + 1 \in DOMAIN s
    BY <1>1, <1>2
  <2>. QED BY <1>5, <2>1 DEF Starts
<1>7. v + 1 \in Broken(s) /\ v + 1 \in Kept(s)
  BY <1>2, <1>6 DEF Broken, Kept
<1>8. v + b \in Ends(s)
  <2>1. v + b \in 0..Len(s) /\ v + b + 1 \in (v + 1)..(v + b + 1)
    BY <1>1, <1>2, <1>3
  <2>2. CASE v + b < Len(s)
    <3>1. v + b + 1 \in DOMAIN s
      BY <2>1, <2>2
    <3>2. v + b + 1 \in Starts(s)
      BY <1>5, <2>1, <3>1 DEF Starts
    <3>. QED BY <2>1, <3>2 DEF Ends
  <2>. QED BY <1>3, <2>1, <2>2 DEF Ends
<1>9. ASSUME NEW i \in (v + 2)..(v + b)
      PROVE  i \notin Starts(s) /\ i \notin Kept(s) /\ i \notin Broken(s)
  <2>1. i = v + 2 /\ b = 2 /\ i \in 1..Len(s)
    BY <1>1, <1>2, <1>3
  <2>2. CharLen(s[v + 1]) \in 0..3
    BY <1>2, CharLenIs
  <2>3. CharLen(s[v + 1]) > 0 /\ b = 1 + Following(s, v + 1)
    BY <1>2, <2>1, <2>2
  <2>4. Following(s, v + 1) = 1
    <3>1. Following(s, v + 1) \in 0..(CharLen(s[v + 1]) - 1)
      BY <1>2, <2>3, Covers
    <3>. QED BY <2>1, <2>2, <2>3, <3>1
  <2>5. i \notin Starts(s)
    <3>1. SUFFICES ASSUME i \in Starts(s) PROVE FALSE
      OBVIOUS
    <3>2. v + 1 \in 1..(i - 1)
      BY <1>1, <2>1
    <3>3. v + 1 + Following(s, v + 1) < i
      BY <2>1, <2>3, <3>1, <3>2, StartsIs
    <3>. QED BY <1>1, <2>1, <2>4, <3>3
  <2>6. ASSUME NEW j \in 1..i, WholeAt(s, j), i <= j + Following(s, j)
        PROVE  FALSE
    <3>1. j \in 1..Len(s) /\ CharLen(s[j]) > 0
      BY <2>1, <2>6 DEF WholeAt
    <3>2. CASE j \in 1..v
      <4>1. j + Following(s, j) <= v
        BY <1>4, <3>1, <3>2
      <4>2. Following(s, j) \in 0..(CharLen(s[j]) - 1) /\ CharLen(s[j]) \in 0..3
        BY <3>1, Covers, CharLenIs
      <4>. QED BY <1>1, <2>1, <2>6, <4>1, <4>2
    <3>3. CASE j = v + 1
      BY <1>2, <2>6, <3>3
    <3>4. CASE j = i
      <4>1. CharLen(s[i]) = 0
        BY <1>3, <1>9
      <4>. QED BY <3>1, <3>4, <4>1
    <3>. QED BY <1>1, <2>1, <3>2, <3>3, <3>4
  <2>. QED BY <2>5, <2>6 DEF Kept, Broken
<1>10. ASSUME NEW m \in (v + 1)..(v + b - 1)
       PROVE  m \notin Ends(s)
  <2>1. m + 1 \in (v + 2)..(v + b) /\ m < Len(s)
    BY <1>1, <1>2, <1>3
  <2>2. m + 1 \notin Starts(s)
    BY <1>9, <2>1
  <2>. QED BY <2>1, <2>2 DEF Ends
<1>. QED BY <1>1, <1>2, <1>3, <1>7, <1>8, <1>9, <1>10 DEF v, b

-----------------------------------------------------------------------------
(* What follows the end of a piece is cut up by itself. *)

LEMMA NotLast ==
  ASSUME NEW n \in Nat, NEW m \in 0..n, m # n, NEW q \in Nat
  PROVE  m + 1 \in 1..n /\ q + (m + 1) = q + m + 1
OBVIOUS

LEMMA SuffixIs ==
  ASSUME NEW s \in Seq(Bytes), NEW q \in 0..Len(s)
  PROVE  LET t == SubSeq(s, q + 1, Len(s))
         IN  /\ t \in Seq(Bytes) /\ Len(t) = Len(s) - q
             /\ \A i \in 1..(Len(s) - q) : t[i] = s[q + i] /\ q + i \in 1..Len(s)
<1>1. q + 1 \in Int /\ Len(s) \in Int /\ Len(s) \in Nat
  OBVIOUS
<1>2. \A i \in (q + 1)..Len(s) : s[i] \in Bytes
  OBVIOUS
<1>3. /\ SubSeq(s, q + 1, Len(s)) \in Seq(Bytes)
      /\ Len(SubSeq(s, q + 1, Len(s))) = IF q + 1 <= Len(s) THEN Len(s) - (q + 1) + 1 ELSE 0
      /\ \A i \in 1..(Len(s) - (q + 1) + 1) : SubSeq(s, q + 1, Len(s))[i] = s[q + 1 + i - 1]
  BY <1>1, <1>2, SubSeqProperties
<1>. DEFINE t == SubSeq(s, q + 1, Len(s))
<1>4. t \in Seq(Bytes) /\ Len(t) = IF q + 1 <= Len(s) THEN Len(s) - (q + 1) + 1 ELSE 0
  BY <1>3
<1>5. \A i \in 1..(Len(s) - (q + 1) + 1) : t[i] = s[q + 1 + i - 1]
  BY <1>3
<1>. HIDE DEF t
<1>6. Len(t) = Len(s) - q
  BY <1>1, <1>4
<1>7. ASSUME NEW i \in 1..(Len(s) - q)
      PROVE  t[i] = s[q + i] /\ q + i \in 1..Len(s)
  <2>1. i \in 1..(Len(s) - (q + 1) + 1) /\ q + 1 + i - 1 = q + i /\ q + i \in 1..Len(s)
    BY <1>1
  <2>2. t[i] = s[q + 1 + i - 1]
    BY <1>5, <2>1
  <2>. QED BY <2>1, <2>2
<1>. QED BY <1>4, <1>6, <1>7 DEF t

LEMMA SuffixFollowing ==
  ASSUME NEW s \in Seq(Bytes), NEW t \in Seq(Bytes), NEW q \in 0..Len(s), Len(t) = Len(s) - q,
         \A i \in 1..(Len(s) - q) : t[i] = s[q + i] /\ q + i \in 1..Len(s),
         NEW i \in 1..Len(t)
  PROVE  /\ WholeAt(t, i) <=> WholeAt(s, q + i)
         /\ CharLen(t[i]) > 0 => Following(t, i) = Following(s, q + i)
<1>. DEFINE n == CharLen(t[i]) - 1
<1>1. t[i] = s[q + i] /\ q + i \in 1..Len(s) /\ i \in 1..(Len(s) - q)
  OBVIOUS
<1>2. ASSUME CharLen(t[i]) > 0
      PROVE  Following(t, i) = Following(s, q + i)
  <2>1. n \in 0..2
    BY <1>2, CharLenIs
  <2>2. Continued(t, i, n, Following(t, i))
    BY <1>2, FollowingIs
  <2>3. \A k : Continued(s, q + i, n, k) => k = Following(s, q + i)
    BY <1>1, <1>2, FollowingIs
  <2>. DEFINE f == Following(t, i)
  <2>. HIDE DEF n, f
  <2>4. f \in 0..n /\ (\A j \in 1..f : i + j \in DOMAIN t /\ t[i + j] = "cont")
        /\ (f < n => i + f + 1 \notin DOMAIN t \/ t[i + f + 1] # "cont")
    BY <2>2 DEF Continued, f
  <2>5. \A j \in Nat : q + i + j = q + (i + j) /\ q + i + j + 1 = q + (i + j + 1)
    OBVIOUS
  <2>6. \A k \in 1..Len(t) : t[k] = s[q + k] /\ q + k \in 1..Len(s)
    OBVIOUS
  <2>7. ASSUME NEW j \in 1..f
        PROVE  q + i + j \in DOMAIN s /\ s[q + i + j] = "cont"
    <3>0. DOMAIN t = 1..Len(t)
      OBVIOUS
    <3>1. i + j \in 1..Len(t) /\ t[i + j] = "cont"
      BY <2>4, <3>0
    <3>2. t[i + j] = s[q + (i + j)] /\ q + (i + j) \in 1..Len(s)
      BY <2>6, <3>1
    <3>3. q + i + j = q + (i + j)
      BY <2>1, <2>4, <2>5
    <3>. QED BY <3>1, <3>2, <3>3
  <2>8. ASSUME f < n, q + i + f + 1 \in DOMAIN s
        PROVE  s[q + i + f + 1] # "cont"
    <3>1. f \in Nat /\ q + i + f + 1 = q + (i + f + 1)
      BY <2>1, <2>4, <2>5
    <3>2. i + f + 1 \in 1..Len(t)
      BY <2>8, <3>1
    <3>3. t[i + f + 1] # "cont"
      BY <2>4, <2>8, <3>2
    <3>. QED BY <2>6, <3>1, <3>2, <3>3
  <2>9. Continued(s, q + i, n, f)
    BY <2>4, <2>7, <2>8 DEF Continued
  <2>. QED BY <2>3, <2>9 DEF f
<1>3. WholeAt(t, i) <=> WholeAt(s, q + i)
  BY <1>1, <1>2 DEF WholeAt
<1>. QED BY <1>2, <1>3

LEMMA CutPieces ==
  ASSUME NEW s \in Seq(Bytes), NEW t \in Seq(Bytes), NEW q \in Nat, q <= Len(s),
         q < Len(s) => q + 1 \in Starts(s), Len(t) = Len(s) - q,
         \A i \in 1..(Len(s) - q) : t[i] = s[q + i] /\ q + i \in 1..Len(s)
  PROVE  /\ \A i \in 1..Len(t) :
              /\ i \in Kept(t) <=> q + i \in Kept(s)
              /\ i \in Broken(t) <=> q + i \in Broken(s)
         /\ \A m \in 0..Len(t) : m \in Ends(t) <=> q + m \in Ends(s)
<1>1. q \in 0..Len(s)
  OBVIOUS
<1>3. Len(s) \in Nat /\ Len(t) \in Nat /\ DOMAIN t = 1..Len(t) /\ DOMAIN s = 1..Len(s)
  OBVIOUS
<1>4. ASSUME NEW i \in 1..Len(t)
      PROVE  /\ t[i] = s[q + i] /\ q + i \in 1..Len(s)
             /\ WholeAt(t, i) <=> WholeAt(s, q + i)
             /\ CharLen(t[i]) > 0 => Following(t, i) = Following(s, q + i)
  <2>1. i \in 1..(Len(s) - q)
    OBVIOUS
  <2>. QED BY <1>1, <2>1, SuffixFollowing
(* No character of the first q bytes reaches behind them. *)
<1>5. ASSUME NEW j \in 1..q, q < Len(s), CharLen(s[j]) > 0
      PROVE  j + Following(s, j) <= q /\ Following(s, j) \in 0..2
  <2>1. j \in 1..Len(s) /\ j \in 1..((q + 1) - 1) /\ q + 1 \in 1..Len(s)
    BY <1>1, <1>5
  <2>2. j + Following(s, j) < q + 1
    BY <1>1, <1>5, <2>1, StartsIs
  <2>3. Following(s, j) \in 0..(CharLen(s[j]) - 1) /\ CharLen(s[j]) \in 0..3
    BY <1>5, <2>1, Covers, CharLenIs
  <2>. QED BY <1>1, <2>1, <2>2, <2>3
<1>6. ASSUME NEW i \in 1..Len(t)
      PROVE  i \in Starts(t) <=> q + i \in Starts(s)
  <2>1. q < Len(s) /\ q + i \in DOMAIN s /\ i \in DOMAIN t
    BY <1>1, <1>3, <1>4
  <2>2. ASSUME i \in Starts(t)
        PROVE  q + i \in Starts(s)
    <3>1. SUFFICES ASSUME NEW j \in 1..(q + i - 1), CharLen(s[j]) > 0
                   PROVE  j + Following(s, j) < q + i
      <4>1. ASSUME NEW j \in 1..(q + i - 1)
            PROVE  CharLen(s[j]) = 0 \/ CharLen(s[j]) > 0
        <5>1. j \in 1..Len(s)
          BY <1>1, <1>4
        <5>. QED BY <5>1, CharLenIs
      <4>2. \A j \in 1..(q + i - 1) : CharLen(s[j]) = 0 \/ j + Following(s, j) < q + i
        BY <3>1, <4>1
      <4>. QED BY <2>1, <4>2 DEF Starts
    <3>2. CASE j <= q
      <4>1. j \in 1..q
        BY <1>1, <3>2
      <4>2. j + Following(s, j) <= q /\ Following(s, j) \in 0..2
        BY <1>5, <2>1, <3>1, <4>1
      <4>. QED BY <1>1, <4>1, <4>2
    <3>3. CASE j > q
      <4>1. j - q \in 1..(i - 1) /\ j - q \in 1..Len(t) /\ q + (j - q) = j
        BY <1>1, <1>3, <3>3
      <4>2. t[j - q] = s[j] /\ CharLen(t[j - q]) > 0 /\ Following(t, j - q) = Following(s, j)
        BY <1>4, <3>1, <4>1
      <4>3. (j - q) + Following(t, j - q) < i
        BY <2>2, <4>1, <4>2, StartsIs
      <4>4. Following(t, j - q) \in 0..(CharLen(t[j - q]) - 1) /\ CharLen(t[j - q]) \in 0..3
        BY <4>1, <4>2, Covers, CharLenIs
      <4>5. Following(s, j) \in Int
        BY <4>2, <4>4
      <4>. QED BY <1>1, <4>2, <4>3, <4>5
    <3>. QED BY <1>1, <3>2, <3>3
  <2>3. ASSUME q + i \in Starts(s)
        PROVE  i \in Starts(t)
    <3>1. SUFFICES ASSUME NEW j \in 1..(i - 1), CharLen(t[j]) > 0
                   PROVE  j + Following(t, j) < i
      <4>1. ASSUME NEW j \in 1..(i - 1)
            PROVE  CharLen(t[j]) = 0 \/ CharLen(t[j]) > 0
        <5>1. j \in 1..Len(t)
          BY <1>3
        <5>. QED BY <5>1, CharLenIs
      <4>2. \A j \in 1..(i - 1) : CharLen(t[j]) = 0 \/ j + Following(t, j) < i
        BY <3>1, <4>1
      <4>. QED BY <2>1, <4>2 DEF Starts
    <3>2. j \in 1..Len(t) /\ q + j \in 1..(q + i - 1) /\ q + i \in 1..Len(s)
      BY <1>1, <1>3, <1>4
    <3>3. t[j] = s[q + j] /\ Following(t, j) = Following(s, q + j) /\ CharLen(s[q + j]) > 0
      BY <1>4, <3>1, <3>2
    <3>4. q + j + Following(s, q + j) < q + i
      BY <2>3, <3>2, <3>3, StartsIs
    <3>5. Following(t, j) \in 0..(CharLen(t[j]) - 1) /\ CharLen(t[j]) \in 0..3
      BY <3>1, <3>2, Covers, CharLenIs
    <3>6. Following(t, j) \in Int
      BY <3>5
    <3>. QED BY <1>1, <3>3, <3>4, <3>6
  <2>. QED BY <2>2, <2>3
<1>7. ASSUME NEW i \in 1..Len(t)
      PROVE  i \in Broken(t) <=> q + i \in Broken(s)
  BY <1>4, <1>6 DEF Broken
<1>8. ASSUME NEW i \in 1..Len(t)
      PROVE  i \in Kept(t) <=> q + i \in Kept(s)
  <2>1. q < Len(s) /\ q + i \in DOMAIN s /\ i \in DOMAIN t
    BY <1>1, <1>3, <1>4
  <2>2. ASSUME NEW j \in 1..i, WholeAt(t, j), i <= j + Following(t, j)
        PROVE  \E k \in 1..(q + i) : WholeAt(s, k) /\ q + i <= k + Following(s, k)
    <3>1. j \in 1..Len(t) /\ q + j \in 1..(q + i)
      BY <1>1, <1>3
    <3>2. CharLen(t[j]) > 0
      BY <2>2 DEF WholeAt
    <3>3. WholeAt(s, q + j) /\ Following(t, j) = Following(s, q + j)
      BY <1>4, <2>2, <3>1, <3>2
    <3>4. Following(t, j) \in 0..(CharLen(t[j]) - 1) /\ CharLen(t[j]) \in 0..3
      BY <3>1, <3>2, Covers, CharLenIs
    <3>5. Following(t, j) \in Int
      BY <3>4
    <3>6. q + i <= q + j + Following(s, q + j)
      BY <1>1, <2>2, <3>3, <3>5
    <3>. QED BY <3>1, <3>3, <3>6
  <2>3. ASSUME NEW k \in 1..(q + i), WholeAt(s, k), q + i <= k + Following(s, k)
        PROVE  \E j \in 1..i : WholeAt(t, j) /\ i <= j + Following(t, j)
    <3>1. k \in 1..Len(s) /\ CharLen(s[k]) > 0
      <4>1. k \in 1..Len(s)
        BY <1>1, <1>3, <2>1
      <4>. QED BY <2>3, <4>1 DEF WholeAt
    <3>2. k > q
      <4>1. SUFFICES ASSUME k \in 1..q
                     PROVE  FALSE
        BY <1>1
      <4>2. k + Following(s, k) <= q /\ Following(s, k) \in 0..2
        BY <1>5, <2>1, <3>1, <4>1
      <4>. QED BY <1>1, <2>3, <4>2
    <3>3. k - q \in 1..i /\ k - q \in 1..Len(t) /\ q + (k - q) = k
      BY <1>1, <1>3, <3>2
    <3>4. t[k - q] = s[k] /\ WholeAt(t, k - q) /\ Following(t, k - q) = Following(s, k)
      BY <1>4, <2>3, <3>1, <3>3
    <3>5. Following(s, k) \in 0..(CharLen(s[k]) - 1) /\ CharLen(s[k]) \in 0..3
      BY <3>1, Covers, CharLenIs
    <3>6. Following(s, k) \in Int
      BY <3>5
    <3>7. i <= (k - q) + Following(t, k - q)
      BY <1>1, <2>3, <3>4, <3>6
    <3>. QED BY <3>3, <3>4, <3>7
  <2>. QED BY <2>1, <2>2, <2>3, <1>6 DEF Kept
<1>9. ASSUME NEW m \in 0..Len(t)
      PROVE  m \in Ends(t) <=> q + m \in Ends(s)
  <2>1. q + m \in 0..Len(s) /\ (m = Len(t) <=> q + m = Len(s))
    BY <1>1, <1>3
  <2>2. CASE m = Len(t)
    BY <2>1, <2>2 DEF Ends
  <2>3. CASE m # Len(t)
    <3>1. m + 1 \in 1..Len(t) /\ q + (m + 1) = q + m + 1
      BY <1>3, <2>3, NotLast
    <3>2. m + 1 \in Starts(t) <=> q + m + 1 \in Starts(s)
      BY <1>6, <3>1
    <3>. QED BY <2>1, <3>2 DEF Ends
  <2>. QED BY <2>2, <2>3
<1>. QED BY <1>7, <1>8, <1>9

LEMMA SuffixPieces ==
  ASSUME NEW s \in Seq(Bytes), NEW q \in Ends(s)
  PROVE  LET t == SubSeq(s, q + 1, Len(s))
         IN  /\ t \in Seq(Bytes) /\ q \in 0..Len(s) /\ Len(t) = Len(s) - q
             /\ \A i \in 1..Len(t) : t[i] = s[q + i]
             /\ \A i \in 1..Len(t) : i \in Kept(t) <=> q + i \in Kept(s)
             /\ \A i \in 1..Len(t) : i \in Broken(t) <=> q + i \in Broken(s)
             /\ \A m \in 0..Len(t) : m \in Ends(t) <=> q + m \in Ends(s)
<1>. DEFINE t == SubSeq(s, q + 1, Len(s))
<1>1. q \in 0..Len(s) /\ (q < Len(s) => q + 1 \in Starts(s))
  BY DEF Ends
<1>2. /\ t \in Seq(Bytes) /\ Len(t) = Len(s) - q
      /\ \A i \in 1..(Len(s) - q) : t[i] = s[q + i] /\ q + i \in 1..Len(s)
  BY <1>1, SuffixIs
<1>3. q \in Nat /\ q <= Len(s)
  BY <1>1
<1>. HIDE DEF t
<1>4. /\ \A i \in 1..Len(t) :
           /\ i \in Kept(t) <=> q + i \in Kept(s)
           /\ i \in Broken(t) <=> q + i \in Broken(s)
      /\ \A m \in 0..Len(t) : m \in Ends(t) <=> q + m \in Ends(s)
  BY <1>1, <1>2, <1>3, CutPieces
<1>5. \A i \in 1..Len(t) : t[i] = s[q + i]
  BY <1>2
<1>. QED BY <1>1, <1>2, <1>4, <1>5 DEF t

-----------------------------------------------------------------------------
(* How much text there is. *)

LEMMA SizeType ==
  ASSUME NEW s, NEW n \in Nat
  PROVE  Place(s, n) \in Nat /\ Place(s, n) <= n /\ SizeOf(s, n) \in Nat
<1>1. Count(Kept(s), n) \in Nat /\ Count(Kept(s), n) <= n /\ Count(Broken(s), n) \in Nat
  BY CountType
<1>. QED BY <1>1 DEF Place, SizeOf

LEMMA SizeGrows ==
  ASSUME NEW s, NEW n \in Nat, NEW m \in Nat, m <= n
  PROVE  Place(s, m) <= Place(s, n) /\ SizeOf(s, m) <= SizeOf(s, n)
<1>1. Count(Kept(s), m) <= Count(Kept(s), n) /\ Count(Broken(s), m) <= Count(Broken(s), n)
  BY CountGrows
<1>2. /\ Count(Kept(s), m) \in Nat /\ Count(Kept(s), n) \in Nat
      /\ Count(Broken(s), m) \in Nat /\ Count(Broken(s), n) \in Nat
  BY CountType
<1>. QED BY <1>1, <1>2 DEF Place, SizeOf

LEMMA SizeOfWhole ==
  ASSUME NEW s \in Seq(Bytes), NEW v \in 0..Len(s), Whole(s, v), NEW m \in 0..v
  PROVE  Place(s, m) = m /\ SizeOf(s, m) = m
<1>1. \A i \in 1..m : i \in Kept(s) /\ i \notin Broken(s)
  BY WholePieces
<1>2. Count(Kept(s), m) = m /\ Count(Broken(s), m) = 0
  BY <1>1, CountAll, CountNone
<1>. QED BY <1>2 DEF Place, SizeOf

LEMMA SizeOfBroken ==
  ASSUME NEW s \in Seq(Bytes), ValidUpTo(s) < Len(s)
  PROVE  LET v == ValidUpTo(s)
             n == v + BrokenLen(s)
         IN  Place(s, n) = v + 1 /\ SizeOf(s, n) = v + 3
<1>. DEFINE v == ValidUpTo(s)  b == BrokenLen(s)
            K == {i \in 1..b : v + i \in Kept(s)}
            B == {i \in 1..b : v + i \in Broken(s)}
<1>1. /\ v \in 0..Len(s) /\ b \in 1..2 /\ v + b <= Len(s)
      /\ v + 1 \in Broken(s) /\ v + 1 \in Kept(s)
      /\ \A i \in (v + 2)..(v + b) : i \notin Kept(s) /\ i \notin Broken(s)
  BY BrokenPiece
<1>2. Whole(s, v)
  BY ValidUpToIs
<1>. HIDE DEF v, b
<1>3. Count(Kept(s), v) = v /\ SizeOf(s, v) = v
  BY <1>1, <1>2, SizeOfWhole DEF Place
<1>4. Count(Broken(s), v) = 0
  <2>1. \A i \in 1..v : i \notin Broken(s)
    BY <1>1, <1>2, WholePieces
  <2>. QED BY <1>1, <2>1, CountNone
<1>5. 1 \in K /\ 1 \in B /\ \A i \in 2..b : i \notin K /\ i \notin B
  BY <1>1
<1>6. Count(K, b) = 1 /\ Count(B, b) = 1
  BY <1>1, <1>5, CountFirst
<1>7. \A i \in 1..b : (i \in K <=> v + i \in Kept(s)) /\ (i \in B <=> v + i \in Broken(s))
  OBVIOUS
<1>. HIDE DEF K, B
<1>8. Count(Kept(s), v + b) = Count(Kept(s), v) + Count(K, b)
  BY <1>1, <1>7, CountShift
<1>9. Count(Broken(s), v + b) = Count(Broken(s), v) + Count(B, b)
  BY <1>1, <1>7, CountShift
<1>. QED BY <1>1, <1>3, <1>4, <1>6, <1>8, <1>9 DEF Place, SizeOf, v, b

-----------------------------------------------------------------------------
(* The longest text. *)

LEMMA NoPieces ==
  ASSUME NEW s \in Seq(Bytes)
  PROVE  0 \in Ends(s) /\ SizeOf(s, 0) = 0
<1>1. 0 \in Ends(s)
  <2>1. Len(s) \in Nat /\ DOMAIN s = 1..Len(s)
    OBVIOUS
  <2>2. CASE Len(s) = 0
    BY <2>1, <2>2 DEF Ends
  <2>3. CASE Len(s) # 0
    <3>1. 1 \in DOMAIN s
      BY <2>1, <2>3
    <3>2. 1 \in Starts(s)
      BY <3>1 DEF Starts
    <3>. QED BY <2>1, <3>2 DEF Ends
  <2>. QED BY <2>2, <2>3
<1>2. Count(Kept(s), 0) = 0 /\ Count(Broken(s), 0) = 0
  BY CountNone
<1>. QED BY <1>1, <1>2 DEF SizeOf, Place

(* The one it is the text of is the last end that fits. *)
LEMMA LastThatFits ==
  ASSUME NEW s \in Seq(Bytes), NEW room \in Nat
  PROVE  LET n == Max({m \in Ends(s) : SizeOf(s, m) <= room})
         IN  /\ n \in Ends(s) /\ SizeOf(s, n) <= room
             /\ \A m \in Ends(s) : SizeOf(s, m) <= room => m <= n
<1>. DEFINE fits == {m \in Ends(s) : SizeOf(s, m) <= room}
<1>1. 0 \in fits
  BY NoPieces
<1>2. fits \in SUBSET (0..Len(s)) /\ Len(s) \in Nat /\ fits # {}
  BY <1>1 DEF Ends
<1>3. \A m : m \in fits <=> m \in Ends(s) /\ SizeOf(s, m) <= room
  OBVIOUS
<1>. HIDE DEF fits
<1>4. Max(fits) \in fits /\ \A m \in fits : m <= Max(fits)
  BY <1>2, MaxIsMost
<1>5. /\ Max(fits) \in Ends(s) /\ SizeOf(s, Max(fits)) <= room
      /\ \A m \in Ends(s) : SizeOf(s, m) <= room => m <= Max(fits)
  BY <1>3, <1>4
<1>. QED BY <1>5 DEF fits

LEMMA LongestIs ==
  ASSUME NEW s \in Seq(Bytes), NEW room \in Nat, NEW n \in Ends(s), SizeOf(s, n) <= room,
         \A m \in Ends(s) : m > n => SizeOf(s, m) > room, NEW text
  PROVE  IsLongestText(text, s, room) <=> IsText(text, s, n)
<1>. DEFINE last == Max({m \in Ends(s) : SizeOf(s, m) <= room})
<1>1. IsLongestText(text, s, room) <=> IsText(text, s, last)
  BY DEF IsLongestText
<1>2. last \in Ends(s) /\ SizeOf(s, last) <= room /\ n <= last
  BY LastThatFits
<1>. HIDE DEF last
<1>3. last \in Nat /\ n \in Nat /\ SizeOf(s, last) \in Nat
  BY <1>2, SizeType DEF Ends
<1>4. ~(last > n)
  BY <1>2, <1>3
<1>5. last = n
  BY <1>2, <1>3, <1>4
<1>. QED BY <1>1, <1>5

LEMMA LongestEnds ==
  ASSUME NEW s \in Seq(Bytes), NEW room \in Nat, NEW text, IsLongestText(text, s, room)
  PROVE  \E n \in Ends(s) : /\ IsText(text, s, n) /\ SizeOf(s, n) <= room
                            /\ \A m \in Ends(s) : m > n => SizeOf(s, m) > room
<1>. DEFINE last == Max({m \in Ends(s) : SizeOf(s, m) <= room})
<1>1. IsText(text, s, last)
  BY DEF IsLongestText
<1>2. /\ last \in Ends(s) /\ SizeOf(s, last) <= room
      /\ \A m \in Ends(s) : SizeOf(s, m) <= room => m <= last
  BY LastThatFits
<1>. HIDE DEF last
<1>3. ASSUME NEW m \in Ends(s), m > last
      PROVE  SizeOf(s, m) > room
  <2>1. m \in Nat /\ last \in Nat /\ SizeOf(s, m) \in Nat
    BY <1>2, SizeType DEF Ends
  <2>. QED BY <1>2, <1>3, <2>1
<1>. QED BY <1>1, <1>2, <1>3

(* A text, and the text of what follows, make one text. *)
LEMMA JoinedTexts ==
  ASSUME NEW s \in Seq(Bytes), NEW t, NEW q \in Nat, NEW n \in Nat,
         \A i \in 1..n : t[i] = s[q + i],
         \A i \in 1..n : i \in Kept(t) <=> q + i \in Kept(s),
         \A i \in 1..n : i \in Broken(t) <=> q + i \in Broken(s),
         NEW h \in TextOfBytes, NEW u \in TextOfBytes, IsText(h, s, q), IsText(u, t, n)
  PROVE  IsText(h \o u, s, q + n)
<1>. DEFINE c == h \o u
<1>1. Len(c) = Len(h) + Len(u) /\ Len(h) \in Nat /\ Len(u) \in Nat
  BY ConcatProperties DEF TextOfBytes
<1>2. \A k \in 1..(Len(h) + Len(u)) : c[k] = IF k <= Len(h) THEN h[k] ELSE u[k - Len(h)]
  BY ConcatProperties DEF TextOfBytes
<1>. HIDE DEF c
<1>3. Len(h) = Place(s, q) /\ Len(u) = Place(t, n)
  BY DEF IsText
<1>4. Len(c) = Place(s, q + n)
  <2>1. \A i \in 1..n : i \in Kept(t) <=> q + i \in Kept(s)
    OBVIOUS
  <2>2. Place(s, q + n) = Place(s, q) + Place(t, n)
    BY <2>1, CountShift DEF Place
  <2>. QED BY <1>1, <1>3, <2>2
<1>5. ASSUME NEW i \in Kept(s) \cap 1..(q + n)
      PROVE  c[Place(s, i)] = IF i \in Broken(s) THEN Replacement ELSE s[i]
  <2>1. CASE i <= q
    <3>1. i \in Nat \ {0} /\ i \in Kept(s) \cap 1..q
      BY <2>1
    <3>2. Place(s, i) >= 1 /\ Place(s, i) <= Place(s, q)
      BY <2>1, <3>1, CountIn, SizeGrows DEF Place
    <3>3. Place(s, i) \in Nat /\ Place(s, q) \in Nat
      BY <3>1, SizeType
    <3>. DEFINE k == Place(s, i)
    <3>4. h[k] = IF i \in Broken(s) THEN Replacement ELSE s[i]
      BY <3>1 DEF IsText
    <3>. HIDE DEF k
    <3>5. k \in 1..(Len(h) + Len(u)) /\ k <= Len(h)
      BY <1>1, <1>3, <3>2, <3>3 DEF k
    <3>6. c[k] = h[k]
      BY <1>2, <3>5
    <3>. QED BY <3>4, <3>6 DEF k
  <2>2. CASE i > q
    <3>. DEFINE j == i - q  k == Place(t, j)
    <3>1. j \in 1..n /\ j \in Nat \ {0} /\ q + j = i
      BY <2>2
    <3>. HIDE DEF j
    <3>2. t[j] = s[i] /\ j \in Kept(t) /\ (j \in Broken(t) <=> i \in Broken(s))
      BY <3>1
    <3>3. Place(s, i) = Place(s, q) + k
      <4>1. \A x \in 1..j : x \in Kept(t) <=> q + x \in Kept(s)
        BY <3>1
      <4>2. j \in Nat
        BY <3>1
      <4>3. Place(s, q + j) = Place(s, q) + Place(t, j)
        BY <4>1, <4>2, CountShift DEF Place
      <4>. QED BY <3>1, <4>3
    <3>4. k >= 1 /\ k <= Place(t, n) /\ k \in Nat
      <4>1. k >= 1
        BY <3>1, <3>2, CountIn DEF Place
      <4>2. j \in Nat /\ j <= n
        BY <3>1
      <4>3. k <= Place(t, n)
        BY <4>2, SizeGrows
      <4>4. k \in Nat
        BY <4>2, SizeType
      <4>. QED BY <4>1, <4>3, <4>4
    <3>5. j \in Kept(t) \cap 1..n
      BY <3>1, <3>2
    <3>6. u[k] = IF j \in Broken(t) THEN Replacement ELSE t[j]
      BY <3>5 DEF IsText
    <3>. HIDE DEF k
    <3>7. Len(h) + k \in 1..(Len(h) + Len(u)) /\ ~(Len(h) + k <= Len(h)) /\ (Len(h) + k) - Len(h) = k
      BY <1>1, <1>3, <3>4
    <3>8. c[Len(h) + k] = u[k]
      BY <1>2, <3>7
    <3>. QED BY <1>3, <3>2, <3>3, <3>6, <3>8
  <2>. QED BY <2>1, <2>2
<1>. QED BY <1>4, <1>5 DEF IsText, c

LEMMA LongestJoined ==
  ASSUME NEW s \in Seq(Bytes), NEW q \in Ends(s),
         NEW room \in Nat, SizeOf(s, q) <= room, NEW h \in TextOfBytes, NEW u \in TextOfBytes,
         IsText(h, s, q), IsLongestText(u, SubSeq(s, q + 1, Len(s)), room - SizeOf(s, q))
  PROVE  IsLongestText(h \o u, s, room)
<1>. DEFINE t == SubSeq(s, q + 1, Len(s))
<1>1. t \in Seq(Bytes) /\ q \in 0..Len(s) /\ Len(t) = Len(s) - q
  BY SuffixPieces
<1>2. /\ \A i \in 1..Len(t) : t[i] = s[q + i]
      /\ \A i \in 1..Len(t) : i \in Kept(t) <=> q + i \in Kept(s)
      /\ \A i \in 1..Len(t) : i \in Broken(t) <=> q + i \in Broken(s)
  BY SuffixPieces
<1>3. \A m \in 0..Len(t) : m \in Ends(t) <=> q + m \in Ends(s)
  BY SuffixPieces
<1>. DEFINE size == SizeOf(s, q)  left == room - size
<1>4. size \in Nat /\ left \in Nat /\ q \in Nat
  BY <1>1, SizeType
<1>5. IsLongestText(u, t, left)
  OBVIOUS
<1>. HIDE DEF left, t
<1>6. PICK n \in Ends(t) : /\ IsText(u, t, n) /\ SizeOf(t, n) <= left
                           /\ \A m \in Ends(t) : m > n => SizeOf(t, m) > left
  BY <1>1, <1>4, <1>5, LongestEnds
<1>7. n \in 0..Len(t) /\ q + n \in Ends(s) /\ n \in Nat
  <2>1. n \in 0..Len(t)
    BY <1>6 DEF Ends
  <2>2. q + n \in Ends(s)
    BY <1>3, <1>6, <2>1
  <2>. QED BY <2>1, <2>2
<1>8. ASSUME NEW m \in 0..Len(t)
      PROVE  SizeOf(s, q + m) = size + SizeOf(t, m)
  <2>1. \A i \in 1..m : i \in Kept(t) <=> q + i \in Kept(s)
    BY <1>2
  <2>2. \A i \in 1..m : i \in Broken(t) <=> q + i \in Broken(s)
    BY <1>2
  <2>3. m \in Nat
    OBVIOUS
  <2>4. Count(Kept(s), q + m) = Count(Kept(s), q) + Count(Kept(t), m)
    BY <1>4, <2>1, <2>3, CountShift
  <2>5. Count(Broken(s), q + m) = Count(Broken(s), q) + Count(Broken(t), m)
    BY <1>4, <2>2, <2>3, CountShift
  <2>6. /\ Count(Kept(s), q) \in Nat /\ Count(Kept(t), m) \in Nat
        /\ Count(Broken(s), q) \in Nat /\ Count(Broken(t), m) \in Nat
    BY <1>4, <2>3, CountType
  <2>. QED BY <2>4, <2>5, <2>6 DEF SizeOf, Place
<1>9. SizeOf(s, q + n) <= room
  <2>1. SizeOf(s, q + n) = size + SizeOf(t, n) /\ SizeOf(t, n) \in Nat
    BY <1>7, <1>8, SizeType
  <2>. QED BY <1>4, <1>6, <2>1 DEF left
<1>10. ASSUME NEW m \in Ends(s), m > q + n
       PROVE  SizeOf(s, m) > room
  <2>1. m \in 0..Len(s)
    BY DEF Ends
  <2>. DEFINE k == m - q
  <2>2. k \in 0..Len(t) /\ q + k = m /\ k > n
    BY <1>1, <1>7, <1>10, <2>1
  <2>. HIDE DEF k
  <2>3. k \in Ends(t) /\ k \in Nat
    BY <1>3, <2>2
  <2>4. SizeOf(t, k) \in Nat
    BY <2>3, SizeType
  <2>5. SizeOf(t, k) > left /\ SizeOf(s, m) = size + SizeOf(t, k)
    BY <1>6, <1>8, <2>2, <2>3
  <2>. QED BY <1>4, <2>4, <2>5 DEF left
<1>11. IsText(h \o u, s, q + n)
  <2>1. \A i \in 1..n : t[i] = s[q + i]
    BY <1>2, <1>7
  <2>2. \A i \in 1..n : i \in Kept(t) <=> q + i \in Kept(s)
    BY <1>2, <1>7
  <2>3. \A i \in 1..n : i \in Broken(t) <=> q + i \in Broken(s)
    BY <1>2, <1>7
  <2>. QED BY <1>4, <1>6, <1>7, <2>1, <2>2, <2>3, JoinedTexts
<1>. QED BY <1>7, <1>9, <1>10, <1>11, LongestIs

(* Of whole characters the text is they themselves. *)
LEMMA TextOfWhole ==
  ASSUME NEW s \in Seq(Bytes), NEW v \in 0..Len(s), Whole(s, v), NEW w \in 0..v,
         NEW h \in Seq(Bytes), Len(h) = w, \A i \in 1..w : h[i] = s[i]
  PROVE  IsText(h, s, w)
<1>1. Len(h) = Place(s, w)
  BY SizeOfWhole
<1>2. ASSUME NEW i \in 1..w
      PROVE  Place(s, i) = i /\ i \notin Broken(s)
  <2>1. i \in 0..v /\ i \in 1..v
    OBVIOUS
  <2>. QED BY <2>1, SizeOfWhole, WholePieces
<1>3. \A i \in Kept(s) \cap 1..w : h[Place(s, i)] = IF i \in Broken(s) THEN Replacement ELSE s[i]
  BY <1>2
<1>. QED BY <1>1, <1>3 DEF IsText

-----------------------------------------------------------------------------
(* One round of lossy_with_limit. *)

(* It ends with the longest text there is, when it does not go on. *)
LEMMA RoundEnds ==
  ASSUME NEW s \in Seq(Bytes), NEW room \in Nat
  PROVE  LET v == ValidUpTo(s)
             pushed == push_valid(SubSeq(s, 1, v), room)
         IN  v = Len(s) \/ Len(pushed) < v \/ v + 3 > room => IsLongestText(pushed, s, room)
<1>. DEFINE v == ValidUpTo(s)  pushed == push_valid(SubSeq(s, 1, v), room)  w == Len(pushed)
<1>1. v \in 0..Len(s) /\ Whole(s, v)
  BY ValidUpToIs
<1>2. /\ pushed \in Seq(Bytes) /\ w \in 0..v /\ w <= room /\ Whole(s, w)
      /\ \A i \in 1..w : pushed[i] = s[i]
      /\ \A n \in 0..v : n <= room /\ Whole(s, n) => n <= w
  BY <1>1, PushValidIs
<1>3. v < Len(s) => /\ BrokenLen(s) \in 1..2
                    /\ \A m \in (v + 1)..(v + BrokenLen(s) - 1) : m \notin Ends(s)
                    /\ SizeOf(s, v + BrokenLen(s)) = v + 3
  BY BrokenPiece, SizeOfBroken
<1>. HIDE DEF v, pushed
<1>4. SUFFICES ASSUME v = Len(s) \/ w < v \/ v + 3 > room
               PROVE  IsLongestText(pushed, s, room)
  BY DEF v, pushed
<1>5. IsText(pushed, s, w) /\ SizeOf(s, w) = w /\ w \in Ends(s)
  BY <1>1, <1>2, TextOfWhole, SizeOfWhole, WholePieces
<1>6. ASSUME NEW m \in Ends(s), m > w
      PROVE  SizeOf(s, m) > room
  <2>1. m \in 0..Len(s) /\ m \in Nat /\ v \in Nat /\ w \in Nat
    BY <1>1, <1>2 DEF Ends
  <2>2. SizeOf(s, m) \in Nat
    BY <2>1, SizeType
  <2>3. CASE m <= v
    <3>1. m \in 0..v
      BY <2>1, <2>3
    <3>2. Whole(s, m) /\ SizeOf(s, m) = m
      BY <1>1, <3>1, WholePieces, SizeOfWhole
    <3>3. ~(m <= room)
      BY <1>2, <1>6, <2>1, <3>1, <3>2
    <3>. QED BY <2>1, <3>2, <3>3
  <2>4. CASE m > v /\ w < v
    <3>1. SizeOf(s, v) = v /\ ~(v <= room)
      <4>1. v \in 0..v
        BY <2>1
      <4>. QED BY <1>1, <1>2, <2>1, <2>4, <4>1, SizeOfWhole
    <3>2. v <= m
      BY <2>1, <2>4
    <3>3. SizeOf(s, v) <= SizeOf(s, m)
      BY <2>1, <3>2, SizeGrows
    <3>. QED BY <2>1, <2>2, <3>1, <3>3
  <2>5. CASE m > v /\ ~(w < v)
    <3>1. v < Len(s) /\ v + 3 > room
      BY <1>1, <1>4, <2>1, <2>5
    <3>. DEFINE e == v + BrokenLen(s)
    <3>2. e \in Nat /\ e <= m
      BY <1>3, <2>1, <2>5, <3>1
    <3>3. SizeOf(s, e) = v + 3
      BY <1>3, <3>1
    <3>. HIDE DEF e
    <3>4. SizeOf(s, e) <= SizeOf(s, m)
      BY <2>1, <3>2, SizeGrows
    <3>. QED BY <2>1, <2>2, <3>1, <3>3, <3>4
  <2>. QED BY <2>1, <2>3, <2>4, <2>5
<1>7. SizeOf(s, w) <= room
  BY <1>2, <1>5
<1>. QED BY <1>5, <1>6, <1>7, LongestIs

(* It goes on behind a replacement, and what the rest becomes is the rest of
   the longest text. *)
LEMMA RoundGoesOn ==
  ASSUME NEW s \in Seq(Bytes), NEW room \in Nat, NEW tail \in TextOfBytes,
         ValidUpTo(s) < Len(s), ValidUpTo(s) + 3 <= room,
         Len(push_valid(SubSeq(s, 1, ValidUpTo(s)), room)) = ValidUpTo(s),
         IsLongestText(tail, SubSeq(s, ValidUpTo(s) + BrokenLen(s) + 1, Len(s)),
                       room - (ValidUpTo(s) + 3))
  PROVE  IsLongestText(Append(push_valid(SubSeq(s, 1, ValidUpTo(s)), room), Replacement) \o tail,
                       s, room)
<1>. DEFINE v == ValidUpTo(s)  q == v + BrokenLen(s)
            pushed == push_valid(SubSeq(s, 1, v), room)  h == Append(pushed, Replacement)
<1>1. v \in 0..Len(s) /\ Whole(s, v)
  BY ValidUpToIs
<1>2. pushed \in Seq(Bytes) /\ \A i \in 1..Len(pushed) : pushed[i] = s[i]
  BY <1>1, PushValidIs
<1>3. /\ BrokenLen(s) \in 1..2 /\ v + 1 \in Broken(s) /\ q \in Ends(s)
      /\ \A i \in (v + 2)..(v + BrokenLen(s)) : i \notin Kept(s) /\ i \notin Broken(s)
  BY BrokenPiece
<1>4. Place(s, q) = v + 1 /\ SizeOf(s, q) = v + 3
  BY SizeOfBroken
<1>5. Len(pushed) = v /\ v + 3 <= room /\ IsLongestText(tail, SubSeq(s, q + 1, Len(s)), room - (v + 3))
  OBVIOUS
<1>. HIDE DEF v, pushed, q
<1>6. h \in TextOfBytes /\ Len(h) = v + 1 /\ h[v + 1] = Replacement /\ \A i \in 1..v : h[i] = s[i]
  <2>1. pushed \in TextOfBytes
    BY <1>2, TextLenBytes
  <2>2. /\ h \in TextOfBytes /\ Len(h) = Len(pushed) + 1 /\ h[Len(pushed) + 1] = Replacement
        /\ \A i \in 1..Len(pushed) : h[i] = pushed[i]
    BY <2>1, AppendProperties DEF TextOfBytes
  <2>. HIDE DEF h
  <2>. QED BY <1>2, <1>5, <2>2
<1>. HIDE DEF h
<1>7. ASSUME NEW i \in 1..v
      PROVE  Place(s, i) = i /\ i \notin Broken(s)
  <2>1. i \in 0..v
    OBVIOUS
  <2>. QED BY <1>1, <2>1, SizeOfWhole, WholePieces
<1>8. ASSUME NEW i \in Kept(s) \cap 1..q
      PROVE  h[Place(s, i)] = IF i \in Broken(s) THEN Replacement ELSE s[i]
  <2>1. i \in 1..v \/ i = v + 1
    BY <1>1, <1>3 DEF q
  <2>2. CASE i \in 1..v
    BY <1>6, <1>7, <2>2
  <2>3. CASE i = v + 1
    <3>1. Place(s, v + 1) = v + 1
      <4>1. v + 1 \in Nat /\ v \in Nat /\ v + 1 <= q /\ q \in Nat
        BY <1>1, <1>3 DEF q
      <4>3. \A j \in 1..(v + 1) : j \in Kept(s)
        <5>1. \A j \in 1..v : j \in Kept(s)
          BY <1>1, WholePieces
        <5>2. v + 1 \in Kept(s)
          BY <1>3 DEF Broken, Kept
        <5>. QED BY <4>1, <5>1, <5>2
      <4>. QED BY <4>1, <4>3, CountAll DEF Place
    <3>. QED BY <1>3, <1>6, <2>3, <3>1
  <2>. QED BY <2>1, <2>2, <2>3
<1>9. IsText(h, s, q)
  BY <1>4, <1>6, <1>8 DEF IsText
<1>10. IsLongestText(h \o tail, s, room)
  <2>1. SizeOf(s, q) <= room /\ IsLongestText(tail, SubSeq(s, q + 1, Len(s)), room - SizeOf(s, q))
    BY <1>4, <1>5
  <2>. QED BY <1>3, <1>6, <1>9, <2>1, LongestJoined
<1>. QED BY <1>10 DEF h, pushed, v

-----------------------------------------------------------------------------
(* Good strings, and cut ones. *)

(* UTF-8 that fits is its own longest text. *)
LEMMA ItsOwnText ==
  ASSUME NEW s \in Seq(Bytes), NEW room \in Nat, IsUtf8(s), Len(s) <= room
  PROVE  IsLongestText(s, s, room)
<1>1. Len(s) \in 0..Len(s) /\ Whole(s, Len(s))
  BY DEF IsUtf8
<1>2. IsText(s, s, Len(s)) /\ SizeOf(s, Len(s)) = Len(s)
  BY <1>1, TextOfWhole, SizeOfWhole
<1>3. Len(s) \in Ends(s) /\ \A m \in Ends(s) : ~(m > Len(s))
  BY <1>1 DEF Ends
<1>. QED BY <1>2, <1>3, LongestIs

(* What decode keeps of a string over the limit ends at the cut, or at the
   character the cut would split. *)
LEMMA TrimmedIs ==
  ASSUME NEW s \in Seq(Bytes), NEW room \in Nat \ {0, 1, 2}, room < Len(s)
  PROVE  \E n \in (room - 2)..room :
           TrimPartial(SubSeq(s, 1, room)) = SubSeq(s, 1, n)
<1>. DEFINE c == SubSeq(s, 1, room)  v == ValidUpTo(c)
<1>1. /\ c \in Seq(Bytes) /\ Len(c) = room /\ \A i \in 1..room : c[i] = s[i]
      /\ \A n \in 0..room : SubSeq(c, 1, n) = SubSeq(s, 1, n)
  <2>1. room \in 0..Len(s)
    OBVIOUS
  <2>2. c \in Seq(Bytes) /\ Len(c) = room /\ \A i \in 1..room : c[i] = s[i]
    BY <2>1, PrefixIs
  <2>3. ASSUME NEW n \in 0..room
        PROVE  SubSeq(c, 1, n) = SubSeq(s, 1, n)
    <3>. DEFINE x == SubSeq(c, 1, n)  y == SubSeq(s, 1, n)
    <3>1. x \in Seq(Bytes) /\ Len(x) = n /\ \A i \in 1..n : x[i] = c[i]
      BY <2>2, PrefixIs
    <3>2. y \in Seq(Bytes) /\ Len(y) = n /\ \A i \in 1..n : y[i] = s[i]
      BY PrefixIs
    <3>. HIDE DEF c, x, y
    <3>3. \A i \in 1..n : x[i] = y[i]
      BY <2>2, <3>1, <3>2
    <3>4. x = y
      BY <3>1, <3>2, <3>3, SeqEqual
    <3>. QED BY <3>4 DEF x, y
  <2>. QED BY <2>2, <2>3
<1>2. CASE IsUtf8(c) \/ ~EndsInside(c)
  BY <1>1, <1>2 DEF TrimPartial
<1>3. CASE ~IsUtf8(c) /\ EndsInside(c)
  <2>1. v \in 0..room /\ Whole(c, v)
    BY <1>1, ValidUpToIs
  <2>2. CharLen(c[v + 1]) > 0 /\ v + 1 + Following(c, v + 1) = room
    BY <1>1, <1>3 DEF EndsInside
  <2>3. TrimPartial(c) = SubSeq(c, 1, v)
    BY <1>3 DEF TrimPartial
  <2>. HIDE DEF c, v
  <2>4. v < room
    BY <1>1, <1>3, <2>1 DEF IsUtf8
  <2>5. v + 1 \in 1..Len(c) /\ ValidUpTo(c) < Len(c) /\ v + 1 = ValidUpTo(c) + 1
    BY <1>1, <2>1, <2>4 DEF v
  <2>6. ~WholeAt(c, v + 1)
    BY <1>1, <2>5, BrokenThere
  <2>7. CharLen(c[v + 1]) \in 0..3 /\ Following(c, v + 1) \in 0..(CharLen(c[v + 1]) - 1)
    BY <1>1, <2>2, <2>5, CharLenIs, Covers
  <2>8. Following(c, v + 1) # CharLen(c[v + 1]) - 1
    BY <2>2, <2>6 DEF WholeAt
  <2>9. v \in (room - 2)..room
    BY <2>1, <2>2, <2>7, <2>8
  <2>10. TrimPartial(c) = SubSeq(s, 1, v)
    BY <1>1, <2>1, <2>3
  <2>. QED BY <2>9, <2>10 DEF c
<1>. QED BY <1>2, <1>3

(* Of a good string they are the longest text of whole characters. *)
LEMMA TrimmedGood ==
  ASSUME NEW s \in Seq(Bytes), NEW room \in Nat \ {0, 1, 2}, room < Len(s), IsUtf8(s)
  PROVE  LET t == TrimPartial(SubSeq(s, 1, room))
         IN  IsUtf8(t) /\ IsLongestText(t, s, room)
<1>. DEFINE c == SubSeq(s, 1, room)  v == ValidUpTo(c)  t == SubSeq(s, 1, v)
<1>1. room \in 0..Len(s) /\ Len(s) \in 0..Len(s) /\ Whole(s, Len(s))
  BY DEF IsUtf8
<1>2. /\ c \in Seq(Bytes) /\ Len(c) = room /\ \A i \in 1..room : c[i] = s[i]
      /\ \A m \in 0..room : Whole(c, m) <=> Whole(s, m)
  BY <1>1, PrefixIs
<1>3. v \in 0..room /\ Whole(c, v) /\ \A m \in 0..room : Whole(c, m) => m <= v
  BY <1>2, ValidUpToIs
<1>4. v \in 0..Len(s) /\ v \in Nat
  BY <1>1, <1>3
<1>. HIDE DEF c, v
<1>5. t \in Seq(Bytes) /\ Len(t) = v /\ (\A i \in 1..v : t[i] = s[i]) /\ Whole(t, v)
  <2>1. /\ t \in Seq(Bytes) /\ Len(t) = v /\ \A i \in 1..v : t[i] = s[i]
        /\ \A m \in 0..v : Whole(t, m) <=> Whole(s, m)
    BY <1>4, PrefixIs
  <2>2. Whole(s, v) /\ v \in 0..v
    BY <1>2, <1>3
  <2>. QED BY <2>1, <2>2
(* The cut is behind a whole character, or inside one. *)
<1>6. TrimPartial(c) = t
  <2>1. CASE v = room
    <3>1. IsUtf8(c) /\ TrimPartial(c) = c
      BY <1>2, <1>3, <2>1 DEF IsUtf8, TrimPartial
    <3>. QED BY <2>1, <3>1 DEF c
  <2>2. CASE v # room
    <3>. DEFINE i == v + 1  n == CharLen(c[i])
    <3>1. i \in 1..Len(c) /\ i \in 1..Len(s) /\ c[i] = s[i] /\ ValidUpTo(c) < Len(c)
      BY <1>1, <1>2, <1>3, <2>2 DEF v
    <3>2. n \in 0..3
      BY <1>2, <3>1, CharLenIs
    <3>3. \A j \in 1..v : CharLen(s[j]) > 0 => j + CharLen(s[j]) - 1 <= v
      <4>1. Whole(s, v)
        BY <1>2, <1>3
      <4>. QED BY <4>1 DEF Whole
    <3>4. n > 0
      <4>1. SUFFICES ASSUME ~(CharLen(s[i]) > 0)
                     PROVE  FALSE
        BY <3>1
      <4>2. PICK j \in 1..(i - 1) : i < j + CharLen(s[j])
        BY <1>1, <3>1, <4>1 DEF Whole
      <4>3. j \in 1..v /\ j \in 1..Len(s) /\ CharLen(s[j]) \in 0..3
        <5>1. j \in 1..v /\ j \in 1..Len(s)
          BY <1>4, <4>2
        <5>. QED BY <5>1, CharLenIs
      <4>4. CharLen(s[j]) > 0
        BY <1>4, <4>2, <4>3
      <4>5. j + CharLen(s[j]) - 1 <= v
        BY <3>3, <4>3, <4>4
      <4>. QED BY <1>4, <4>2, <4>3, <4>5
    <3>5. i + n - 1 <= Len(s) /\ \A j \in 1..(n - 1) : s[i + j] = "cont"
      BY <1>1, <3>1, <3>4 DEF Whole
    <3>6. i + n - 1 > room
      <4>1. SUFFICES ASSUME i + n - 1 <= room
                     PROVE  FALSE
        BY <1>4, <3>2
      <4>2. \A j \in 1..(n - 1) : c[i + j] = "cont"
        <5>1. ASSUME NEW j \in 1..(n - 1)
              PROVE  i + j \in 1..room
          BY <1>4, <3>2, <4>1
        <5>. QED BY <1>2, <3>5, <5>1
      <4>3. WholeAt(c, i)
        BY <1>2, <3>1, <3>4, <4>1, <4>2, WholeAtIs
      <4>. QED BY <1>2, <3>1, <4>3, BrokenThere DEF v
    <3>7. Following(c, i) = room - i
      <4>1. room - i \in 0..(n - 1) /\ room - i < n - 1
        BY <1>3, <1>4, <2>2, <3>2, <3>6
      <4>2. ASSUME NEW j \in 1..(room - i)
            PROVE  i + j \in DOMAIN c /\ c[i + j] = "cont"
        <5>1. i + j \in 1..room /\ j \in 1..(n - 1)
          BY <1>4, <4>1, <3>2
        <5>2. DOMAIN c = 1..room
          BY <1>2
        <5>. QED BY <1>2, <3>5, <5>1, <5>2
      <4>3. i + (room - i) + 1 \notin DOMAIN c
        BY <1>2, <1>4
      <4>4. Continued(c, i, n - 1, room - i)
        BY <4>1, <4>2, <4>3 DEF Continued
      <4>. QED BY <1>2, <3>1, <3>4, <4>4, FollowingIs
    <3>8. EndsInside(c)
      BY <1>2, <1>4, <3>4, <3>7 DEF EndsInside, v
    <3>9. ~IsUtf8(c)
      BY <1>2, <1>3, <2>2 DEF IsUtf8
    <3>10. TrimPartial(c) = SubSeq(c, 1, v)
      BY <3>8, <3>9 DEF TrimPartial, v
    <3>. DEFINE x == SubSeq(c, 1, v)
    <3>11. x \in Seq(Bytes) /\ Len(x) = v /\ \A j \in 1..v : x[j] = c[j]
      BY <1>2, <1>3, PrefixIs
    <3>. HIDE DEF x, t
    <3>12. \A j \in 1..v : x[j] = t[j]
      BY <1>2, <1>3, <1>5, <3>11
    <3>13. x = t
      BY <1>5, <3>11, <3>12, SeqEqual
    <3>. QED BY <3>10, <3>13 DEF x
  <2>. QED BY <2>1, <2>2
<1>7. IsLongestText(t, s, room)
  <2>1. IsText(t, s, v)
    BY <1>1, <1>4, <1>5, TextOfWhole
  <2>2. SizeOf(s, v) = v /\ v \in Ends(s)
    <3>1. Whole(s, v)
      BY <1>2, <1>3
    <3>. QED BY <1>1, <1>4, <3>1, SizeOfWhole, WholePieces
  <2>3. ASSUME NEW m \in Ends(s), m > v
        PROVE  SizeOf(s, m) > room
    <3>1. m \in 0..Len(s)
      BY DEF Ends
    <3>2. Whole(s, m) /\ SizeOf(s, m) = m
      BY <1>1, <3>1, WholePieces, SizeOfWhole
    <3>3. m \notin 0..room
      BY <1>2, <1>3, <2>3, <3>2
    <3>. QED BY <3>1, <3>2, <3>3
  <2>4. SizeOf(s, v) <= room
    BY <1>3, <2>2
  <2>. QED BY <2>1, <2>2, <2>3, <2>4, LongestIs
<1>8. IsUtf8(t)
  BY <1>5 DEF IsUtf8
<1>. QED BY <1>6, <1>7, <1>8 DEF c

-----------------------------------------------------------------------------
(* The loop: whatever the longest text of the bytes to go is, behind the text so
   far it is the longest text of all bytes. *)

GoesOn(text, rest, bytes, room) ==
  \A tail \in TextOfBytes :
    IsLongestText(tail, rest, room - TextLen(text)) => IsLongestText(text \o tail, bytes, room)

LEMMA NothingFits ==
  ASSUME NEW s \in Seq(Bytes), NEW room \in Nat, s = <<>> \/ room = 0
  PROVE  IsLongestText(<<>>, s, room)
<1>1. 0 \in Ends(s) /\ SizeOf(s, 0) = 0
  BY NoPieces
<1>2. Count(Kept(s), 0) = 0
  BY CountNone
<1>3. IsText(<<>>, s, 0)
  BY <1>2 DEF IsText, Place
<1>4. ASSUME NEW m \in Ends(s), m > 0
      PROVE  SizeOf(s, m) > room
  <2>1. m \in 0..Len(s) /\ Len(s) \in Nat
    BY DEF Ends
  <2>2. room = 0 /\ 1 \in DOMAIN s
    BY <1>4, <2>1
  <2>3. 1 \in Kept(s)
    BY <2>2 DEF Starts, Kept
  <2>4. Count(Kept(s), 1) >= 1
    BY <2>3, CountIn
  <2>5. Place(s, 1) <= Place(s, m) /\ m \in Nat
    BY <1>4, <2>1, SizeGrows
  <2>6. /\ Count(Kept(s), 1) \in Nat /\ Count(Kept(s), m) \in Nat /\ Count(Broken(s), m) \in Nat
    BY <2>5, CountType
  <2>. QED BY <2>2, <2>4, <2>5, <2>6 DEF SizeOf, Place
<1>. QED BY <1>1, <1>3, <1>4, LongestIs

LEMMA OnlyNothing ==
  ASSUME NEW room \in Nat, NEW text \in TextOfBytes, IsLongestText(text, <<>>, room)
  PROVE  text = <<>>
<1>1. <<>> \in Seq(Bytes) /\ Len(<<>>) = 0
  OBVIOUS
<1>2. PICK n \in Ends(<<>>) : IsText(text, <<>>, n)
  BY <1>1, LongestEnds
<1>3. n = 0
  BY <1>1 DEF Ends
<1>4. Len(text) = 0
  BY <1>2, <1>3, CountNone DEF IsText, Place
<1>. QED BY <1>4 DEF TextOfBytes

LEMMA TextsJoin ==
  ASSUME NEW a \in TextOfBytes, NEW b \in TextOfBytes
  PROVE  /\ a \o b \in TextOfBytes /\ Len(a \o b) = Len(a) + Len(b)
         /\ Len(a) \in Nat /\ Len(b) \in Nat
         /\ \A i \in 1..(Len(a) + Len(b)) :
              (a \o b)[i] = IF i <= Len(a) THEN a[i] ELSE b[i - Len(a)]
BY ConcatProperties DEF TextOfBytes

LEMMA TextsJoinTwice ==
  ASSUME NEW a \in TextOfBytes, NEW b \in TextOfBytes, NEW c \in TextOfBytes,
         NEW ab, ab = a \o b, NEW bc, bc = b \o c
  PROVE  ab \o c = a \o bc
<1>. DEFINE x == ab \o c  y == a \o bc
<1>1. /\ ab \in TextOfBytes /\ Len(ab) = Len(a) + Len(b) /\ Len(a) \in Nat /\ Len(b) \in Nat
      /\ \A i \in 1..(Len(a) + Len(b)) : ab[i] = IF i <= Len(a) THEN a[i] ELSE b[i - Len(a)]
  BY TextsJoin
<1>2. /\ bc \in TextOfBytes /\ Len(bc) = Len(b) + Len(c) /\ Len(c) \in Nat
      /\ \A i \in 1..(Len(b) + Len(c)) : bc[i] = IF i <= Len(b) THEN b[i] ELSE c[i - Len(b)]
  BY TextsJoin
<1>3. /\ x \in TextOfBytes /\ Len(x) = Len(ab) + Len(c)
      /\ \A i \in 1..(Len(ab) + Len(c)) : x[i] = IF i <= Len(ab) THEN ab[i] ELSE c[i - Len(ab)]
  BY <1>1, TextsJoin
<1>4. /\ y \in TextOfBytes /\ Len(y) = Len(a) + Len(bc)
      /\ \A i \in 1..(Len(a) + Len(bc)) : y[i] = IF i <= Len(a) THEN a[i] ELSE bc[i - Len(a)]
  BY <1>2, TextsJoin
<1>. HIDE DEF x, y
<1>5. Len(x) = Len(y) /\ Len(x) = Len(a) + Len(b) + Len(c)
  BY <1>1, <1>2, <1>3, <1>4
<1>6. ASSUME NEW i \in 1..Len(x)
      PROVE  x[i] = y[i]
  <2>1. CASE i <= Len(a)
    BY <1>1, <1>2, <1>3, <1>4, <1>5, <2>1
  <2>2. CASE i > Len(a) /\ i <= Len(a) + Len(b)
    <3>1. i - Len(a) \in 1..Len(b) /\ i - Len(a) \in 1..(Len(b) + Len(c)) /\ i \in 1..(Len(a) + Len(b))
      BY <1>1, <1>2, <2>2
    <3>2. x[i] = b[i - Len(a)]
      BY <1>1, <1>2, <1>3, <1>5, <2>2, <3>1
    <3>3. y[i] = b[i - Len(a)]
      BY <1>1, <1>2, <1>4, <1>5, <2>2, <3>1
    <3>. QED BY <3>2, <3>3
  <2>3. CASE i > Len(a) + Len(b)
    <3>1. /\ i - Len(a) \in 1..(Len(b) + Len(c)) /\ ~(i - Len(a) <= Len(b))
          /\ (i - Len(a)) - Len(b) = i - Len(ab)
      BY <1>1, <1>2, <1>5, <2>3
    <3>2. x[i] = c[i - Len(ab)]
      BY <1>1, <1>2, <1>3, <1>5, <2>3
    <3>3. y[i] = bc[i - Len(a)]
      BY <1>1, <1>2, <1>4, <1>5, <2>3
    <3>4. bc[i - Len(a)] = c[(i - Len(a)) - Len(b)]
      BY <1>2, <3>1
    <3>. QED BY <3>1, <3>2, <3>3, <3>4
  <2>. QED BY <1>1, <1>2, <1>5, <2>1, <2>2, <2>3
<1>7. x = y
  BY <1>3, <1>4, <1>5, <1>6, SeqEqual DEF TextOfBytes
<1>. QED BY <1>7 DEF x, y

LEMMA RoundKeeps ==
  ASSUME NEW text \in TextOfBytes, NEW rest \in Seq(Bytes), NEW bytes, NEW most \in Nat,
         TextLen(text) <= most, GoesOn(text, rest, bytes, most)
  PROVE  LET x == LossyStep([text |-> text, rest |-> rest], most)
         IN  /\ x \in [text : TextOfBytes, rest : Seq(Bytes)]
             /\ TextLen(x.text) <= most
             /\ GoesOn(x.text, x.rest, bytes, most)
<1>. DEFINE room == most - TextLen(text)  v == ValidUpTo(rest)
            pushed == push_valid(SubSeq(rest, 1, v), room)
            longer == text \o pushed
            stops == v = Len(rest) \/ Len(pushed) < v \/ TextLen(longer) + 3 > most
            x == LossyStep([text |-> text, rest |-> rest], most)
<1>1. x = IF stops THEN [text |-> longer, rest |-> <<>>]
          ELSE [text |-> Append(longer, Replacement),
                rest |-> SubSeq(rest, v + BrokenLen(rest) + 1, Len(rest))]
  BY DEF LossyStep, LossyRound, Pushed
<1>2. TextLen(text) \in Nat /\ room \in Nat /\ v \in 0..Len(rest) /\ Len(rest) \in Nat
  BY TextLenType, ValidUpToIs
<1>3. pushed \in Seq(Bytes) /\ Len(pushed) \in 0..v /\ Len(pushed) <= room
  <2>1. room \in Nat /\ v \in 0..Len(rest)
    BY <1>2
  <2>. HIDE DEF room, v
  <2>. QED BY <2>1, PushValidIs
<1>4. v = Len(rest) \/ Len(pushed) < v \/ v + 3 > room => IsLongestText(pushed, rest, room)
  BY <1>2, RoundEnds
<1>5. ASSUME NEW tail \in TextOfBytes, v < Len(rest), v + 3 <= room, Len(pushed) = v,
             IsLongestText(tail, SubSeq(rest, v + BrokenLen(rest) + 1, Len(rest)), room - (v + 3))
      PROVE  IsLongestText(Append(pushed, Replacement) \o tail, rest, room)
  BY <1>2, <1>5, RoundGoesOn
<1>6. v < Len(rest) => v + BrokenLen(rest) \in 0..Len(rest)
  BY BrokenPiece
<1>. HIDE DEF x, pushed, v
<1>7. pushed \in TextOfBytes /\ TextLen(pushed) = Len(pushed)
  BY <1>3, TextLenBytes
<1>8. longer \in TextOfBytes /\ TextLen(longer) = TextLen(text) + Len(pushed)
  BY <1>7, TextLenJoined
<1>9. TextLen(longer) <= most /\ (TextLen(longer) + 3 > most <=> Len(pushed) + 3 > room)
  BY <1>2, <1>3, <1>8
<1>10. CASE stops
  <2>1. x = [text |-> longer, rest |-> <<>>]
    BY <1>1, <1>10
  <2>2. IsLongestText(pushed, rest, room)
    BY <1>2, <1>3, <1>4, <1>9, <1>10
  <2>3. IsLongestText(longer, bytes, most)
    BY <1>7, <2>2 DEF GoesOn
  <2>. HIDE DEF longer
  <2>4. ASSUME NEW tail \in TextOfBytes, IsLongestText(tail, <<>>, most - TextLen(longer))
        PROVE  IsLongestText(longer \o tail, bytes, most)
    <3>1. most - TextLen(longer) \in Nat
      BY <1>8, <1>9, TextLenType
    <3>2. tail = <<>>
      BY <2>4, <3>1, OnlyNothing
    <3>3. longer \o tail = longer
      BY <1>8, <3>2, ConcatEmptySeq DEF TextOfBytes
    <3>. QED BY <2>3, <3>3
  <2>5. GoesOn(longer, <<>>, bytes, most)
    BY <2>4 DEF GoesOn
  <2>6. x \in [text : TextOfBytes, rest : Seq(Bytes)] /\ x.text = longer /\ x.rest = <<>>
    BY <1>8, <2>1
  <2>. QED BY <1>9, <2>5, <2>6 DEF x
<1>11. CASE ~stops
  <2>. DEFINE new == Append(longer, Replacement)
              left == SubSeq(rest, v + BrokenLen(rest) + 1, Len(rest))
  <2>1. x = [text |-> new, rest |-> left]
    BY <1>1, <1>11
  <2>2. v < Len(rest) /\ Len(pushed) = v /\ v + 3 <= room
    BY <1>2, <1>3, <1>9, <1>11
  <2>3. left \in Seq(Bytes)
    BY <1>6, <2>2, SuffixIs
  <2>. DEFINE one == <<Replacement>>
  <2>4. one \in TextOfBytes /\ TextLen(one) = 3
    BY TextLenReplacement
  <2>5. new = longer \o one /\ Append(pushed, Replacement) = pushed \o one
    <3>1. Replacement \in Bytes \cup {Replacement}
      OBVIOUS
    <3>. QED BY <1>7, <1>8, <3>1, AppendIsConcat DEF TextOfBytes
  <2>6. new \in TextOfBytes /\ TextLen(new) = TextLen(text) + v + 3
    BY <1>2, <1>8, <2>2, <2>4, <2>5, TextLenJoined
  <2>7. new = text \o Append(pushed, Replacement) /\ Append(pushed, Replacement) \in TextOfBytes
    <3>1. Append(pushed, Replacement) \in TextOfBytes
      BY <1>7, <2>4, <2>5, TextLenJoined
    <3>2. new = longer \o one /\ one \in TextOfBytes
      BY <2>4, <2>5
    <3>. DEFINE piece == Append(pushed, Replacement)
    <3>3. longer = text \o pushed /\ piece = pushed \o one
      BY <2>5
    <3>. HIDE DEF one, new, longer, piece
    <3>4. longer \o one = text \o piece
      BY <1>7, <3>2, <3>3, TextsJoinTwice, SMTT(30)
    <3>. QED BY <3>1, <3>2, <3>4 DEF piece
  <2>8. most - TextLen(new) = room - (v + 3) /\ TextLen(new) <= most
    BY <1>2, <2>2, <2>6
  <2>. HIDE DEF longer, new, one, left
  <2>9. ASSUME NEW tail \in TextOfBytes, IsLongestText(tail, left, most - TextLen(new))
        PROVE  IsLongestText(new \o tail, bytes, most)
    <3>. DEFINE piece == Append(pushed, Replacement)
    <3>1. IsLongestText(piece \o tail, rest, room)
      BY <1>5, <2>2, <2>8, <2>9 DEF left
    <3>2. piece \o tail \in TextOfBytes /\ new \o tail = text \o (piece \o tail)
      <4>1. piece \in TextOfBytes /\ new = text \o piece
        BY <2>7
      <4>. HIDE DEF piece
      <4>. DEFINE both == piece \o tail
      <4>2. both = piece \o tail /\ both \in TextOfBytes
        BY <4>1, TextsJoin
      <4>. HIDE DEF both
      <4>3. new \o tail = text \o both
        BY <4>1, <4>2, TextsJoinTwice
      <4>. QED BY <4>2, <4>3
    <3>. HIDE DEF piece
    <3>. QED BY <3>1, <3>2 DEF GoesOn
  <2>10. GoesOn(new, left, bytes, most)
    BY <2>9 DEF GoesOn
  <2>11. x \in [text : TextOfBytes, rest : Seq(Bytes)] /\ x.text = new /\ x.rest = left
    BY <2>1, <2>3, <2>6
  <2>. QED BY <2>8, <2>10, <2>11 DEF x
<1>. QED BY <1>10, <1>11

-----------------------------------------------------------------------------
(* The invariant. *)

(* The bytes decode or plugin_str looks at. *)
BytesRead(string, most) ==
  IF Len(string) <= most THEN string ELSE TrimPartial(SubSeq(string, 1, most))

LEMMA BytesReadType ==
  ASSUME NEW string \in Seq(Bytes), NEW most \in Nat \ {0, 1, 2}
  PROVE  /\ BytesRead(string, most) \in Seq(Bytes)
         /\ Len(BytesRead(string, most)) <= most
<1>1. CASE Len(string) <= most
  BY <1>1 DEF BytesRead
<1>2. CASE ~(Len(string) <= most)
  <2>1. most < Len(string) /\ Len(string) \in Nat
    BY <1>2
  <2>2. PICK n \in (most - 2)..most : TrimPartial(SubSeq(string, 1, most)) = SubSeq(string, 1, n)
    BY <2>1, TrimmedIs
  <2>3. n \in 0..Len(string) /\ n <= most
    BY <2>1
  <2>4. SubSeq(string, 1, n) \in Seq(Bytes) /\ Len(SubSeq(string, 1, n)) = n
    BY <2>3, PrefixIs
  <2>. QED BY <1>2, <2>2, <2>3, <2>4 DEF BytesRead
<1>. QED BY <1>1, <1>2

InputOK ==
  /\ value = Null \/ value \in Seq(Bytes)
  /\ limit \in Nat \ {0, 1, 2}
  /\ reader \in {"plugin_str", "decode"}

ScanOK ==
  /\ scanned \in Nat
  /\ ReadsOnlyItsString
  /\ pc \in {"scan", "lossy"} => value \in Seq(Bytes)

(* In the loop what is to come is the rest of the longest text. *)
LoopOK ==
  pc = "lossy" =>
    /\ reader = "plugin_str" => Len(value) <= limit
    /\ ~IsUtf8(BytesRead(value, limit))
    /\ result \in [text : {Null}, raw : {BytesRead(value, limit)},
                   truncated : {~(Len(value) <= limit)}, invalid : {TRUE}]
    /\ st \in [text : TextOfBytes, rest : Seq(Bytes)]
    /\ TextLen(st.text) <= limit
    /\ GoesOn(st.text, st.rest, BytesRead(value, limit), limit)

ResultOK ==
  pc = "done" /\ value # Null =>
    IF reader = "plugin_str" /\ ~(Len(value) <= limit) THEN result.text = Refused
    ELSE /\ IsLongestText(result.text, BytesRead(value, limit), limit)
         /\ result.truncated <=> ~(Len(value) <= limit)
         /\ result.invalid <=> ~IsUtf8(BytesRead(value, limit))
         /\ IsUtf8(BytesRead(value, limit)) =>
              result.text = BytesRead(value, limit) /\ result.raw = Null

IInv == InputOK /\ ScanOK /\ LoopOK /\ ResultOK

LEMMA NullIsNoString == Null \notin Seq(Bytes)
<1>1. Null[1] \notin Bytes /\ Len(Null) = 1
  BY DEF Null, Bytes, Ascii
<1>2. ASSUME NEW s \in Seq(Bytes), s = Null PROVE FALSE
  <2>1. 1 \in 1..Len(s)
    BY <1>1, <1>2
  <2>2. s[1] \in Bytes
    BY <2>1
  <2>. QED BY <1>1, <1>2, <2>2
<1>. QED BY <1>2

LEMMA InitIInv == Init => IInv
<1>. SUFFICES ASSUME Init PROVE IInv
  OBVIOUS
<1>1. InputOK
  <2>1. ASSUME NEW S \in SUBSET Bytes, NEW n \in Nat, NEW s \in BoundedSeq(S, n)
        PROVE  s \in Seq(Bytes)
    BY <2>1 DEF BoundedSeq, SeqOf
  <2>2. value = Null \/ value \in Seq(Bytes)
    BY <2>1, PluginStringAssumption DEF Init
  <2>. QED BY <2>2, PluginStringAssumption DEF Init, InputOK
<1>2. ScanOK
  <2>1. scanned = 0 /\ limit \in Nat /\ (pc = "scan" => value # Null) /\ pc # "lossy"
    BY <1>1 DEF Init, InputOK
  <2>2. value # Null => Len(value) \in Nat
    BY <1>1 DEF InputOK
  <2>. QED BY <1>1, <2>1, <2>2 DEF InputOK, ScanOK, ReadsOnlyItsString
<1>3. LoopOK /\ ResultOK
  BY DEF Init, LoopOK, ResultOK
<1>. QED BY <1>1, <1>2, <1>3 DEF IInv

LEMMA ScanByteKeeps ==
  ASSUME IInv, ScanByte
  PROVE  IInv'
<1>1. InputOK'
  BY DEF ScanByte, input, IInv, InputOK
<1>2. ScanOK'
  <2>1. /\ value \in Seq(Bytes) /\ scanned \in Nat /\ limit \in Nat /\ Len(value) \in Nat
        /\ scanned <= Len(value) + 1 /\ scanned <= limit + 1
    BY NullIsNoString DEF ScanByte, IInv, ScanOK, InputOK, ReadsOnlyItsString
  <2>2. scanned # Len(value) + 1 /\ scanned # limit + 1 /\ scanned' = scanned + 1
        /\ value' = value /\ limit' = limit /\ pc' = "scan"
    BY DEF ScanByte, ScanOver, Terminator, input
  <2>3. scanned' \in Nat /\ scanned' <= Len(value) + 1 /\ scanned' <= limit + 1
    BY <2>1, <2>2
  <2>. QED BY <2>1, <2>2, <2>3 DEF ScanOK, ReadsOnlyItsString
<1>3. LoopOK' /\ ResultOK'
  BY DEF ScanByte, LoopOK, ResultOK
<1>. QED BY <1>1, <1>2, <1>3 DEF IInv

LEMMA RoundKeepsIInv ==
  ASSUME IInv, Round
  PROVE  IInv'
<1>1. InputOK' /\ ScanOK'
  BY DEF Round, input, IInv, InputOK, ScanOK, ReadsOnlyItsString
<1>2. LoopOK'
  <2>. DEFINE x == LossyStep(st, limit)  bytes == BytesRead(value, limit)
  <2>1. /\ pc = "lossy" /\ pc' = "lossy" /\ st' = x
        /\ value' = value /\ limit' = limit /\ reader' = reader /\ result' = result
    BY DEF Round, input
  <2>2. /\ st \in [text : TextOfBytes, rest : Seq(Bytes)]
        /\ TextLen(st.text) <= limit /\ GoesOn(st.text, st.rest, bytes, limit)
        /\ limit \in Nat
    BY <2>1 DEF IInv, InputOK, LoopOK
  <2>3. st = [text |-> st.text, rest |-> st.rest] /\ st.text \in TextOfBytes /\ st.rest \in Seq(Bytes)
    BY <2>2
  <2>4. /\ x \in [text : TextOfBytes, rest : Seq(Bytes)]
        /\ TextLen(x.text) <= limit /\ GoesOn(x.text, x.rest, bytes, limit)
    BY <2>2, <2>3, RoundKeeps
  <2>5. bytes' = bytes
    BY <2>1
  <2>. HIDE DEF x, bytes
  <2>6. /\ st' \in [text : TextOfBytes, rest : Seq(Bytes)]
        /\ TextLen(st'.text) <= limit' /\ GoesOn(st'.text, st'.rest, bytes, limit')
    BY <2>1, <2>4
  <2>7. /\ reader' = "plugin_str" => Len(value') <= limit'
        /\ ~IsUtf8(bytes)
        /\ result' \in [text : {Null}, raw : {bytes},
                       truncated : {~(Len(value') <= limit')}, invalid : {TRUE}]
    BY <2>1 DEF IInv, LoopOK, bytes
  <2>8. bytes = BytesRead(value', limit')
    BY <2>1 DEF bytes
  <2>. QED BY <2>6, <2>7, <2>8 DEF LoopOK
<1>3. ResultOK'
  BY DEF Round, ResultOK
<1>. QED BY <1>1, <1>2, <1>3 DEF IInv

LEMMA FinishKeeps ==
  ASSUME IInv, Finish
  PROVE  IInv'
<1>. DEFINE bytes == BytesRead(value, limit)
<1>1. InputOK' /\ ScanOK' /\ LoopOK'
  BY DEF Finish, input, IInv, InputOK, ScanOK, LoopOK, ReadsOnlyItsString
<1>2. ResultOK'
  <2>1. /\ pc = "lossy" /\ ~More(st, limit) /\ result' = [result EXCEPT !.text = st.text]
        /\ value' = value /\ limit' = limit /\ reader' = reader
    BY DEF Finish, input
  <2>2. /\ reader = "plugin_str" => Len(value) <= limit
        /\ ~IsUtf8(bytes) /\ limit \in Nat
        /\ result \in [text : {Null}, raw : {bytes}, truncated : {~(Len(value) <= limit)},
                       invalid : {TRUE}]
        /\ st \in [text : TextOfBytes, rest : Seq(Bytes)]
        /\ TextLen(st.text) <= limit /\ GoesOn(st.text, st.rest, bytes, limit)
    BY <2>1 DEF IInv, InputOK, LoopOK
  <2>. DEFINE text == st.text  rest == st.rest  room == limit - TextLen(text)
  <2>3. text \in TextOfBytes /\ rest \in Seq(Bytes) /\ GoesOn(text, rest, bytes, limit)
    BY <2>2
  <2>4. room \in Nat /\ (rest = <<>> \/ room = 0)
    <3>1. TextLen(text) \in Nat /\ TextLen(text) <= limit
      BY <2>2, <2>3, TextLenType
    <3>2. rest = <<>> \/ ~(TextLen(text) < limit)
      BY <2>1 DEF More
    <3>. HIDE DEF text, rest
    <3>. QED BY <2>2, <3>1, <3>2
  <2>. HIDE DEF text, rest, bytes
  <2>5. IsLongestText(<<>>, rest, limit - TextLen(text)) /\ <<>> \in TextOfBytes
    BY <2>3, <2>4, NothingFits DEF TextOfBytes
  <2>6. IsLongestText(text \o <<>>, bytes, limit)
    BY <2>3, <2>5 DEF GoesOn
  <2>7. text \o <<>> = text
    BY <2>3, ConcatEmptySeq DEF TextOfBytes
  <2>8. IsLongestText(text, bytes, limit)
    BY <2>6, <2>7
  <2>9. /\ result'.text = text /\ result'.invalid = TRUE
        /\ result'.truncated <=> ~(Len(value) <= limit)
    BY <2>1, <2>2 DEF text
  <2>10. bytes = BytesRead(value', limit')
    BY <2>1 DEF bytes
  <2>. QED BY <2>1, <2>2, <2>8, <2>9, <2>10 DEF ResultOK
<1>. QED BY <1>1, <1>2 DEF IInv

(* Read, by what bounded_bytes finds. *)
LEMMA ReadNull ==
  ASSUME IInv, Read, value = Null
  PROVE  IInv'
<1>1. /\ value' = Null /\ limit' = limit /\ reader' = reader /\ scanned' = scanned
  BY DEF Read, input
<1>2. IsUtf8(<<>>)
  BY DEF IsUtf8, Whole
<1>3. bounded_bytes(value, limit) = [kind |-> "Null", bytes |-> <<>>]
  BY DEF bounded_bytes
<1>4. pc' = "done"
  BY <1>2, <1>3 DEF Read
<1>. QED BY <1>1, <1>4 DEF IInv, InputOK, ScanOK, LoopOK, ResultOK, ReadsOnlyItsString

LEMMA ReadString ==
  ASSUME IInv, Read, value # Null
  PROVE  IInv'
<1>. DEFINE bytes == BytesRead(value, limit)  fits == Len(value) <= limit
<1>1. /\ value' = value /\ limit' = limit /\ reader' = reader /\ scanned' = scanned
  BY DEF Read, input
<1>2. value \in Seq(Bytes) /\ limit \in Nat \ {0, 1, 2}
  BY DEF IInv, InputOK
<1>3. bytes \in Seq(Bytes) /\ Len(bytes) <= limit
  BY <1>2, BytesReadType
<1>4. bounded_bytes(value, limit) =
        [kind |-> IF fits THEN "Bytes" ELSE "LimitExceeded",
         bytes |-> IF fits THEN value ELSE SubSeq(value, 1, limit)]
  BY DEF bounded_bytes
<1>5. IF reader = "plugin_str" /\ ~fits
      THEN pc' = "done" /\ result' = [Nothing EXCEPT !.text = Refused, !.truncated = ~fits]
      ELSE IF IsUtf8(bytes)
      THEN pc' = "done" /\ result' = [Nothing EXCEPT !.text = bytes, !.truncated = ~fits]
      ELSE /\ pc' = "lossy" /\ st' = [text |-> <<>>, rest |-> bytes]
           /\ result' = [Nothing EXCEPT !.truncated = ~fits, !.invalid = TRUE, !.raw = bytes]
  <2>. DEFINE read == bounded_bytes(value, limit)
              cut == read.kind = "LimitExceeded"
              taken == IF cut THEN TrimPartial(read.bytes) ELSE read.bytes
  <2>1. (read.kind = "Bytes" <=> fits) /\ read.kind # "Null" /\ (cut <=> ~fits)
    BY <1>4
  <2>2. taken = bytes
    BY <1>4, <2>1 DEF BytesRead
  <2>3. CASE reader = "plugin_str" /\ ~fits
    BY <2>1, <2>3 DEF Read
  <2>4. CASE ~(reader = "plugin_str" /\ ~fits) /\ IsUtf8(bytes)
    BY <2>1, <2>2, <2>4 DEF Read
  <2>5. CASE ~(reader = "plugin_str" /\ ~fits) /\ ~IsUtf8(bytes)
    BY <2>1, <2>2, <2>5 DEF Read
  <2>. QED BY <2>3, <2>4, <2>5
<1>6. InputOK' /\ ScanOK'
  BY <1>1, <1>2 DEF IInv, InputOK, ScanOK, ReadsOnlyItsString
<1>7. bytes = BytesRead(value', limit')
  BY <1>1
<1>. HIDE DEF bytes
<1>8. LoopOK'
  <2>1. SUFFICES ASSUME pc' = "lossy" PROVE LoopOK'
    BY DEF LoopOK
  <2>2. /\ ~(reader = "plugin_str" /\ ~fits) /\ ~IsUtf8(bytes)
        /\ st' = [text |-> <<>>, rest |-> bytes]
        /\ result' = [Nothing EXCEPT !.truncated = ~fits, !.invalid = TRUE, !.raw = bytes]
    BY <1>5, <2>1
  <2>3. <<>> \in TextOfBytes /\ <<>> \in Seq(Bytes) /\ TextLen(<<>>) = 0
    <3>1. <<>> \in Seq(Bytes) /\ Len(<<>>) = 0
      OBVIOUS
    <3>. QED BY <3>1, TextLenBytes
  <2>4. GoesOn(<<>>, bytes, bytes, limit)
    <3>1. limit - TextLen(<<>>) = limit
      BY <1>2, <2>3
    <3>2. \A tail \in TextOfBytes : <<>> \o tail = tail
      BY ConcatEmptySeq DEF TextOfBytes
    <3>. QED BY <3>1, <3>2 DEF GoesOn
  <2>5. st' \in [text : TextOfBytes, rest : Seq(Bytes)] /\ st'.text = <<>> /\ st'.rest = bytes
    BY <1>3, <2>2, <2>3
  <2>6. result' \in [text : {Null}, raw : {bytes}, truncated : {~fits}, invalid : {TRUE}]
    BY <2>2 DEF Nothing
  <2>7. TextLen(st'.text) <= limit' /\ GoesOn(st'.text, st'.rest, bytes, limit')
    BY <1>1, <1>2, <2>3, <2>4, <2>5
  <2>8. (fits <=> Len(value') <= limit') /\ fits \in BOOLEAN
    BY <1>1
  <2>. HIDE DEF fits
  <2>9. result' \in [text : {Null}, raw : {bytes}, truncated : {~(Len(value') <= limit')},
                     invalid : {TRUE}]
    BY <1>1, <2>6 DEF fits
  <2>. QED BY <1>1, <1>7, <2>2, <2>5, <2>7, <2>8, <2>9 DEF LoopOK
<1>9. ResultOK'
  <2>1. SUFFICES ASSUME pc' = "done" PROVE ResultOK'
    BY DEF ResultOK
  <2>2. CASE reader = "plugin_str" /\ ~fits
    <3>1. result'.text = Refused
      BY <1>5, <2>2 DEF Nothing
    <3>. QED BY <1>1, <2>2, <3>1 DEF ResultOK
  <2>3. CASE ~(reader = "plugin_str" /\ ~fits)
    <3>1. IsUtf8(bytes) /\ result' = [Nothing EXCEPT !.text = bytes, !.truncated = ~fits]
      BY <1>5, <2>1, <2>3
    <3>2. /\ result'.text = bytes /\ result'.raw = Null /\ result'.invalid = FALSE
          /\ result'.truncated = ~fits
      BY <3>1 DEF Nothing
    <3>3. IsLongestText(bytes, bytes, limit)
      BY <1>2, <1>3, <3>1, ItsOwnText
    <3>. QED BY <1>1, <1>7, <2>3, <3>1, <3>2, <3>3 DEF ResultOK
  <2>. QED BY <2>2, <2>3
<1>. QED BY <1>6, <1>8, <1>9 DEF IInv

LEMMA NextIInv == IInv /\ [Next]_vars => IInv'
<1>. SUFFICES ASSUME IInv, [Next]_vars PROVE IInv'
  OBVIOUS
<1>1. CASE ScanByte
  BY <1>1, ScanByteKeeps
<1>2. CASE Read
  BY <1>2, ReadNull, ReadString
<1>3. CASE Round
  BY <1>3, RoundKeepsIInv
<1>4. CASE Finish
  BY <1>4, FinishKeeps
<1>5. CASE UNCHANGED vars
  BY <1>5 DEF vars, IInv, InputOK, ScanOK, LoopOK, ResultOK, ReadsOnlyItsString
<1>. QED BY <1>1, <1>2, <1>3, <1>4, <1>5 DEF Next

THEOREM Invariant == Spec => []IInv
<1>. QED BY InitIInv, NextIInv, PTL DEF Spec

-----------------------------------------------------------------------------
(* The theorems. *)

(* ReadsOnlyItsString holds in every state: bounded_bytes reads nothing behind
   the terminator, nor behind the byte past the limit. *)
THEOREM ReadsOnly == Spec => []ReadsOnlyItsString
<1>1. IInv => ReadsOnlyItsString
  BY DEF IInv, ScanOK
<1>. QED BY <1>1, Invariant, PTL

(* TextIsLongest holds in every state: what a read returns is the longest text
   of the string, of what decode kept of it, or a refusal. *)
THEOREM Longest == Spec => []TextIsLongest
<1>1. IInv => TextIsLongest
  <2>1. SUFFICES ASSUME IInv, pc = "done", value # Null
                 PROVE  IF Len(value) <= limit THEN IsLongestText(result.text, value, limit)
                        ELSE IF reader = "plugin_str" THEN result.text = Refused
                        ELSE \E n \in (limit - 2)..limit :
                               IsLongestText(result.text, SubSeq(value, 1, n), limit)
    BY DEF TextIsLongest
  <2>2. CASE Len(value) <= limit
    BY <2>1, <2>2 DEF IInv, ResultOK, BytesRead
  <2>3. CASE ~(Len(value) <= limit) /\ reader = "plugin_str"
    BY <2>1, <2>3 DEF IInv, ResultOK
  <2>4. CASE ~(Len(value) <= limit) /\ reader # "plugin_str"
    <3>1. value \in Seq(Bytes) /\ limit \in Nat \ {0, 1, 2} /\ limit < Len(value)
      BY <2>1, <2>4 DEF IInv, InputOK
    <3>2. PICK n \in (limit - 2)..limit : TrimPartial(SubSeq(value, 1, limit)) = SubSeq(value, 1, n)
      BY <3>1, TrimmedIs
    <3>3. IsLongestText(result.text, SubSeq(value, 1, n), limit)
      BY <2>1, <2>4, <3>2 DEF IInv, ResultOK, BytesRead
    <3>. QED BY <2>4, <3>3
  <2>. QED BY <2>2, <2>3, <2>4
<1>. QED BY <1>1, Invariant, PTL

(* CutIsNotInvalid holds in every state: the cap of a metadata string neither
   makes good UTF-8 invalid nor loses a whole character that fits. *)
THEOREM CutIsGood == Spec => []CutIsNotInvalid
<1>1. IInv => CutIsNotInvalid
  <2>1. SUFFICES ASSUME IInv, pc = "done", reader = "decode", value # Null
                 PROVE  /\ result.truncated <=> Len(value) > limit
                        /\ IsUtf8(value) => /\ ~result.invalid /\ result.raw = Null
                                            /\ IsLongestText(result.text, value, limit)
    BY DEF CutIsNotInvalid
  <2>2. /\ IsLongestText(result.text, BytesRead(value, limit), limit)
        /\ result.truncated <=> ~(Len(value) <= limit)
        /\ result.invalid <=> ~IsUtf8(BytesRead(value, limit))
        /\ IsUtf8(BytesRead(value, limit)) =>
             result.text = BytesRead(value, limit) /\ result.raw = Null
    BY <2>1 DEF IInv, ResultOK
  <2>3. value \in Seq(Bytes) /\ limit \in Nat \ {0, 1, 2} /\ Len(value) \in Nat
    BY <2>1 DEF IInv, InputOK
  <2>4. result.truncated <=> Len(value) > limit
    BY <2>2, <2>3
  <2>5. CASE Len(value) <= limit
    BY <2>2, <2>4, <2>5 DEF BytesRead
  <2>6. CASE ~(Len(value) <= limit)
    <3>1. BytesRead(value, limit) = TrimPartial(SubSeq(value, 1, limit)) /\ limit < Len(value)
      BY <2>3, <2>6 DEF BytesRead
    <3>2. IsUtf8(value) => IsUtf8(BytesRead(value, limit))
                           /\ IsLongestText(BytesRead(value, limit), value, limit)
      BY <2>3, <3>1, TrimmedGood
    <3>. QED BY <2>2, <2>4, <3>2
  <2>. QED BY <2>5, <2>6
<1>. QED BY <1>1, Invariant, PTL
=============================================================================
