--------------------------- MODULE ReadPathProofs ---------------------------
(***************************************************************************)
(* Proofs about ReadPath, for any rates, budgets, answers and song.        *)
(*                                                                         *)
(* The resampler's position is generated * src_rate - accepted * dst_rate, *)
(* whatever blocks the song came in.  So the k-th output frame of a block  *)
(* is the (generated + k)-th of the signal, and a read only has to keep    *)
(* the frames it moves about in their order.  A position is never more     *)
(* than a frame before its block, which needs that `out` has room for      *)
(* every answer that is accepted: what prepare reserves is enough because  *)
(* the ratio of the rates is bounded both ways.                            *)
(***************************************************************************)
EXTENDS ReadPath, FiniteSetTheorems, TLAPS

-----------------------------------------------------------------------------
(* Division of integers. *)

LEMMA DivMod ==
  ASSUME NEW x \in Int, NEW d \in Nat \ {0}
  PROVE  /\ x \div d \in Int /\ x % d \in 0..(d - 1)
         /\ x = d * (x \div d) + (x % d)
<1>1. x \div d \in Int
  OBVIOUS
<1>2. x % d \in 0..(d - 1)
  OBVIOUS
<1>3. x = d * (x \div d) + (x % d)
  OBVIOUS
<1>. QED BY <1>1, <1>2, <1>3

LEMMA MultipleInRange ==
  ASSUME NEW m \in Int, NEW d \in Nat \ {0}, m * d < d, m * d > -d
  PROVE  m = 0
<1>1. m >= 1 => m * d >= d
  OBVIOUS
<1>2. m <= -1 => m * d <= -d
  OBVIOUS
<1>. QED BY <1>1, <1>2

LEMMA DivUnique ==
  ASSUME NEW d \in Nat \ {0}, NEW q \in Int, NEW r \in 0..(d - 1)
  PROVE  /\ (q * d + r) \div d = q
         /\ (q * d + r) % d = r
<1>. DEFINE x == q * d + r
            m == (x \div d) - q
<1>1. x \in Int /\ x \div d \in Int /\ x % d \in 0..(d - 1) /\ x = d * (x \div d) + (x % d)
  <2>1. x \in Int
    OBVIOUS
  <2>. HIDE DEF x
  <2>. QED BY <2>1, DivMod
<1>2. m * d = r - (x % d)
  BY <1>1
<1>3. m \in Int /\ m * d < d /\ m * d > -d
  BY <1>1, <1>2
<1>4. m = 0
  <2>. HIDE DEF m
  <2>. QED BY <1>3, MultipleInRange
<1>. QED BY <1>1, <1>2, <1>4

LEMMA DivShift ==
  ASSUME NEW d \in Nat \ {0}, NEW x \in Int, NEW a \in Int
  PROVE  /\ (x - a * d) \div d = (x \div d) - a
         /\ (x - a * d) % d = x % d
<1>. DEFINE q == (x \div d) - a
            r == x % d
<1>1. x \div d \in Int /\ r \in 0..(d - 1) /\ x = d * (x \div d) + r
  BY DivMod
<1>2. x - a * d = q * d + r /\ q \in Int
  BY <1>1
<1>. HIDE DEF q, r
<1>3. (q * d + r) \div d = q /\ (q * d + r) % d = r
  BY <1>1, <1>2, DivUnique
<1>. QED BY <1>2, <1>3 DEF q, r

LEMMA DivLess ==
  ASSUME NEW d \in Nat \ {0}, NEW x \in Int, NEW m \in Int
  PROVE  /\ x \div d >= m <=> x >= m * d
         /\ x \div d < m <=> x < m * d
<1>. DEFINE q == x \div d
            r == x % d
<1>1. q \in Int /\ r \in 0..(d - 1) /\ x = d * q + r
  BY DivMod
<1>. HIDE DEF q, r
<1>2. q >= m => d * q >= m * d
  <2>1. q - m >= 0 => (q - m) * d >= 0
    BY <1>1
  <2>. QED BY <1>1, <2>1
<1>3. q < m => d * q + d <= m * d
  <2>1. m - q - 1 >= 0 => (m - q - 1) * d >= 0
    BY <1>1
  <2>. QED BY <1>1, <2>1
<1>. QED BY <1>1, <1>2, <1>3 DEF q

-----------------------------------------------------------------------------
(* The resampler. *)

Rates(r) ==
  /\ r.src_rate \in Nat \ {0} /\ r.dst_rate \in Nat \ {0}
  /\ r.position \in Int

(* How far a resampler has come: what PositionTracks says of it. *)
At(r, e, g, a) ==
  /\ r.position = g * r.src_rate - a * r.dst_rate
  /\ r.position >= -r.dst_rate
  /\ r.position < 0 => r.has_prev /\ r.prev_frame = [epoch |-> e, index |-> a - 1]

LEMMA MinIs ==
  ASSUME NEW S \in SUBSET Int, NEW m \in S, \A k \in S : m <= k
  PROVE  Min(S) = m
<1>1. Min(S) \in S /\ \A k \in S : Min(S) <= k
  BY Zenon DEF Min
<1>2. Min(S) \in Int /\ m \in Int /\ Min(S) <= m /\ m <= Min(S)
  BY <1>1
<1>. HIDE DEF Min
<1>. QED BY <1>2

LEMMA MinOfTwo ==
  ASSUME NEW a \in Int, NEW b \in Int
  PROVE  Min({a, b}) = IF a <= b THEN a ELSE b
<1>1. CASE a <= b
  <2>1. \A k \in {a, b} : a <= k
    BY <1>1
  <2>. QED BY <1>1, <2>1, MinIs
<1>2. CASE ~(a <= b)
  <2>1. \A k \in {a, b} : b <= k
    BY <1>2
  <2>. QED BY <1>2, <2>1, MinIs
<1>. QED BY <1>1, <1>2

(* The source is exhausted from the last frame of the block on. *)
LEMMA ExhaustedAt ==
  ASSUME NEW r, Rates(r), NEW p \in Int, NEW n \in Nat \ {0}
  PROVE  Exhausted(r, p, n) <=> p >= (n - 1) * r.dst_rate
<1>. DEFINE d == r.dst_rate
<1>1. d \in Nat \ {0} /\ p \div d \in Int
  BY DivMod DEF Rates
<1>2. Exhausted(r, p, n) <=> p \div d >= n - 1
  BY <1>1 DEF Exhausted
<1>. HIDE DEF d
<1>3. p \div d >= n - 1 <=> p >= (n - 1) * d
  BY <1>1, DivLess
<1>. QED BY <1>2, <1>3 DEF d

(* A block yields the frames before the source is exhausted, or fills the
   destination. *)
LEMMA WrittenIs ==
  ASSUME NEW r, Rates(r), NEW n \in Nat \ {0}, NEW cap \in Nat
  PROVE  /\ Written(r, n, cap) \in 0..cap
         /\ \A j \in 0..cap : Exhausted(r, PositionAt(r, j), n) =>
              Exhausted(r, PositionAt(r, Written(r, n, cap)), n)
<1>. DEFINE s == r.src_rate
            d == r.dst_rate
            x == r.position - (n - 1) * d
            q == -(x \div s)
<1>1. s \in Nat \ {0} /\ d \in Nat \ {0} /\ r.position \in Int
  BY DEF Rates
<1>2. x \in Int /\ q \in Int
  <2>1. x \in Int
    BY <1>1
  <2>. HIDE DEF x, s
  <2>2. x \div s \in Int
    BY <1>1, <2>1, DivMod
  <2>. QED BY <2>1, <2>2
<1>3. ASSUME NEW k \in Nat
      PROVE  Exhausted(r, PositionAt(r, k), n) <=> k >= q
  <2>1. PositionAt(r, k) = r.position + k * s /\ PositionAt(r, k) \in Int
    BY <1>1 DEF PositionAt
  <2>2. Exhausted(r, PositionAt(r, k), n) <=> PositionAt(r, k) >= (n - 1) * d
    BY <2>1, ExhaustedAt
  <2>3. PositionAt(r, k) >= (n - 1) * d <=> x >= (-k) * s
    BY <1>1, <2>1
  <2>. HIDE DEF x
  <2>4. x >= (-k) * s <=> x \div s >= -k
    BY <1>1, <1>2, DivLess
  <2>5. x \div s \in Int
    BY <1>1, <1>2, DivMod
  <2>. QED BY <2>2, <2>3, <2>4, <2>5
<1>. HIDE DEF q, s, d, x
<1>. DEFINE m == IF q <= 0 THEN 0 ELSE IF q <= cap THEN q ELSE cap
            S == {k \in 0..cap : k = cap \/ Exhausted(r, PositionAt(r, k), n)}
<1>4. m \in 0..cap /\ (m = cap \/ m >= q)
  BY <1>2
<1>5. m \in S
  BY <1>3, <1>4
<1>6. \A k \in S : m <= k
  BY <1>2, <1>3
<1>7. Written(r, n, cap) = m
  <2>. HIDE DEF m
  <2>1. S \in SUBSET Int
    OBVIOUS
  <2>2. Min(S) = m
    <3>. HIDE DEF S
    <3>. QED BY <1>5, <1>6, <2>1, MinIs
  <2>. QED BY <2>2 DEF Written
<1>8. \A j \in 0..cap : Exhausted(r, PositionAt(r, j), n) => Exhausted(r, PositionAt(r, m), n)
  <2>. TAKE j \in 0..cap
  <2>. HAVE Exhausted(r, PositionAt(r, j), n)
  <2>1. j >= q
    BY <1>3
  <2>2. m >= q /\ m \in Nat
    BY <1>2, <1>4, <2>1
  <2>. HIDE DEF m
  <2>. QED BY <1>3, <2>2
<1>. QED BY <1>4, <1>7, <1>8

(* The k-th frame of a block is the next but k of the signal. *)
LEMMA InterpolatedIs ==
  ASSUME NEW r, Rates(r), NEW e, NEW g \in Nat, NEW a \in Nat, At(r, e, g, a),
         NEW k \in Nat
  PROVE  Interpolated(r, [epoch |-> e, index |-> a], k) = ReferenceFrame(r, e, g + k)
<1>. DEFINE s == r.src_rate
            d == r.dst_rate
            x == (g + k) * s
            i == x \div d
<1>1. s \in Nat \ {0} /\ d \in Nat \ {0} /\ x \in Int
  BY DEF Rates
<1>2. i \in Int
  BY <1>1, DivMod
<1>3. PositionAt(r, k) = x - a * d
  BY <1>1 DEF PositionAt, At
<1>4. PositionAt(r, k) \div d = i - a /\ PositionAt(r, k) % d = x % d
  <2>. HIDE DEF x, d
  <2>1. (x - a * d) \div d = i - a /\ (x - a * d) % d = x % d
    <3>1. d \in Nat \ {0} /\ x \in Int /\ a \in Int
      BY <1>1
    <3>. QED BY <3>1, DivShift, Zenon
  <2>. QED BY <1>3, <2>1
<1>5. ASSUME i - a < 0
      PROVE  i - a = -1 /\ r.has_prev /\ r.prev_frame = [epoch |-> e, index |-> a - 1]
  <2>1. PositionAt(r, k) = r.position + k * s /\ k * s >= 0
    BY <1>1 DEF PositionAt
  <2>2. PositionAt(r, k) \in Int /\ r.position \in Int
    BY <1>1, <1>3 DEF Rates
  <2>3. PositionAt(r, k) < 0
    <3>. DEFINE p == PositionAt(r, k)
    <3>1. p \div d >= 0 <=> p >= 0 * d
      <4>. HIDE DEF p, d
      <4>. QED BY <1>1, <2>2, DivLess DEF p
    <3>. QED BY <1>1, <1>2, <1>4, <1>5, <2>2, <3>1
  <2>4. r.position < 0
    BY <1>1, <2>1, <2>2, <2>3
  <2>5. PositionAt(r, k) >= (-1) * d
    BY <1>1, <2>1, <2>2 DEF At
  <2>6. i - a >= -1
    <3>. DEFINE p == PositionAt(r, k)
    <3>1. p \div d >= -1 <=> p >= (-1) * d
      <4>. HIDE DEF p, d
      <4>. QED BY <1>1, <2>2, DivLess DEF p
    <3>. QED BY <1>2, <1>4, <2>5, <3>1
  <2>. QED BY <1>2, <1>5, <2>4, <2>6 DEF At
<1>. DEFINE f == [epoch |-> e, index |-> a]
<1>6. \A j \in Int : FrameOf(f, j) = [epoch |-> e, index |-> a + j]
  BY DEF FrameOf
<1>7. Interpolated(r, f, k) =
        [first    |-> IF i - a >= 0 THEN FrameOf(f, i - a)
                      ELSE IF r.has_prev THEN r.prev_frame ELSE f,
         second   |-> IF i - a >= 0 THEN FrameOf(f, (i - a) + 1) ELSE f,
         fraction |-> x % d]
  BY <1>4 DEF Interpolated
<1>8. ReferenceFrame(r, e, g + k) =
        [first    |-> [epoch |-> e, index |-> i],
         second   |-> [epoch |-> e, index |-> i + 1],
         fraction |-> x % d]
  BY DEF ReferenceFrame
<1>. HIDE DEF i, x, s, d
<1>9. CASE i - a >= 0
  <2>1. /\ FrameOf(f, i - a) = [epoch |-> e, index |-> i]
        /\ FrameOf(f, (i - a) + 1) = [epoch |-> e, index |-> i + 1]
    <3>1. i - a \in Int /\ (i - a) + 1 \in Int /\ a + (i - a) = i /\ a + ((i - a) + 1) = i + 1
      BY <1>2
    <3>. QED BY <1>6, <3>1
  <2>. QED BY <1>7, <1>8, <1>9, <2>1
<1>10. CASE ~(i - a >= 0)
  <2>1. i - a = -1 /\ r.has_prev /\ r.prev_frame = [epoch |-> e, index |-> a - 1]
    BY <1>2, <1>5, <1>10
  <2>2. a - 1 = i /\ a = i + 1
    BY <1>2, <2>1
  <2>. QED BY <1>7, <1>8, <1>10, <2>1, <2>2
<1>. QED BY <1>9, <1>10

(* A block that exhausts its source leaves the resampler where it has to be. *)
LEMMA AfterBlockIs ==
  ASSUME NEW r, r \in [src_rate : Nat, dst_rate : Nat, position : Int,
                       prev_frame : Tag, has_prev : BOOLEAN],
         Rates(r), NEW e \in Nat, NEW g \in Nat, NEW a \in Nat, At(r, e, g, a),
         NEW n \in Nat \ {0}, NEW cap \in Nat \ {0},
         Exhausted(r, PositionAt(r, Written(r, n, cap)), n)
  PROVE  LET t == AfterBlock(r, [epoch |-> e, index |-> a], n, cap)
         IN  /\ t \in [src_rate : Nat, dst_rate : Nat, position : Int,
                       prev_frame : Tag, has_prev : BOOLEAN]
             /\ t.src_rate = r.src_rate /\ t.dst_rate = r.dst_rate
             /\ At(t, e, g + Written(r, n, cap), a + n)
<1>. DEFINE s == r.src_rate
            d == r.dst_rate
            w == Written(r, n, cap)
            f == [epoch |-> e, index |-> a]
            t == AfterBlock(r, f, n, cap)
<1>1. s \in Nat \ {0} /\ d \in Nat \ {0} /\ r.position \in Int /\ w \in Nat
  BY WrittenIs DEF Rates
<1>2. FrameOf(f, n - 1) = [epoch |-> e, index |-> a + n - 1]
  BY DEF FrameOf
<1>. HIDE DEF w
<1>3. PositionAt(r, w) = r.position + w * s /\ PositionAt(r, w) \in Int
  BY <1>1 DEF PositionAt
<1>4. t = [r EXCEPT !.position   = PositionAt(r, w) - n * d,
                    !.prev_frame = [epoch |-> e, index |-> a + n - 1],
                    !.has_prev   = TRUE]
  BY <1>2 DEF AfterBlock, w
<1>5. PositionAt(r, w) - n * d \in Int /\ [epoch |-> e, index |-> a + n - 1] \in Tag
  BY <1>1, <1>3 DEF Tag
<1>. HIDE DEF t
<1>6. /\ t \in [src_rate : Nat, dst_rate : Nat, position : Int,
                 prev_frame : Tag, has_prev : BOOLEAN]
      /\ t.src_rate = s /\ t.dst_rate = d /\ t.has_prev
      /\ t.position = PositionAt(r, w) - n * d
      /\ t.prev_frame = [epoch |-> e, index |-> a + n - 1]
  BY <1>4, <1>5
<1>7. t.position = (g + w) * s - (a + n) * d
  BY <1>1, <1>3, <1>6 DEF At
<1>8. t.position >= -d
  <2>1. PositionAt(r, w) >= (n - 1) * d
    BY <1>3, ExhaustedAt DEF w
  <2>. QED BY <1>1, <1>3, <1>6, <2>1
<1>9. a + n - 1 = (a + n) - 1
  OBVIOUS
<1>. QED BY <1>6, <1>7, <1>8, <1>9 DEF At, t, w

-----------------------------------------------------------------------------
(* The invariant. *)

Resamplers == [src_rate : Nat, dst_rate : Nat, position : Int,
               prev_frame : Tag, has_prev : BOOLEAN]

(* The rates of a resampler that start created. *)
Bounded(r) ==
  /\ r.src_rate \in Nat \ {0} /\ r.dst_rate \in Nat \ {0}
  /\ r.src_rate <= r.dst_rate * MaxRatio
  /\ r.dst_rate <= r.src_rate * MaxRatio

(* A resampler comes with the lock, and only where there is a target; without one
   every source frame is an output frame. *)
ResamplerInv ==
  /\ IF resampler = NoResampler THEN accepted = generated
     ELSE /\ target # NoTarget /\ Bounded(resampler)
          /\ At(resampler, epoch, generated, accepted)
  /\ lock = NoLock => resampler = NoResampler /\ generated = 0

(* Frames from..(from + n - 1) of `out` are the last n that were generated. *)
Waiting(from, n) == \A i \in 0..(n - 1) : out[from + i] = Expected(generated - n + i)

(* Between reads the surplus waits where take_carry will look for it. *)
IdleInv ==
  pc = "idle" => expect = generated - carry /\ Waiting(carry_at, carry)

(* During one, everything produced is at the front, and not yet delivered. *)
ReadInv ==
  pc # "idle" =>
    /\ carry = 0 /\ expect = generated - produced /\ Waiting(0, produced)
    /\ chunk = NoChunk

(* What the pull in flight asked for. *)
PullInv ==
  pc = "plugin" =>
    /\ ~finished /\ produced < budget
    /\ request = source_frames(budget - produced) /\ request >= 1

Inv ==
  /\ TypeOK /\ ResamplerInv /\ IdleInv /\ ReadInv /\ PullInv
  /\ DeliveredInOrder /\ FinishedDeliversAll

-----------------------------------------------------------------------------
(* What is reserved, what is asked for, and what may come back. *)

LEMMA Reserved ==
  ASSUME TypeOK
  PROVE  /\ MaxFrames \in Nat \ {0} /\ MaxRatio \in Nat \ {0}
         /\ ReservedOutputFrames \in Nat /\ MaxFrames <= ReservedOutputFrames
         /\ produced \in Nat /\ produced <= ReservedOutputFrames
         /\ Capacity \in Nat /\ Capacity = ReservedOutputFrames - produced
<1>1. MaxFrames \in Nat \ {0} /\ MaxRatio \in Nat \ {0}
  BY BoundsAssumption
<1>2. MaxFrames * (MaxRatio + 1) >= MaxFrames /\ MaxFrames * (MaxRatio + 1) \in Nat
  BY <1>1
<1>3. ReservedOutputFrames \in Nat /\ MaxFrames <= ReservedOutputFrames
  BY <1>1, <1>2 DEF ReservedOutputFrames
<1>4. produced \in 0..ReservedOutputFrames
  BY DEF TypeOK
<1>. HIDE DEF ReservedOutputFrames
<1>. QED BY <1>1, <1>3, <1>4 DEF Capacity

LEMMA SourceFramesForIs ==
  ASSUME NEW r, Bounded(r), NEW wanted \in Nat
  PROVE  /\ SourceFramesFor(r, wanted) \in Nat /\ SourceFramesFor(r, wanted) >= 2
         /\ (SourceFramesFor(r, wanted) - 2) * r.dst_rate <= wanted * r.src_rate
         /\ SourceFramesFor(r, wanted) <= wanted * MaxRatio + 2
<1>. DEFINE s == r.src_rate
            d == r.dst_rate
            x == wanted * s
            q == x \div d
<1>1. s \in Nat \ {0} /\ d \in Nat \ {0} /\ MaxRatio \in Nat /\ s <= d * MaxRatio
  BY BoundsAssumption DEF Bounded
<1>2. x \in Nat /\ x <= wanted * (d * MaxRatio)
  BY <1>1
<1>3. x <= (wanted * MaxRatio) * d
  <2>1. wanted * (d * MaxRatio) = (wanted * MaxRatio) * d
    BY <1>1
  <2>. QED BY <1>2, <2>1
<1>. HIDE DEF x
<1>4. q \in Int /\ x = d * q + (x % d) /\ x % d \in 0..(d - 1)
  <2>1. x \in Int /\ d \in Nat \ {0}
    BY <1>1, <1>2
  <2>. HIDE DEF d
  <2>. QED BY <2>1, DivMod
<1>5. q >= 0
  <2>1. q >= 0 <=> x >= 0 * d
    BY <1>1, <1>2, DivLess
  <2>. QED BY <1>1, <1>2, <2>1
<1>6. q <= wanted * MaxRatio
  <2>. DEFINE m == wanted * MaxRatio
  <2>1. m \in Int
    BY <1>1
  <2>. HIDE DEF m
  <2>2. q < m + 1 <=> x < (m + 1) * d
    BY <1>1, <1>2, <2>1, DivLess
  <2>3. (m + 1) * d = m * d + d
    <3>1. d \in Int
      BY <1>1
    <3>. HIDE DEF d
    <3>. QED BY <2>1, <3>1
  <2>. QED BY <1>1, <1>2, <1>3, <1>4, <2>1, <2>2, <2>3 DEF m
<1>7. q * d <= x
  BY <1>1, <1>4
<1>8. SourceFramesFor(r, wanted) = q + 2
  BY DEF SourceFramesFor, x
<1>9. x = wanted * s
  BY DEF x
<1>10. q \in Nat /\ (q + 2) - 2 = q
  BY <1>4, <1>5
<1>. HIDE DEF q
<1>11. ((q + 2) - 2) * d <= wanted * s
  BY <1>7, <1>9, <1>10
<1>12. q + 2 \in Nat /\ q + 2 >= 2 /\ q + 2 <= wanted * MaxRatio + 2
  <2>1. wanted * MaxRatio \in Nat
    BY <1>1
  <2>. QED BY <1>6, <1>10, <2>1
<1>. QED BY <1>8, <1>11, <1>12

LEMMA RequestIs ==
  ASSUME TypeOK, ResamplerInv, NEW wanted \in Nat \ {0}
  PROVE  /\ source_frames(wanted) \in Nat /\ source_frames(wanted) >= 1
         /\ resampler = NoResampler => source_frames(wanted) = wanted
         /\ resampler # NoResampler =>
              source_frames(wanted) <= SourceFramesFor(resampler, wanted)
         /\ source_frames(wanted) <= MaxRequestFrames \/ resampler = NoResampler
<1>1. MaxRequestFrames \in Nat \ {0}
  BY BoundsAssumption
<1>2. CASE resampler = NoResampler
  BY <1>2 DEF source_frames
<1>3. CASE resampler # NoResampler
  <2>. DEFINE f == SourceFramesFor(resampler, wanted)
  <2>1. f \in Nat /\ f >= 2
    BY <1>3, SourceFramesForIs DEF ResamplerInv
  <2>. HIDE DEF f
  <2>2. source_frames(wanted) = Min({f, MaxRequestFrames})
    BY <1>3 DEF source_frames, f
  <2>3. source_frames(wanted) = IF f <= MaxRequestFrames THEN f ELSE MaxRequestFrames
    BY <1>1, <2>1, <2>2, MinOfTwo
  <2>. QED BY <1>1, <1>3, <2>1, <2>3 DEF f
<1>. QED BY <1>2, <1>3

(* What an answer that is accepted says, and the resampler it is given to. *)
LEMMA AcceptedIs ==
  ASSUME Inv, pc = "plugin", NEW a \in Answers, Accepted(a)
  PROVE  /\ a.format \in Lockable /\ a.format # NoLock
         /\ a.frame_count \in Nat /\ a.frame_count <= request
         /\ accepted + a.frame_count <= SongFrames
         /\ ResamplerFor(a.format) \in Resamplers
         /\ lock # NoLock => a.format = lock /\ ResamplerFor(a.format) = resampler
         /\ ResamplerFor(a.format) = NoResampler => accepted = generated
         /\ ResamplerFor(a.format) # NoResampler =>
              /\ target # NoTarget /\ Bounded(ResamplerFor(a.format))
              /\ At(ResamplerFor(a.format), epoch, generated, accepted)
<1>. DEFINE f == a.format
            r == ResamplerFor(f)
<1>1. /\ TypeOK /\ ResamplerInv /\ request \in Nat
      /\ accepted \in Nat /\ generated \in Nat
  BY DEF Inv, TypeOK
<1>2. /\ f \in Formats /\ a.frame_count \in Nat /\ accepted + a.frame_count <= SongFrames
  BY <1>1 DEF Answers
<1>3. /\ f \in Lockable /\ a.frame_count <= request /\ f.sample_rate # 0
      /\ lock # NoLock => f = lock
  BY <1>2 DEF Accepted, Validated, Lockable
<1>4. f # NoLock
  BY <1>3 DEF NoLock
<1>5. f.sample_rate \in Nat \ {0}
  BY <1>2, <1>3, FormatAssumption
<1>6. target # NoTarget => target.sample_rate \in Nat \ {0}
  BY <1>1, FormatAssumption DEF TypeOK
<1>7. CASE lock = NoLock /\ target # NoTarget /\ f.sample_rate # target.sample_rate
  <2>1. r = NewResampler(f.sample_rate, target.sample_rate)
    BY <1>7 DEF ResamplerFor
  <2>2. /\ r.src_rate = f.sample_rate /\ r.dst_rate = target.sample_rate
        /\ r.position = 0 /\ r \in Resamplers
    BY <1>5, <1>6, <1>7, <2>1 DEF NewResampler, Resamplers, Tag, NoFrame
  <2>3. Bounded(r)
    BY <1>5, <1>6, <1>7, <2>2 DEF Accepted, Startable, Bounded
  <2>4. accepted = 0 /\ generated = 0
    BY <1>1, <1>7 DEF ResamplerInv
  <2>5. At(r, epoch, generated, accepted)
    BY <1>5, <1>6, <1>7, <2>2, <2>4 DEF At
  <2>6. r # NoResampler
    BY <1>5, <2>2 DEF NoResampler, NewResampler
  <2>. QED BY <1>2, <1>3, <1>4, <1>7, <2>2, <2>3, <2>5, <2>6
<1>8. CASE ~(lock = NoLock /\ target # NoTarget /\ f.sample_rate # target.sample_rate)
  <2>1. r = resampler
    BY <1>8 DEF ResamplerFor
  <2>2. resampler \in Resamplers
    BY <1>1 DEF TypeOK, Resamplers
  <2>. QED BY <1>1, <1>2, <1>3, <1>4, <2>1, <2>2 DEF ResamplerInv
<1>. QED BY <1>7, <1>8

(* `out` has room for everything an accepted answer yields. *)
LEMMA AnswerFits ==
  ASSUME Inv, pc = "plugin", NEW a \in Answers, Accepted(a), a.frame_count > 0
  PROVE  LET r == ResamplerFor(a.format)
             n == a.frame_count
         IN  /\ Capacity \in Nat \ {0}
             /\ r = NoResampler => n <= Capacity
             /\ r # NoResampler =>
                  /\ Rates(r) /\ Written(r, n, Capacity) \in 0..Capacity
                  /\ Exhausted(r, PositionAt(r, Written(r, n, Capacity)), n)
<1>. DEFINE r == ResamplerFor(a.format)
            n == a.frame_count
            w == budget - produced
<1>1. /\ TypeOK /\ ResamplerInv /\ produced < budget
      /\ request = source_frames(w) /\ budget \in Nat /\ budget <= MaxFrames
  BY DEF Inv, PullInv, TypeOK
<1>2. /\ MaxFrames \in Nat \ {0} /\ MaxRatio \in Nat \ {0}
      /\ ReservedOutputFrames \in Nat /\ MaxFrames <= ReservedOutputFrames
      /\ produced \in Nat /\ Capacity \in Nat /\ Capacity = ReservedOutputFrames - produced
  BY <1>1, Reserved
<1>3. w \in Nat \ {0} /\ w + produced = budget /\ w <= Capacity
  BY <1>1, <1>2
<1>4. /\ n \in Nat \ {0} /\ n <= request
      /\ lock # NoLock => r = resampler
      /\ r # NoResampler => /\ target # NoTarget /\ Bounded(r)
                            /\ At(r, epoch, generated, accepted)
      /\ r \in Resamplers
  BY AcceptedIs
<1>5. Capacity \in Nat \ {0}
  BY <1>2, <1>3
<1>. HIDE DEF w
<1>6. resampler = NoResampler => n <= w
  BY <1>1, <1>3, <1>4, RequestIs
<1>7. r = NoResampler => resampler = NoResampler
  <2>1. lock = NoLock => resampler = NoResampler
    BY <1>1 DEF ResamplerInv
  <2>. QED BY <1>4, <2>1
<1>8. r = NoResampler => n <= Capacity
  BY <1>2, <1>3, <1>4, <1>6, <1>7
<1>9. ASSUME r # NoResampler
      PROVE  /\ Rates(r) /\ Written(r, n, Capacity) \in 0..Capacity
             /\ Exhausted(r, PositionAt(r, Written(r, n, Capacity)), n)
  <2>. DEFINE s == r.src_rate
              d == r.dst_rate
              p == r.position
  <2>1. /\ s \in Nat \ {0} /\ d \in Nat \ {0} /\ p \in Int
        /\ s <= d * MaxRatio /\ d <= s * MaxRatio /\ Rates(r) /\ p >= -d
    BY <1>4, <1>9 DEF Bounded, Rates, At, Resamplers
  <2>2. ReservedOutputFrames = MaxFrames * (MaxRatio + 1) + MaxRatio * 2 + 1
    BY <1>4, <1>9 DEF ReservedOutputFrames
  <2>3. ASSUME NEW j \in 0..Capacity, p + j * s >= (n - 1) * d
        PROVE  Exhausted(r, PositionAt(r, Written(r, n, Capacity)), n)
    <3>1. PositionAt(r, j) = p + j * s /\ PositionAt(r, j) \in Int
      BY <2>1 DEF PositionAt
    <3>2. Exhausted(r, PositionAt(r, j), n)
      BY <1>4, <2>1, <2>3, <3>1, ExhaustedAt
    <3>. QED BY <1>2, <1>4, <2>1, <2>3, <3>2, WrittenIs
  <2>4. Written(r, n, Capacity) \in 0..Capacity
    BY <1>2, <1>4, <2>1, WrittenIs
  <2>5. CASE resampler = NoResampler
    <3>1. p = 0
      <4>1. lock = NoLock
        BY <1>4, <1>9, <2>5
      <4>2. generated = 0 /\ accepted = 0
        BY <1>1, <2>5, <4>1 DEF ResamplerInv
      <4>. QED BY <1>4, <1>9, <2>1, <4>2 DEF At
    <3>. DEFINE j == w * MaxRatio
    <3>2. j \in Nat /\ j <= MaxFrames * MaxRatio - produced * MaxRatio
      <4>1. w <= MaxFrames - produced
        BY <1>1, <1>2, <1>3
      <4>. QED BY <1>1, <1>2, <1>3, <4>1
    <3>3. MaxFrames * (MaxRatio + 1) = MaxFrames * MaxRatio + MaxFrames
      BY <1>2
    <3>4. produced * MaxRatio >= 0 /\ produced * MaxRatio \in Nat
      BY <1>2
    <3>5. MaxFrames * MaxRatio \in Nat
      BY <1>2
    <3>6. j <= Capacity
      BY <1>1, <1>2, <2>2, <3>2, <3>3, <3>4, <3>5
    <3>7. j * s >= w * d
      <4>1. j * s = w * (s * MaxRatio)
        BY <1>2, <1>3, <2>1
      <4>2. s * MaxRatio \in Int
        BY <1>2, <2>1
      <4>. QED BY <1>3, <2>1, <4>1, <4>2
    <3>8. w * d >= (n - 1) * d
      BY <1>3, <1>4, <1>6, <2>1, <2>5
    <3>9. p + j * s >= (n - 1) * d
      <4>1. j * s \in Int /\ w * d \in Int /\ (n - 1) * d \in Int
        BY <1>3, <1>4, <2>1, <3>2
      <4>. QED BY <3>1, <3>7, <3>8, <4>1
    <3>10. j \in 0..Capacity
      BY <1>2, <3>2, <3>6
    <3>. HIDE DEF j
    <3>. QED BY <2>1, <2>3, <2>4, <3>9, <3>10
  <2>6. CASE resampler # NoResampler
    <3>1. r = resampler
      BY <1>1, <1>4, <2>6 DEF ResamplerInv
    <3>. DEFINE t == SourceFramesFor(r, w)
                j == w + 2 * MaxRatio
    <3>2. n <= t /\ t \in Nat /\ (t - 2) * d <= w * s
      BY <1>1, <1>3, <1>4, <2>6, <3>1, RequestIs, SourceFramesForIs
    <3>. HIDE DEF t
    <3>3. (n - 1) * d <= (t - 2) * d + d
      BY <1>4, <2>1, <3>2
    <3>4. j * s = w * s + 2 * (s * MaxRatio)
      BY <1>2, <1>3, <2>1
    <3>5. p + j * s >= (n - 1) * d
      <4>1. /\ w * s \in Int /\ s * MaxRatio \in Int /\ (t - 2) * d \in Int
            /\ (n - 1) * d \in Int
        BY <1>2, <1>3, <1>4, <2>1, <3>2
      <4>. QED BY <2>1, <3>2, <3>3, <3>4, <4>1
    <3>6. j \in 0..Capacity
      <4>1. MaxFrames * (MaxRatio + 1) >= MaxFrames /\ MaxFrames * (MaxRatio + 1) \in Nat
        BY <1>2
      <4>. QED BY <1>1, <1>2, <1>3, <2>2, <4>1
    <3>. HIDE DEF j
    <3>. QED BY <2>1, <2>3, <2>4, <3>5, <3>6
  <2>. QED BY <2>5, <2>6
<1>. QED BY <1>5, <1>8, <1>9

-----------------------------------------------------------------------------
(* The frames of the signal. *)

Frame(r, e, k) ==
  IF r = NoResampler
  THEN LET tag == [epoch |-> e, index |-> k]
       IN  [first |-> tag, second |-> tag, fraction |-> 0]
  ELSE ReferenceFrame(r, e, k)

LEMMA ExpectedIs == \A k : Expected(k) = Frame(resampler, epoch, k)
BY DEF Expected, Frame

LEMMA FrameType ==
  ASSUME NEW r, r = NoResampler \/ Bounded(r), NEW e \in Nat, NEW k \in Nat
  PROVE  Frame(r, e, k) \in OutputFrame
<1>1. CASE r = NoResampler
  <2>1. [epoch |-> e, index |-> k] \in Tag
    BY DEF Tag
  <2>. QED BY <1>1, <2>1 DEF Frame, OutputFrame
<1>2. CASE r # NoResampler
  <2>. DEFINE s == r.src_rate
              d == r.dst_rate
              x == k * s
              i == x \div d
  <2>1. s \in Nat \ {0} /\ d \in Nat \ {0} /\ x \in Nat
    BY <1>2 DEF Bounded
  <2>2. i \in Nat /\ x % d \in Nat
    <3>. HIDE DEF x, d
    <3>1. i \in Int /\ x % d \in 0..(d - 1)
      BY <2>1, DivMod
    <3>2. i >= 0 <=> x >= 0 * d
      BY <2>1, DivLess
    <3>. QED BY <2>1, <3>1, <3>2
  <2>3. [epoch |-> e, index |-> i] \in Tag /\ [epoch |-> e, index |-> i + 1] \in Tag
    BY <2>2 DEF Tag
  <2>4. Frame(r, e, k) = [first    |-> [epoch |-> e, index |-> i],
                          second   |-> [epoch |-> e, index |-> i + 1],
                          fraction |-> x % d]
    BY <1>2 DEF Frame, ReferenceFrame
  <2>. HIDE DEF i, x, d
  <2>. QED BY <2>2, <2>3, <2>4 DEF OutputFrame
<1>. QED BY <1>1, <1>2

(* A frame depends on the rates alone. *)
LEMMA FrameOfRates ==
  ASSUME NEW r, r # NoResampler, NEW t, t # NoResampler,
         t.src_rate = r.src_rate, t.dst_rate = r.dst_rate, NEW e, NEW k
  PROVE  Frame(t, e, k) = Frame(r, e, k)
BY DEF Frame, ReferenceFrame

(* What a chunk is turned into are the next frames of the signal. *)
LEMMA ConsumedIs ==
  ASSUME TypeOK, NEW r,
         r = NoResampler => accepted = generated,
         r # NoResampler => Bounded(r) /\ r \in Resamplers /\ At(r, epoch, generated, accepted),
         NEW k \in Nat
  PROVE  Consumed(r, k) = Frame(r, epoch, generated + k)
<1>1. accepted \in Nat /\ generated \in Nat
  BY DEF TypeOK
<1>2. CASE r = NoResampler
  <2>1. FrameOf(NextSource, k) = [epoch |-> epoch, index |-> generated + k]
    BY <1>2 DEF FrameOf, NextSource
  <2>. QED BY <1>2, <2>1 DEF Consumed, Frame
<1>3. CASE r # NoResampler
  <2>1. Rates(r) /\ At(r, epoch, generated, accepted)
    BY <1>3 DEF Rates, Bounded, Resamplers
  <2>2. Interpolated(r, NextSource, k) = ReferenceFrame(r, epoch, generated + k)
    BY <1>1, <2>1, InterpolatedIs DEF NextSource
  <2>. QED BY <1>3, <2>2 DEF Consumed, Frame
<1>. QED BY <1>2, <1>3

-----------------------------------------------------------------------------
(* The steps. *)

LEMMA ResamplerKept ==
  ASSUME ResamplerInv, UNCHANGED <<target, lock, resampler, epoch, accepted, generated>>
  PROVE  ResamplerInv'
BY DEF ResamplerInv, At, Bounded

LEMMA WaitingKept ==
  ASSUME NEW from \in Nat, NEW n \in Nat, Waiting(from, n),
         UNCHANGED <<out, resampler, epoch, generated>>
  PROVE  Waiting(from, n)'
BY DEF Waiting, Expected

(* A chunk that holds nothing says nothing. *)
LEMMA Silent ==
  ASSUME NEW c \in {NoChunk, FailedChunk}, chunk' = c
  PROVE  /\ DeliveredInOrder' /\ FinishedDeliversAll'
         /\ chunk'.status \in {"none", "error", "ok"} /\ chunk'.finished \in BOOLEAN
<1>1. c.status \in {"none", "error"} /\ c.finished = FALSE
  BY DEF NoChunk, FailedChunk
<1>. QED BY <1>1 DEF DeliveredInOrder, FinishedDeliversAll

LEMMA InitInv == Init => Inv
<1>. SUFFICES ASSUME Init PROVE Inv
  OBVIOUS
<1>1. /\ MaxFrames \in Nat \ {0} /\ MaxRatio \in Nat \ {0} /\ MaxSeeks \in Nat
      /\ MaxPulls \in Nat /\ SongFrames \in Nat
  BY BoundsAssumption
<1>2. ReservedOutputFrames \in Nat
  <2>1. MaxFrames * (MaxRatio + 1) \in Nat
    BY <1>1
  <2>. QED BY <1>1, <2>1 DEF ReservedOutputFrames
<1>3. NoFrame \in Tag
  BY DEF NoFrame, Tag
<1>4. Silence \in OutputFrame
  BY <1>3 DEF Silence, OutputFrame
<1>5. NoResampler \in Resamplers
  BY <1>3 DEF NoResampler, NewResampler, Resamplers
<1>6. resampler \in Resamplers /\ out \in [0..(ReservedOutputFrames - 1) -> OutputFrame]
  BY <1>4, <1>5 DEF Init
<1>7. TypeOK
  <2>1. chunk.status \in {"none", "error", "ok"} /\ chunk.finished \in BOOLEAN
    BY DEF Init, NoChunk
  <2>2. /\ resampler \in [src_rate : Nat, dst_rate : Nat, position : Int,
                          prev_frame : Tag, has_prev : BOOLEAN]
    BY <1>6 DEF Resamplers
  <2>. HIDE DEF ReservedOutputFrames
  <2>3. /\ target \in Targets /\ lock \in Lockable \cup {NoLock} /\ finished \in BOOLEAN
        /\ pc \in {"idle", "loop", "plugin", "return"} /\ request \in Nat
        /\ generated \in Nat /\ expect \in Nat
    BY DEF Init
  <2>4. /\ carry \in 0..ReservedOutputFrames /\ carry_at \in 0..MaxFrames
        /\ carry + carry_at <= ReservedOutputFrames /\ budget \in 0..MaxFrames
        /\ produced \in 0..ReservedOutputFrames /\ pulls \in 0..MaxPulls
        /\ epoch \in 0..MaxSeeks /\ accepted \in 0..SongFrames
    BY <1>1, <1>2 DEF Init
  <2>. QED BY <1>6, <2>1, <2>2, <2>3, <2>4 DEF TypeOK
<1>8. ResamplerInv
  BY DEF Init, ResamplerInv
<1>9. IdleInv /\ ReadInv /\ PullInv
  <2>1. Waiting(carry_at, carry)
    BY DEF Init, Waiting
  <2>. QED BY <2>1 DEF Init, IdleInv, ReadInv, PullInv
<1>10. DeliveredInOrder /\ FinishedDeliversAll
  BY DEF Init, NoChunk, DeliveredInOrder, FinishedDeliversAll
<1>. QED BY <1>7, <1>8, <1>9, <1>10 DEF Inv

LEMMA BeginReadInv ==
  ASSUME Inv, BeginRead
  PROVE  Inv'
<1>1. /\ TypeOK /\ ResamplerInv /\ pc = "idle" /\ expect = generated - carry
      /\ Waiting(carry_at, carry)
  BY DEF Inv, BeginRead, IdleInv
<1>2. /\ carry \in Nat /\ carry_at \in Nat /\ carry + carry_at <= ReservedOutputFrames
      /\ MaxFrames \in Nat /\ ReservedOutputFrames \in Nat /\ carry <= ReservedOutputFrames
      /\ generated \in Nat
  BY <1>1, Reserved DEF TypeOK
<1>3. /\ budget' \in 0..MaxFrames /\ produced' = carry /\ carry' = 0 /\ pc' = "loop"
      /\ pulls' = 0 /\ chunk' = NoChunk
      /\ UNCHANGED <<target, lock, resampler, finished, carry_at, request, history>>
      /\ ReservedOutputFrames' = ReservedOutputFrames
  BY DEF BeginRead, ReservedOutputFrames
<1>. HIDE DEF ReservedOutputFrames
<1>4. /\ out \in [0..(ReservedOutputFrames - 1) -> OutputFrame]
      /\ out' = [i \in 0..(ReservedOutputFrames - 1) |->
                   IF i < carry THEN out[carry_at + i] ELSE out[i]]
  BY <1>1 DEF TypeOK, BeginRead, CarriedFrame
<1>5. \A i \in 0..(ReservedOutputFrames - 1) :
         i < carry => carry_at + i \in 0..(ReservedOutputFrames - 1)
  BY <1>2
<1>6. out' \in [0..(ReservedOutputFrames - 1) -> OutputFrame]
  BY <1>4, <1>5
<1>7. TypeOK'
  <2>1. chunk'.status \in {"none", "error", "ok"} /\ chunk'.finished \in BOOLEAN
    BY <1>3, Silent
  <2>2. pulls' \in 0..MaxPulls
    BY <1>3, BoundsAssumption
  <2>. QED BY <1>1, <1>2, <1>3, <1>6, <2>1, <2>2 DEF TypeOK, history
<1>8. ResamplerInv'
  BY <1>1, <1>3, ResamplerKept DEF history
<1>9. Waiting(0, produced)'
  <2>1. \A i \in 0..(carry - 1) : out'[i] = out[carry_at + i]
    BY <1>2, <1>4
  <2>2. \A i \in 0..(carry - 1) : out'[0 + i] = Expected(generated - carry + i)
    BY <1>1, <1>2, <2>1 DEF Waiting
  <2>. QED BY <1>3, <2>2 DEF Waiting, Expected, history
<1>10. IdleInv' /\ ReadInv' /\ PullInv'
  BY <1>1, <1>3, <1>9 DEF IdleInv, ReadInv, PullInv, history
<1>11. DeliveredInOrder' /\ FinishedDeliversAll'
  BY <1>3, Silent
<1>. QED BY <1>7, <1>8, <1>10, <1>11 DEF Inv

LEMMA PullIsInv ==
  ASSUME Inv, Pull
  PROVE  Inv'
<1>1. /\ TypeOK /\ ResamplerInv /\ pc = "loop" /\ WantsMore
      /\ carry = 0 /\ expect = generated - produced /\ Waiting(0, produced) /\ chunk = NoChunk
  BY DEF Inv, Pull, ReadInv
<1>2. /\ budget \in Nat /\ produced \in Nat /\ produced < budget /\ ~finished
      /\ pulls \in Nat /\ MaxPulls \in Nat
  BY <1>1, Reserved, BoundsAssumption DEF TypeOK, WantsMore
<1>3. /\ pc' = "plugin" /\ request' = source_frames(budget - produced)
      /\ pulls' = Min({pulls + 1, MaxPulls})
      /\ UNCHANGED <<target, lock, resampler, finished, carry, carry_at, out>>
      /\ UNCHANGED <<budget, produced, chunk, epoch, accepted, generated, expect>>
      /\ ReservedOutputFrames' = ReservedOutputFrames
  BY DEF Pull, player, history, ReservedOutputFrames
<1>. HIDE DEF ReservedOutputFrames
<1>4. request' \in Nat /\ request' >= 1
  <2>1. budget - produced \in Nat \ {0}
    BY <1>2
  <2>. QED BY <1>1, <1>3, <2>1, RequestIs
<1>5. pulls' \in 0..MaxPulls
  BY <1>2, <1>3, MinOfTwo
<1>6. TypeOK'
  BY <1>1, <1>3, <1>4, <1>5 DEF TypeOK
<1>7. ResamplerInv'
  BY <1>1, <1>3, ResamplerKept
<1>8. Waiting(0, produced)'
  BY <1>1, <1>2, <1>3, WaitingKept
<1>9. request' = source_frames(budget - produced)'
  BY <1>3 DEF source_frames
<1>10. IdleInv' /\ ReadInv'
  BY <1>1, <1>3, <1>8 DEF IdleInv, ReadInv
<1>11. PullInv'
  BY <1>2, <1>3, <1>4, <1>9 DEF PullInv
<1>12. DeliveredInOrder' /\ FinishedDeliversAll'
  BY <1>1, <1>3, Silent
<1>. QED BY <1>6, <1>7, <1>10, <1>11, <1>12 DEF Inv

LEMMA AnswerFailsInv ==
  ASSUME Inv, AnswerFails
  PROVE  Inv'
<1>1. /\ TypeOK /\ ResamplerInv /\ pc = "plugin" /\ carry = 0
  BY DEF Inv, AnswerFails, ReadInv
<1>2. /\ pc' = "idle" /\ chunk' = FailedChunk /\ expect' = generated - carry
      /\ UNCHANGED <<target, lock, resampler, finished, carry, carry_at, out>>
      /\ UNCHANGED <<budget, produced, request, pulls, epoch, accepted, generated>>
      /\ ReservedOutputFrames' = ReservedOutputFrames
  BY DEF AnswerFails, player, running, ReservedOutputFrames
<1>. HIDE DEF ReservedOutputFrames
<1>3. expect' \in Nat
  BY <1>1, <1>2 DEF TypeOK
<1>4. /\ DeliveredInOrder' /\ FinishedDeliversAll'
      /\ chunk'.status \in {"none", "error", "ok"} /\ chunk'.finished \in BOOLEAN
  BY <1>2, Silent
<1>5. TypeOK'
  BY <1>1, <1>2, <1>3, <1>4 DEF TypeOK
<1>6. ResamplerInv'
  BY <1>1, <1>2, ResamplerKept
<1>7. IdleInv' /\ ReadInv' /\ PullInv'
  <2>1. Waiting(carry_at, carry)'
    BY <1>1, <1>2 DEF Waiting
  <2>. QED BY <1>1, <1>2, <2>1 DEF IdleInv, ReadInv, PullInv
<1>. QED BY <1>4, <1>5, <1>6, <1>7 DEF Inv

LEMMA AnswerEmptyInv ==
  ASSUME Inv, AnswerEmpty
  PROVE  Inv'
<1>1. /\ TypeOK /\ ResamplerInv /\ pc = "plugin" /\ carry = 0
      /\ expect = generated - produced /\ Waiting(0, produced) /\ chunk = NoChunk
  BY DEF Inv, AnswerEmpty, ReadInv
<1>2. PICK a \in Answers :
        /\ Accepted(a) /\ a.frame_count = 0
        /\ lock' = a.format /\ resampler' = ResamplerFor(a.format)
        /\ finished' = (finished \/ a.status = "Finished")
        /\ pc' = IF Retry(a) THEN "loop" ELSE "return"
  BY Zenon DEF AnswerEmpty
<1>3. /\ UNCHANGED <<target, carry, carry_at, out, budget, produced, request, pulls>>
      /\ UNCHANGED <<chunk, epoch, accepted, generated, expect>>
      /\ ReservedOutputFrames' = ReservedOutputFrames
  BY DEF AnswerEmpty, running, history, ReservedOutputFrames
<1>. HIDE DEF ReservedOutputFrames
<1>4. /\ lock' \in Lockable /\ lock' # NoLock /\ resampler' \in Resamplers
      /\ lock # NoLock => resampler' = resampler
      /\ resampler' = NoResampler => accepted = generated
      /\ resampler' # NoResampler =>
           /\ target # NoTarget /\ Bounded(resampler')
           /\ At(resampler', epoch, generated, accepted)
  BY <1>1, <1>2, AcceptedIs
<1>5. finished' \in BOOLEAN
  BY <1>2, Zenon
<1>6. pc' \in {"loop", "return"}
  BY <1>2
<1>7. TypeOK'
  <2>1. resampler' \in [src_rate : Nat, dst_rate : Nat, position : Int,
                        prev_frame : Tag, has_prev : BOOLEAN]
    BY <1>4 DEF Resamplers
  <2>. QED BY <1>1, <1>3, <1>4, <1>5, <1>6, <2>1 DEF TypeOK
<1>8. ResamplerInv'
  <2>1. At(resampler', epoch, generated, accepted) =>
          At(resampler', epoch', generated', accepted')
    BY <1>3
  <2>2. CASE resampler' = NoResampler
    BY <1>3, <1>4, <2>2 DEF ResamplerInv
  <2>3. CASE resampler' # NoResampler
    <3>1. At(resampler, epoch, generated, accepted)' /\ Bounded(resampler)'
      BY <1>4, <2>1, <2>3 DEF At, Bounded
    <3>. QED BY <1>3, <1>4, <2>3, <3>1 DEF ResamplerInv
  <2>. QED BY <2>2, <2>3
<1>9. Waiting(0, produced)'
  <2>1. CASE lock = NoLock
    <3>1. produced = 0
      BY <1>1, <2>1 DEF ResamplerInv, TypeOK
    <3>. QED BY <1>3, <3>1 DEF Waiting
  <2>2. CASE lock # NoLock
    <3>1. produced \in Nat
      BY <1>1, Reserved
    <3>2. Waiting(0, produced)'
      BY <1>1, <1>3, <1>4, <2>2, <3>1, WaitingKept
    <3>. QED BY <3>2
  <2>. QED BY <2>1, <2>2
<1>10. IdleInv' /\ ReadInv' /\ PullInv'
  BY <1>1, <1>3, <1>6, <1>9 DEF IdleInv, ReadInv, PullInv
<1>11. DeliveredInOrder' /\ FinishedDeliversAll'
  BY <1>1, <1>3, Silent
<1>. QED BY <1>7, <1>8, <1>10, <1>11 DEF Inv

LEMMA AnswerFramesInv ==
  ASSUME Inv, AnswerFrames
  PROVE  Inv'
<1>1. /\ TypeOK /\ ResamplerInv /\ pc = "plugin" /\ carry = 0
      /\ expect = generated - produced /\ Waiting(0, produced) /\ chunk = NoChunk
  BY DEF Inv, AnswerFrames, ReadInv
<1>2. PICK a \in Answers :
        LET n == a.frame_count
            r == ResamplerFor(a.format)
            y == Yield(r, n)
        IN  /\ Accepted(a)
            /\ n > 0
            /\ lock' = a.format
            /\ resampler' = IF r = NoResampler THEN r
                            ELSE AfterBlock(r, NextSource, n, Capacity)
            /\ finished' = (finished \/ a.status = "Finished")
            /\ out' = [i \in DOMAIN out |->
                         IF i \in produced..(produced + y - 1)
                         THEN Consumed(r, i - produced) ELSE out[i]]
            /\ produced' = produced + y
            /\ generated' = generated + y
            /\ accepted' = accepted + n
  BY Zenon DEF AnswerFrames
<1>. DEFINE n == a.frame_count
            r == ResamplerFor(a.format)
            y == Yield(r, n)
            R == ReservedOutputFrames
<1>3. /\ UNCHANGED <<target, carry, carry_at, budget, request, pulls, chunk, epoch, expect>>
      /\ R' = R /\ pc' = "loop"
  BY DEF AnswerFrames, ReservedOutputFrames
<1>4. /\ R \in Nat /\ produced \in Nat /\ produced <= R /\ Capacity \in Nat
      /\ Capacity = R - produced
  BY <1>1, Reserved
<1>5. /\ generated \in Nat /\ accepted \in Nat /\ epoch \in Nat /\ SongFrames \in Nat
      /\ out \in [0..(R - 1) -> OutputFrame]
  BY <1>1, BoundsAssumption DEF TypeOK
<1>6. /\ a.format \in Lockable /\ a.format # NoLock /\ n \in Nat \ {0}
      /\ accepted + n <= SongFrames /\ r \in Resamplers
      /\ lock # NoLock => r = resampler
      /\ r = NoResampler => accepted = generated
      /\ r # NoResampler => /\ target # NoTarget /\ Bounded(r)
                            /\ At(r, epoch, generated, accepted)
  BY <1>1, <1>2, AcceptedIs
<1>7. /\ Capacity \in Nat \ {0}
      /\ r = NoResampler => n <= Capacity
      /\ r # NoResampler => /\ Rates(r) /\ Written(r, n, Capacity) \in 0..Capacity
                            /\ Exhausted(r, PositionAt(r, Written(r, n, Capacity)), n)
  BY <1>1, <1>2, AnswerFits
<1>8. y \in 0..Capacity /\ y \in Nat /\ produced + y <= R
  <2>1. y \in 0..Capacity
    BY <1>6, <1>7 DEF Yield
  <2>. HIDE DEF y
  <2>. QED BY <1>4, <2>1
<1>9. ASSUME NEW k \in Nat
      PROVE  Consumed(r, k) = Frame(r, epoch, generated + k)
  <2>. HIDE DEF r
  <2>. QED BY <1>1, <1>6, ConsumedIs
(* The resampler the block leaves. *)
<1>10. /\ resampler' \in Resamplers
       /\ resampler' = NoResampler <=> r = NoResampler
       /\ resampler' = NoResampler => accepted' = generated'
       /\ resampler' # NoResampler =>
            /\ target # NoTarget /\ Bounded(resampler')
            /\ At(resampler', epoch, generated', accepted')
            /\ resampler'.src_rate = r.src_rate /\ resampler'.dst_rate = r.dst_rate
  <2>1. CASE r = NoResampler
    <3>1. resampler' = r /\ y = n
      BY <1>2, <2>1 DEF Yield
    <3>. QED BY <1>2, <1>5, <1>6, <2>1, <3>1
  <2>2. CASE r # NoResampler
    <3>1. /\ resampler' = AfterBlock(r, NextSource, n, Capacity)
          /\ y = Written(r, n, Capacity)
      BY <1>2, <2>2 DEF Yield
    <3>2. NextSource = [epoch |-> epoch, index |-> accepted]
      BY DEF NextSource
    <3>. DEFINE t == AfterBlock(r, [epoch |-> epoch, index |-> accepted], n, Capacity)
    <3>3. r \in [src_rate : Nat, dst_rate : Nat, position : Int,
                 prev_frame : Tag, has_prev : BOOLEAN]
      BY <1>6 DEF Resamplers
    <3>4. /\ t \in [src_rate : Nat, dst_rate : Nat, position : Int,
                    prev_frame : Tag, has_prev : BOOLEAN]
          /\ t.src_rate = r.src_rate /\ t.dst_rate = r.dst_rate
          /\ At(t, epoch, generated + Written(r, n, Capacity), accepted + n)
      <4>. HIDE DEF r, n
      <4>. QED BY <1>5, <1>6, <1>7, <2>2, <3>3, AfterBlockIs
    <3>5. resampler' = t
      BY <3>1, <3>2
    <3>6. At(t, epoch, generated', accepted')
      BY <1>2, <3>1, <3>4
    <3>7. r.src_rate # 0 /\ Bounded(r) /\ target # NoTarget
      BY <1>6, <2>2 DEF Bounded
    <3>. HIDE DEF t, r
    <3>8. t # NoResampler /\ Bounded(t)
      <4>1. t.src_rate # 0
        BY <3>4, <3>7
      <4>2. NoResampler.src_rate = 0
        BY DEF NoResampler, NewResampler
      <4>. QED BY <3>4, <3>7, <4>1, <4>2 DEF Bounded
    <3>. QED BY <2>2, <3>4, <3>5, <3>6, <3>7, <3>8 DEF Resamplers
  <2>. QED BY <2>1, <2>2
<1>11. \A k : Frame(resampler', epoch, k) = Frame(r, epoch, k)
  <2>1. CASE r = NoResampler
    BY <1>10, <2>1
  <2>2. CASE r # NoResampler
    <3>. HIDE DEF r
    <3>. QED BY <1>10, <2>2, FrameOfRates
  <2>. QED BY <2>1, <2>2
(* The frames it appends. *)
<1>12. ASSUME NEW i \in produced..(produced + y - 1)
       PROVE  /\ i \in 0..(R - 1) /\ out'[i] = Frame(r, epoch, generated + (i - produced))
              /\ out'[i] \in OutputFrame
  <2>1. i - produced \in Nat /\ i \in 0..(R - 1)
    <3>. HIDE DEF y, R
    <3>. QED BY <1>4, <1>8
  <2>2. out'[i] = Consumed(r, i - produced)
    <3>. HIDE DEF y, R, r
    <3>. QED BY <1>2, <1>5, <2>1 DEF y, r
  <2>3. out'[i] = Frame(r, epoch, generated + (i - produced))
    BY <1>9, <2>1, <2>2
  <2>4. generated + (i - produced) \in Nat
    BY <1>5, <2>1
  <2>. HIDE DEF r
  <2>5. Frame(r, epoch, generated + (i - produced)) \in OutputFrame
    BY <1>5, <1>6, <2>4, FrameType
  <2>. QED BY <2>1, <2>3, <2>5
<1>13. ASSUME NEW i \in 0..(R - 1), i \notin produced..(produced + y - 1)
       PROVE  out'[i] = out[i]
  <2>. HIDE DEF y, R, r
  <2>. QED BY <1>2, <1>5, <1>13 DEF y, r
<1>14. out' \in [0..(R - 1) -> OutputFrame]
  <2>. DEFINE e(i) == IF i \in produced..(produced + y - 1)
                      THEN Consumed(r, i - produced) ELSE out[i]
  <2>1. out' = [i \in 0..(R - 1) |-> e(i)]
    BY <1>2, <1>5
  <2>2. \A i \in 0..(R - 1) : out'[i] \in OutputFrame
    <3>. HIDE DEF y, R, r, e
    <3>. QED BY <1>5, <1>12, <1>13
  <2>3. out' = [i \in 0..(R - 1) |-> out'[i]]
    <3>. HIDE DEF e, R
    <3>. QED BY <2>1
  <2>. HIDE DEF e, R
  <2>. QED BY <2>2, <2>3
<1>15. Waiting(0, produced)'
  <2>1. lock = NoLock => produced = 0
    BY <1>1, <1>4 DEF ResamplerInv, TypeOK
  <2>2. ASSUME NEW i \in 0..(produced + y - 1)
        PROVE  out'[i] = Frame(r, epoch, generated - produced + i)
    <3>1. CASE i < produced
      <4>1. i \in 0..(produced - 1) /\ i \notin produced..(produced + y - 1)
            /\ i \in 0..(R - 1) /\ 0 + i = i
        <5>. HIDE DEF y, R
        <5>. QED BY <1>4, <1>8, <3>1
      <4>2. r = resampler
        <5>1. produced # 0
          BY <1>4, <4>1
        <5>. QED BY <1>6, <2>1, <5>1
      <4>3. out[0 + i] = Expected(generated - produced + i)
        BY <1>1, <4>1 DEF Waiting
      <4>4. out'[i] = out[i]
        BY <1>13, <4>1
      <4>. QED BY <4>1, <4>2, <4>3, <4>4, ExpectedIs
    <3>2. CASE ~(i < produced)
      <4>1. i \in produced..(produced + y - 1)
        <5>. HIDE DEF y
        <5>. QED BY <1>4, <1>8, <3>2
      <4>2. generated + (i - produced) = generated - produced + i
        BY <1>4, <1>5
      <4>. QED BY <1>12, <4>1, <4>2
    <3>. QED BY <3>1, <3>2
  <2>3. /\ produced' = produced + y /\ generated' = generated + y
        /\ generated' - produced' = generated - produced
    <3>1. produced' = produced + y /\ generated' = generated + y
      BY <1>2
    <3>. HIDE DEF y
    <3>. QED BY <1>4, <1>5, <1>8, <3>1
  <2>4. ASSUME NEW i \in 0..(produced' - 1)
        PROVE  out'[0 + i] = Expected(generated - produced + i)'
    <3>1. out'[i] = Frame(r, epoch, generated - produced + i) /\ 0 + i = i
      <4>1. i \in 0..(produced + y - 1) /\ 0 + i = i
        <5>. HIDE DEF y
        <5>. QED BY <1>4, <1>8, <2>3
      <4>. HIDE DEF y, r
      <4>. QED BY <2>2, <4>1
    <3>2. generated' - produced' = generated - produced
      BY <2>3
    <3>3. Expected(generated - produced + i)' = Frame(resampler', epoch, generated' - produced' + i)
      BY <1>3 DEF Expected, Frame
    <3>. QED BY <1>11, <3>1, <3>2, <3>3
  <2>. QED BY <2>4 DEF Waiting
<1>16. TypeOK'
  <2>1. resampler' \in [src_rate : Nat, dst_rate : Nat, position : Int,
                        prev_frame : Tag, has_prev : BOOLEAN]
    BY <1>10 DEF Resamplers
  <2>2. finished' \in BOOLEAN
    BY <1>2, Zenon
  <2>3. lock' \in Lockable
    BY <1>2, <1>6
  <2>4. produced' \in 0..R /\ generated' \in Nat /\ accepted' \in 0..SongFrames
    <3>1. produced' = produced + y /\ generated' = generated + y /\ accepted' = accepted + n
      BY <1>2
    <3>. HIDE DEF y, R, n
    <3>. QED BY <1>4, <1>5, <1>6, <1>8, <3>1
  <2>. HIDE DEF y, n, r
  <2>. QED BY <1>1, <1>3, <1>14, <2>1, <2>2, <2>3, <2>4 DEF TypeOK
<1>17. ResamplerInv'
  <2>1. lock' # NoLock
    BY <1>2, <1>6
  <2>2. CASE resampler' = NoResampler
    BY <1>10, <2>1, <2>2 DEF ResamplerInv
  <2>3. CASE resampler' # NoResampler
    <3>1. At(resampler, epoch, generated, accepted)' /\ Bounded(resampler)'
      BY <1>3, <1>10, <2>3 DEF At, Bounded
    <3>. QED BY <1>3, <1>10, <2>1, <2>3, <3>1 DEF ResamplerInv
  <2>. QED BY <2>2, <2>3
<1>18. IdleInv' /\ ReadInv' /\ PullInv'
  <2>1. expect' = generated' - produced'
    <3>1. produced' = produced + y /\ generated' = generated + y
      BY <1>2
    <3>. HIDE DEF y
    <3>. QED BY <1>1, <1>3, <1>4, <1>5, <1>8, <3>1
  <2>. QED BY <1>1, <1>3, <1>15, <2>1 DEF IdleInv, ReadInv, PullInv
<1>19. DeliveredInOrder' /\ FinishedDeliversAll'
  BY <1>1, <1>3, Silent
<1>. QED BY <1>16, <1>17, <1>18, <1>19 DEF Inv

LEMMA ReturnInv ==
  ASSUME Inv, Return
  PROVE  Inv'
<1>. DEFINE delivered == Min({produced, budget})
            left      == produced - delivered
            samples   == [i \in 0..(delivered - 1) |-> out[i]]
            R         == ReservedOutputFrames
<1>1. /\ TypeOK /\ ResamplerInv /\ pc \in {"loop", "return"} /\ carry = 0
      /\ expect = generated - produced /\ Waiting(0, produced)
  BY DEF Inv, Return, ReadInv
<1>2. /\ carry' = left /\ carry_at' = IF left > 0 THEN budget ELSE carry_at
      /\ chunk' = [status |-> "ok", samples |-> samples, finished |-> ChunkFinished(left)]
      /\ expect' = expect + delivered /\ pc' = "idle"
      /\ UNCHANGED <<target, lock, resampler, finished, out, budget, produced, request>>
      /\ UNCHANGED <<pulls, epoch, accepted, generated>>
      /\ R' = R
  BY DEF Return, running, ReservedOutputFrames
<1>3. /\ R \in Nat /\ produced \in Nat /\ produced <= R /\ budget \in 0..MaxFrames
      /\ MaxFrames \in Nat /\ MaxFrames <= R
      /\ carry_at \in 0..MaxFrames /\ expect \in Nat /\ generated \in Nat
      /\ finished \in BOOLEAN
  BY <1>1, Reserved DEF TypeOK
<1>. HIDE DEF R
<1>4. /\ delivered \in Nat /\ left \in Nat /\ delivered + left = produced
      /\ left > 0 => delivered = budget
  <2>1. budget \in Nat
    BY <1>3
  <2>2. delivered = IF produced <= budget THEN produced ELSE budget
    BY <1>3, <2>1, MinOfTwo
  <2>. HIDE DEF delivered
  <2>. QED BY <1>3, <2>1, <2>2
<1>. HIDE DEF delivered, left
<1>5. /\ chunk'.status = "ok" /\ chunk'.samples = samples
      /\ chunk'.finished = (finished /\ left = 0)
  BY <1>2 DEF ChunkFinished
<1>6. TypeOK'
  <2>1. chunk'.finished \in BOOLEAN
    BY <1>5, Zenon
  <2>2. /\ carry' \in 0..R /\ carry_at' \in 0..MaxFrames /\ carry' + carry_at' <= R
        /\ expect' \in Nat
    BY <1>2, <1>3, <1>4
  <2>3. pc' \in {"idle", "loop", "plugin", "return"} /\ chunk'.status \in {"none", "error", "ok"}
    BY <1>2, <1>5
  <2>. QED BY <1>1, <1>2, <2>1, <2>2, <2>3 DEF TypeOK, R
<1>7. ResamplerInv'
  BY <1>1, <1>2, ResamplerKept
<1>8. \A i \in 0..(produced - 1) : out[i] = Expected(generated - produced + i)
  <2>1. \A i \in 0..(produced - 1) : 0 + i = i
    OBVIOUS
  <2>. QED BY <1>1, <2>1 DEF Waiting
<1>9. \A k : Expected(k)' = Expected(k)
  BY <1>2 DEF Expected
<1>10. Waiting(carry_at, carry)'
  <2>1. ASSUME NEW i \in 0..(left - 1)
        PROVE  out[carry_at' + i] = Expected(generated - left + i)
    <3>1. left > 0 /\ delivered = budget
      BY <1>4
    <3>2. delivered + i \in 0..(produced - 1) /\ carry_at' = budget
      BY <1>2, <1>4, <3>1
    <3>3. generated - produced + (delivered + i) = generated - left + i
      BY <1>3, <1>4
    <3>. QED BY <1>8, <3>1, <3>2, <3>3
  <2>2. \A i \in 0..(carry' - 1) : out'[carry_at' + i] = Expected(generated' - carry' + i)
    BY <1>2, <2>1
  <2>3. \A i \in 0..(carry' - 1) :
          Expected(generated - carry + i)' = Expected(generated' - carry' + i)
    BY <1>2 DEF Expected
  <2>. QED BY <2>2, <2>3 DEF Waiting
<1>11. IdleInv' /\ ReadInv' /\ PullInv'
  <2>1. expect' = generated' - carry'
    BY <1>1, <1>2, <1>3, <1>4
  <2>. QED BY <1>2, <1>10, <2>1 DEF IdleInv, ReadInv, PullInv
<1>12. DeliveredInOrder'
  <2>1. DOMAIN chunk'.samples = 0..(delivered - 1)
    BY <1>5
  <2>2. Cardinality(0..(delivered - 1)) = delivered
    <3>1. Cardinality(0..(delivered - 1)) =
            IF 0 > delivered - 1 THEN 0 ELSE (delivered - 1) - 0 + 1
      BY <1>4, FS_Interval
    <3>. QED BY <1>4, <3>1
  <2>3. ASSUME NEW i \in 0..(delivered - 1)
        PROVE  chunk'.samples[i] = Expected(expect' - delivered + i)
    <3>1. chunk'.samples[i] = out[i]
      BY <1>5
    <3>2. i \in 0..(produced - 1) /\ expect' - delivered + i = generated - produced + i
      BY <1>1, <1>2, <1>3, <1>4
    <3>. QED BY <1>8, <3>1, <3>2
  <2>4. \A i \in DOMAIN chunk'.samples :
          chunk'.samples[i] = Expected(expect - Cardinality(DOMAIN chunk.samples) + i)'
    <3>1. \A i : Expected(expect - Cardinality(DOMAIN chunk.samples) + i)'
                   = Expected(expect' - delivered + i)
      BY <1>2, <2>1, <2>2 DEF Expected
    <3>. QED BY <2>1, <2>3, <3>1
  <2>. QED BY <2>4 DEF DeliveredInOrder
<1>13. FinishedDeliversAll'
  <2>1. left = 0 => expect' = generated'
    BY <1>1, <1>2, <1>3, <1>4
  <2>. QED BY <1>5, <2>1 DEF FinishedDeliversAll
<1>. QED BY <1>6, <1>7, <1>11, <1>12, <1>13 DEF Inv

LEMMA ResetIs ==
  ASSUME NEW r, r \in [src_rate : Nat, dst_rate : Nat, position : Int,
                       prev_frame : Tag, has_prev : BOOLEAN]
  PROVE  /\ Reset(r) \in Resamplers /\ Reset(r).position = 0
         /\ Reset(r).src_rate = r.src_rate /\ Reset(r).dst_rate = r.dst_rate
<1>. DEFINE t == Reset(r)
<1>1. NoFrame \in Tag
  BY DEF NoFrame, Tag
<1>2. t = [r EXCEPT !.position = 0, !.prev_frame = NoFrame, !.has_prev = FALSE]
  BY DEF Reset
<1>. HIDE DEF t
<1>3. /\ t.src_rate = r.src_rate /\ t.dst_rate = r.dst_rate /\ t.position = 0
  BY <1>2
<1>4. t \in [src_rate : Nat, dst_rate : Nat, position : Int,
            prev_frame : Tag, has_prev : BOOLEAN]
  <2>1. t = [src_rate |-> r.src_rate, dst_rate |-> r.dst_rate, position |-> 0,
             prev_frame |-> NoFrame, has_prev |-> FALSE]
    BY <1>2
  <2>. QED BY <1>1, <2>1
<1>. QED BY <1>3, <1>4 DEF Resamplers, t

LEMMA SeekInv ==
  ASSUME Inv, Seek
  PROVE  Inv'
<1>1. TypeOK /\ ResamplerInv /\ pc = "idle"
  BY DEF Inv, Seek
<1>2. /\ carry' = 0 /\ carry_at' = 0 /\ finished' = FALSE /\ chunk' = NoChunk
      /\ epoch < MaxSeeks /\ epoch' = epoch + 1
      /\ accepted' = 0 /\ generated' = 0 /\ expect' = 0
      /\ resampler' = IF resampler = NoResampler THEN resampler ELSE Reset(resampler)
      /\ UNCHANGED <<target, lock, out, budget, produced, request, pulls, pc>>
      /\ ReservedOutputFrames' = ReservedOutputFrames
  BY DEF Seek, running, ReservedOutputFrames
<1>3. ReservedOutputFrames \in Nat /\ SongFrames \in Nat /\ MaxSeeks \in Nat /\ MaxFrames \in Nat
  BY <1>1, Reserved, BoundsAssumption
<1>. HIDE DEF ReservedOutputFrames
<1>4. /\ resampler' \in Resamplers
      /\ resampler' = NoResampler <=> resampler = NoResampler
      /\ resampler # NoResampler =>
           Bounded(resampler') /\ resampler'.position = 0
  <2>1. CASE resampler = NoResampler
    BY <1>1, <1>2, <2>1 DEF TypeOK, Resamplers
  <2>2. CASE resampler # NoResampler
    <3>1. Bounded(resampler)
      BY <1>1, <2>2 DEF ResamplerInv
    <3>2. /\ resampler' \in Resamplers /\ resampler'.position = 0
          /\ resampler'.src_rate = resampler.src_rate
          /\ resampler'.dst_rate = resampler.dst_rate
      <4>1. resampler' = Reset(resampler)
        BY <1>2, <2>2
      <4>. QED BY <1>1, <4>1, ResetIs DEF TypeOK
    <3>3. resampler'.src_rate # 0 /\ Bounded(resampler')
      BY <3>1, <3>2 DEF Bounded
    <3>4. resampler' # NoResampler
      BY <3>3 DEF NoResampler, NewResampler
    <3>. QED BY <2>2, <3>2, <3>3, <3>4
  <2>. QED BY <2>1, <2>2
<1>5. /\ DeliveredInOrder' /\ FinishedDeliversAll'
      /\ chunk'.status \in {"none", "error", "ok"} /\ chunk'.finished \in BOOLEAN
  BY <1>2, Silent
<1>6. TypeOK'
  <2>1. resampler' \in [src_rate : Nat, dst_rate : Nat, position : Int,
                        prev_frame : Tag, has_prev : BOOLEAN]
    BY <1>4 DEF Resamplers
  <2>2. /\ carry' \in 0..ReservedOutputFrames /\ carry_at' \in 0..MaxFrames
        /\ carry' + carry_at' <= ReservedOutputFrames
        /\ epoch' \in 0..MaxSeeks /\ accepted' \in 0..SongFrames
    BY <1>1, <1>2, <1>3 DEF TypeOK
  <2>. QED BY <1>1, <1>2, <1>5, <2>1, <2>2 DEF TypeOK
<1>7. ResamplerInv'
  <2>1. lock' = NoLock => resampler' = NoResampler /\ generated' = 0
    BY <1>1, <1>2, <1>4 DEF ResamplerInv
  <2>2. resampler' = NoResampler => accepted' = generated'
    BY <1>2
  <2>3. ASSUME resampler' # NoResampler
        PROVE  target' # NoTarget /\ Bounded(resampler)' /\ At(resampler, epoch, generated, accepted)'
    <3>1. target' # NoTarget
      BY <1>1, <1>2, <1>4, <2>3 DEF ResamplerInv
    <3>2. Bounded(resampler)'
      BY <1>4, <2>3 DEF Bounded
    <3>3. /\ resampler'.position = 0 /\ resampler'.src_rate \in Nat \ {0}
          /\ resampler'.dst_rate \in Nat \ {0}
      BY <1>4, <2>3 DEF Bounded
    <3>4. At(resampler, epoch, generated, accepted)'
      BY <1>2, <3>3 DEF At
    <3>. QED BY <3>1, <3>2, <3>4
  <2>. QED BY <2>1, <2>2, <2>3 DEF ResamplerInv
<1>8. IdleInv' /\ ReadInv' /\ PullInv'
  <2>1. Waiting(carry_at, carry)'
    BY <1>2 DEF Waiting
  <2>. QED BY <1>1, <1>2, <2>1 DEF IdleInv, ReadInv, PullInv
<1>. QED BY <1>5, <1>6, <1>7, <1>8 DEF Inv

LEMMA StutterInv ==
  ASSUME Inv, UNCHANGED vars
  PROVE  Inv'
<1>1. /\ UNCHANGED <<target, lock, resampler, finished, carry, carry_at, out>>
      /\ UNCHANGED <<budget, produced, request, pulls, pc, chunk>>
      /\ UNCHANGED <<epoch, accepted, generated, expect>>
  BY DEF vars, player, running, history
<1>2. TypeOK'
  BY <1>1 DEF Inv, TypeOK, ReservedOutputFrames
<1>3. ResamplerInv'
  BY <1>1, ResamplerKept DEF Inv
<1>4. IdleInv' /\ ReadInv'
  BY <1>1 DEF Inv, IdleInv, ReadInv, Waiting, Expected
<1>5. PullInv'
  BY <1>1 DEF Inv, PullInv, source_frames
<1>6. DeliveredInOrder' /\ FinishedDeliversAll'
  BY <1>1 DEF Inv, DeliveredInOrder, FinishedDeliversAll, Expected
<1>. QED BY <1>2, <1>3, <1>4, <1>5, <1>6 DEF Inv

LEMMA StepInv == Inv /\ [Next]_vars => Inv'
<1>. SUFFICES ASSUME Inv, [Next]_vars PROVE Inv'
  OBVIOUS
<1>1. CASE BeginRead
  BY <1>1, BeginReadInv
<1>2. CASE Pull
  BY <1>2, PullIsInv
<1>3. CASE AnswerFails
  BY <1>3, AnswerFailsInv
<1>4. CASE AnswerEmpty
  BY <1>4, AnswerEmptyInv
<1>5. CASE AnswerFrames
  BY <1>5, AnswerFramesInv
<1>6. CASE Return
  BY <1>6, ReturnInv
<1>7. CASE Seek
  BY <1>7, SeekInv
<1>8. CASE UNCHANGED vars
  BY <1>8, StutterInv
<1>. QED BY <1>1, <1>2, <1>3, <1>4, <1>5, <1>6, <1>7, <1>8 DEF Next, Answer

-----------------------------------------------------------------------------
(* The invariant and what it entails. *)

(* Whatever the plugin answers and whatever is read or sought, every state of
   the read path satisfies the invariant. *)
THEOREM Invariance == Spec => []Inv
<1>1. Init => Inv
  BY InitInv
<1>2. Inv /\ [Next]_vars => Inv'
  BY StepInv
<1>. QED BY <1>1, <1>2, PTL DEF Spec

(* Every variable stays in its type: the carry and the frames produced within
   the storage that prepare reserved. *)
THEOREM TypeCorrect == Spec => []TypeOK
<1>1. Inv => TypeOK
  BY DEF Inv
<1>. QED BY <1>1, Invariance, PTL

(* However the song is cut into chunks and read, a chunk holds its next
   frames: take_carry, consume, process and seek lose and repeat none. *)
THEOREM DeliveredFramesInOrder == Spec => []DeliveredInOrder
<1>1. Inv => DeliveredInOrder
  BY DEF Inv
<1>. QED BY <1>1, Invariance, PTL

(* A chunk that reports the song finished leaves no frame of it behind. *)
THEOREM FinishedMeansDelivered == Spec => []FinishedDeliversAll
<1>1. Inv => FinishedDeliversAll
  BY DEF Inv
<1>. QED BY <1>1, Invariance, PTL

(* The resampler's position is exact across any split into blocks, and at most
   one frame before the next. *)
THEOREM PositionExact == Spec => []PositionTracks
<1>1. Inv => PositionTracks
  BY DEF Inv, ResamplerInv, At, PositionTracks
<1>. QED BY <1>1, Invariance, PTL

(* No accepted answer fills `out`: process stops where its source ends. *)
THEOREM DestinationNeverFull == Spec => []DestinationHolds
<1>1. ASSUME Inv
      PROVE  DestinationHolds
  <2>. SUFFICES ASSUME pc = "plugin", NEW a \in Answers, Accepted(a), a.frame_count > 0
                PROVE  LET r == ResamplerFor(a.format)
                       IN  IF r = NoResampler THEN a.frame_count <= Capacity
                           ELSE Exhausted(r, PositionAt(r, Yield(r, a.frame_count)),
                                          a.frame_count)
    BY DEF DestinationHolds
  <2>. DEFINE r == ResamplerFor(a.format)
  <2>1. /\ r = NoResampler => a.frame_count <= Capacity
        /\ r # NoResampler =>
             Exhausted(r, PositionAt(r, Written(r, a.frame_count, Capacity)), a.frame_count)
    BY <1>1, AnswerFits
  <2>. QED BY <2>1 DEF Yield
<1>. QED BY <1>1, Invariance, PTL

(* What a pull asks for fits the source storage, whatever the rates. *)
THEOREM RequestFits == Spec => []RequestFitsReserve
<1>1. ASSUME Inv, pc = "plugin"
      PROVE  request <= ReservedSourceFrames
  <2>. DEFINE w == budget - produced
  <2>1. /\ TypeOK /\ ResamplerInv /\ produced < budget /\ request = source_frames(w)
        /\ budget \in Nat /\ budget <= MaxFrames /\ produced \in Nat
        /\ MaxFrames \in Nat \ {0} /\ MaxRatio \in Nat \ {0}
    BY <1>1, Reserved DEF Inv, PullInv, TypeOK
  <2>2. w \in Nat \ {0} /\ w <= MaxFrames
    BY <2>1
  <2>. HIDE DEF w
  <2>3. MaxRequestFrames \in Nat \ {0} /\ MaxFrames <= MaxRequestFrames
    BY BoundsAssumption
  <2>. DEFINE reserve == MaxFrames * MaxRatio + 2
  <2>4. reserve \in Nat /\ w * MaxRatio + 2 <= reserve /\ MaxFrames <= reserve
    BY <2>1, <2>2
  <2>5. request \in Nat
    BY <2>1, <2>2, RequestIs
  <2>6. request <= MaxRequestFrames /\ (target # NoTarget => request <= reserve)
    <3>1. CASE resampler = NoResampler
      <4>1. request <= MaxFrames
        BY <2>1, <2>2, <3>1, RequestIs
      <4>. HIDE DEF reserve
      <4>. QED BY <2>1, <2>3, <2>4, <2>5, <4>1
    <3>2. CASE resampler # NoResampler
      <4>1. /\ request <= SourceFramesFor(resampler, w) /\ request <= MaxRequestFrames
        BY <2>1, <2>2, <3>2, RequestIs
      <4>2. /\ SourceFramesFor(resampler, w) \in Nat
            /\ SourceFramesFor(resampler, w) <= w * MaxRatio + 2
        BY <2>1, <2>2, <3>2, SourceFramesForIs DEF ResamplerInv
      <4>3. w * MaxRatio + 2 \in Nat
        BY <2>1, <2>2
      <4>. HIDE DEF reserve
      <4>. QED BY <2>4, <2>5, <4>1, <4>2, <4>3
    <3>. QED BY <3>1, <3>2
  <2>7. target = NoTarget => request <= MaxFrames
    <3>. HAVE target = NoTarget
    <3>1. resampler = NoResampler
      BY <2>1 DEF ResamplerInv
    <3>. QED BY <2>1, <2>2, <3>1, RequestIs
  <2>8. CASE target = NoTarget
    BY <2>7, <2>8 DEF ReservedSourceFrames
  <2>9. CASE target # NoTarget
    <3>1. ReservedSourceFrames = Min({reserve, MaxRequestFrames})
      BY <2>9 DEF ReservedSourceFrames
    <3>. HIDE DEF reserve
    <3>2. ReservedSourceFrames = reserve \/ ReservedSourceFrames = MaxRequestFrames
      BY <2>3, <2>4, <3>1, MinOfTwo
    <3>. QED BY <2>6, <2>9, <3>2
  <2>. QED BY <2>8, <2>9
<1>2. Inv => RequestFitsReserve
  BY <1>1 DEF RequestFitsReserve
<1>. QED BY <1>2, Invariance, PTL

(* A plugin that fills every advertised byte is not refused, and once its format
   is locked it is offered room for a frame. *)
THEOREM FillersFit == Spec => []CapacityFillersFit
<1>1. ASSUME Inv, pc = "plugin", NEW f \in Lockable, lock \in {NoLock, f}
      PROVE  LET frames == advertised_bytes(request) \div FrameBytes(f)
             IN  /\ frames <= request
                 /\ frames * FrameBytes(f) <= reserved_bytes(request)
                 /\ lock = f => frames > 0
  <2>. DEFINE b == FrameBytes(f)
              frames == advertised_bytes(request) \div b
  <2>1. request \in Nat \ {0} /\ reserved_bytes(request) = request * 8
    <3>1. request \in Nat \ {0}
      BY <1>1 DEF Inv, PullInv, TypeOK
    <3>2. reserved_bytes(request) = request * 8
      BY <3>1 DEF reserved_bytes, MaxNativeChannels, MaxSampleWidth
    <3>. QED BY <3>1, <3>2
  <2>2. b \in 1..8
    <3>1. f.channels \in 1..2
      BY DEF Lockable, MaxNativeChannels
    <3>2. sample_width(f.sample_format) \in 1..4
      BY DEF sample_width
    <3>3. f.channels = 1 \/ f.channels = 2
      BY <3>1
    <3>. QED BY <3>2, <3>3 DEF FrameBytes
  <2>. HIDE DEF b
  <2>3. CASE lock = NoLock
    <3>1. advertised_bytes(request) = request /\ lock # f
      <4>1. f.sample_format \in SampleFormats
        BY DEF Lockable
      <4>2. f # NoLock
        BY <4>1 DEF NoLock, SampleFormats
      <4>. QED BY <2>3, <4>2 DEF advertised_bytes
    <3>2. request \div b \in Int /\ request % b \in 0..(b - 1)
          /\ request = b * (request \div b) + (request % b)
      <4>1. request \in Int /\ b \in Nat \ {0}
        BY <2>1, <2>2
      <4>. QED BY <4>1, DivMod, Zenon
    <3>. DEFINE q == request \div b
    <3>3. q >= 0
      <4>1. q >= 0 <=> request >= 0 * b
        BY <2>1, <2>2, DivLess
      <4>. QED BY <2>1, <2>2, <4>1
    <3>4. frames = q
      BY <3>1
    <3>. HIDE DEF q, frames
    <3>5. b * q >= q /\ b * q = q * b /\ b * q \in Nat
      <4>1. q \in Nat
        BY <3>2, <3>3 DEF q
      <4>2. (b - 1) * q >= 0
        BY <2>2, <4>1
      <4>. QED BY <2>2, <4>1, <4>2
    <3>6. q <= request /\ q * b <= request
      BY <2>1, <2>2, <3>2, <3>5 DEF q
    <3>. QED BY <2>1, <3>1, <3>4, <3>5, <3>6 DEF frames, b
  <2>4. CASE lock # NoLock
    <3>1. lock = f
      BY <1>1, <2>4
    <3>2. advertised_bytes(request) = request * b
      BY <2>4, <3>1 DEF advertised_bytes, b
    <3>3. (request * b + 0) \div b = request
      BY <2>1, <2>2, DivUnique
    <3>4. request * b + 0 = request * b
      BY <2>1, <2>2
    <3>5. frames = request
      BY <3>2, <3>3, <3>4
    <3>. HIDE DEF frames
    <3>6. request * b <= request * 8
      <4>1. request * (8 - b) >= 0
        BY <2>1, <2>2
      <4>. QED BY <2>1, <2>2, <4>1
    <3>. QED BY <2>1, <3>5, <3>6 DEF frames, b
  <2>. QED BY <2>3, <2>4
<1>2. Inv => CapacityFillersFit
  BY <1>1 DEF CapacityFillersFit
<1>. QED BY <1>2, Invariance, PTL

(* Once the song is over and delivered, only a seek brings another frame or
   sends a pull. *)
THEOREM EndStays == Spec => EndIsFinal
<1>. DEFINE A == finished /\ expect = generated /\ epoch' = epoch
                   => finished' /\ generated' = generated /\ pc' # "plugin"
<1>1. ASSUME Inv, [Next]_vars
      PROVE  [A]_vars
  <2>. SUFFICES ASSUME Next, finished, expect = generated, epoch' = epoch
                PROVE  finished' /\ generated' = generated /\ pc' # "plugin"
    BY <1>1
  <2>1. pc # "plugin" /\ epoch \in Nat
    BY <1>1, BoundsAssumption DEF Inv, PullInv, TypeOK
  <2>2. CASE BeginRead
    BY <2>2 DEF BeginRead, history
  <2>3. CASE Return
    BY <2>3 DEF Return
  <2>4. ~Pull /\ ~Answer
    BY <2>1 DEF Pull, WantsMore, Answer, AnswerFails, AnswerEmpty, AnswerFrames
  <2>5. ~Seek
    BY <2>1 DEF Seek
  <2>. QED BY <2>2, <2>3, <2>4, <2>5 DEF Next
<1>. QED BY <1>1, Invariance, PTL DEF Spec, EndIsFinal
=============================================================================
