----------------------------- MODULE Resampler -----------------------------
(***************************************************************************)
(* The linear-interpolation resampler of session/resample.rs, as pure      *)
(* operators on its state.                                                 *)
(*                                                                         *)
(* A sample value is never computed.  A source frame is its tag: the seek  *)
(* epoch it was decoded in and its index in that epoch.  An output frame   *)
(* names the two source frames it interpolates and the fraction between    *)
(* them, so a frame read from the wrong place of a block, or from a block  *)
(* the song has left, is a different value.                                *)
(*                                                                         *)
(* The code keeps its position as an f64 in source frames and adds         *)
(* src_rate / dst_rate per output frame.  Here the position is exact: an   *)
(* integer number of 1/dst_rate source frames, advanced by src_rate.       *)
(* Rounding of the f64 is not modelled.                                    *)
(***************************************************************************)
EXTENDS Integers, FiniteSetsExt

NoFrame == [epoch |-> -1, index |-> -1]     \* the zeroed prev_frame

(* A resampler for one pair of rates, nothing read yet. *)
NewResampler(src, dst) ==
  [src_rate |-> src, dst_rate |-> dst,
   position |-> 0, prev_frame |-> NoFrame, has_prev |-> FALSE]

(* Drops the cross-block state: the next block starts a new signal. *)
Reset(r) ==
  [r EXCEPT !.position = 0, !.prev_frame = NoFrame, !.has_prev = FALSE]

(* Source frames to ask for to produce `wanted` output frames. *)
SourceFramesFor(r, wanted) == (wanted * r.src_rate) \div r.dst_rate + 2

(* The two break conditions of the loop at position p of an n-frame block. *)
Exhausted(r, p, n) ==
  LET index == p \div r.dst_rate
  IN  \/ index + 1 >= n /\ index >= 0
      \/ index >= n

(* The position of the k-th output frame of a block. *)
PositionAt(r, k) == r.position + k * r.src_rate

(* Output frames one block of n source frames yields: the loop runs until the
   source is exhausted or the destination's cap frames are full. *)
Written(r, n, cap) ==
  Min({k \in 0..cap : k = cap \/ Exhausted(r, PositionAt(r, k), n)})

(* The tag of frame `index` of a block whose first frame is `first`. *)
FrameOf(first, index) == [first EXCEPT !.index = @ + index]

(* The k-th output frame of a block: before the block starts, the first of the
   two frames is the last one of the previous block. *)
Interpolated(r, first, k) ==
  LET p     == PositionAt(r, k)
      index == p \div r.dst_rate
  IN  [first    |-> IF index >= 0 THEN FrameOf(first, index)
                    ELSE IF r.has_prev THEN r.prev_frame ELSE first,
       second   |-> IF index >= 0 THEN FrameOf(first, index + 1) ELSE first,
       fraction |-> p % r.dst_rate]

(* Fault: the position is not rebased onto the next block's start. *)
RebasedByOutput(r, first, n, cap) ==
  [r EXCEPT !.position   = PositionAt(r, Written(r, n, cap)) - (n - 1) * r.dst_rate,
            !.prev_frame = FrameOf(first, n - 1),
            !.has_prev   = TRUE]

(* The state one block leaves: the position rebased by the whole block, and
   its last frame kept to interpolate from. An empty block, or no room, is an
   early return that touches nothing. *)
AfterBlock(r, first, n, cap) ==
  IF n = 0 \/ cap = 0 THEN r ELSE
  [r EXCEPT !.position   = PositionAt(r, Written(r, n, cap)) - n * r.dst_rate,
            !.prev_frame = FrameOf(first, n - 1),
            !.has_prev   = TRUE]

(* What the k-th output frame of a whole signal is, whatever blocks it came
   in: the source at time k * src_rate / dst_rate. *)
ReferenceFrame(r, epoch, k) ==
  LET index == (k * r.src_rate) \div r.dst_rate
  IN  [first    |-> [epoch |-> epoch, index |-> index],
       second   |-> [epoch |-> epoch, index |-> index + 1],
       fraction |-> (k * r.src_rate) % r.dst_rate]
=============================================================================
