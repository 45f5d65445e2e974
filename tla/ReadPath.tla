------------------------------ MODULE ReadPath ------------------------------
(***************************************************************************)
(* The decode session's read path: PreparedPlayer::read and Player::seek   *)
(* of session/mod.rs, over one open song.                                  *)
(*                                                                         *)
(* A read runs on one thread but hands control to the plugin once per pull *)
(* and the plugin may answer anything, so a read is four kinds of step:    *)
(* BeginRead (take_carry), Pull (the request goes out), one of the Answer  *)
(* actions (validate, start, consume), and Return (what is past the budget *)
(* becomes the carry).  The locals of read_prepared are variables while a  *)
(* read is running.                                                        *)
(*                                                                         *)
(* The output buffer `out` holds frames, not samples: output frames of     *)
(* Resampler when rates differ, the source frame itself when they do not.  *)
(* Sample values, sample conversion and channel adaptation are abstracted; *)
(* they map one frame to one frame.  Stale frames past `produced` stay in  *)
(* `out`, as they do in the code.                                          *)
(***************************************************************************)
EXTENDS Resampler

CONSTANTS
  Targets,           \* delivery formats a song may be opened with
  Formats,           \* native formats an answer may carry, malformed ones too
  MaxFrames,         \* PreparedPlayer.max_frames
  MaxRatio,          \* MAX_SAMPLE_RATE_RATIO
  MaxRequestFrames,  \* MAX_REQUEST_FRAMES
  SongFrames,        \* bound: source frames the song has after each seek
  MaxSeeks,          \* bound: seeks in one behaviour
  MaxPulls           \* bound: pulls of one read counted one by one

NoTarget    == [sample_rate |-> 0, channels |-> 0]   \* Player.target = None
NoLock      == [sample_format |-> "none", sample_rate |-> 0, channels |-> 0]
NoResampler == NewResampler(0, 0)                    \* Player.resampler = None
Silence     == [first |-> NoFrame, second |-> NoFrame, fraction |-> 0]

(* What a read left its caller: nothing (the chunk's borrow has ended), an
   error, or the delivered frames. *)
NoChunk     == [status |-> "none", samples |-> <<>>, finished |-> FALSE]
FailedChunk == [status |-> "error", samples |-> <<>>, finished |-> FALSE]

SampleFormats     == {"U8", "S16", "S24", "S32", "F32"}
MaxNativeChannels == 2
MaxSampleWidth    == 4

(* convert::sample_width *)
sample_width(f) ==
  CASE f = "U8" -> 1 [] f = "S16" -> 2 [] f = "S24" -> 3 [] OTHER -> 4

FrameBytes(f) == f.channels * sample_width(f.sample_format)

ASSUME BoundsAssumption ==
  /\ MaxFrames \in Nat \ {0}
  /\ MaxRatio \in Nat \ {0}
  /\ MaxRequestFrames \in Nat \ {0}
  /\ MaxFrames <= MaxRequestFrames
  /\ SongFrames \in Nat
  /\ MaxSeeks \in Nat
  /\ MaxPulls \in Nat

ASSUME FormatAssumption ==
  /\ Formats \subseteq [sample_format : STRING, sample_rate : Nat, channels : Nat]
  /\ \A t \in Targets : \/ t = NoTarget
                        \/ t \in [sample_rate : Nat \ {0}, channels : Nat \ {0}]

VARIABLES
  target,     \* Player.target, fixed at open
  lock,       \* Player.lock: the format of the first chunk
  resampler,  \* Player.resampler
  finished,   \* Player.finished
  carry,      \* frames the last read produced past its budget
  carry_at,   \* ... and where in `out` they wait
  out,        \* buffers.out, by frame
  pc,         \* "idle", or where the running read is
  budget,     \* read_prepared: frames asked for
  produced,   \* read_prepared: frames in `out` so far
  request,    \* read_prepared: source frames of the pull in flight
  pulls,      \* pulls of the running read (history)
  chunk,      \* what the last read returned
  epoch,      \* seeks so far (history)
  accepted,   \* source frames consumed in this epoch (history)
  generated,  \* output frames appended to `out` in this epoch (history)
  expect      \* index of the first output frame not yet delivered (history)

player  == <<lock, resampler, finished, carry, carry_at, out>>
running == <<budget, produced, request, pulls>>
history == <<epoch, accepted, generated, expect>>
vars    == <<target, player, running, pc, chunk, history>>

-----------------------------------------------------------------------------
(* The storage Buffers::prepare reserves before the first read. *)

(* Source frames `raw` and both halves of `scratch` have room for. *)
ReservedSourceFrames ==
  IF target = NoTarget THEN MaxFrames
  ELSE Min({MaxFrames * MaxRatio + 2, MaxRequestFrames})

(* Fault: the slack that later pulls request is forgotten. *)
OutputFramesWithoutSlack ==
  IF target = NoTarget THEN MaxFrames ELSE MaxFrames * MaxRatio

(* Output frames `out` has room for. *)
ReservedOutputFrames ==
  IF target = NoTarget THEN MaxFrames
  ELSE MaxFrames * (MaxRatio + 1) + MaxRatio * 2 + 1

reserved_bytes(frames) == frames * MaxNativeChannels * MaxSampleWidth

-----------------------------------------------------------------------------
(* Asking the plugin. *)

(* Fault: the request is not capped at what the ABI's capacity field holds. *)
UncappedSourceFrames(wanted) ==
  IF resampler = NoResampler THEN wanted ELSE SourceFramesFor(resampler, wanted)

(* Source frames to ask for to fill `wanted` output frames. *)
source_frames(wanted) ==
  IF resampler = NoResampler THEN wanted
  ELSE Min({SourceFramesFor(resampler, wanted), MaxRequestFrames})

(* Fault: before the lock, advertise everything that is reserved. *)
AdvertiseReserved(frames) ==
  IF lock # NoLock THEN frames * FrameBytes(lock) ELSE reserved_bytes(frames)

(* Bytes advertised for a pull: what the locked format occupies, or one byte
   per frame before there is one. *)
advertised_bytes(frames) ==
  IF lock # NoLock THEN frames * FrameBytes(lock) ELSE frames

-----------------------------------------------------------------------------
(* Judging the answer. *)

(* What read_data may hand back: any status, any format, and any count up to
   one frame too many.  SongFrames bounds the frames of one epoch. *)
Answers ==
  {a \in [status : {"Ok", "Finished", "Error", "DecodingRequest", "unknown"},
          format : Formats, frame_count : 0..(request + 1)] :
     accepted + a.frame_count <= SongFrames}

(* Fault: the returned count is only judged in bytes. *)
ValidatedByBytes(a) ==
  /\ a.status \in {"Ok", "Finished"}
  /\ a.format.sample_format \in SampleFormats
  /\ a.frame_count * FrameBytes(a.format) <= reserved_bytes(request)
  /\ a.format.channels \in 1..MaxNativeChannels
  /\ a.format.sample_rate # 0
  /\ lock # NoLock => a.format = lock

(* Player::validate: every condition under which an answer is accepted. *)
Validated(a) ==
  /\ a.status \in {"Ok", "Finished"}
  /\ a.format.sample_format \in SampleFormats
  /\ a.frame_count * FrameBytes(a.format) <= reserved_bytes(request)
  /\ a.frame_count <= request
  /\ a.format.channels \in 1..MaxNativeChannels
  /\ a.format.sample_rate # 0
  /\ lock # NoLock => a.format = lock

(* convert::adaptation_supported *)
AdaptationSupported(from, to) == from = to \/ from = 1 \/ (from = 2 /\ to = 1)

(* Player::start: the conditions under which a first chunk's format locks. *)
Startable(f) ==
  target # NoTarget =>
    /\ f.sample_rate <= target.sample_rate * MaxRatio
    /\ target.sample_rate <= f.sample_rate * MaxRatio
    /\ AdaptationSupported(f.channels, target.channels)

(* The resampler consume works with: the one at hand, or the one start creates
   for a first chunk at another rate than the target's. *)
ResamplerFor(f) ==
  IF lock = NoLock /\ target # NoTarget /\ f.sample_rate # target.sample_rate
  THEN NewResampler(f.sample_rate, target.sample_rate)
  ELSE resampler

(* An answer read_prepared goes on with, rather than return an error. *)
Accepted(a) == Validated(a) /\ (lock = NoLock => Startable(a.format))

-----------------------------------------------------------------------------
(* Turning one accepted chunk into output frames. *)

(* Room behind the frames already produced: the destination slice. *)
Capacity == ReservedOutputFrames - produced

(* Player::consume: how many output frames n source frames yield. *)
Yield(r, n) == IF r = NoResampler THEN n ELSE Written(r, n, Capacity)

NextSource == [epoch |-> epoch, index |-> accepted]   \* tag of the next source frame

(* Player::consume: the k-th output frame of a chunk. *)
Consumed(r, k) ==
  IF r = NoResampler
  THEN LET f == FrameOf(NextSource, k) IN [first |-> f, second |-> f, fraction |-> 0]
  ELSE Interpolated(r, NextSource, k)

-----------------------------------------------------------------------------
(* Fault: the surplus is found at the front of the buffer. *)
CarryFromFront(i) == out[i]

(* take_carry: the i-th frame of the last read's surplus. *)
CarriedFrame(i) == out[carry_at + i]

(* PreparedPlayer::read: take_carry moves the surplus to the front. A budget
   above max_frames is refused before this and changes nothing. *)
BeginRead ==
  /\ pc = "idle"
  /\ budget' \in 0..MaxFrames
  /\ produced' = carry
  /\ carry' = 0
  /\ out' = [i \in DOMAIN out |-> IF i < carry THEN CarriedFrame(i) ELSE out[i]]
  /\ pc' = "loop"
  /\ pulls' = 0
  /\ chunk' = NoChunk
  /\ UNCHANGED <<target, lock, resampler, finished, carry_at, request, history>>

(* Fault: the loop forgets that the plugin said it is done. *)
WantsMoreEvenFinished == produced < budget

WantsMore == produced < budget /\ ~finished

(* Player::pull: the request goes out to read_data. *)
Pull ==
  /\ pc = "loop"
  /\ WantsMore
  /\ request' = source_frames(budget - produced)
  /\ pulls' = Min({pulls + 1, MaxPulls})
  /\ pc' = "plugin"
  /\ UNCHANGED <<target, player, budget, produced, chunk, history>>

(* The answer is refused, or the first chunk's format cannot be delivered: the
   read returns Err, and what it had gathered is out of reach. *)
AnswerFails ==
  /\ pc = "plugin"
  /\ \E a \in Answers : ~Accepted(a)
  /\ pc' = "idle"
  /\ chunk' = FailedChunk
  /\ expect' = generated - carry
  /\ UNCHANGED <<target, player, running, epoch, accepted, generated>>

(* Fault: every empty answer to a small request is worth another pull. *)
RetryAlways(a) == ~(a.status = "Finished") /\ request < FrameBytes(a.format)

(* An empty first answer is retried when what was advertised could not hold
   one frame of the format it locked. *)
Retry(a) ==
  /\ lock = NoLock
  /\ ~(a.status = "Finished")
  /\ request < FrameBytes(a.format)

(* An accepted answer without frames: the loop breaks, or tries once more. *)
AnswerEmpty ==
  /\ pc = "plugin"
  /\ \E a \in Answers :
       /\ Accepted(a)
       /\ a.frame_count = 0
       /\ lock' = a.format
       /\ resampler' = ResamplerFor(a.format)
       /\ finished' = (finished \/ a.status = "Finished")
       /\ pc' = IF Retry(a) THEN "loop" ELSE "return"
  /\ UNCHANGED <<target, carry, carry_at, out, running, chunk, history>>

(* An accepted answer with frames: they are appended to what was produced. *)
AnswerFrames ==
  /\ pc = "plugin"
  /\ \E a \in Answers :
       LET n == a.frame_count
           r == ResamplerFor(a.format)
           y == Yield(r, n)
       IN  /\ Accepted(a)
           /\ n > 0
           /\ lock' = a.format
           /\ resampler' = IF r = NoResampler THEN r
                           ELSE AfterBlock(r, NextSource, n, Capacity)
           /\ finished' = (finished \/ a.status = "Finished")
           /\ out' = [i \in DOMAIN out |->
                        IF i \in produced..(produced + y - 1)
                        THEN Consumed(r, i - produced) ELSE out[i]]
           /\ produced' = produced + y
           /\ generated' = generated + y
           /\ accepted' = accepted + n
  /\ pc' = "loop"
  /\ UNCHANGED <<target, carry, carry_at, budget, request, pulls, chunk,
                 epoch, expect>>

(* Fault: a finished song is reported while a surplus is still waiting. *)
FinishedAtOnce(left) == finished

(* Chunk.finished: the song is over and nothing is left over. *)
ChunkFinished(left) == finished /\ left = 0

(* The loop is over: what is past the budget is carried, the rest delivered. *)
Return ==
  /\ \/ pc = "return"
     \/ pc = "loop" /\ ~WantsMore
  /\ LET delivered == Min({produced, budget})
         left      == produced - delivered
     IN  /\ carry' = left
         /\ carry_at' = IF left > 0 THEN budget ELSE carry_at
         /\ chunk' = [status   |-> "ok",
                      samples  |-> [i \in 0..(delivered - 1) |-> out[i]],
                      finished |-> ChunkFinished(left)]
         /\ expect' = expect + delivered
  /\ pc' = "idle"
  /\ UNCHANGED <<target, lock, resampler, finished, out, running,
                 epoch, accepted, generated>>

(* Player::seek, reached: the surplus and the resampler's cross-block state go,
   the song has somewhere to go again.  A refused seek returns before any
   assignment, so it is no step here. *)
Seek ==
  /\ pc = "idle"
  /\ epoch < MaxSeeks
  /\ carry' = 0
  /\ carry_at' = 0
  /\ finished' = FALSE
  /\ resampler' = IF resampler = NoResampler THEN resampler ELSE Reset(resampler)
  /\ chunk' = NoChunk
  /\ epoch' = epoch + 1
  /\ accepted' = 0
  /\ generated' = 0
  /\ expect' = 0
  /\ UNCHANGED <<target, lock, out, running, pc>>

-----------------------------------------------------------------------------
(* A song opened and prepared: Player as open_player builds it. *)
Init ==
  /\ target \in Targets
  /\ lock = NoLock
  /\ resampler = NoResampler
  /\ finished = FALSE
  /\ carry = 0
  /\ carry_at = 0
  /\ out = [i \in 0..(ReservedOutputFrames - 1) |-> Silence]
  /\ pc = "idle"
  /\ budget = 0 /\ produced = 0 /\ request = 0 /\ pulls = 0
  /\ chunk = NoChunk
  /\ epoch = 0 /\ accepted = 0 /\ generated = 0 /\ expect = 0

Answer == AnswerFails \/ AnswerEmpty \/ AnswerFrames

Next == BeginRead \/ Pull \/ Answer \/ Return \/ Seek

Spec == Init /\ [][Next]_vars

(* A read that has begun goes on; read_data returns whenever it is called. *)
Fairness == WF_vars(Pull) /\ WF_vars(Answer) /\ WF_vars(Return)

FairSpec == Spec /\ Fairness

-----------------------------------------------------------------------------
Tag == [epoch : Nat \cup {-1}, index : Nat \cup {-1}]
OutputFrame == [first : Tag, second : Tag, fraction : Nat]
Lockable == {f \in Formats : f.sample_format \in SampleFormats
                             /\ f.channels \in 1..MaxNativeChannels
                             /\ f.sample_rate # 0}

(* Every variable stays in its type, the read's counters within the storage
   that prepare reserved. *)
TypeOK ==
  /\ target \in Targets
  /\ lock \in Lockable \cup {NoLock}
  /\ resampler \in [src_rate : Nat, dst_rate : Nat, position : Int,
                    prev_frame : Tag, has_prev : BOOLEAN]
  /\ finished \in BOOLEAN
  /\ carry \in 0..ReservedOutputFrames
  /\ carry_at \in 0..MaxFrames
  /\ carry + carry_at <= ReservedOutputFrames
  /\ out \in [0..(ReservedOutputFrames - 1) -> OutputFrame]
  /\ pc \in {"idle", "loop", "plugin", "return"}
  /\ budget \in 0..MaxFrames
  /\ produced \in 0..ReservedOutputFrames
  /\ request \in Nat
  /\ pulls \in 0..MaxPulls
  /\ chunk.status \in {"none", "error", "ok"}
  /\ chunk.finished \in BOOLEAN
  /\ epoch \in 0..MaxSeeks
  /\ accepted \in 0..SongFrames
  /\ generated \in Nat
  /\ expect \in Nat

(* What the k-th frame of this epoch has to be. *)
Expected(k) ==
  IF resampler = NoResampler
  THEN LET tag == [epoch |-> epoch, index |-> k]
       IN  [first |-> tag, second |-> tag, fraction |-> 0]
  ELSE ReferenceFrame(resampler, epoch, k)

(* However the plugin cuts the song into chunks and whatever budgets are read,
   a chunk holds the next frames of the song, each interpolated from the right
   source frames of the current seek epoch: nothing is repeated, skipped,
   stale, or taken from before a seek (take_carry, consume, process, seek). *)
DeliveredInOrder ==
  chunk.status = "ok" =>
    LET n == Cardinality(DOMAIN chunk.samples)
    IN  \A i \in DOMAIN chunk.samples :
          chunk.samples[i] = Expected(expect - n + i)

(* A chunk that says the song is finished leaves no frame of it behind: every
   frame generated since the seek has been delivered or failed with a read. *)
FinishedDeliversAll == chunk.finished => expect = generated

(* Once the song is finished and all of it delivered, no read brings another
   frame or asks the plugin again until a seek is reached. *)
EndIsFinal ==
  [][finished /\ expect = generated /\ epoch' = epoch
       => finished' /\ generated' = generated /\ pc' # "plugin"]_vars

(* The running position is exact across any split into blocks: generated
   frames in source time less the source consumed, and never more than one
   frame before the block about to be read. *)
PositionTracks ==
  resampler # NoResampler =>
    /\ resampler.position = generated * resampler.src_rate
                              - accepted * resampler.dst_rate
    /\ resampler.position >= -resampler.dst_rate
    /\ resampler.position < 0 =>
         /\ resampler.has_prev
         /\ resampler.prev_frame = [epoch |-> epoch, index |-> accepted - 1]

(* No answer the host accepts can fill `out`: the resampler stops because the
   source is exhausted, never on a full destination, where it would rebase
   past frames it never read, and no slice of `out` is out of range. *)
DestinationHolds ==
  pc = "plugin" =>
    \A a \in Answers :
      Accepted(a) /\ a.frame_count > 0 =>
        LET r == ResamplerFor(a.format)
        IN  IF r = NoResampler THEN a.frame_count <= Capacity
            ELSE Exhausted(r, PositionAt(r, Yield(r, a.frame_count)), a.frame_count)

(* What a pull asks for fits the storage reserved for it, at every rate. *)
RequestFitsReserve == pc = "plugin" => request <= ReservedSourceFrames

(* A plugin that turns every advertised byte into frames of its format is not
   refused for it, and once locked it is offered room for at least one. *)
CapacityFillersFit ==
  pc = "plugin" =>
    \A f \in Lockable :
      lock \in {NoLock, f} =>
        LET frames == advertised_bytes(request) \div FrameBytes(f)
        IN  /\ frames <= request
            /\ frames * FrameBytes(f) <= reserved_bytes(request)
            /\ lock = f => frames > 0

(* Every read returns, as long as the plugin's callbacks do. *)
ReadReturns == pc # "idle" ~> pc = "idle"

(* The comment above the carry: frames past the budget "ride to the next read
   rather than being dropped".  So a read whose first pull fails leaves the
   frames it took over from the last one deliverable. *)
LeftoversRideToNextRead ==
  [][pc = "plugin" /\ pulls = 1 /\ produced > 0 /\ pc' = "idle"
       => expect' = expect]_vars
=============================================================================
