------------------------ MODULE VisualizationProofs ------------------------
(***************************************************************************)
(* Proofs about Visualization, for any players, surfaces, limits, windows  *)
(* and bounds.                                                             *)
(*                                                                         *)
(* A snapshot outlives what was known when it was allocated, so everything *)
(* rests on one relation between a snapshot and the layout it was made     *)
(* for: its buffers are as large as that layout says, and what it shows of *)
(* them is of the output frame it is stamped with (Fits).  The layout of a *)
(* capture is the snapshot's because a player has one layout for as long   *)
(* as it is open (LayoutInv) and a capture compares the two.               *)
(***************************************************************************)
EXTENDS Visualization, SequenceTheorems, TLAPS

-----------------------------------------------------------------------------
(* The inductive invariant. *)

LayoutType == [player : Players, info : Infos, config : Configs, cell_capacity : Nat]

(* Snapshots of one of n layouts that hold frames up to the given one. *)
Places(frames)  == [lo : Nat, hi : Nat, frame : 1..frames] \cup {None}
Buffers(frames) == Seq(0..frames)
Counts          == Seq(Nat)

SnapshotsOf(n, frames) ==
  [layout : 1..n, output_frame : 0..frames, position : Places(frames),
   channel_rows : Buffers(frames), cells : Buffers(frames), cell_count : Nat,
   scope_counts : Counts, scope : Buffers(frames), vu : Buffers(frames)]

RowsOf(info)   == IF info.scroll_mode = "PerChannel" THEN info.pattern_channels ELSE 0
ScopesOf(info) == IF "Scope" \in info.caps THEN info.scope_channels ELSE 0
VusOf(info)    == IF "Vu" \in info.caps THEN info.scope_channels ELSE 0

(* A snapshot's buffers are as large as its layout says. *)
Sized(snap, layout) ==
  /\ Len(snap.channel_rows) = RowsOf(layout.info)
  /\ Len(snap.cells) = layout.cell_capacity
  /\ Len(snap.scope_counts) = ScopesOf(layout.info)
  /\ Len(snap.scope) = ScopesOf(layout.info) * layout.config.scope_sample_budget
  /\ Len(snap.vu) = VusOf(layout.info)

(* What its accessors show is in its buffers, and of its frame. *)
CellsShown(snap) ==
  /\ snap.cell_count <= Len(snap.cells)
  /\ AllOf(snap.cells, 1, snap.cell_count, snap.output_frame)

ScopeShown(snap, budget) ==
  \A c \in 1..Len(snap.scope_counts) :
    /\ snap.scope_counts[c] <= budget
    /\ AllOf(snap.scope, (c - 1) * budget + 1, snap.scope_counts[c], snap.output_frame)

Fits(snap, lays, frames) ==
  /\ snap \in SnapshotsOf(Len(lays), frames)
  /\ Sized(snap, lays[snap.layout])
  /\ CellsShown(snap)
  /\ ScopeShown(snap, lays[snap.layout].config.scope_sample_budget)

InFrame(snap)  == snap.position # None => snap.position.frame = snap.output_frame
RowsDone(snap) == AllOf(snap.channel_rows, 1, Len(snap.channel_rows), snap.output_frame)
VuDone(snap)   == AllOf(snap.vu, 1, Len(snap.vu), snap.output_frame)

(* The counters and the capture are in their types. *)
CountInv ==
  /\ allocated \in 0..MaxSnapshots
  /\ captures \in 0..MaxCaptures
  /\ last \in [Slots -> {"none", "ok", "error"}]
  /\ capture \in Captures
  /\ snapshots = [t \in Slots |-> snapshots[t]]

(* A player is ready with the one layout that was made for it. *)
LayoutInv ==
  /\ layouts \in Seq(LayoutType)
  /\ visualization \in [Players -> States]
  /\ \A l \in 1..Len(layouts) :
       /\ layouts[l].cell_capacity = CellCapacity(layouts[l].info, layouts[l].config)
       /\ layouts[l].cell_capacity <= MaxCount
       /\ visualization[layouts[l].player].state = "Ready"
       /\ visualization[layouts[l].player].layout = l

Uncaptured(s) == capture = Idle \/ capture.slot # s

(* Between captures a snapshot's position is of its frame too, and after one
   that succeeded its rows and levels are. *)
SnapshotInv ==
  \A s \in Slots : snapshots[s] # None =>
    /\ Fits(snapshots[s], layouts, captures)
    /\ Uncaptured(s) => InFrame(snapshots[s])
    /\ Uncaptured(s) /\ last[s] = "ok" => RowsDone(snapshots[s]) /\ VuDone(snapshots[s])

(* What a capture has done by the stage it is in. *)
CaptureInv ==
  capture # Idle =>
    /\ Fits(Snapshot, layouts, captures)
    /\ Snapshot.layout = capture.layout
    /\ Snapshot.output_frame > 0
    /\ capture.stage # "position" => InFrame(Snapshot)
    /\ capture.stage \in {"cells", "scope", "vu"} => RowsDone(Snapshot)

IInv == CountInv /\ LayoutInv /\ SnapshotInv /\ CaptureInv

-----------------------------------------------------------------------------
(* Arithmetic of the buffers' layout. *)

LEMMA TimesGrows ==
  ASSUME NEW a \in Nat, NEW b \in Nat, NEW c \in Nat, a <= b
  PROVE  a * c <= b * c
OBVIOUS

LEMMA TimesNat ==
  ASSUME NEW a \in Nat, NEW b \in Nat
  PROVE  a * b \in Nat
OBVIOUS

(* The c-th of `channels` runs of `budget` samples ends inside them all. *)
LEMMA RunInside ==
  ASSUME NEW channels \in Nat, NEW budget \in Nat, NEW c \in 1..channels
  PROVE  /\ (c - 1) * budget \in Nat
         /\ (c - 1) * budget + budget = c * budget
         /\ c * budget <= channels * budget
<1>1. (c - 1) * budget \in Nat
  BY TimesNat
<1>2. (c - 1) * budget + budget = c * budget
  OBVIOUS
<1>3. c * budget <= channels * budget
  BY TimesGrows
<1>. QED BY <1>1, <1>2, <1>3

LEMMA LayoutElim ==
  ASSUME LayoutInv, NEW l \in 1..Len(layouts)
  PROVE  /\ layouts[l] \in LayoutType
         /\ layouts[l].player \in Players
         /\ layouts[l].info \in Infos
         /\ layouts[l].info.pattern_channels \in Nat
         /\ layouts[l].info.scope_channels \in Nat
         /\ layouts[l].info.columns \in Nat
         /\ layouts[l].config \in Configs
         /\ layouts[l].config.scope_sample_budget \in Nat
         /\ layouts[l].config.pattern_row_budget \in Nat
         /\ RowsOf(layouts[l].info) \in Nat
         /\ ScopesOf(layouts[l].info) \in Nat
         /\ VusOf(layouts[l].info) \in Nat
<1>1. layouts[l] \in LayoutType
  BY DEF LayoutInv
<1>2. layouts[l].info \in Infos /\ layouts[l].config \in Configs
  BY <1>1 DEF LayoutType
<1>3. /\ layouts[l].info.pattern_channels \in Nat
      /\ layouts[l].info.scope_channels \in Nat
      /\ layouts[l].info.columns \in Nat
      /\ layouts[l].config.scope_sample_budget \in Nat
      /\ layouts[l].config.pattern_row_budget \in Nat
  BY <1>2, VisualizationAssumption
<1>. QED BY <1>1, <1>2, <1>3 DEF LayoutType, RowsOf, ScopesOf, VusOf

LEMMA EmptyRun ==
  ASSUME NEW buffer, NEW from \in Nat, NEW frame
  PROVE  AllOf(buffer, from, 0, frame)
BY DEF AllOf

-----------------------------------------------------------------------------
(* Snapshots. *)

(* Layouts that are made later, and captures that are begun, change nothing
   about a snapshot that is left alone. *)
LEMMA FitsStays ==
  ASSUME NEW lays, NEW more, Len(lays) \in Nat, Len(more) \in Nat, Len(lays) <= Len(more),
         \A l \in 1..Len(lays) : more[l] = lays[l],
         NEW frames \in Nat, NEW later \in Nat, frames <= later,
         NEW snap, Fits(snap, lays, frames)
  PROVE  Fits(snap, more, later)
<1>1. snap \in SnapshotsOf(Len(lays), frames)
  BY DEF Fits
<1>2. /\ 0..frames \subseteq 0..later
      /\ 1..frames \subseteq 1..later
      /\ 1..Len(lays) \subseteq 1..Len(more)
  OBVIOUS
<1>3. Seq(0..frames) \subseteq Seq(0..later)
  BY <1>2, SeqMonotonic
<1>4. snap \in SnapshotsOf(Len(more), later)
  BY <1>1, <1>2, <1>3 DEF SnapshotsOf, Places, Buffers, Counts
<1>5. more[snap.layout] = lays[snap.layout]
  BY <1>1 DEF SnapshotsOf, Places, Buffers, Counts
<1>. QED BY <1>4, <1>5 DEF Fits

LEMMA ZeroesSeq ==
  ASSUME NEW n \in Nat, NEW frames \in Nat
  PROVE  /\ Zeroes(n) \in Seq(0..frames)
         /\ Zeroes(n) \in Seq(Nat)
         /\ Len(Zeroes(n)) = n
         /\ \A i \in 1..n : Zeroes(n)[i] = 0
BY IsASeq DEF Zeroes

(* A buffer a plugin wrote to keeps its length, and an entry is what it was or
   of the capture's frame: of that frame as far as the plugin counted. *)
LEMMA FilledSeq ==
  ASSUME NEW frames \in Nat, NEW buffer \in Seq(0..frames),
         Snapshot.output_frame \in 0..frames,
         NEW at \in Nat, NEW n \in Nat, NEW count \in Nat
  PROVE  LET filled == Filled(buffer, at, n, count)
         IN  /\ filled \in Seq(0..frames)
             /\ Len(filled) = Len(buffer)
             /\ \A i \in 1..Len(buffer) :
                  \/ filled[i] = Snapshot.output_frame
                  \/ filled[i] = buffer[i]
             /\ \A i \in 1..Len(buffer) :
                  i \in (at + 1)..(at + n) /\ i <= at + count
                    => filled[i] = Snapshot.output_frame
<1>. DEFINE filled == Filled(buffer, at, n, count)
<1>1. DOMAIN buffer = 1..Len(buffer) /\ Len(buffer) \in Nat
  BY LenProperties
<1>2. filled = [i \in 1..Len(buffer) |-> filled[i]]
  BY <1>1 DEF Filled
<1>3. \A i \in 1..Len(buffer) :
        filled[i] = IF i - at \in 1..n /\ i - at <= count
                    THEN Snapshot.output_frame ELSE buffer[i]
  BY <1>1 DEF Filled
<1>4. \A i \in 1..Len(buffer) : filled[i] \in 0..frames
  BY <1>1, <1>3, ElementOfSeq
<1>. HIDE DEF filled
<1>5. filled \in Seq(0..frames) /\ Len(filled) = Len(buffer)
  BY <1>1, <1>2, <1>4, IsASeq
<1>6. \A i \in 1..Len(buffer) :
         i \in (at + 1)..(at + n) /\ i <= at + count
           => i - at \in 1..n /\ i - at <= count
  BY <1>1
<1>. QED BY <1>3, <1>5, <1>6 DEF filled

(* A run of the capture's frame stays one whatever is written. *)
LEMMA FilledKeeps ==
  ASSUME NEW frames \in Nat, NEW buffer \in Seq(0..frames),
         Snapshot.output_frame \in 0..frames,
         NEW at \in Nat, NEW n \in Nat, NEW count \in Nat,
         NEW from \in Nat \ {0}, NEW run \in Nat, from + run <= Len(buffer) + 1,
         AllOf(buffer, from, run, Snapshot.output_frame)
  PROVE  AllOf(Filled(buffer, at, n, count), from, run, Snapshot.output_frame)
<1>1. \A i \in from..(from + run - 1) : i \in 1..Len(buffer)
  BY LenProperties
<1>. QED BY <1>1, FilledSeq DEF AllOf

-----------------------------------------------------------------------------
(* The steps outside a capture. *)

LEMMA InitInv == Init => IInv
<1>. SUFFICES ASSUME Init PROVE IInv
  OBVIOUS
<1>. USE DEF Init
<1>1. CountInv
  BY VisualizationAssumption DEF CountInv, Captures
<1>2. LayoutInv
  BY DEF LayoutInv, States
<1>3. SnapshotInv /\ CaptureInv
  BY DEF SnapshotInv, CaptureInv
<1>. QED BY <1>1, <1>2, <1>3 DEF IInv

(* More layouts, and nothing else. *)
LEMMA GrownInv ==
  ASSUME IInv, LayoutInv', Len(layouts) <= Len(layouts)',
         \A l \in 1..Len(layouts) : layouts'[l] = layouts[l],
         UNCHANGED <<snapshots, allocated, capture, captures, last>>
  PROVE  IInv'
<1>1. Len(layouts) \in Nat /\ Len(layouts)' \in Nat /\ captures \in Nat
  BY LenProperties, VisualizationAssumption DEF IInv, LayoutInv, CountInv
<1>2. DOMAIN layouts \subseteq DOMAIN layouts'
  BY <1>1, LenProperties DEF IInv, LayoutInv
<1>3. CountInv'
  BY <1>2 DEF IInv, CountInv, Captures
<1>4. \A snap : Fits(snap, layouts, captures) => Fits(snap, layouts', captures')
  BY <1>1, FitsStays
<1>5. SnapshotInv'
  BY <1>4 DEF IInv, SnapshotInv, Uncaptured
<1>6. CaptureInv'
  BY <1>4 DEF IInv, CaptureInv, Snapshot
<1>. QED BY <1>3, <1>5, <1>6 DEF IInv

LEMMA PrepareInv ==
  ASSUME IInv, NEW p \in Players, NEW config \in Configs, PrepareVisualization(p, config)
  PROVE  IInv'
<1>1. layouts \in Seq(LayoutType) /\ Len(layouts) \in Nat /\ DOMAIN layouts = 1..Len(layouts)
  BY LenProperties DEF IInv, LayoutInv
<1>2. \A l \in 1..Len(layouts) : layouts[l].player \in Players /\ layouts[l].player # p
  BY LayoutElim DEF IInv, LayoutInv, PrepareVisualization, ToPrepare
<1>3. visualization \in [Players -> States]
  BY DEF IInv, LayoutInv
<1>4. UNCHANGED <<snapshots, allocated, capture, captures, last>>
  BY DEF PrepareVisualization
<1>5. CASE /\ visualization' = [visualization EXCEPT ![p] =
                [state |-> "Absent", config |-> config]]
           /\ UNCHANGED layouts
  <2>1. States' = States /\ [state |-> "Absent", config |-> config] \in States
    BY <1>5 DEF States
  <2>2. visualization' \in [Players -> States']
    BY <1>3, <1>5, <2>1
  <2>3. \A l \in 1..Len(layouts) :
          visualization'[layouts[l].player] = visualization[layouts[l].player]
    BY <1>2, <1>3, <1>5
  <2>4. LayoutInv'
    BY <1>5, <2>2, <2>3 DEF IInv, LayoutInv
  <2>. QED BY <1>1, <1>4, <1>5, <2>4, GrownInv
<1>6. CASE \E info \in Infos :
             /\ Acceptable(info, config)
             /\ layouts' = Append(layouts,
                  [player |-> p, info |-> info, config |-> config,
                   cell_capacity |-> CellCapacity(info, config)])
             /\ visualization' = [visualization EXCEPT ![p] =
                  [state |-> "Ready", config |-> config, layout |-> Len(layouts')]]
  <2>1. PICK info \in Infos :
             /\ Acceptable(info, config)
             /\ layouts' = Append(layouts,
                  [player |-> p, info |-> info, config |-> config,
                   cell_capacity |-> CellCapacity(info, config)])
             /\ visualization' = [visualization EXCEPT ![p] =
                  [state |-> "Ready", config |-> config, layout |-> Len(layouts')]]
    BY <1>6
  <2>. DEFINE new == [player |-> p, info |-> info, config |-> config,
                      cell_capacity |-> CellCapacity(info, config)]
  <2>2. CellCapacity(info, config) \in Nat
    <3>1. /\ info.pattern_channels \in Nat /\ info.columns \in Nat
          /\ config.pattern_row_budget \in Nat
      BY VisualizationAssumption
    <3>. QED BY <3>1, TimesNat DEF CellCapacity
  <2>3. new \in LayoutType
    BY <2>2 DEF LayoutType
  <2>. HIDE DEF new
  <2>4. /\ layouts' \in Seq(LayoutType)
        /\ Len(layouts)' = Len(layouts) + 1
        /\ layouts'[Len(layouts) + 1] = new
        /\ \A l \in 1..Len(layouts) : layouts'[l] = layouts[l]
        /\ DOMAIN layouts' = 1..(Len(layouts) + 1)
    BY <1>1, <2>1, <2>3, AppendProperties, LenProperties DEF new
  <2>5. visualization' \in [Players -> States']
    <3>1. States \subseteq States'
      BY <1>1, <2>4 DEF States
    <3>2. [state |-> "Ready", config |-> config, layout |-> Len(layouts')] \in States'
      BY <1>1, <2>4 DEF States
    <3>. QED BY <1>3, <2>1, <3>1, <3>2
  <2>6. ASSUME NEW l \in 1..Len(layouts')
        PROVE  /\ layouts'[l].cell_capacity
                    = CellCapacity(layouts'[l].info, layouts'[l].config)
               /\ layouts'[l].cell_capacity <= MaxCount
               /\ visualization'[layouts'[l].player].state = "Ready"
               /\ visualization'[layouts'[l].player].layout = l
    <3>1. CASE l \in 1..Len(layouts)
      BY <1>2, <1>3, <2>1, <2>4, <3>1 DEF IInv, LayoutInv
    <3>2. CASE l = Len(layouts) + 1
      BY <1>3, <2>1, <2>4, <3>2 DEF new, Acceptable
    <3>. QED BY <1>1, <2>4, <3>1, <3>2
  <2>7. LayoutInv'
    BY <2>4, <2>5, <2>6 DEF LayoutInv
  <2>. QED BY <1>1, <1>4, <2>4, <2>7, GrownInv
<1>. QED BY <1>5, <1>6 DEF PrepareVisualization

(* A snapshot as it is allocated fits its layout, and shows nothing. *)
LEMMA EmptyFits ==
  ASSUME LayoutInv, NEW l \in 1..Len(layouts), NEW frames \in Nat
  PROVE  /\ Fits(EmptySnapshot(l), layouts, frames)
         /\ InFrame(EmptySnapshot(l))
<1>. DEFINE snap == EmptySnapshot(l)
            info == layouts[l].info
            budget == layouts[l].config.scope_sample_budget
<1>1. /\ RowsOf(info) \in Nat /\ ScopesOf(info) \in Nat /\ VusOf(info) \in Nat
      /\ budget \in Nat /\ ScopesOf(info) * budget \in Nat
      /\ layouts[l].cell_capacity \in Nat
  BY LayoutElim, TimesNat DEF LayoutType
<1>2. Zeroes(0) = <<>>
  BY ZeroesSeq, EmptySeq
<1>3. /\ snap.layout = l /\ snap.output_frame = 0 /\ snap.position = None
      /\ snap.cell_count = 0
      /\ snap.channel_rows = Zeroes(RowsOf(info))
      /\ snap.cells = Zeroes(layouts[l].cell_capacity)
      /\ snap.scope_counts = Zeroes(ScopesOf(info))
      /\ snap.scope = Zeroes(ScopesOf(info) * budget)
      /\ snap.vu = Zeroes(VusOf(info))
  BY <1>1, <1>2 DEF EmptySnapshot, RowsOf, ScopesOf, VusOf
<1>4. snap = [layout |-> snap.layout, output_frame |-> snap.output_frame,
              position |-> snap.position, channel_rows |-> snap.channel_rows,
              cells |-> snap.cells, cell_count |-> snap.cell_count,
              scope_counts |-> snap.scope_counts, scope |-> snap.scope, vu |-> snap.vu]
  BY DEF EmptySnapshot
<1>. HIDE DEF snap
<1>5. snap \in SnapshotsOf(Len(layouts), frames)
  BY <1>1, <1>3, <1>4, ZeroesSeq DEF SnapshotsOf, Places, Buffers, Counts
<1>6. Sized(snap, layouts[l])
  BY <1>1, <1>3, ZeroesSeq DEF Sized
<1>7. CellsShown(snap)
  BY <1>1, <1>3, ZeroesSeq DEF CellsShown, AllOf
<1>8. ScopeShown(snap, budget)
  <2>. SUFFICES ASSUME NEW c \in 1..ScopesOf(info)
                PROVE  /\ snap.scope_counts[c] <= budget
                       /\ AllOf(snap.scope, (c - 1) * budget + 1, snap.scope_counts[c],
                                snap.output_frame)
    BY <1>1, <1>3, ZeroesSeq DEF ScopeShown
  <2>1. snap.scope_counts[c] = 0
    BY <1>3 DEF Zeroes
  <2>2. (c - 1) * budget + 1 \in Nat
    <3>1. c - 1 \in Nat
      OBVIOUS
    <3>2. (c - 1) * budget \in Nat
      BY <1>1, <3>1, TimesNat
    <3>. QED BY <3>2
  <2>. QED BY <1>1, <2>1, <2>2, EmptyRun
<1>. QED BY <1>3, <1>5, <1>6, <1>7, <1>8 DEF Fits, InFrame, snap

LEMMA NewSnapshotInv ==
  ASSUME IInv, NEW s \in Slots, NEW l \in DOMAIN layouts, NewSnapshot(s, l)
  PROVE  IInv'
<1>1. UNCHANGED <<visualization, layouts, capture, captures>> /\ capture = Idle
  BY DEF NewSnapshot
<1>2. /\ snapshots'[s] = EmptySnapshot(l) /\ last'[s] = "none"
      /\ \A t \in Slots \ {s} : snapshots'[t] = snapshots[t] /\ last'[t] = last[t]
      /\ snapshots' = [t \in Slots |-> snapshots'[t]]
      /\ last' \in [Slots -> {"none", "ok", "error"}]
  BY DEF NewSnapshot, IInv, CountInv
<1>3. allocated' \in 0..MaxSnapshots
  BY VisualizationAssumption DEF NewSnapshot, IInv, CountInv
<1>4. Fits(EmptySnapshot(l), layouts, captures) /\ InFrame(EmptySnapshot(l))
  BY EmptyFits, LenProperties, VisualizationAssumption DEF IInv, LayoutInv, CountInv
<1>5. CountInv'
  BY <1>1, <1>2, <1>3 DEF IInv, CountInv, Captures
<1>6. LayoutInv'
  BY <1>1 DEF IInv, LayoutInv, States
<1>7. SnapshotInv'
  BY <1>1, <1>2, <1>4 DEF IInv, SnapshotInv, Uncaptured
<1>8. CaptureInv'
  BY <1>1 DEF CaptureInv
<1>. QED BY <1>5, <1>6, <1>7, <1>8 DEF IInv

LEMMA ClearedFields ==
  ASSUME NEW n, NEW frames, NEW old \in SnapshotsOf(n, frames), NEW frame
  PROVE  Cleared(old, frame) =
           [layout |-> old.layout, output_frame |-> frame, position |-> old.position,
            channel_rows |-> old.channel_rows, cells |-> old.cells, cell_count |-> 0,
            scope_counts |-> [c \in DOMAIN old.scope_counts |-> 0],
            scope |-> old.scope, vu |-> old.vu]
<1>. DEFINE stamped == [old EXCEPT !.output_frame = frame]
            emptied == [stamped EXCEPT !.cell_count = 0]
            zeroes == [c \in DOMAIN old.scope_counts |-> 0]
<1>1. stamped = [layout |-> old.layout, output_frame |-> frame, position |-> old.position,
                 channel_rows |-> old.channel_rows, cells |-> old.cells,
                 cell_count |-> old.cell_count, scope_counts |-> old.scope_counts,
                 scope |-> old.scope, vu |-> old.vu]
  BY DEF SnapshotsOf
<1>2. Cleared(old, frame) = [emptied EXCEPT !.scope_counts = [c \in DOMAIN @ |-> 0]]
  BY Zenon DEF Cleared
<1>. HIDE DEF stamped
<1>3. emptied = [layout |-> old.layout, output_frame |-> frame, position |-> old.position,
                 channel_rows |-> old.channel_rows, cells |-> old.cells,
                 cell_count |-> 0, scope_counts |-> old.scope_counts,
                 scope |-> old.scope, vu |-> old.vu]
  BY <1>1
<1>. HIDE DEF emptied
<1>4. [emptied EXCEPT !.scope_counts = [c \in DOMAIN @ |-> 0]]
        = [emptied EXCEPT !.scope_counts = zeroes]
  BY <1>3
<1>. HIDE DEF zeroes
<1>5. [emptied EXCEPT !.scope_counts = zeroes]
        = [layout |-> old.layout, output_frame |-> frame, position |-> old.position,
           channel_rows |-> old.channel_rows, cells |-> old.cells, cell_count |-> 0,
           scope_counts |-> zeroes, scope |-> old.scope, vu |-> old.vu]
  BY <1>3
<1>. QED BY <1>2, <1>4, <1>5 DEF zeroes

LEMMA BeginCaptureInv ==
  ASSUME IInv, NEW p \in Players, NEW s \in Slots, BeginCapture(p, s)
  PROVE  IInv'
<1>. DEFINE old == snapshots[s]
            snap == Cleared(old, captures + 1)
            budget == layouts[old.layout].config.scope_sample_budget
<1>1. /\ captures \in Nat /\ captures' = captures + 1 /\ captures' \in 0..MaxCaptures
      /\ UNCHANGED <<visualization, layouts, allocated, last>>
      /\ capture = Idle /\ old # None
      /\ old.layout = visualization[p].layout
      /\ capture' = [stage |-> "position", layout |-> old.layout, slot |-> s, channel |-> 1]
  BY VisualizationAssumption DEF BeginCapture, Matches, IInv, CountInv
<1>2. /\ snapshots'[s] = snap /\ snapshots' = [t \in Slots |-> snapshots'[t]]
      /\ \A t \in Slots \ {s} : snapshots'[t] = snapshots[t]
  BY <1>1 DEF BeginCapture, IInv, CountInv
<1>3. Len(layouts) \in Nat /\ DOMAIN layouts = 1..Len(layouts)
  BY LenProperties DEF IInv, LayoutInv
<1>4. ASSUME NEW t \in Slots, snapshots[t] # None
      PROVE  Fits(snapshots[t], layouts, captures + 1)
  <2>1. \A any : Fits(any, layouts, captures) => Fits(any, layouts, captures + 1)
    BY <1>1, <1>3, FitsStays
  <2>. QED BY <1>4, <2>1 DEF IInv, SnapshotInv
<1>5. Fits(old, layouts, captures + 1)
  BY <1>1, <1>4
<1>. HIDE DEF old
<1>6. /\ old \in SnapshotsOf(Len(layouts), captures + 1)
      /\ Sized(old, layouts[old.layout])
  BY <1>5 DEF Fits
<1>7. /\ old.layout \in 1..Len(layouts)
      /\ old.cells \in Seq(0..captures + 1)
      /\ old.scope_counts \in Seq(Nat)
      /\ Len(old.cells) \in Nat
      /\ Len(old.scope_counts) \in Nat
      /\ DOMAIN old.scope_counts = 1..Len(old.scope_counts)
  BY <1>6, LenProperties DEF SnapshotsOf, Places, Buffers, Counts
<1>8. /\ snap.layout = old.layout /\ snap.output_frame = captures + 1
      /\ snap.position = old.position /\ snap.channel_rows = old.channel_rows
      /\ snap.cells = old.cells /\ snap.scope = old.scope /\ snap.vu = old.vu
      /\ snap.cell_count = 0
      /\ snap.scope_counts = [c \in 1..Len(old.scope_counts) |-> 0]
      /\ snap = [layout |-> snap.layout, output_frame |-> snap.output_frame,
                 position |-> snap.position, channel_rows |-> snap.channel_rows,
                 cells |-> snap.cells, cell_count |-> snap.cell_count,
                 scope_counts |-> snap.scope_counts, scope |-> snap.scope, vu |-> snap.vu]
  <2>1. \A new : new = Cleared(old, captures + 1) =>
          new = [layout |-> old.layout, output_frame |-> captures + 1,
                 position |-> old.position, channel_rows |-> old.channel_rows,
                 cells |-> old.cells, cell_count |-> 0,
                 scope_counts |-> [c \in DOMAIN old.scope_counts |-> 0],
                 scope |-> old.scope, vu |-> old.vu]
    BY <1>6, ClearedFields
  <2>2. snap = [layout |-> old.layout, output_frame |-> captures + 1,
                position |-> old.position, channel_rows |-> old.channel_rows,
                cells |-> old.cells, cell_count |-> 0,
                scope_counts |-> [c \in DOMAIN old.scope_counts |-> 0],
                scope |-> old.scope, vu |-> old.vu]
    BY <2>1
  <2>. HIDE DEF snap
  <2>. QED BY <1>7, <2>2
<1>9. /\ snap.scope_counts \in Seq(Nat)
      /\ Len(snap.scope_counts) = Len(old.scope_counts)
      /\ \A c \in 1..Len(old.scope_counts) : snap.scope_counts[c] = 0
  <2>1. /\ Zeroes(Len(old.scope_counts)) \in Seq(Nat)
        /\ Len(Zeroes(Len(old.scope_counts))) = Len(old.scope_counts)
        /\ \A c \in 1..Len(old.scope_counts) : Zeroes(Len(old.scope_counts))[c] = 0
    BY <1>7, IsASeq DEF Zeroes
  <2>2. snap.scope_counts = Zeroes(Len(old.scope_counts))
    BY <1>8 DEF Zeroes
  <2>. QED BY <2>1, <2>2
<1>. HIDE DEF snap
<1>10. snap \in SnapshotsOf(Len(layouts), captures + 1)
  <2>1. /\ snap.layout \in 1..Len(layouts)
        /\ snap.output_frame \in 0..captures + 1
        /\ snap.position \in [lo : Nat, hi : Nat, frame : 1..captures + 1] \cup {None}
        /\ snap.channel_rows \in Seq(0..captures + 1)
        /\ snap.cells \in Seq(0..captures + 1)
        /\ snap.cell_count \in Nat
        /\ snap.scope \in Seq(0..captures + 1)
        /\ snap.vu \in Seq(0..captures + 1)
    BY <1>1, <1>6, <1>8 DEF SnapshotsOf, Places, Buffers, Counts
  <2>. QED BY <1>8, <1>9, <2>1 DEF SnapshotsOf, Places, Buffers, Counts
<1>11. Sized(snap, layouts[old.layout])
  BY <1>6, <1>8, <1>9 DEF Sized
<1>12. CellsShown(snap)
  BY <1>1, <1>7, <1>8 DEF CellsShown, AllOf
<1>13. ScopeShown(snap, budget)
  <2>1. budget \in Nat
    BY <1>7, LayoutElim DEF IInv
  <2>2. ASSUME NEW c \in 1..Len(old.scope_counts)
        PROVE  AllOf(snap.scope, (c - 1) * budget + 1, 0, captures + 1)
    <3>1. c - 1 \in Nat
      BY <1>7
    <3>2. (c - 1) * budget \in Nat
      BY <2>1, <3>1, TimesNat
    <3>. QED BY <3>2, EmptyRun
  <2>. QED BY <1>8, <1>9, <2>1, <2>2 DEF ScopeShown
<1>14. Fits(snap, layouts', captures')
  BY <1>1, <1>8, <1>10, <1>11, <1>12, <1>13 DEF Fits
<1>15. CountInv'
  <2>1. capture' \in Captures'
    BY <1>1, <1>3, <1>7 DEF Captures
  <2>. QED BY <1>1, <1>2, <2>1 DEF IInv, CountInv
<1>16. LayoutInv'
  BY <1>1 DEF IInv, LayoutInv, States
<1>17. SnapshotInv'
  <2>1. capture'.slot = s /\ capture' # Idle
    BY <1>1 DEF Idle
  <2>2. ASSUME NEW t \in Slots, snapshots'[t] # None
        PROVE  Fits(snapshots'[t], layouts', captures')
    BY <1>1, <1>2, <1>4, <1>14, <2>2
  <2>3. ASSUME NEW t \in Slots, snapshots'[t] # None, Uncaptured(t)'
        PROVE  t # s /\ Uncaptured(t) /\ snapshots'[t] = snapshots[t]
    BY <1>1, <1>2, <2>1, <2>3 DEF Uncaptured
  <2>. QED BY <1>1, <2>2, <2>3 DEF IInv, SnapshotInv
<1>18. CaptureInv'
  BY <1>1, <1>2, <1>8, <1>14 DEF CaptureInv, Snapshot
<1>. QED BY <1>15, <1>16, <1>17, <1>18 DEF IInv

-----------------------------------------------------------------------------
(* The steps of a capture. *)

Asked == {"position", "rows", "cells", "scope", "vu"}

LEMMA CaptureElim ==
  ASSUME IInv, capture # Idle
  PROVE  /\ capture \in [stage : Asked, layout : DOMAIN layouts, slot : Slots,
                         channel : Nat \ {0}]
         /\ capture.slot \in Slots
         /\ captures \in Nat
         /\ Fits(Snapshot, layouts, captures)
         /\ Layout = layouts[Snapshot.layout]
         /\ Snapshot.layout \in 1..Len(layouts)
         /\ Snapshot.layout = capture.layout
         /\ Snapshot.output_frame \in 1..captures
<1>1. capture \in Captures /\ captures \in Nat
  BY VisualizationAssumption DEF IInv, CountInv
<1>2. capture \in [stage : Asked, layout : DOMAIN layouts, slot : Slots, channel : Nat \ {0}]
  BY <1>1 DEF Captures, Asked
<1>3. /\ Fits(Snapshot, layouts, captures) /\ Snapshot.layout = capture.layout
      /\ Snapshot.output_frame > 0
  BY DEF IInv, CaptureInv
<1>4. Snapshot \in SnapshotsOf(Len(layouts), captures)
  BY <1>3 DEF Fits
<1>5. Snapshot.output_frame \in 0..captures /\ Snapshot.layout \in 1..Len(layouts)
  BY <1>4 DEF SnapshotsOf, Places, Buffers, Counts
<1>6. Snapshot.output_frame \in 1..captures
  BY <1>1, <1>3, <1>5
<1>. QED BY <1>1, <1>2, <1>3, <1>5, <1>6 DEF Layout

(* A stage names a capture that runs. *)
LEMMA StageRuns ==
  ASSUME capture.stage \in Asked
  PROVE  capture # Idle
BY DEF Asked, Idle

LEMMA LeavesElim ==
  ASSUME IInv, capture # Idle, NEW snap, Leaves(snap)
  PROVE  /\ snapshots'[capture.slot] = snap
         /\ snapshots' = [t \in Slots |-> snapshots'[t]]
         /\ \A s \in Slots : s # capture.slot => snapshots'[s] = snapshots[s]
         /\ UNCHANGED <<visualization, layouts, allocated, captures>>
         /\ LayoutInv'
<1>1. UNCHANGED <<visualization, layouts, allocated, captures>>
  BY DEF Leaves
<1>2. LayoutInv'
  BY <1>1 DEF IInv, LayoutInv, States
<1>. QED BY <1>1, <1>2, CaptureElim DEF Leaves, IInv, CountInv

(* The capture stays the one it is, in another stage or at another channel. *)
MovesTo(stage) ==
  /\ capture' \in [stage : Asked, layout : DOMAIN layouts, slot : Slots, channel : Nat \ {0}]
  /\ capture'.stage = stage
  /\ capture'.slot = capture.slot
  /\ capture'.layout = capture.layout

LEMMA ThenMoves ==
  ASSUME IInv, capture # Idle, NEW stage \in Asked, Then(stage)
  PROVE  MovesTo(stage) /\ UNCHANGED last
BY CaptureElim DEF Then, MovesTo

(* A capture goes on: its snapshot fits, and shows what its stage promises. *)
LEMMA GoesOn ==
  ASSUME IInv, capture # Idle, NEW snap, Leaves(snap),
         Fits(snap, layouts, captures),
         snap.layout = Snapshot.layout, snap.output_frame = Snapshot.output_frame,
         NEW stage \in Asked, MovesTo(stage), UNCHANGED last,
         stage # "position" => InFrame(snap),
         stage \in {"cells", "scope", "vu"} => RowsDone(snap)
  PROVE  IInv'
<1>1. /\ capture' \in [stage : Asked, layout : DOMAIN layouts, slot : Slots,
                        channel : Nat \ {0}]
      /\ capture'.stage = stage /\ capture'.slot = capture.slot
      /\ capture'.layout = capture.layout
  BY DEF MovesTo
<1>2. capture' # Idle
  BY <1>1 DEF Asked, Idle
<1>3. CountInv'
  BY <1>1, LeavesElim DEF IInv, CountInv, Captures, Asked
<1>4. SnapshotInv'
  <2>. SUFFICES ASSUME NEW s \in Slots, snapshots'[s] # None
                PROVE  /\ Fits(snapshots'[s], layouts', captures')
                       /\ Uncaptured(s)' => InFrame(snapshots'[s])
                       /\ Uncaptured(s)' /\ last'[s] = "ok"
                            => RowsDone(snapshots'[s]) /\ VuDone(snapshots'[s])
    BY DEF SnapshotInv
  <2>1. CASE s = capture.slot
    BY <1>1, <1>2, <2>1, LeavesElim DEF Uncaptured
  <2>2. CASE s # capture.slot
    BY <1>1, <1>2, <2>2, LeavesElim DEF IInv, SnapshotInv, Uncaptured
  <2>. QED BY <2>1, <2>2
<1>5. CaptureInv'
  <2>1. Snapshot' = snap
    BY <1>1, LeavesElim DEF Snapshot
  <2>. QED BY <1>1, <2>1, CaptureElim, LeavesElim DEF CaptureInv
<1>. QED BY <1>3, <1>4, <1>5, LeavesElim DEF IInv

(* A capture is over: its snapshot fits, and is whole if it succeeded. *)
LEMMA IsOver ==
  ASSUME IInv, capture # Idle, NEW snap, Leaves(snap),
         Fits(snap, layouts, captures), InFrame(snap),
         NEW result \in {"ok", "error"}, Ends(result),
         result = "ok" => RowsDone(snap) /\ VuDone(snap)
  PROVE  IInv'
<1>1. /\ capture' = Idle
      /\ last' \in [Slots -> {"none", "ok", "error"}]
      /\ last'[capture.slot] = result
      /\ \A s \in Slots : s # capture.slot => last'[s] = last[s]
  BY CaptureElim DEF Ends, IInv, CountInv
<1>2. CountInv'
  BY <1>1, LeavesElim DEF IInv, CountInv, Captures
<1>3. SnapshotInv'
  <2>. SUFFICES ASSUME NEW s \in Slots, snapshots'[s] # None
                PROVE  /\ Fits(snapshots'[s], layouts', captures')
                       /\ InFrame(snapshots'[s])
                       /\ last'[s] = "ok" => RowsDone(snapshots'[s]) /\ VuDone(snapshots'[s])
    BY DEF SnapshotInv
  <2>1. CASE s = capture.slot
    BY <1>1, <2>1, LeavesElim
  <2>2. CASE s # capture.slot
    BY <1>1, <2>2, LeavesElim DEF IInv, SnapshotInv, Uncaptured
  <2>. QED BY <2>1, <2>2
<1>4. CaptureInv'
  BY <1>1 DEF CaptureInv
<1>. QED BY <1>2, <1>3, <1>4, LeavesElim DEF IInv

(* What the current snapshot holds, field by field. *)
LEMMA SnapshotElim ==
  ASSUME IInv, capture # Idle
  PROVE  /\ Snapshot \in SnapshotsOf(Len(layouts), captures)
         /\ Snapshot.position \in Places(captures)
         /\ Snapshot.channel_rows \in Buffers(captures)
         /\ Snapshot.cells \in Buffers(captures)
         /\ Snapshot.cell_count \in Nat
         /\ Snapshot.scope_counts \in Counts
         /\ Snapshot.scope \in Buffers(captures)
         /\ Snapshot.vu \in Buffers(captures)
         /\ Sized(Snapshot, Layout)
         /\ CellsShown(Snapshot)
         /\ ScopeShown(Snapshot, Layout.config.scope_sample_budget)
<1>1. Fits(Snapshot, layouts, captures) /\ Layout = layouts[Snapshot.layout]
  BY CaptureElim
<1>2. /\ Snapshot \in SnapshotsOf(Len(layouts), captures)
      /\ Sized(Snapshot, Layout)
      /\ CellsShown(Snapshot)
      /\ ScopeShown(Snapshot, Layout.config.scope_sample_budget)
  BY <1>1 DEF Fits
<1>. QED BY <1>2 DEF SnapshotsOf

(* A snapshot with one kind of buffer replaced fits if the buffer is as large. *)
LEMMA RefillFits ==
  ASSUME IInv, capture # Idle, NEW snap \in SnapshotsOf(Len(layouts), captures),
         snap.layout = Snapshot.layout, snap.output_frame = Snapshot.output_frame,
         Len(snap.channel_rows) = Len(Snapshot.channel_rows),
         Len(snap.cells) = Len(Snapshot.cells),
         Len(snap.scope_counts) = Len(Snapshot.scope_counts),
         Len(snap.scope) = Len(Snapshot.scope),
         Len(snap.vu) = Len(Snapshot.vu),
         CellsShown(snap),
         ScopeShown(snap, Layout.config.scope_sample_budget)
  PROVE  Fits(snap, layouts, captures)
<1>1. Sized(snap, Layout)
  BY SnapshotElim DEF Sized
<1>2. layouts[snap.layout] = Layout
  BY CaptureElim
<1>. QED BY <1>1, <1>2 DEF Fits

LEMMA AskPositionInv ==
  ASSUME IInv, AskPosition
  PROVE  IInv'
<1>1. capture # Idle
  BY DEF AskPosition, Idle
<1>2. PICK w \in Windows \cup {None} :
        Leaves([Snapshot EXCEPT !.position =
          IF w = None THEN None
          ELSE [lo |-> w.lo, hi |-> w.hi, frame |-> Snapshot.output_frame]])
  BY DEF AskPosition
<1>. DEFINE place == IF w = None THEN None
                     ELSE [lo |-> w.lo, hi |-> w.hi, frame |-> Snapshot.output_frame]
            snap == [Snapshot EXCEPT !.position = place]
<1>3. /\ place \in Places(captures)
      /\ place # None => place.frame = Snapshot.output_frame
  <2>1. CASE w = None
    BY <2>1 DEF Places
  <2>2. CASE w # None
    <3>1. w.lo \in Nat /\ w.hi \in Nat
      BY <2>2, VisualizationAssumption
    <3>2. place = [lo |-> w.lo, hi |-> w.hi, frame |-> Snapshot.output_frame]
      BY <2>2
    <3>. HIDE DEF place
    <3>. QED BY <1>1, <3>1, <3>2, CaptureElim DEF Places
  <2>. QED BY <2>1, <2>2
<1>. HIDE DEF place
<1>4. /\ snap \in SnapshotsOf(Len(layouts), captures)
      /\ snap.layout = Snapshot.layout /\ snap.output_frame = Snapshot.output_frame
      /\ snap.position = place /\ snap.channel_rows = Snapshot.channel_rows
      /\ snap.cells = Snapshot.cells /\ snap.cell_count = Snapshot.cell_count
      /\ snap.scope_counts = Snapshot.scope_counts
      /\ snap.scope = Snapshot.scope /\ snap.vu = Snapshot.vu
  BY <1>1, <1>3, SnapshotElim DEF SnapshotsOf
<1>5. Leaves(snap)
  BY <1>2 DEF place
<1>. HIDE DEF snap
<1>6. Fits(snap, layouts, captures)
  <2>1. CellsShown(snap) /\ ScopeShown(snap, Layout.config.scope_sample_budget)
    BY <1>1, <1>4, SnapshotElim DEF CellsShown, ScopeShown
  <2>. QED BY <1>1, <1>4, <2>1, RefillFits
<1>7. InFrame(snap)
  BY <1>3, <1>4 DEF InFrame
<1>8. MovesTo("rows") /\ UNCHANGED last
  BY <1>1, ThenMoves DEF AskPosition, Asked
<1>. QED BY <1>1, <1>4, <1>5, <1>6, <1>7, <1>8, GoesOn DEF Asked

LEMMA AskRowsInv ==
  ASSUME IInv, AskRows
  PROVE  IInv'
<1>1. capture # Idle
  BY DEF AskRows, Idle
<1>. DEFINE expected == Info.pattern_channels
<1>2. PICK returned \in 0..(expected + 1) :
        /\ Leaves([Snapshot EXCEPT !.channel_rows = Filled(@, 0, expected, returned)])
        /\ IF Exact(returned, expected) THEN Then("cells") ELSE Ends("error")
  BY DEF AskRows
<1>. DEFINE rows == Filled(Snapshot.channel_rows, 0, expected, returned)
            snap == [Snapshot EXCEPT !.channel_rows = rows]
<1>3. expected \in Nat /\ returned \in Nat
  BY <1>1, CaptureElim, LayoutElim DEF IInv, Info
<1>4. Snapshot.output_frame \in 0..captures /\ captures \in Nat
  BY <1>1, CaptureElim
<1>5. /\ rows \in Buffers(captures)
      /\ Len(rows) = Len(Snapshot.channel_rows)
      /\ Len(rows) \in Nat
      /\ \A i \in 1..Len(rows) :
           i \in 1..expected /\ i <= returned => rows[i] = Snapshot.output_frame
  <2>1. Snapshot.channel_rows \in Seq(0..captures) /\ Len(Snapshot.channel_rows) \in Nat
    BY <1>1, SnapshotElim, LenProperties DEF Buffers
  <2>2. 0 \in Nat /\ expected \in Nat /\ returned \in Nat
    BY <1>3
  <2>. HIDE DEF expected
  <2>3. /\ rows \in Seq(0..captures)
        /\ Len(rows) = Len(Snapshot.channel_rows)
        /\ \A i \in 1..Len(Snapshot.channel_rows) :
             i \in (0 + 1)..(0 + expected) /\ i <= 0 + returned
               => rows[i] = Snapshot.output_frame
    BY <1>4, <2>1, <2>2, FilledSeq, SMTT(30)
  <2>. HIDE DEF rows
  <2>. QED BY <2>1, <2>2, <2>3 DEF Buffers
<1>6. Len(Snapshot.channel_rows) = expected
  <2>1. Sized(Snapshot, Layout) /\ Info.scroll_mode = "PerChannel"
    BY <1>1, SnapshotElim DEF AskRows
  <2>. QED BY <2>1 DEF Sized, RowsOf, Info
<1>7. Leaves(snap)
  BY <1>2
<1>. HIDE DEF rows, expected
<1>8. /\ snap \in SnapshotsOf(Len(layouts), captures)
      /\ snap.layout = Snapshot.layout /\ snap.output_frame = Snapshot.output_frame
      /\ snap.position = Snapshot.position /\ snap.channel_rows = rows
      /\ snap.cells = Snapshot.cells /\ snap.cell_count = Snapshot.cell_count
      /\ snap.scope_counts = Snapshot.scope_counts
      /\ snap.scope = Snapshot.scope /\ snap.vu = Snapshot.vu
  BY <1>1, <1>5, SnapshotElim DEF SnapshotsOf
<1>. HIDE DEF snap
<1>9. Fits(snap, layouts, captures)
  <2>1. CellsShown(snap) /\ ScopeShown(snap, Layout.config.scope_sample_budget)
    BY <1>1, <1>8, SnapshotElim DEF CellsShown, ScopeShown
  <2>. QED BY <1>1, <1>5, <1>8, <2>1, RefillFits
<1>10. InFrame(snap)
  BY <1>1, <1>8 DEF InFrame, IInv, CaptureInv, AskRows
<1>11. CASE Exact(returned, expected)
  <2>1. RowsDone(snap)
    BY <1>3, <1>5, <1>6, <1>8, <1>11 DEF RowsDone, AllOf, Exact
  <2>2. MovesTo("cells") /\ UNCHANGED last
    BY <1>1, <1>2, <1>11, ThenMoves DEF Asked, expected
  <2>. QED BY <1>1, <1>7, <1>8, <1>9, <1>10, <2>1, <2>2, GoesOn DEF Asked
<1>12. CASE ~Exact(returned, expected)
  <2>1. Ends("error")
    BY <1>2, <1>12 DEF expected
  <2>. QED BY <1>1, <1>7, <1>9, <1>10, <2>1, IsOver
<1>. QED BY <1>11, <1>12

(* The window's cells are no more than its layout has room for. *)
LEMMA CellsBounded ==
  ASSUME IInv, capture # Idle, WantsCells, WindowFits
  PROVE  /\ CellCount \in Nat
         /\ CellCount <= Len(Snapshot.cells)
         /\ CellCount <= MaxCount
<1>. DEFINE channels == Info.pattern_channels
            columns == Info.columns
            room == Layout.config.pattern_row_budget
<1>1. channels \in Nat /\ columns \in Nat /\ room \in Nat
  BY CaptureElim, LayoutElim DEF IInv, Info
<1>2. Rows \in Nat /\ Rows <= room
  <2>1. Snapshot.position.hi \in Nat /\ Snapshot.position.lo \in Nat
    BY SnapshotElim DEF WantsCells, Places
  <2>. QED BY <2>1 DEF Rows, WindowFits
<1>3. /\ Layout.cell_capacity = room * channels * columns
      /\ Layout.cell_capacity <= MaxCount
      /\ Layout.cell_capacity = Len(Snapshot.cells)
  BY CaptureElim, SnapshotElim DEF IInv, LayoutInv, CellCapacity, Info, Sized
<1>4. CellCount = Rows * channels * columns
  BY DEF CellCount
<1>. HIDE DEF channels, columns, room
<1>5. Rows * channels \in Nat /\ room * channels \in Nat /\ Rows * channels <= room * channels
  BY <1>1, <1>2, TimesNat, TimesGrows
<1>6. /\ Rows * channels * columns \in Nat
      /\ Rows * channels * columns <= room * channels * columns
  BY <1>1, <1>5, TimesNat, TimesGrows
<1>7. room * channels * columns \in Nat
  BY <1>1, <1>5, TimesNat
<1>8. MaxCount \in Nat
  BY VisualizationAssumption
<1>. QED BY <1>3, <1>4, <1>6, <1>7, <1>8

LEMMA AskCellsInv ==
  ASSUME IInv, AskCells
  PROVE  IInv'
<1>1. capture # Idle /\ WantsCells /\ WindowFits
  BY DEF AskCells, Idle
<1>2. PICK returned \in 0..(CellCount + 1) :
        /\ Leaves([Snapshot EXCEPT
             !.cells = Filled(@, 0, CellCount, returned),
             !.cell_count = IF Exact(returned, CellCount) THEN CellCount ELSE @])
        /\ IF Exact(returned, CellCount) THEN Then("scope") ELSE Ends("error")
  BY DEF AskCells
<1>. DEFINE cells == Filled(Snapshot.cells, 0, CellCount, returned)
            count == IF Exact(returned, CellCount) THEN CellCount ELSE Snapshot.cell_count
            snap == [Snapshot EXCEPT !.cells = cells, !.cell_count = count]
<1>3. /\ CellCount \in Nat /\ CellCount <= Len(Snapshot.cells)
      /\ returned \in Nat
  BY <1>1, CellsBounded
<1>4. Snapshot.output_frame \in 0..captures /\ captures \in Nat
  BY <1>1, CaptureElim
<1>5. /\ Snapshot.cells \in Seq(0..captures) /\ Len(Snapshot.cells) \in Nat
      /\ Snapshot.cell_count \in Nat /\ Snapshot.cell_count <= Len(Snapshot.cells)
      /\ AllOf(Snapshot.cells, 1, Snapshot.cell_count, Snapshot.output_frame)
  BY <1>1, SnapshotElim, LenProperties DEF Buffers, CellsShown
<1>6. /\ cells \in Buffers(captures)
      /\ Len(cells) = Len(Snapshot.cells)
      /\ \A i \in 1..Len(cells) :
           i \in 1..CellCount /\ i <= returned => cells[i] = Snapshot.output_frame
      /\ AllOf(cells, 1, Snapshot.cell_count, Snapshot.output_frame)
  <2>1. AllOf(cells, 1, Snapshot.cell_count, Snapshot.output_frame)
    BY <1>3, <1>4, <1>5, FilledKeeps
  <2>. QED BY <1>3, <1>4, <1>5, <2>1, FilledSeq DEF Buffers
<1>7. Leaves(snap)
  BY <1>2
<1>. HIDE DEF cells
<1>8. /\ count \in Nat /\ count <= Len(cells)
      /\ AllOf(cells, 1, count, Snapshot.output_frame)
  <2>1. CASE Exact(returned, CellCount)
    BY <1>3, <1>5, <1>6, <2>1 DEF Exact, AllOf
  <2>2. CASE ~Exact(returned, CellCount)
    BY <1>5, <1>6, <2>2
  <2>. QED BY <2>1, <2>2
<1>. HIDE DEF count
<1>9. /\ snap \in SnapshotsOf(Len(layouts), captures)
      /\ snap.layout = Snapshot.layout /\ snap.output_frame = Snapshot.output_frame
      /\ snap.position = Snapshot.position /\ snap.channel_rows = Snapshot.channel_rows
      /\ snap.cells = cells /\ snap.cell_count = count
      /\ snap.scope_counts = Snapshot.scope_counts
      /\ snap.scope = Snapshot.scope /\ snap.vu = Snapshot.vu
  BY <1>1, <1>6, <1>8, SnapshotElim DEF SnapshotsOf
<1>. HIDE DEF snap
<1>10. Fits(snap, layouts, captures)
  <2>1. CellsShown(snap) /\ ScopeShown(snap, Layout.config.scope_sample_budget)
    BY <1>1, <1>8, <1>9, SnapshotElim DEF CellsShown, ScopeShown
  <2>. QED BY <1>1, <1>6, <1>9, <2>1, RefillFits
<1>11. InFrame(snap) /\ RowsDone(snap)
  BY <1>1, <1>9 DEF InFrame, RowsDone, IInv, CaptureInv, AskCells
<1>12. CASE Exact(returned, CellCount)
  <2>1. MovesTo("scope") /\ UNCHANGED last
    BY <1>1, <1>2, <1>12, ThenMoves DEF Asked
  <2>. QED BY <1>1, <1>7, <1>9, <1>10, <1>11, <2>1, GoesOn DEF Asked
<1>13. CASE ~Exact(returned, CellCount)
  <2>1. Ends("error")
    BY <1>2, <1>13
  <2>. QED BY <1>1, <1>7, <1>10, <1>11, <2>1, IsOver
<1>. QED BY <1>12, <1>13

(* The channel asked about has a run of its own in the scope's buffer. *)
LEMMA ScopeBounded ==
  ASSUME IInv, capture # Idle, NEW c \in 1..Len(Snapshot.scope_counts)
  PROVE  LET budget == Layout.config.scope_sample_budget
         IN  /\ budget \in Nat
             /\ (c - 1) * budget \in Nat
             /\ (c - 1) * budget + budget = c * budget
             /\ c * budget \in Nat
             /\ c * budget <= Len(Snapshot.scope)
<1>. DEFINE budget == Layout.config.scope_sample_budget
<1>1. budget \in Nat /\ ScopesOf(Info) \in Nat
  BY CaptureElim, LayoutElim DEF IInv, Info
<1>2. /\ Len(Snapshot.scope_counts) = ScopesOf(Info)
      /\ Len(Snapshot.scope) = ScopesOf(Info) * budget
  BY SnapshotElim DEF Sized, Info
<1>3. c \in 1..ScopesOf(Info) /\ c \in Nat
  BY <1>1, <1>2
<1>. HIDE DEF budget
<1>4. /\ (c - 1) * budget \in Nat
      /\ (c - 1) * budget + budget = c * budget
      /\ c * budget <= ScopesOf(Info) * budget
  BY <1>1, <1>3, RunInside
<1>5. c * budget \in Nat
  BY <1>1, <1>3, TimesNat
<1>. QED BY <1>1, <1>2, <1>4, <1>5 DEF budget

LEMMA AskScopeInv ==
  ASSUME IInv, AskScope
  PROVE  IInv'
<1>1. capture # Idle /\ capture.channel <= Len(Snapshot.scope_counts)
  BY DEF AskScope, Idle
<1>. DEFINE c == capture.channel
            budget == Layout.config.scope_sample_budget
<1>2. PICK returned \in 0..(budget + 1) :
        /\ Leaves([Snapshot EXCEPT
             !.scope = Filled(@, (c - 1) * budget, budget, returned),
             !.scope_counts = IF Overruns(returned, budget) THEN @ ELSE [@ EXCEPT ![c] = returned]])
        /\ IF Overruns(returned, budget) THEN Ends("error")
           ELSE capture' = [capture EXCEPT !.channel = c + 1] /\ UNCHANGED last
  BY DEF AskScope
<1>3. /\ Snapshot.scope \in Seq(0..captures) /\ Len(Snapshot.scope) \in Nat
      /\ Snapshot.scope_counts \in Seq(Nat) /\ Len(Snapshot.scope_counts) \in Nat
      /\ ScopeShown(Snapshot, budget)
  BY <1>1, SnapshotElim, LenProperties DEF Buffers, Counts
<1>4. /\ c \in Nat \ {0} /\ c \in 1..Len(Snapshot.scope_counts)
      /\ Snapshot.output_frame \in 0..captures /\ captures \in Nat
  BY <1>1, <1>3, CaptureElim
<1>5. /\ budget \in Nat /\ (c - 1) * budget \in Nat
      /\ (c - 1) * budget + budget <= Len(Snapshot.scope)
      /\ returned \in Nat
  BY <1>1, <1>4, ScopeBounded
<1>. DEFINE at == (c - 1) * budget
            scope == Filled(Snapshot.scope, at, budget, returned)
            counts == IF Overruns(returned, budget) THEN Snapshot.scope_counts
                      ELSE [Snapshot.scope_counts EXCEPT ![c] = returned]
            snap == [Snapshot EXCEPT !.scope = scope, !.scope_counts = counts]
<1>6. Leaves(snap)
  BY <1>2
<1>7. /\ capture.stage = "scope" /\ InFrame(Snapshot) /\ RowsDone(Snapshot)
  BY <1>1 DEF IInv, CaptureInv, AskScope
<1>8. /\ counts \in Seq(Nat)
      /\ Len(counts) = Len(Snapshot.scope_counts)
      /\ \A d \in 1..Len(counts) :
           \/ counts[d] = Snapshot.scope_counts[d]
           \/ d = c /\ counts[d] = returned /\ returned <= budget
  <2>1. \/ counts = Snapshot.scope_counts
        \/ counts = [Snapshot.scope_counts EXCEPT ![c] = returned] /\ returned <= budget
    BY <1>5 DEF Overruns
  <2>. HIDE DEF counts, c, budget
  <2>2. /\ Snapshot.scope_counts \in Seq(Nat)
        /\ c \in 1..Len(Snapshot.scope_counts)
        /\ returned \in Nat
    BY <1>3, <1>4, <1>5
  <2>3. CASE counts = Snapshot.scope_counts
    BY <2>2, <2>3
  <2>4. CASE counts = [Snapshot.scope_counts EXCEPT ![c] = returned] /\ returned <= budget
    BY <2>2, <2>4, LenProperties, ExceptSeq
  <2>. QED BY <2>1, <2>3, <2>4
<1>9. /\ scope \in Seq(0..captures)
      /\ Len(scope) = Len(Snapshot.scope)
      /\ \A i \in 1..Len(Snapshot.scope) :
           i \in (at + 1)..(at + budget) /\ i <= at + returned
             => scope[i] = Snapshot.output_frame
  <2>1. at \in Nat
    BY <1>5
  <2>2. /\ captures \in Nat /\ Snapshot.scope \in Seq(0..captures)
        /\ Snapshot.output_frame \in 0..captures /\ budget \in Nat /\ returned \in Nat
    BY <1>3, <1>4, <1>5
  <2>. HIDE DEF at, c, budget
  <2>. QED BY <2>1, <2>2, FilledSeq
<1>10. ASSUME NEW d \in 1..Len(counts)
       PROVE  /\ counts[d] <= budget
              /\ AllOf(scope, (d - 1) * budget + 1, counts[d], Snapshot.output_frame)
  <2>. HIDE DEF counts, scope
  <2>1. CASE counts[d] = Snapshot.scope_counts[d]
    <3>1. /\ Snapshot.scope_counts[d] \in Nat
          /\ Snapshot.scope_counts[d] <= budget
          /\ AllOf(Snapshot.scope, (d - 1) * budget + 1, Snapshot.scope_counts[d],
                   Snapshot.output_frame)
      BY <1>3, <1>8, ElementOfSeq DEF ScopeShown
    <3>2. /\ (d - 1) * budget \in Nat
          /\ (d - 1) * budget + budget <= Len(Snapshot.scope)
      BY <1>1, <1>8, ScopeBounded
    <3>. DEFINE before == (d - 1) * budget
                from == before + 1
    <3>3. from \in Nat \ {0} /\ from + Snapshot.scope_counts[d] <= Len(Snapshot.scope) + 1
      <4>1. /\ before \in Nat /\ before + budget <= Len(Snapshot.scope)
            /\ Snapshot.scope_counts[d] \in Nat /\ Snapshot.scope_counts[d] <= budget
        BY <3>1, <3>2
      <4>2. Len(Snapshot.scope) \in Nat /\ budget \in Nat
        BY <1>3, <1>5
      <4>. DEFINE shown == Snapshot.scope_counts[d]
                  cells == Len(Snapshot.scope)
      <4>3. /\ before \in Nat /\ before + budget <= cells /\ cells \in Nat
            /\ shown \in Nat /\ shown <= budget /\ budget \in Nat
        BY <4>1, <4>2
      <4>. HIDE DEF before, budget, shown, cells
      <4>4. before + 1 \in Nat \ {0} /\ before + 1 + shown <= cells + 1
        BY <4>3
      <4>. QED BY <4>4 DEF shown, cells
    <3>4. AllOf(Snapshot.scope, from, Snapshot.scope_counts[d], Snapshot.output_frame)
      BY <3>1
    <3>. HIDE DEF from, budget, at
    <3>5. AllOf(scope, from, Snapshot.scope_counts[d], Snapshot.output_frame)
      <4>1. at \in Nat
        BY <1>5 DEF at
      <4>. QED BY <1>3, <1>4, <1>5, <3>1, <3>3, <3>4, <4>1, FilledKeeps DEF scope
    <3>. QED BY <2>1, <3>1, <3>5 DEF from
  <2>2. CASE d = c /\ counts[d] = returned /\ returned <= budget
    <3>1. at \in Nat /\ at + budget <= Len(Snapshot.scope)
      BY <1>5
    <3>. HIDE DEF at, c, budget
    <3>2. AllOf(scope, at + 1, returned, Snapshot.output_frame)
      <4>1. returned \in Nat /\ budget \in Nat /\ Len(Snapshot.scope) \in Nat
        BY <1>3, <1>5
      <4>2. ASSUME NEW k \in (at + 1)..((at + 1) + returned - 1)
            PROVE  scope[k] = Snapshot.output_frame
        <5>1. /\ k \in 1..Len(Snapshot.scope) /\ k \in (at + 1)..(at + budget)
              /\ k <= at + returned
          BY <2>2, <3>1, <4>1
        <5>. QED BY <1>9, <5>1
      <4>. QED BY <4>2 DEF AllOf
    <3>. QED BY <2>2, <3>2 DEF at
  <2>. QED BY <1>8, <2>1, <2>2
<1>. HIDE DEF scope, counts, at
<1>11. /\ snap \in SnapshotsOf(Len(layouts), captures)
       /\ snap.layout = Snapshot.layout /\ snap.output_frame = Snapshot.output_frame
       /\ snap.position = Snapshot.position /\ snap.channel_rows = Snapshot.channel_rows
       /\ snap.cells = Snapshot.cells /\ snap.cell_count = Snapshot.cell_count
       /\ snap.scope_counts = counts
       /\ snap.scope = scope /\ snap.vu = Snapshot.vu
  <2>1. scope \in Buffers(captures) /\ counts \in Counts
    BY <1>8, <1>9 DEF Buffers, Counts
  <2>. QED BY <1>1, <2>1, SnapshotElim DEF SnapshotsOf
<1>. HIDE DEF snap
<1>12. Fits(snap, layouts, captures)
  <2>1. CellsShown(snap)
    BY <1>1, <1>11, SnapshotElim DEF CellsShown
  <2>2. ScopeShown(snap, budget)
    BY <1>8, <1>10, <1>11 DEF ScopeShown
  <2>. QED BY <1>1, <1>8, <1>9, <1>11, <2>1, <2>2, RefillFits
<1>13. InFrame(snap) /\ RowsDone(snap)
  BY <1>7, <1>11 DEF InFrame, RowsDone
<1>14. CASE Overruns(returned, budget)
  BY <1>1, <1>2, <1>6, <1>12, <1>13, <1>14, IsOver
<1>15. CASE ~Overruns(returned, budget)
  <2>1. capture' = [capture EXCEPT !.channel = c + 1] /\ UNCHANGED last
    BY <1>2, <1>15
  <2>2. MovesTo("scope")
    BY <1>1, <1>4, <1>7, <2>1, CaptureElim DEF MovesTo
  <2>. QED BY <1>1, <1>6, <1>11, <1>12, <1>13, <2>1, <2>2, GoesOn DEF Asked
<1>. QED BY <1>14, <1>15

LEMMA AskVuInv ==
  ASSUME IInv, AskVu
  PROVE  IInv'
<1>1. capture # Idle
  BY DEF AskVu, Idle
<1>. DEFINE expected == Info.scope_channels
<1>2. PICK returned \in 0..(expected + 1) :
        /\ Leaves([Snapshot EXCEPT !.vu = Filled(@, 0, expected, returned)])
        /\ Ends(IF Exact(returned, expected) THEN "ok" ELSE "error")
  BY DEF AskVu
<1>. DEFINE vu == Filled(Snapshot.vu, 0, expected, returned)
            snap == [Snapshot EXCEPT !.vu = vu]
            result == IF Exact(returned, expected) THEN "ok" ELSE "error"
<1>3. expected \in Nat /\ returned \in Nat
  BY <1>1, CaptureElim, LayoutElim DEF IInv, Info
<1>4. Snapshot.output_frame \in 0..captures /\ captures \in Nat
  BY <1>1, CaptureElim
<1>5. /\ vu \in Buffers(captures)
      /\ Len(vu) = Len(Snapshot.vu)
      /\ Len(vu) \in Nat
      /\ \A i \in 1..Len(vu) :
           i \in 1..expected /\ i <= returned => vu[i] = Snapshot.output_frame
  <2>1. Snapshot.vu \in Seq(0..captures) /\ Len(Snapshot.vu) \in Nat
    BY <1>1, SnapshotElim, LenProperties DEF Buffers
  <2>2. 0 \in Nat /\ expected \in Nat /\ returned \in Nat
    BY <1>3
  <2>. HIDE DEF expected
  <2>3. /\ vu \in Seq(0..captures)
        /\ Len(vu) = Len(Snapshot.vu)
        /\ \A i \in 1..Len(Snapshot.vu) :
             i \in (0 + 1)..(0 + expected) /\ i <= 0 + returned
               => vu[i] = Snapshot.output_frame
    BY <1>4, <2>1, <2>2, FilledSeq, SMTT(30)
  <2>. HIDE DEF vu
  <2>. QED BY <2>1, <2>2, <2>3 DEF Buffers
<1>6. Len(Snapshot.vu) = expected
  <2>1. Sized(Snapshot, Layout) /\ "Vu" \in Info.caps
    BY <1>1, SnapshotElim DEF AskVu
  <2>. QED BY <2>1 DEF Sized, VusOf, Info
<1>7. Leaves(snap) /\ Ends(result)
  BY <1>2
<1>. HIDE DEF vu, expected
<1>8. /\ snap \in SnapshotsOf(Len(layouts), captures)
      /\ snap.layout = Snapshot.layout /\ snap.output_frame = Snapshot.output_frame
      /\ snap.position = Snapshot.position /\ snap.channel_rows = Snapshot.channel_rows
      /\ snap.cells = Snapshot.cells /\ snap.cell_count = Snapshot.cell_count
      /\ snap.scope_counts = Snapshot.scope_counts
      /\ snap.scope = Snapshot.scope /\ snap.vu = vu
  BY <1>1, <1>5, SnapshotElim DEF SnapshotsOf
<1>. HIDE DEF snap
<1>9. Fits(snap, layouts, captures)
  <2>1. CellsShown(snap) /\ ScopeShown(snap, Layout.config.scope_sample_budget)
    BY <1>1, <1>8, SnapshotElim DEF CellsShown, ScopeShown
  <2>. QED BY <1>1, <1>5, <1>8, <2>1, RefillFits
<1>10. InFrame(snap) /\ RowsDone(snap)
  BY <1>1, <1>8 DEF InFrame, RowsDone, IInv, CaptureInv, AskVu
<1>11. result = "ok" => VuDone(snap)
  BY <1>3, <1>5, <1>6, <1>8 DEF VuDone, AllOf, Exact
<1>12. result \in {"ok", "error"}
  OBVIOUS
<1>. HIDE DEF result
<1>. QED BY <1>1, <1>7, <1>9, <1>10, <1>11, <1>12, IsOver

(* A snapshot that is left as it is fits, and has its rows by its stage. *)
LEMMA UntouchedFits ==
  ASSUME IInv, capture # Idle
  PROVE  /\ Fits(Snapshot, layouts, captures)
         /\ capture.stage # "position" => InFrame(Snapshot)
         /\ capture.stage \in {"cells", "scope", "vu"} => RowsDone(Snapshot)
BY DEF IInv, CaptureInv

LEMMA RefuseWindowInv ==
  ASSUME IInv, RefuseWindow
  PROVE  IInv'
<1>1. capture # Idle /\ capture.stage = "cells" /\ Leaves(Snapshot) /\ Ends("error")
  BY DEF RefuseWindow, Idle
<1>. QED BY <1>1, UntouchedFits, IsOver

LEMMA PassOverInv ==
  ASSUME IInv, PassOver
  PROVE  IInv'
<1>1. capture # Idle /\ Leaves(Snapshot)
  BY DEF PassOver, Idle
<1>2. Sized(Snapshot, Layout) /\ Info = Layout.info
  BY <1>1, SnapshotElim DEF Info
<1>3. CASE capture.stage = "rows" /\ Info.scroll_mode # "PerChannel" /\ Then("cells")
  <2>1. RowsDone(Snapshot)
    BY <1>2, <1>3 DEF Sized, RowsOf, RowsDone, AllOf
  <2>2. MovesTo("cells") /\ UNCHANGED last
    BY <1>1, <1>3, ThenMoves DEF Asked
  <2>. QED BY <1>1, <1>3, <2>1, <2>2, UntouchedFits, GoesOn DEF Asked
<1>4. CASE capture.stage = "cells" /\ ~WantsCells /\ Then("scope")
  <2>1. MovesTo("scope") /\ UNCHANGED last
    BY <1>1, <1>4, ThenMoves DEF Asked
  <2>. QED BY <1>1, <1>4, <2>1, UntouchedFits, GoesOn DEF Asked
<1>5. CASE capture.stage = "scope" /\ Then("vu")
  <2>1. MovesTo("vu") /\ UNCHANGED last
    BY <1>1, <1>5, ThenMoves DEF Asked
  <2>. QED BY <1>1, <1>5, <2>1, UntouchedFits, GoesOn DEF Asked
<1>6. CASE capture.stage = "vu" /\ "Vu" \notin Info.caps /\ Ends("ok")
  <2>1. VuDone(Snapshot)
    BY <1>2, <1>6 DEF Sized, VusOf, VuDone, AllOf
  <2>. QED BY <1>1, <1>6, <2>1, UntouchedFits, IsOver
<1>. QED BY <1>3, <1>4, <1>5, <1>6 DEF PassOver

-----------------------------------------------------------------------------
(* The theorems. *)

LEMMA NextInv == IInv /\ [Next]_vars => IInv'
<1>. SUFFICES ASSUME IInv, [Next]_vars PROVE IInv'
  OBVIOUS
<1>1. CASE UNCHANGED vars
  BY <1>1 DEF vars, IInv, CountInv, Captures, LayoutInv, States, SnapshotInv, Uncaptured,
              CaptureInv, Snapshot
<1>2. ASSUME NEW p \in Players, NEW config \in Configs, PrepareVisualization(p, config)
      PROVE  IInv'
  BY <1>2, PrepareInv
<1>3. ASSUME NEW s \in Slots, NEW l \in DOMAIN layouts, NewSnapshot(s, l)
      PROVE  IInv'
  BY <1>3, NewSnapshotInv
<1>4. ASSUME NEW p \in Players, NEW s \in Slots, BeginCapture(p, s)
      PROVE  IInv'
  BY <1>4, BeginCaptureInv
<1>5. CASE Capturing
  BY <1>5, AskPositionInv, AskRowsInv, RefuseWindowInv, AskCellsInv, AskScopeInv, AskVuInv,
     PassOverInv DEF Capturing
<1>. QED BY <1>1, <1>2, <1>3, <1>4, <1>5 DEF Next

LEMMA Inductive == Spec => []IInv
BY InitInv, NextInv, PTL DEF Spec

(* Every variable stays in its type, and what cells() and scope() slice lies
   inside the buffers, for surfaces and limits of any size. *)
THEOREM TypeCorrect == Spec => []TypeOK
<1>1. IInv => TypeOK
  <2>. SUFFICES ASSUME IInv PROVE TypeOK
    OBVIOUS
  <2>1. DOMAIN layouts = 1..Len(layouts) /\ captures \in Nat
    BY LenProperties, VisualizationAssumption DEF IInv, LayoutInv, CountInv
  <2>2. SnapshotType = SnapshotsOf(Len(layouts), captures)
    BY <2>1 DEF SnapshotType, Entries, Position, SnapshotsOf, Places, Buffers, Counts
  <2>3. ASSUME NEW s \in Slots, snapshots[s] # None
        PROVE  /\ snapshots[s] \in SnapshotType
               /\ snapshots[s].cell_count <= Len(snapshots[s].cells)
               /\ \A c \in DOMAIN snapshots[s].scope_counts :
                    (c - 1) * layouts[snapshots[s].layout].config.scope_sample_budget
                      + snapshots[s].scope_counts[c] <= Len(snapshots[s].scope)
    <3>. DEFINE snap == snapshots[s]
                layout == layouts[snap.layout]
                budget == layout.config.scope_sample_budget
    <3>1. Fits(snap, layouts, captures)
      BY <2>3 DEF IInv, SnapshotInv
    <3>2. /\ snap \in SnapshotsOf(Len(layouts), captures)
          /\ CellsShown(snap) /\ ScopeShown(snap, budget) /\ Sized(snap, layout)
      BY <3>1 DEF Fits
    <3>. HIDE DEF snap
    <3>3. /\ snap.layout \in 1..Len(layouts)
          /\ snap.scope_counts \in Seq(Nat)
      BY <3>2 DEF SnapshotsOf, Counts
    <3>4. budget \in Nat /\ ScopesOf(layout.info) \in Nat
      BY <3>3, LayoutElim DEF IInv
    <3>5. ASSUME NEW c \in 1..Len(snap.scope_counts)
          PROVE  (c - 1) * budget + snap.scope_counts[c] <= Len(snap.scope)
      <4>1. /\ Len(snap.scope_counts) = ScopesOf(layout.info)
            /\ Len(snap.scope) = ScopesOf(layout.info) * budget
        BY <3>2 DEF Sized
      <4>2. snap.scope_counts[c] <= budget /\ snap.scope_counts[c] \in Nat
        BY <3>2, <3>3, ElementOfSeq DEF ScopeShown
      <4>. HIDE DEF budget, layout
      <4>. DEFINE before == (c - 1) * budget
      <4>3. /\ before \in Nat /\ before + budget = c * budget
            /\ c * budget <= ScopesOf(layout.info) * budget
        BY <3>4, <4>1, RunInside
      <4>4. ScopesOf(layout.info) * budget \in Nat /\ c * budget \in Nat
        BY <3>4, <4>1, TimesNat
      <4>. HIDE DEF before
      <4>5. before + snap.scope_counts[c] <= Len(snap.scope)
        BY <3>4, <4>1, <4>2, <4>3, <4>4
      <4>. QED BY <4>5 DEF before
    <3>. QED BY <2>2, <3>2, <3>3, <3>5, LenProperties DEF CellsShown, snap
  <2>. QED BY <2>3 DEF TypeOK, IInv, CountInv, LayoutInv
<1>. QED BY <1>1, Inductive, PTL

(* No callback is given a buffer smaller than the capacity it is told, nor a
   capacity the ABI cannot say, whatever the surface and the windows. *)
THEOREM BuffersHold == Spec => []StorageHolds
<1>1. IInv => StorageHolds
  <2>. SUFFICES ASSUME IInv PROVE StorageHolds
    OBVIOUS
  <2>1. ASSUME capture.stage = "rows", Info.scroll_mode = "PerChannel"
        PROVE  Info.pattern_channels <= Len(Snapshot.channel_rows)
    <3>1. capture # Idle
      BY <2>1 DEF Idle
    <3>2. Len(Snapshot.channel_rows) = Info.pattern_channels /\ Info.pattern_channels \in Nat
      BY <2>1, <3>1, SnapshotElim, CaptureElim, LayoutElim DEF Sized, RowsOf, Info, IInv
    <3>. QED BY <3>2
  <2>2. ASSUME capture.stage = "cells", WantsCells, WindowFits
        PROVE  CellCount <= Len(Snapshot.cells) /\ CellCount <= MaxCount
    <3>1. capture # Idle
      BY <2>2 DEF Idle
    <3>. QED BY <2>2, <3>1, CellsBounded
  <2>3. ASSUME capture.stage = "scope", capture.channel <= Len(Snapshot.scope_counts)
        PROVE  capture.channel * Layout.config.scope_sample_budget <= Len(Snapshot.scope)
    <3>1. capture # Idle
      BY <2>3 DEF Idle
    <3>2. capture.channel \in 1..Len(Snapshot.scope_counts)
      BY <2>3, <3>1, CaptureElim, SnapshotElim, LenProperties DEF Counts
    <3>. QED BY <3>1, <3>2, ScopeBounded
  <2>4. ASSUME capture.stage = "vu", "Vu" \in Info.caps
        PROVE  Info.scope_channels <= Len(Snapshot.vu)
    <3>1. capture # Idle
      BY <2>4 DEF Idle
    <3>2. Len(Snapshot.vu) = Info.scope_channels /\ Info.scope_channels \in Nat
      BY <2>4, <3>1, SnapshotElim, CaptureElim, LayoutElim DEF Sized, VusOf, Info, IInv
    <3>. QED BY <3>2
  <2>. QED BY <2>1, <2>2, <2>3, <2>4 DEF StorageHolds
<1>. QED BY <1>1, Inductive, PTL

(* What a snapshot shows is of the output frame it is stamped with, through any
   sequence of captures that succeed and captures that fail. *)
THEOREM SameInstant == Spec => []ShowsItsFrame
<1>1. IInv => ShowsItsFrame
  <2>. SUFFICES ASSUME IInv, NEW s \in Slots, snapshots[s] # None,
                       capture # Idle => capture.slot # s
                PROVE  /\ InFrame(snapshots[s])
                       /\ CellsShown(snapshots[s])
                       /\ ScopeShown(snapshots[s],
                            layouts[snapshots[s].layout].config.scope_sample_budget)
                       /\ DOMAIN snapshots[s].scope_counts = 1..Len(snapshots[s].scope_counts)
                       /\ last[s] = "ok" => RowsDone(snapshots[s]) /\ VuDone(snapshots[s])
    BY DEF ShowsItsFrame, InFrame, CellsShown, ScopeShown, RowsDone, VuDone
  <2>1. Fits(snapshots[s], layouts, captures)
    BY DEF IInv, SnapshotInv
  <2>2. snapshots[s] \in SnapshotsOf(Len(layouts), captures)
    BY <2>1 DEF Fits
  <2>3. snapshots[s].scope_counts \in Seq(Nat)
    BY <2>2 DEF SnapshotsOf, Counts
  <2>. QED BY <2>1, <2>3, LenProperties DEF IInv, SnapshotInv, Uncaptured, Fits
<1>. QED BY <1>1, Inductive, PTL

(* A snapshot made for a song can be captured into for as long as the song is
   open: the player's layout is the one the snapshot was made for. *)
THEOREM SnapshotsMatch == Spec => []OwnSnapshotsMatch
<1>1. IInv => OwnSnapshotsMatch
  <2>. SUFFICES ASSUME IInv, NEW s \in Slots, snapshots[s] # None
                PROVE  LET p == layouts[snapshots[s].layout].player
                       IN  visualization[p].state = "Ready" /\ Matches(p, s)
    BY DEF OwnSnapshotsMatch
  <2>1. Fits(snapshots[s], layouts, captures)
    BY DEF IInv, SnapshotInv
  <2>2. snapshots[s] \in SnapshotsOf(Len(layouts), captures)
    BY <2>1 DEF Fits
  <2>3. snapshots[s].layout \in 1..Len(layouts)
    BY <2>2 DEF SnapshotsOf
  <2>. QED BY <2>3 DEF Matches, IInv, LayoutInv
<1>. QED BY <1>1, Inductive, PTL
=============================================================================
