--------------------------- MODULE Visualization ---------------------------
(***************************************************************************)
(* Visualization of open songs: prepare_visualization and                  *)
(* capture_visualization of session/mod.rs, over prepare_layout,           *)
(* new_snapshot and capture_snapshot of visualization.rs.                  *)
(*                                                                         *)
(* A capture asks the plugin up to five things in turn, each into a buffer *)
(* of the snapshot, and gives up at the first wrong count; one action per  *)
(* callback.  What a callback leaves in a buffer is known by the capture   *)
(* that asked for it, so an entry is the output frame it was written for,  *)
(* 0 being the zeroes of allocation.  A plugin writes as many entries as   *)
(* it reports, up to the capacity it was given; a callback it lacks counts *)
(* as one that reports nothing.                                            *)
(*                                                                         *)
(* A snapshot is borrowed for the length of its capture and a layout never *)
(* changes, so captures of players on different threads do not meet, and   *)
(* one runs at a time.  A call that is refused before it has changed       *)
(* anything is no step.                                                    *)
(***************************************************************************)
EXTENDS Integers, Sequences

CONSTANTS
  Players,             \* open songs
  Slots,               \* the host's snapshot variables
  None,                \* no snapshot, no position, no layout
  Infos,               \* what viz_info may report, limits exceeded too
  Configs,             \* the limits a host may ask for
  Windows,             \* windows tracker_position may report, inverted ones too
  MaxPatternChannels,  \* MAX_PATTERN_CHANNELS
  MaxScopeChannels,    \* MAX_SCOPE_CHANNELS
  MaxPatternColumns,   \* MAX_PATTERN_COLUMNS
  MaxCount,            \* u32::MAX, the largest count of the ABI
  MaxSnapshots,        \* bound: snapshots allocated
  MaxCaptures          \* bound: captures begun

ScrollModes == {"Synchronized", "PerChannel"}
Caps        == {"PatternCells", "Scope", "Vu"}

ASSUME VisualizationAssumption ==
  /\ Infos \subseteq [caps : SUBSET Caps, scroll_mode : STRING,
                      pattern_channels : Nat, scope_channels : Nat, columns : Nat]
  /\ Configs \subseteq [scope_sample_budget : Nat, pattern_row_budget : Nat]
  /\ Windows \subseteq [lo : Nat, hi : Nat]
  /\ {MaxPatternChannels, MaxScopeChannels, MaxPatternColumns, MaxCount} \subseteq Nat
  /\ {MaxSnapshots, MaxCaptures} \subseteq Nat

VARIABLES
  visualization,  \* Player.visualization
  layouts,        \* every VizLayout made, by the order they were made in
  snapshots,      \* the snapshot in each variable
  allocated,      \* snapshots allocated so far (history)
  capture,        \* the capture that runs, or Idle
  captures,       \* captures begun, the output frame of the last one
  last            \* how the last capture into each variable ended (history)

vars == <<visualization, layouts, snapshots, allocated, capture, captures, last>>

Unprepared == [state |-> "Unprepared"]
Idle       == [stage |-> "idle"]

-----------------------------------------------------------------------------
(* Preparing. *)

CellCapacity(info, config) ==
  config.pattern_row_budget * info.pattern_channels * info.columns

(* What prepare_layout takes of viz_info's answer. *)
Acceptable(info, config) ==
  /\ info.scroll_mode \in ScrollModes
  /\ info.pattern_channels <= MaxPatternChannels
  /\ info.scope_channels <= MaxScopeChannels
  /\ info.columns <= MaxPatternColumns
  /\ CellCapacity(info, config) <= MaxCount

(* Fault: a new configuration is prepared in place of the old one. *)
UnpreparedOrChanged(p, config) ==
  "config" \in DOMAIN visualization[p] => visualization[p].config # config

(* prepare_visualization goes to the plugin only the first time. *)
ToPrepare(p, config) == visualization[p].state = "Unprepared"

(* viz_info reports nothing, or a surface that is acceptable and whose columns
   and channels are then reported in full; anything else is refused. *)
PrepareVisualization(p, config) ==
  /\ capture = Idle
  /\ ToPrepare(p, config)
  /\ \/ /\ visualization' = [visualization EXCEPT ![p] =
             [state |-> "Absent", config |-> config]]
        /\ UNCHANGED layouts
     \/ \E info \in Infos :
          /\ Acceptable(info, config)
          /\ layouts' = Append(layouts,
               [player |-> p, info |-> info, config |-> config,
                cell_capacity |-> CellCapacity(info, config)])
          /\ visualization' = [visualization EXCEPT ![p] =
               [state |-> "Ready", config |-> config, layout |-> Len(layouts')]]
  /\ UNCHANGED <<snapshots, allocated, capture, captures, last>>

Zeroes(n) == [i \in 1..n |-> 0]

(* new_snapshot's buffers, each as large as its layout says. *)
EmptySnapshot(l) ==
  LET info == layouts[l].info
      If(cond, n) == IF cond THEN Zeroes(n) ELSE <<>>
  IN  [layout       |-> l,
       output_frame |-> 0,
       position     |-> None,
       channel_rows |-> If(info.scroll_mode = "PerChannel", info.pattern_channels),
       cells        |-> Zeroes(layouts[l].cell_capacity),
       cell_count   |-> 0,
       scope_counts |-> If("Scope" \in info.caps, info.scope_channels),
       scope        |-> If("Scope" \in info.caps,
                           info.scope_channels * layouts[l].config.scope_sample_budget),
       vu           |-> If("Vu" \in info.caps, info.scope_channels)]

NewSnapshot(s, l) ==
  /\ capture = Idle
  /\ allocated < MaxSnapshots
  /\ allocated' = allocated + 1
  /\ snapshots' = [snapshots EXCEPT ![s] = EmptySnapshot(l)]
  /\ last' = [last EXCEPT ![s] = "none"]
  /\ UNCHANGED <<visualization, layouts, capture, captures>>

-----------------------------------------------------------------------------
(* Capturing. *)

(* Fault: a snapshot of any layout will do. *)
MatchesAny(p, s) == snapshots[s] # None

(* Arc::ptr_eq of the player's layout and the snapshot's. *)
Matches(p, s) ==
  /\ snapshots[s] # None
  /\ snapshots[s].layout = visualization[p].layout

(* Fault: the cells of the last capture are left to be counted. *)
StampedOnly(snapshot, frame) == [snapshot EXCEPT !.output_frame = frame]

(* What capture_snapshot clears before it asks for anything. *)
Cleared(snapshot, frame) ==
  [snapshot EXCEPT !.output_frame = frame, !.cell_count = 0,
                   !.scope_counts = [c \in DOMAIN @ |-> 0]]

BeginCapture(p, s) ==
  /\ capture = Idle
  /\ visualization[p].state = "Ready"
  /\ Matches(p, s)
  /\ captures < MaxCaptures
  /\ captures' = captures + 1
  /\ snapshots' = [snapshots EXCEPT ![s] = Cleared(@, captures')]
  /\ capture' = [stage |-> "position", layout |-> visualization[p].layout,
                 slot |-> s, channel |-> 1]
  /\ UNCHANGED <<visualization, layouts, allocated, last>>

Snapshot == snapshots[capture.slot]
Layout   == layouts[capture.layout]
Info     == Layout.info

(* A buffer after a plugin given n entries of it from `at` on reported `count`. *)
Filled(buffer, at, n, count) ==
  [i \in DOMAIN buffer |->
     IF i - at \in 1..n /\ i - at <= count THEN Snapshot.output_frame ELSE buffer[i]]

(* The step of a capture: the snapshot it leaves, and what comes next. *)
Leaves(snapshot) ==
  /\ snapshots' = [snapshots EXCEPT ![capture.slot] = snapshot]
  /\ UNCHANGED <<visualization, layouts, allocated, captures>>
Then(stage)  == capture' = [capture EXCEPT !.stage = stage] /\ UNCHANGED last
Ends(result) == capture' = Idle /\ last' = [last EXCEPT ![capture.slot] = result]

(* check_exact *)
Exact(returned, expected) == returned = expected

(* Fault: one sample past the budget is counted. *)
OverrunsByTwo(returned, budget) == returned > budget + 1

(* More was reported than there was room for. *)
Overruns(returned, budget) == returned > budget

AskPosition ==
  /\ capture.stage = "position"
  /\ \E w \in Windows \cup {None} :
       Leaves([Snapshot EXCEPT !.position =
         IF w = None THEN None
         ELSE [lo |-> w.lo, hi |-> w.hi, frame |-> Snapshot.output_frame]])
  /\ Then("rows")

AskRows ==
  /\ capture.stage = "rows"
  /\ Info.scroll_mode = "PerChannel"
  /\ LET expected == Info.pattern_channels
     IN \E returned \in 0..(expected + 1) :
          /\ Leaves([Snapshot EXCEPT !.channel_rows = Filled(@, 0, expected, returned)])
          /\ IF Exact(returned, expected) THEN Then("cells") ELSE Ends("error")

WantsCells == Snapshot.position # None /\ "PatternCells" \in Info.caps
Rows       == Snapshot.position.hi - Snapshot.position.lo
CellCount  == Rows * Info.pattern_channels * Info.columns

(* The window is not inverted, and no higher than the rows there is room for. *)
WindowFits == Rows >= 0 /\ Rows <= Layout.config.pattern_row_budget

RefuseWindow ==
  /\ capture.stage = "cells"
  /\ WantsCells /\ ~WindowFits
  /\ Leaves(Snapshot)
  /\ Ends("error")

AskCells ==
  /\ capture.stage = "cells"
  /\ WantsCells /\ WindowFits
  /\ \E returned \in 0..(CellCount + 1) :
       /\ Leaves([Snapshot EXCEPT
            !.cells = Filled(@, 0, CellCount, returned),
            !.cell_count = IF Exact(returned, CellCount) THEN CellCount ELSE @])
       /\ IF Exact(returned, CellCount) THEN Then("scope") ELSE Ends("error")

(* One channel's samples: fewer than the budget are taken, more are refused. *)
AskScope ==
  /\ capture.stage = "scope"
  /\ capture.channel <= Len(Snapshot.scope_counts)
  /\ LET c == capture.channel
         budget == Layout.config.scope_sample_budget
     IN \E returned \in 0..(budget + 1) :
          /\ Leaves([Snapshot EXCEPT
               !.scope = Filled(@, (c - 1) * budget, budget, returned),
               !.scope_counts = IF Overruns(returned, budget) THEN @ ELSE [@ EXCEPT ![c] = returned]])
          /\ IF Overruns(returned, budget) THEN Ends("error")
             ELSE capture' = [capture EXCEPT !.channel = c + 1] /\ UNCHANGED last

AskVu ==
  /\ capture.stage = "vu"
  /\ "Vu" \in Info.caps
  /\ LET expected == Info.scope_channels
     IN \E returned \in 0..(expected + 1) :
          /\ Leaves([Snapshot EXCEPT !.vu = Filled(@, 0, expected, returned)])
          /\ Ends(IF Exact(returned, expected) THEN "ok" ELSE "error")

(* What the layout or the position leaves out is passed over. *)
PassOver ==
  /\ \/ capture.stage = "rows" /\ Info.scroll_mode # "PerChannel" /\ Then("cells")
     \/ capture.stage = "cells" /\ ~WantsCells /\ Then("scope")
     \/ capture.stage = "scope" /\ capture.channel > Len(Snapshot.scope_counts) /\ Then("vu")
     \/ capture.stage = "vu" /\ "Vu" \notin Info.caps /\ Ends("ok")
  /\ Leaves(Snapshot)

-----------------------------------------------------------------------------
Init ==
  /\ visualization = [p \in Players |-> Unprepared]
  /\ layouts = <<>>
  /\ snapshots = [s \in Slots |-> None]
  /\ allocated = 0
  /\ capture = Idle
  /\ captures = 0
  /\ last = [s \in Slots |-> "none"]

Capturing ==
  \/ AskPosition \/ AskRows \/ RefuseWindow \/ AskCells \/ AskScope \/ AskVu
  \/ PassOver

Next ==
  \/ \E p \in Players, config \in Configs : PrepareVisualization(p, config)
  \/ \E s \in Slots, l \in DOMAIN layouts : NewSnapshot(s, l)
  \/ \E p \in Players, s \in Slots : BeginCapture(p, s)
  \/ Capturing

Spec == Init /\ [][Next]_vars

-----------------------------------------------------------------------------
States ==
  {Unprepared} \cup [state : {"Absent"}, config : Configs]
  \cup [state : {"Ready"}, config : Configs, layout : DOMAIN layouts]

Position == [lo : Nat, hi : Nat, frame : 1..captures]

Captures ==
  {Idle} \cup [stage : {"position", "rows", "cells", "scope", "vu"},
               layout : DOMAIN layouts, slot : Slots, channel : Nat \ {0}]

Entries == 0..captures

SnapshotType ==
  [layout : DOMAIN layouts, output_frame : Entries, position : Position \cup {None},
   channel_rows : Seq(Entries), cells : Seq(Entries), cell_count : Nat,
   scope_counts : Seq(Nat), scope : Seq(Entries), vu : Seq(Entries)]

(* Every variable stays in its type, and what the accessors slice lies inside
   the buffers: cells() and scope() never panic, after any capture. *)
TypeOK ==
  /\ visualization \in [Players -> States]
  /\ snapshots \in [Slots -> SnapshotType \cup {None}]
  /\ capture \in Captures
  /\ allocated \in 0..MaxSnapshots
  /\ captures \in 0..MaxCaptures
  /\ last \in [Slots -> {"none", "ok", "error"}]
  /\ \A s \in Slots : snapshots[s] # None =>
       LET budget == layouts[snapshots[s].layout].config.scope_sample_budget
       IN  /\ snapshots[s].cell_count <= Len(snapshots[s].cells)
           /\ \A c \in DOMAIN snapshots[s].scope_counts :
                (c - 1) * budget + snapshots[s].scope_counts[c] <= Len(snapshots[s].scope)

(* Every callback is given a buffer at least as large as the capacity it is
   told, and one the ABI's u32 can say: the capacity comes from the player's
   layout, the buffer from the snapshot's, and the window from the plugin
   (capture_snapshot). *)
StorageHolds ==
  /\ capture.stage = "rows" /\ Info.scroll_mode = "PerChannel" =>
       Info.pattern_channels <= Len(Snapshot.channel_rows)
  /\ capture.stage = "cells" /\ WantsCells /\ WindowFits =>
       CellCount <= Len(Snapshot.cells) /\ CellCount <= MaxCount
  /\ capture.stage = "scope" /\ capture.channel <= Len(Snapshot.scope_counts) =>
       capture.channel * Layout.config.scope_sample_budget <= Len(Snapshot.scope)
  /\ capture.stage = "vu" /\ "Vu" \in Info.caps =>
       Info.scope_channels <= Len(Snapshot.vu)

AllOf(buffer, from, n, frame) == \A i \in from..(from + n - 1) : buffer[i] = frame

(* "Position, cells, and scope all reference the same instant": what a snapshot
   shows of them is of the output frame it is stamped with, after captures that
   failed half way too; the rows and the levels are, once a capture succeeds
   (capture_snapshot, cells, scope). *)
ShowsItsFrame ==
  \A s \in Slots :
    snapshots[s] # None /\ (capture # Idle => capture.slot # s) =>
      LET snap   == snapshots[s]
          frame  == snap.output_frame
          budget == layouts[snap.layout].config.scope_sample_budget
      IN  /\ snap.position # None => snap.position.frame = frame
          /\ AllOf(snap.cells, 1, snap.cell_count, frame)
          /\ \A c \in DOMAIN snap.scope_counts :
               AllOf(snap.scope, (c - 1) * budget + 1, snap.scope_counts[c], frame)
          /\ last[s] = "ok" => /\ AllOf(snap.channel_rows, 1, Len(snap.channel_rows), frame)
                               /\ AllOf(snap.vu, 1, Len(snap.vu), frame)

(* A song is laid out once, so every snapshot made for it can be captured into
   for as long as it is open, whatever was prepared again since
   (prepare_visualization, the ptr_eq of capture_snapshot). *)
OwnSnapshotsMatch ==
  \A s \in Slots : snapshots[s] # None =>
    LET p == layouts[snapshots[s].layout].player
    IN  visualization[p].state = "Ready" /\ Matches(p, s)
=============================================================================
