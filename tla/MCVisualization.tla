-------------------------- MODULE MCVisualization --------------------------
(* A small instance of Visualization: surfaces with every capability and with  *)
(* few, in both scroll modes, and some that prepare_layout refuses, windows of *)
(* no, one and two rows and an inverted one.                                   *)
EXTENDS Visualization, TLC

Surface(caps, mode, channels, scopes, columns) ==
  [caps |-> caps, scroll_mode |-> mode, pattern_channels |-> channels,
   scope_channels |-> scopes, columns |-> columns]

MCInfos ==
  {Surface(Caps, "PerChannel", 1, 2, 1),
   Surface({"PatternCells"}, "Synchronized", 1, 0, 2),
   Surface({"Scope"}, "Synchronized", 0, 1, 0),
   Surface(Caps, "unknown", 1, 1, 1), Surface(Caps, "PerChannel", 3, 1, 1),
   Surface(Caps, "PerChannel", 1, 3, 1), Surface(Caps, "PerChannel", 1, 1, 3),
   Surface(Caps, "PerChannel", 2, 2, 2)}

Config(scope, rows) == [scope_sample_budget |-> scope, pattern_row_budget |-> rows]
MCConfigs == {Config(1, 1), Config(1, 2)}

Window(lo, hi) == [lo |-> lo, hi |-> hi]
MCWindows == {Window(1, 1), Window(1, 2), Window(0, 2), Window(2, 1)}

Symmetry == Permutations(Players) \cup Permutations(Slots)
=============================================================================
