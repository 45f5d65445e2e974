CONSTANTS
  p1 = p1
  p2 = p2
  p3 = p3
  PluginOrder <- MCPluginOrder
  Incomplete = {p2, p3}
  Passless = {p3}
  Slots = {s1, s2}
  None = None
  MaxSongs = 2
  MaxTakes = 1
SPECIFICATION Spec
INVARIANT FailedCallLeavesNothing
CHECK_DEADLOCK FALSE
