CONSTANTS
  Players = {player1, player2}
  Slots = {s1, s2}
  None = None
  Infos <- MCInfos
  Configs <- MCConfigs
  Windows <- MCWindows
  MaxPatternChannels = 2
  MaxScopeChannels = 2
  MaxPatternColumns = 2
  MaxCount = 4
  MaxSnapshots = 2
  MaxCaptures = 2
SYMMETRY Symmetry
SPECIFICATION Spec
INVARIANTS
  TypeOK
  StorageHolds
  ShowsItsFrame
  OwnSnapshotsMatch
CHECK_DEADLOCK FALSE
