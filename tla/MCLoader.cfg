CONSTANTS
  Files = {1, 2, 3}
  Directory = Directory
  Missing = Missing
  InDirectory = {1, 2}
  Batches <- MCBatches
  KindOrder <- MCKindOrder
  Versions = {1, 2}
  ApiVersion = 2
  Names = {1, 2, 3}
  Libraries <- MCLibraries
  Orders <- MCOrders
  None = None
SPECIFICATION Spec
INVARIANTS
  TypeOK
  FirstValidWins
  ProbeOrderFollowed
  FirstClaimWins
CHECK_DEADLOCK FALSE
