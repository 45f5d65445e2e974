CONSTANTS
  Regs = {"uade", "openmpt"}
  Ids <- MCIds
  Exts <- MCExts
  Global = ""
  Values <- MCValues
  Kind <- MCKind
  NulValues = {"nul"}
  Schemas <- MCSchemasUpgraded
  Stores <- MCStores
  Callers = {c1, c2}
  MaxOrder = 3
  MaxRevision = 1
  MaxRestarts = 1
SYMMETRY Symmetry
SPECIFICATION Spec
INVARIANTS
  TypeOK
  PendingHasOneOwner
  ListedInOrder
  CleanIsDurable
PROPERTIES
  InternedStable
CHECK_DEADLOCK FALSE
