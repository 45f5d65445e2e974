CONSTANTS
  Regs = {"uade", "openmpt"}
  Ids = {"filter"}
  Exts = {}
  Global = ""
  Values = {1, 2}
  Kind <- IntKind
  NulValues = {}
  Schemas <- IntSchema
  Stores <- MCEmpty
  Callers = {c1, c2}
  MaxOrder = 2
  MaxRevision = 3
  MaxRestarts = 1
SPECIFICATION FairSpec
INVARIANTS
  SavingHasOneOwner
PROPERTIES
  SavingIsReleased
  DurablePromise
CHECK_DEADLOCK FALSE
