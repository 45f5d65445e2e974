CONSTANTS
  Regs = {"uade", "openmpt"}
  Ids = {"filter"}
  Exts = {}
  Global = ""
  Values = {1, 2}
  Kind <- IntKind
  NulValues = {}
  Schemas <- IntSchema
  Stores <- MCEmpty
  Callers = {c1, c2}
  MaxOrder = 2
  MaxRevision = 3
  MaxRestarts = 0
SPECIFICATION Spec
PROPERTY FlushWritesEveryChange
CHECK_DEADLOCK FALSE
