CONSTANTS
  MaxLen = 5
  Limits = {3, 4}
SPECIFICATION Spec
INVARIANTS
  ReadsOnlyItsString
  TextIsLongest
  CutIsNotInvalid
CHECK_DEADLOCK FALSE
