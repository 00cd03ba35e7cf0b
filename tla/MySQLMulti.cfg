SPECIFICATION Spec
CONSTANTS
  MaxSets = 3
  MaxRows = 1
  MaxCols = 2
  NetCap = 2
  FlagCap = 2
CHECK_DEADLOCK FALSE
INVARIANT MultiStatementMasked
