SPECIFICATION Spec
CONSTANTS
  Bytes <- MCBytes
  MaxSize = 4
  Patterns <- MCPatterns
INVARIANTS
  TypeOK
  SumIsRemainder
  BurstChangesSum
CHECK_DEADLOCK FALSE
