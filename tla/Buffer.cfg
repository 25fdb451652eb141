CONSTANTS
  InitCapacity = 6
  MaxCapacity = 9
  Threshold = 2
  MaxChunk = 4
  MaxBytes = 16
  SizeRange = 256
SPECIFICATION Spec
INVARIANTS
  TypeOK
  ContentIsStream
  OverflowCauses
CHECK_DEADLOCK FALSE
