CONSTANTS
  Capacity = 3
  Values = {v1, v2}
  Garbage = Garbage
  BatchSize = 3
  MaxListed = 4
  NoTask = NoTask
SPECIFICATION Spec
INVARIANT TypeOK
PROPERTY RefinesFifo
