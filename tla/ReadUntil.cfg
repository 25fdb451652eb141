CONSTANTS
  a = a
  b = b
  Bytes = {a, b}
  Delims <- SomeDelims
  BufferSize = 2
  MaxContent = 6
SPECIFICATION Spec
INVARIANTS
  TypeOK
  NeverMissed
  MatchIsReal
  SearchPointSafe
