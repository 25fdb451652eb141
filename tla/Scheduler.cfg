CONSTANTS
  Workers = {w1, w2}
  Coros = {c1, c2, c3, c4}
  QueueLength = 2
  BatchSize = 2
  MaxSuspends = 2
  Main = Main
  NoCoro = NoCoro
  NoWorker = NoWorker
SYMMETRY Symmetry
SPECIFICATION Spec
INVARIANTS
  TypeOK
  Exclusive
  ResumableIsSaved
  StackAlive
  StartedNotLost
  AstrayOnlyMigrated
PROPERTY RefinesLifecycle
CHECK_DEADLOCK FALSE
