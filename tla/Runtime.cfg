CONSTANTS
  Workers = {w1, w2}
  Coros = {c1, c2, c3}
  QueueLength = 1
  BatchSize = 1
  MaxSuspends = 1
  Main = Main
  NoCoro = NoCoro
  NoWorker = NoWorker
SPECIFICATION RuntimeFairSpec
INVARIANTS
  RuntimeTypeOK
  InitBeforeUse
  FreedAlone
PROPERTY StartedRuns
CHECK_DEADLOCK FALSE
