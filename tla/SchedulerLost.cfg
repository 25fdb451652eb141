CONSTANTS
  Workers = {w1}
  Coros = {c1, c2}
  QueueLength = 2
  BatchSize = 2
  MaxSuspends = 2
  Main = Main
  NoCoro = NoCoro
  NoWorker = NoWorker
SPECIFICATION Spec
INVARIANT SuspendedNotLost
