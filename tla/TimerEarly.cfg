CONSTANTS
  Timers = {t1}
  Seconds = {0, 1}
  Usecs = {0, 500000}
  Durations <- LongDurations
  Points <- LaterPoints
  UINT64_MAX = 1000000000
SPECIFICATION Spec
INVARIANT NotEarly
CHECK_DEADLOCK FALSE
