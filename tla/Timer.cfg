CONSTANTS
  Timers = {t1, t2}
  Seconds = {0, 1}
  Usecs = {0, 500000, 999999}
  Durations <- ShortDurations
  Points <- LaterPoints
  UINT64_MAX = 1000000000
SPECIFICATION FairSpec
INVARIANTS
  TypeOK
  NearestIsMin
  SubSecondNotEarly
PROPERTY DueFires
CHECK_DEADLOCK FALSE
