CONSTANTS
  t1 = t1
  t2 = t2
  t3 = t3
  NULL = NULL
  Threads <- ThreeThreads
  Timed <- Nobody
  Upgraders <- Nobody
SPECIFICATION FairSpec
PROPERTY FreeLockWakesSleepers
CHECK_DEADLOCK FALSE
