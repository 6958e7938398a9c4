CONSTANTS
  t1 = t1
  t2 = t2
  t3 = t3
  NULL = NULL
  Threads <- ThreeThreads
  Timed <- Nobody
  Upgraders <- Nobody
  min_addr = 1
  max_addr = 5
  Hints <- TwoHints
  Lengths <- TwoLengths
  Objects <- TwoObjects
  Nil = Nil
  Cpus <- TwoCpus
  Procs <- TwoProcs
  Init1 = "q"
  Users <- FourThreads
  Maps <- ThreeMaps
  Parts <- JustPmm
SPECIFICATION ResSpec
INVARIANT BuddyIsOnList
CHECK_DEADLOCK FALSE
