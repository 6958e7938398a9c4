CONSTANTS
  t1 = t1
  t2 = t2
  t3 = t3
  NULL = NULL
  Threads <- ThreeThreads
  Timed <- OneTimed
  Upgraders <- ThreeThreads
  min_addr = 1
  max_addr = 5
  Hints <- TwoHints
  Lengths <- TwoLengths
  Objects <- TwoObjects
  Nil = Nil
  Cpus <- TwoCpus
  Procs <- TwoProcs
  Init1 = "q"
  Users <- FourThreads
  Maps <- ThreeMaps
  Parts <- Everything
SPECIFICATION ResSpec
INVARIANTS LockIsExact PagesAreExact ArenasAreExact CacheIsExact EntriesAreSound TablesAreSound
INVARIANTS PageTablesAreSound DescriptorsAreExact NamespaceIsExact MapsAreSafe
PROPERTIES ImplementsPageSpace
CHECK_DEADLOCK FALSE
