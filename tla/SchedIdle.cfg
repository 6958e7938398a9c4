CONSTANTS
  NULL = NULL
  REAL_TIME = 17
  Cpus <- TwoCpus
  Threads <- SmpThreads
  Prio <- SmpPrio
  Reaper = "rp"
  MaxPid = 4
  TimerSet <- TwoTimers
  Pids <- FourPids
  Ids <- FourPids
  Deltas <- SomeDeltas
  TimeMod = 64
  MS = 2
  Step = 3
  LapicMod = 4
  MaxSince = 3
  MaxLate = 4
  Parts <- JustSmp
SPECIFICATION KernelSpec
INVARIANT IdleMeansNothingReady
CHECK_DEADLOCK FALSE
