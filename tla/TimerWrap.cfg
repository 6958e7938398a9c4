CONSTANTS
  NULL = NULL
  REAL_TIME = 17
  Cpus <- TwoCpus
  Threads <- SmpThreads
  Prio <- SmpPrio
  Reaper = "rp"
  MaxPid = 4
  TimerSet <- TwoTimers
  Pids <- FourPids
  Ids <- FourPids
  Deltas <- SomeDeltas
  TimeMod = 50
  MS = 2
  Step = 1
  LapicMod = 64
  MaxSince = 3
  MaxLate = 4
  Parts <- JustTimers
SPECIFICATION KernelSpec
INVARIANT HardwareIsOnTime
CHECK_DEADLOCK FALSE
