CONSTANTS
  t1 = t1
  t2 = t2
  t3 = t3
  s1 = s1
  sem = sem
  sync = sync
  notif = notif
  NULL = NULL
  Unowned = Unowned
  Lockers <- ThreeThreads
  Timed <- OneTimed
  Threads <- TwoThreads
  Signallers <- OneSignaller
  Sems <- JustSem
  SyncEvents <- JustSync
  NotifEvents <- JustNotif
  MaxSignals = 2
  Parts <- Everything
SPECIFICATION ProgressSpec
INVARIANTS MutexTypeOK MutualExclusion NoLostWakeup
INVARIANTS BlocksAreExact SignaledHasNoWaiter SemaphoreConservation OutcomeMatchesSignals TimerEndsWithWait
PROPERTIES FreeMutexIsTaken TimedWaitReturns UnwaitedReturns ExitedIsFreed ExitIsNoticed CallsAreExecuted
CHECK_DEADLOCK FALSE
