CONSTANTS
  t1 = t1
  t2 = t2
  s1 = s1
  sync = sync
  NULL = NULL
  Threads <- TwoThreads
  Signallers <- OneSignaller
  Sems <- Nothing
  SyncEvents <- JustSync
  NotifEvents <- Nothing
  MaxSignals = 1
SPECIFICATION FairSpec
CHECK_DEADLOCK FALSE
PROPERTY AlarmIsDelivered
