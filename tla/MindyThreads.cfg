SPECIFICATION FairSpec
CONSTANTS
  Threads <- MCThreads
  Locks = {l1}
  Events = {e1}
  NoThread = NoThread
  NoObj = NoObj
  OwnersOnly = TRUE
  MaxSuspend = 1
INVARIANTS TypeOK EveryThreadInItsPlace WaitedLocksAreLocked MutualExclusion SuspendedIffCounted CurrentIsRunning
PROPERTIES NoOvertaking NobodyStarves
CHECK_DEADLOCK FALSE
