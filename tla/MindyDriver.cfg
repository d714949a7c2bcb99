SPECIFICATION DriverSpec
CONSTANTS
  Threads <- MCThreads
  Locks = {}
  Events <- MCEvents
  NumberOf <- MCNumberOf
  ReadEvents <- MCReadEvents
  NoThread = NoThread
  NoObj = NoObj
  OwnersOnly = TRUE
  MaxSuspend = 1
  OpsPerSlice = 2
INVARIANTS WaitersAreWatched NotInsideYet
PROPERTIES ReadyWakes PendingIsDelivered InterruptReachesPrompt
CHECK_DEADLOCK FALSE
