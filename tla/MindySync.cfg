SPECIFICATION SyncSpec
CONSTANTS
  Threads <- MCThreeThreads
  Semaphore = sem
  Multilock = mul
  Locks = {sem, mul}
  UserEvent = event
  Available <- MCAvailable
  Events <- MCEvents
  NoThread = NoThread
  NoObj = NoObj
  OwnersOnly = TRUE
  MaxSuspend = 0
  MaxDepth = 2
INVARIANTS SpinlockHeldInside
PROPERTIES SemaphoreKeepsPromise MultilockKeepsPromise
CHECK_DEADLOCK FALSE
