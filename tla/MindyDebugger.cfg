SPECIFICATION DebugSpec
CONSTANTS
  Threads <- MCThreads
  Locks = {l1}
  Events = {e1}
  NoThread = NoThread
  NoObj = NoObj
  OwnersOnly = TRUE
  MaxSuspend = 1
  Uses = {{"fresh", "killed", "disabled", "refused", "unwound", "flush"}}
  MaxFrames <- MCMaxFrames
  MaxCount <- MCMaxCount
INVARIANTS OnlyDisableSuspends ContinuationsFindFrames NobodyLeftBehind SelectedExists
CHECK_DEADLOCK FALSE
