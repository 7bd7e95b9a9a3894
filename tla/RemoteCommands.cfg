SPECIFICATION Spec
CONSTANTS
  r1 = r1
  r2 = r2
  x1 = x1
  x2 = x2
  None = None
  Restarts <- OneRestart
  Releases <- OneRelease
  RestartTtl = 2
  ReleaseTtl = 1
  MaxLag = 1
  FeedTries = 1
  QueueCap = 1
  MaxNow = 3
  MaxCrashes = 1
INVARIANTS ReleaseOnce RestartOnce ConfirmedIsDone
PROPERTIES ReleaseFresh RestartKept
