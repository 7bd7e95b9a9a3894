SPECIFICATION FairSpec
CONSTANTS
  r1 = r1
  r2 = r2
  x1 = x1
  x2 = x2
  None = None
  Restarts <- OneRestart
  Releases <- OneRelease
  RestartTtl = 1
  ReleaseTtl = 1
  MaxLag = 0
  FeedTries = 1
  QueueCap = 1
  MaxNow = 1
  MaxCrashes = 1
PROPERTIES RestartSettles
