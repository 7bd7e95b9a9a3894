SPECIFICATION Spec
CONSTANTS
  r1 = r1
  r2 = r2
  x1 = x1
  x2 = x2
  None = None
  Releases <- TwoReleases
  Restarts <- NoRequest
  RestartTtl = 2
  ReleaseTtl = 1
  MaxLag = 1
  FeedTries = 1
  QueueCap = 1
  MaxNow = 0
  MaxCrashes = 0
INVARIANTS NeverTwice
