SPECIFICATION TimeSpec
CONSTANTS
  Second = 2
  Tolerance = 4
  Month = 1
  BatchSize = 2
  None = None
  Personless = {1}
  MaxNow = 5
  MaxEvents = 2
  MaxBootId = 2
  MaxFaults = 1
INVARIANT Converges
