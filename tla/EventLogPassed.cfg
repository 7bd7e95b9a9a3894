SPECIFICATION Spec
CONSTANTS
  MaxPending = 3
  CompactAt = 2
  BatchMax = 2
  FsCap = 5
  MaxBoots = 3
  MaxIdx = 3
  Torn = Torn
CHECK_DEADLOCK FALSE
INVARIANT NeverPassed
