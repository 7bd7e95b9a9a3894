SPECIFICATION FairSpec
CONSTANTS
  first = first
  second = second
  Hosts <- Backends
  Home = first
  Rev <- SameRevision
  Doors = {d1}
  Codes = {c1, c2}
  None = None
  MaxCalls = 2
  MaxCuts = 0
  MaxLosses = 0

PROPERTY Belongs
CHECK_DEADLOCK FALSE
