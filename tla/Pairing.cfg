SPECIFICATION FairSpec
CONSTANTS
  first = first
  second = second
  Hosts <- Backends
  Home = first
  Rev <- Revisions
  Doors = {d1, d2}
  Codes = {c1, c2}
  None = None
  MaxCalls = 2
  MaxCuts = 1
  MaxLosses = 1
INVARIANTS CodeOnce KeyIsAccepted
PROPERTY Belongs
CHECK_DEADLOCK FALSE
