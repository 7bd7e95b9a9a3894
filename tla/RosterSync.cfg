SPECIFICATION FairSpec
CONSTANTS
  c1 = c1
  c2 = c2
  g1 = g1
  w1 = w1
  w2 = w2
  None = None
  Creds <- OneCred
  Groups <- OneGroup
  NvsList <- Legacy
  Writers <- OneWriter
  WritersFail = TRUE
  Expires = TRUE
  MaxWrites = 2
  MaxUpsets = 2
INVARIANTS Faithful
PROPERTIES OldOrNew Converges
