SPECIFICATION Spec
CONSTANTS
  c1 = c1
  c2 = c2
  g1 = g1
  w1 = w1
  w2 = w2
  None = None
  Creds <- OneCred
  Groups <- OneGroup
  NvsList <- NoLegacy
  Writers <- TwoWriters
  WritersFail = FALSE
  Expires = FALSE
  MaxWrites = 4
  MaxUpsets = 0
INVARIANT OverlapIsHarmless
