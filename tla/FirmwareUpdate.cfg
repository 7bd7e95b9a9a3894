SPECIFICATION FairSpec
CONSTANTS
  d1 = d1
  d2 = d2
  bA = bA
  bB = bB
  key = key
  None = None
  Doors <- OneDoor
  Boards <- TwoBoards
  BoardOf <- DoorBoard
  KeyOf <- SharedKey
  Versions = {1, 2}
  Builds = {1, 2}
  MayForce = TRUE
  MaxPublications = 2
  MaxFlashes = 1
INVARIANTS RightBoard NeverMissing
PROPERTIES NeverBackUnasked AsOffered Settles
