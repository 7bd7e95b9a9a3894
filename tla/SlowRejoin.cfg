SPECIFICATION FairSpec
CONSTANTS
  home = home
  shed = shed
  Networks <- Air
  Typo = Typo
  JoinTime <- Joins
  ConnectTime = 1
  RecoveryTime = 2
  WindowTime = 2
  IntervalTime = 2
  InUseTime = 2
  TryTime = 2
  RevertTime = 2
  SetupTime = 2
  AgainTime = 1
  MaxFlips = 2
  MaxCuts = 0
  MaxPresses = 0
  MaxVisits = 0
  MaxForms = 0
  MaxAsks = 0

PROPERTY JoinedForGood
CHECK_DEADLOCK FALSE
