SPECIFICATION FairSpec
CONSTANTS
  home = home
  shed = shed
  Networks <- Air
  Typo = Typo
  JoinTime <- Joins
  ConnectTime = 1
  RecoveryTime = 2
  WindowTime = 2
  IntervalTime = 2
  InUseTime = 2
  TryTime = 2
  RevertTime = 2
  SetupTime = 2
  AgainTime = 1
  MaxFlips = 2
  MaxCuts = 2
  MaxPresses = 1
  MaxVisits = 1
  MaxForms = 1
  MaxAsks = 1
INVARIANTS KeptWorks SetupOnce
PROPERTIES LeftAlone Recovers SetupCloses
CHECK_DEADLOCK FALSE
