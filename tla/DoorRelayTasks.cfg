SPECIFICATION FairSpec
CONSTANTS
  Width = 7
  Hold = 2
  ResultHold = 2
  ExitGap = 1
  MaxLag = 1
  QueueCap = 1
  Kinds <- AllKinds
  MaxRequests = 1
  MaxFlips = 1
  OledOk = TRUE
INVARIANTS StrikeAccounted FreshGrantHeld
PROPERTIES RestartSparesRelease StrikeRelocks LedCorrected
