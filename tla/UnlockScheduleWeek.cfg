SPECIFICATION FairScheduleSpec
CONSTANTS
  Days = 2
  Minutes = 3
  Offers <- SomeSchedules
  CrashAt <- Anywhere
  MaxChanges = 1
  MaxCrashes = 2
INVARIANTS ActiveIsWindow
PROPERTY FollowsBackend
