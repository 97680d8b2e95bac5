CONSTANTS
  SqlTexts <- MCSqlTexts
  FourStages = TRUE
  Roles = {"analyst", "viewer", "admin"}
  MaxCalls = 2
  MaxRounds = 2
  Builds <- MCBuilds
SPECIFICATION FairSpec
CHECK_DEADLOCK FALSE
INVARIANTS
  OnlyAllowedRuns
  RaisesWithCause
PROPERTIES
  Implements
  Ends
