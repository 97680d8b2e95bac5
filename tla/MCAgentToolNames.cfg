CONSTANTS
  SqlTexts <- MCSqlTexts
  FourStages = FALSE
  Roles = {"analyst"}
  MaxCalls = 1
  MaxRounds = 2
  Builds <- MCTheCode
SPECIFICATION FairSpec
CHECK_DEADLOCK FALSE
INVARIANTS
  RaisesOnlyInTrouble
