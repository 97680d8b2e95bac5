CONSTANTS
  Words = 3
  Troubles = {"refused", "apiDown", "limited", "apiDies", "agentFails", "timeout", "gatewayDies", "pingRace", "redisDown"}
SPECIFICATION FairSpec
CHECK_DEADLOCK FALSE
INVARIANTS
  TypeOK
  OneRunsWords
  SecondRunIsAfterABreak
  UndisturbedAnswerShown
PROPERTY
  RouteAnswers
