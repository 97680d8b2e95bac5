CONSTANTS
  NumRows = 7
  BatchSize = 2
  Workers = {w1, w2}
  Faults = {"refused", "answerLost", "unreadable"}
SPECIFICATION FairSpec
CHECK_DEADLOCK FALSE
INVARIANTS
  AtMostOnce
  SuccessIsComplete
PROPERTIES
  Implements
  ReturnsOrHangs
