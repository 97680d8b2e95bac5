CONSTANTS
  Requests = {r1, r2}
  Workers = {w1, w2}
  Wirings <- MCWirings
  Scores <- MCScores
  QUEUE_SIZE = 1
  SCORES_MAX = 1
  MIN_SAMPLES = 1
  THRESHOLD = 70
  INTERVAL = 1
  MaxRetrievals = 1
SPECIFICATION FairSpec
INVARIANTS
  RecordedHonestly
  ListsCapped
PROPERTIES
  AlertsAreFew
  LowScoresAlerted
