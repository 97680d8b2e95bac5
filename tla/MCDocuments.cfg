CONSTANTS
  Uploads = {u1, u2}
  Files <- MCFiles
  ChunkTokens = 4
  OverlapTokens = 1
  Postgres = TRUE
  Troubles = {"disk", "table", "index", "tamper"}
  TopK = 2
  Scores = {20, 30, 50}
  MaxParts = 3
  UseGraphRag = TRUE
SYMMETRY Symmetry
SPECIFICATION DocumentsSpec
CHECK_DEADLOCK FALSE
INVARIANTS
  UploadAnswersTruly
  BestOfEachChunk
  UnsignedOnlyFromGraphRag
