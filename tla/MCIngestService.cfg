CONSTANTS
  Files <- CsvFiles
  Parents <- ForeignKeys
  Batches <- FewBatches
  WorkerCount = 2
  RunFaults = {"countFails", "copyFails", "unreadable", "killed"}
  MaxFaults = 2
SPECIFICATION RerunSpec
CHECK_DEADLOCK FALSE
INVARIANTS
  ServiceTypeOK
  LeftForLater
PROPERTIES
  RerunsConverge
  PopulatedLeftAlone
