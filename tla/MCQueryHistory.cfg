CONSTANTS
  Tabs = {t1, t2}
  MaxItems = 2
  MaxList = 1
  PageSize = 1
  Faults = {"redis", "get", "delete", "quota", "reload"}
  MaxQuestions = 2
  MaxTime = 1
  MaxLoads = 1
  MaxClears = 1
SYMMETRY TabSymmetry
SPECIFICATION Spec
CHECK_DEADLOCK FALSE
INVARIANTS
  TypeOK
  ShownNewestFirst
  NoItemTwice
  ClearedIsGone
  ListIsKeptShort
