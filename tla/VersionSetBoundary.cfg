SPECIFICATION Spec
CONSTANTS
  MaxKey = 2
  Clients = {"c"}
  NumLevels = 7
  L0_CompactionTrigger = 4
  MaxMemCompactLevel = 2
  TargetFileSize = 2
  MaxGrandParentOverlap = 20
  ExpandedCompactionLimit = 50
  MaxBytesForLevel <- TenTimesMore
  MaxWrites = 4
  Ranges <- All
  Budgets <- FourAndADeletion
  BusyManual = FALSE
CHECK_DEADLOCK FALSE
INVARIANTS ReadsFindLastWrite
