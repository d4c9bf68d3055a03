SPECIFICATION FairSpec
CONSTANTS
  t1 = t1
  t2 = t2
  r1 = r1
  Threads = {t1, t2}
  Readers = {r1}
  BatchSize = 2
  MaxGroup = 2
  WriteBufferSize = 1
  CompactionTrigger = 2
  SlowdownTrigger = 2
  StopTrigger = 3
  Budgets <- Mixed
CHECK_DEADLOCK FALSE
INVARIANTS TypeOK ReadersSeeTheirSnapshot PromisedIsStored BatchesWhole 
PROPERTY WritersReturn
