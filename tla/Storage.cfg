CONSTANTS
  BlockSize = 6
  HeaderSize = 2
  Lengths = {0, 5}
  InitialOffsets = {0, 3, 5}
  Reuse = TRUE
  MaxParts = 3
  MaxFailures = 1
  MaxCrashes = 2
  MaxZeros = 2
  Users <- MCUsers
  Tags = {1, 2}
  MaxByte = 3
  MaxTag = 9
  ValueSize <- MCValueSize
  TableBlockSize = 40
  RestartInterval = 2
  FilterBase = 48
  BitsPerKey = 20
  Hash <- MCHash
  Base = 10
  Width = 500
  Groups = 3
  NumLevels = 4
  Absent = Absent
  FileNumbers <- MCNumbers
  Strings <- MCStrings
  EditLevels = {0, 3}
  Keys = {1, 2, 3}
  MaxHeight = 2
  MaxMoves = 2
  Threads = {t1, t2}
  Files = {1, 2}
  Capacities = {0, 1, 2}
  MaxMmaps = 1
  MaxOpenFiles = 1
  Works = {1, 2, 3, 4}
  WritableFileBufferSize = 3
  Sizes = {1, 2, 4, 7}
  MaxBytes = 9
  Processes = {P1, P2}
  PerProcess = {1, 2}
  Free = Free
  MaxRuns = 3
  MaxErrors = 1
  Directories <- MCDirectories
  MaxKey = 2
  Clients = {"c"}
  L0_CompactionTrigger = 2
  MaxMemCompactLevel = 1
  TargetFileSize = 2
  MaxGrandParentOverlap = 1
  ExpandedCompactionLimit = 4
  MaxBytesForLevel <- MCMaxBytesForLevel
  MaxWrites = 5
  Ranges <- AllOrOne
  Budgets <- ShortAndLong
  BusyManual = FALSE
  MaxOpens = 3
  MaxOutages = 1
  MaxNumber = 255
  MinDigits = 2
  Digits = {0, 2, 5, 6, 9}
  MaxDigits = 4
  Others = {19}
  Octets = {0, 1, 15, 66, 255}
  MaxOctets = 4
  Characters = {0, 1, 4, 16, 63, 64, 65, 66}
  MaxText = 4
  ArenaBlockSize = 16
  Align = 4
  PointerSize = 4
  Requests = {1, 3, 4, 5, 20}
  MaxPieces = 4
  TableKeys = {1, 2, 3, 4, 5, 6}
  TableHash <- MCTableHash
  ShardSize = 8
  MinLength = 2
SPECIFICATION Spec
INVARIANTS
  LogIsRead TableIsRead CodeIsRead TablesStayOpen WorksRun OneInProcess
  RepairKeepsData LevelsInOrder ReadsFindLastWrite TypeOK
PROPERTIES
  MissesNothing FileKeepsWord
CHECK_DEADLOCK FALSE
