CONSTANTS
  Threads = {"t1", "t2"}
  PageNums = {1, 2}
  MaxPages = 1
  Times = {0, 1}
  RowLens = {1, 65536}
  MaxCalls = 5
  Tables = {"a", "b"}
  HEADER_SIZE = 16
  MaxSlots = 2
  PAYLOAD_SIZE = 8
  RowBytes <- MCRowBytes
  BadBytes = {0, 1, 128}
  LogTxns = {1, 300}
  LogData <- MCLogData
  BadLengths = {2}
  MAX_ENTRY_SIZE = 1
  MaxLogEntries = 3
  CacheTables = {t1, t2}
  Columns = {"id", "qty"}
  Values = {"1", "2"}
  Inputs <- MCInputs
  max_size = 2
  MaxTime = 1
  MaxPuts = 4
SPECIFICATION Spec
CHECK_DEADLOCK FALSE
INVARIANTS
  PoolAccounting
  OnlyEvictionDetaches
  StatisticsBounded
  RowsReadBack
  DamageNoticed
  HardenedRecoversAll
  ReadersAgree
  EvictionReachesEveryRow
  OverflowBounded
  GetReturnsLastPut
PROPERTIES
  EveryCallReturns
