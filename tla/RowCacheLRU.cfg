CONSTANTS
  CacheTables = {t1, t2}
  Columns = {"id", "qty"}
  Values = {"1", "2"}
  Inputs <- MCInputs
  max_size = 2
  MaxTime = 1
  MaxPuts = 4
SPECIFICATION CacheSpec
CHECK_DEADLOCK FALSE
PROPERTY EvictsLeastRecentlyUsed
