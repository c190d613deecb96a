CONSTANTS
  Threads = {"t1"}
  PageNums = {1}
  MaxPages = 1
  Times = {0}
  RowLens = {1}
  MaxCalls = 2
  Tables = {"a"}
SPECIFICATION StorageSpec
CHECK_DEADLOCK FALSE
PROPERTY FirstInsertStored
