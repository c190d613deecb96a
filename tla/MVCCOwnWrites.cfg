CONSTANTS
  MvccTxns = {0, 1}
  Rows = {r1}
  RowValues = {"a"}
  EmptyData = ""
  MaxClock = 2
  MaxVersions = 3
  MaxSnapshots = 1
  MaxWaiters = 1
SPECIFICATION CoordinatorSpec
CHECK_DEADLOCK FALSE
INVARIANT ReadYourOwnWrites
