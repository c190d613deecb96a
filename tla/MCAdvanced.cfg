CONSTANTS
  EventTypes = {"INSERT_EVENT", "CUSTOM_EVENT"}
  MAX_EVENT_DEPTH = 1
  DepthModulus = 3
  MaxEvents = 3
  MaxHandlers = 2
  NodeIds = {1, 2, 3}
  Costs = {1, 3}
  Weights = {1, 2}
  MaxEdges = 3
  RowIds = {1, 2}
  People = {"ann", "bob"}
  Levels = {1, 2, 3}
  MaxInserts = 2
  MaxApprovals = 2
SPECIFICATION Spec
CHECK_DEADLOCK FALSE
INVARIANTS
  CascadeBounded
  QueuedUntilProcessed
  NeverCyclic
  TraversalsAgree
  CostCountedOnce
  ApprovedByDirector
