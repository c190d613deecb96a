CONSTANTS
  EventTypes = {"INSERT_EVENT"}
  MAX_EVENT_DEPTH = 1
  DepthModulus = 3
  MaxEvents = 3
  MaxHandlers = 1
SPECIFICATION EventSpec
CHECK_DEADLOCK FALSE
INVARIANT DepthCapEnforced
