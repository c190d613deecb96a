CONSTANTS
  HEADER_SIZE = 16
  MaxSlots = 2
  PAYLOAD_SIZE = 8
  RowBytes = {}
  BadBytes = {0, 1, 128}
SPECIFICATION PageSpec
INVARIANT CorruptionDetected
CHECK_DEADLOCK FALSE
