SPECIFICATION MCSpec
CONSTANTS
  Ext = {x, y}
  Val = {v1}
  None = None
  MaxId = 2
  MaxLog = 2
  MaxFaults = 1
  MaxPersists = 1
CHECK_DEADLOCK FALSE
INVARIANT DurableBeforeAck
