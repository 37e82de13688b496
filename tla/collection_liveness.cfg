\* Recovery ends, with crashes during recovery, and the log is emptied.
SPECIFICATION LiveSpec
CONSTANTS
  Ext = {x}
  Val = {v1}
  None = None
  MaxId = 2
  MaxLog = 2
  MaxFaults = 2
  MaxPersists = 0
CHECK_DEADLOCK FALSE
PROPERTIES
  ComesBack
  LogDrains
