\* Two points, two versions of each: stale values and crossed ids, two faults.
SPECIFICATION MCSpec
CONSTANTS
  Ext = {x, y}
  Val = {v1, v2}
  None = None
  MaxId = 3
  MaxLog = 2
  MaxFaults = 2
  MaxPersists = 2
CHECK_DEADLOCK FALSE
SYMMETRY Symmetry
INVARIANTS
  TypeOK
  AcknowledgedSurvive
  NoOrphans
  CheckpointComplete
  ReplayAppliesTheRest
