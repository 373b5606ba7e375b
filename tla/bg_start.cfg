CONSTANTS
  Spawned = FALSE
  Unimplemented <- AsBuilt
  Batch = 2
  MaxSpans = 3
  MaxCycles = 3
SPECIFICATION Spec
CHECK_DEADLOCK FALSE
INVARIANTS EnableStarts
