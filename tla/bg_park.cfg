CONSTANTS
  Spawned = TRUE
  Unimplemented <- NothingMissing
  Batch = 2
  MaxSpans = 3
  MaxCycles = 3
SPECIFICATION Spec
CHECK_DEADLOCK FALSE
INVARIANTS IInv SenderInstalled NoWakeLost ParksWhenSwept
