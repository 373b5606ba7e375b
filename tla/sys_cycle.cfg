CONSTANTS
  bg = bg
  t1 = t1
  big = big
  sm1 = sm1
  NoSpan = NoSpan
  Threads <- BothThreads
  Sweeper = bg
  Exclusive = TRUE
  Spans <- TwoSpans
  Large <- LargeSpans
  Elements = 2
  Pages <- PagesOf
  CountMod = 4
  CounterMod = 16
  OverflowChecks = FALSE
  Unimplemented <- NothingMissing
  FreshIsZero = TRUE
  MaxGeneration = 4
  Spawned = TRUE
  Batch = 1
SPECIFICATION FairSystem
INVARIANTS SystemIInv OnceInBuffer SweepersExact WorkBuffersManual
PROPERTIES ImplementsBackground FirstCycleSwept WorkBuffersFreed EveryCycleSwept
