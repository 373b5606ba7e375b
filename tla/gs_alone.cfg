CONSTANTS
  t1 = t1
  t2 = t2
  big = big
  sm1 = sm1
  sm2 = sm2
  NoSpan = NoSpan
  Threads <- TwoThreads
  Exclusive = TRUE
  Spans <- ThreeSpans
  Large <- LargeSpans
  Elements = 2
  Pages <- PagesOf
  CountMod = 4
  CounterMod = 16
  OverflowChecks = FALSE
  Unimplemented <- NothingMissing
  FreshIsZero = FALSE
  MaxGeneration = 4
SPECIFICATION Spec
SYMMETRY Symmetry
CHECK_DEADLOCK FALSE
INVARIANTS IInv DoneMeansDrained UnsweptSound HeapNotPoisoned
PROPERTIES NoLiveObjectFreed
