CONSTANTS
  t1 = t1
  t2 = t2
  big = big
  sm1 = sm1
  sm2 = sm2
  NoSpan = NoSpan
  Threads <- TwoThreads
  Exclusive = FALSE
  Spans <- TwoSpans
  Large <- LargeSpans
  Elements = 1
  Pages <- PagesOf
  CountMod = 4
  CounterMod = 16
  OverflowChecks = FALSE
  Unimplemented <- NothingMissing
  FreshIsZero = FALSE
  MaxGeneration = 4
SPECIFICATION Spec
SYMMETRY Symmetry
CHECK_DEADLOCK FALSE
INVARIANTS IInv PagesReturned
PROPERTIES ImplementsLife
