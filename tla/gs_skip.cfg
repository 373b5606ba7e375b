CONSTANTS
  t1 = t1
  t2 = t2
  big = big
  sm1 = sm1
  sm2 = sm2
  NoSpan = NoSpan
  Threads <- OneThread
  Exclusive = TRUE
  Spans <- TwoSpans
  Large <- TwoSpans
  Elements = 2
  Pages <- PagesOf
  CountMod = 4
  CounterMod = 16
  OverflowChecks = TRUE
  Unimplemented <- NothingMissing
  FreshIsZero = TRUE
  MaxGeneration = 2
SPECIFICATION Spec
INVARIANTS GenerationMeans
