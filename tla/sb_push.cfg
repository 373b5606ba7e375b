CONSTANTS
  p1 = p1
  p2 = p2
  p3 = p3
  q1 = q1
  s1 = s1
  s2 = s2
  s3 = s3
  s4 = s4
  s5 = s5
  NoSpan = NoSpan
  Junk = Junk
  NoThread = NoThread
  Pushers <- TwoPushers
  Poppers <- OnePopper
  Spans <- FiveSpans
  BlockEntries = 2
  InitSpineCap = 1
  PointerBytes = 2
  IndexMod = 8
  RelaxedMemory = TRUE
SPECIFICATION Spec
SYMMETRY Symmetry
CHECK_DEADLOCK FALSE
INVARIANTS IInv GapFree SpineCovers SlotsExclusive NoSpanTwice
PROPERTIES LengthStableUnderLock
