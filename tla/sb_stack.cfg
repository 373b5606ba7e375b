CONSTANTS
  p1 = p1
  p2 = p2
  p3 = p3
  q1 = q1
  s1 = s1
  s2 = s2
  s3 = s3
  s4 = s4
  s5 = s5
  NoSpan = NoSpan
  Junk = Junk
  NoThread = NoThread
  Pushers <- ThreePushers
  Poppers <- OnePopper
  Spans <- ThreeSpans
  BlockEntries = 4
  InitSpineCap = 4
  PointerBytes = 8
  IndexMod = 6
  RelaxedMemory = FALSE
SPECIFICATION FairSpec
INVARIANT StackIInv
PROPERTIES ImplementsStack PushReturns
