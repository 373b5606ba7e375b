CONSTANTS
  p1 = p1
  p2 = p2
  q1 = q1
  q2 = q2
  s1 = s1
  s2 = s2
  s3 = s3
  s4 = s4
  NoSpan = NoSpan
  Junk = Junk
  NoThread = NoThread
  Pushers <- OnePusher
  Poppers <- OnePopper
  Spans <- TwoSpans
  BlockEntries = 2
  InitSpineCap = 2
  PointerBytes = 8
  IndexMod = 6
  RelaxedMemory = FALSE
SPECIFICATION Spec
INVARIANTS PushAdds
