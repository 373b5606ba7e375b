------------------------- MODULE MCSweepBufferLimits -------------------------
(* Small instances of SweepBuffer for TLC that go as far as the comments of   *)
(* sweep_buffer.rs allow, beyond SweepBufferRegime.                           *)
EXTENDS SweepBufferStack

CONSTANTS p1, p2, q1, q2, s1, s2, s3, s4

OnePusher == {p1}
TwoPushers == {p1, p2}
OnePopper == {q1}
TwoPoppers == {q1, q2}

TwoSpans == {s1, s2}
ThreeSpans == {s1, s2, s3}
FourSpans == {s1, s2, s3, s4}
===============================================================================
