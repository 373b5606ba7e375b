---------------------------- MODULE MCSweepBuffer ----------------------------
(* Small instances of SweepBuffer for TLC, within SweepBufferRegime.          *)
EXTENDS SweepBufferStackInvariant, TLC

CONSTANTS p1, p2, p3, q1, s1, s2, s3, s4, s5

TwoPushers == {p1, p2}
ThreePushers == {p1, p2, p3}
OnePopper == {q1}

ThreeSpans == {s1, s2, s3}
FiveSpans == {s1, s2, s3, s4, s5}

(* Spans and the threads of one side are interchangeable.                     *)
Symmetry == Permutations(Spans) \cup Permutations(Pushers)
===============================================================================
