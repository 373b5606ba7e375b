------------------------------- MODULE MCGcSweep -------------------------------
(* Small instances of GcSweep for TLC: one large span of two pages, the       *)
(* others small spans of one page with two objects.                           *)
EXTENDS GcSweepInvariant, TLC

CONSTANTS t1, t2, big, sm1, sm2

OneThread == {t1}
TwoThreads == {t1, t2}
TwoSpans == {big, sm1}
ThreeSpans == {big, sm1, sm2}
LargeSpans == {big}
PagesOf == [s \in Spans |-> IF s = big THEN 2 ELSE 1]
NothingMissing == {}

(* The threads are interchangeable, and so are the small spans.               *)
Symmetry == Permutations(Threads) \cup Permutations(Spans \ Large)
===============================================================================
