----------------------------- MODULE MCSweepSystem -----------------------------
(* Small instances of SweepSystem for TLC: the background sweeper and one     *)
(* other caller; one large span of two pages, one small span of one.          *)
EXTENDS SweepSystemInvariant, TLC

CONSTANTS bg, t1, big, sm1

BothThreads == {bg, t1}
TwoSpans == {big, sm1}
LargeSpans == {big}
PagesOf == [s \in Spans |-> IF s = big THEN 2 ELSE 1]
NothingMissing == {}
===============================================================================
