--------------------------- MODULE GcSweepInvariant ----------------------------
(******************************************************************************)
(* Why GcSweep is correct: an inductive invariant, in parts.  Those of        *)
(* Overlapping hold however calls overlap, those of Alone when they do not.   *)
(******************************************************************************)
EXTENDS GcSweep

Buffers == {0, 1}
Pushed == sweep_buffers[Pushable(sweep_generation)]

(* The spans that are in a buffer.                                            *)
InBuffer(b) == {sweep_buffers[b][i] : i \in Slots(b)}

(* Where a thread has a span that it has found in need of sweeping.           *)
Claiming == {"claim"} \cup SweepSteps
Has(t, s) == pc[t] \in Claiming /\ call[t].span = s

-------------------------------------------------------------------------------
(* However calls overlap.                                                     *)

(* What TypeOK leaves out: generations are even, and no span is ahead.        *)
Shapes ==
  /\ sweep_generation % 2 = 0
  /\ \A s \in Spans : span_gen[s] <= sweep_generation

(* The calls of sweep_one that have not returned are counted, also those that *)
(* panicked; a collection waits for the others.                               *)
Counted ==
  /\ sweepers = Cardinality({t \in Threads : pc[t] # "idle" /\ ~call[t].direct})
  /\ \A t \in Threads : Running(t) => call[t].gen = sweep_generation
  /\ \A t \in Threads : pc[t] \in PopSteps \cup {"end"} => ~call[t].direct

(* Nothing waits before the first collection.                                 *)
NothingBefore == sweep_generation = 0 => Unswept = <<>>

(* A span that is managed by hand holds no objects.                           *)
ManualEmpty == \A s \in Spans : state[s] = "Manual" => allocations_count[s] = 0

(* A span that is claimed is in use, or was released in this cycle and freed  *)
(* since; its generation goes up only, so that one loaded earlier is no newer.*)
ClaimsSound ==
  \A t \in Threads : \A s \in {call[t].span} :
    /\ pc[t] \in {"load", "inspect"} => s \in Spans
    /\ pc[t] = "inspect" => call[t].seen <= span_gen[s]
    /\ pc[t] \in Claiming =>
         /\ s \in Spans
         /\ span_gen[s] >= sweep_generation - IF pc[t] = "claim" THEN 2 ELSE 1
         /\ state[s] # "InUse" => state[s] = "Free" /\ span_gen[s] = sweep_generation

(* Who has the lock of the heap has it alone, and its span is still in use.   *)
LockSound ==
  \A t \in Threads : pc[t] = "locked" =>
    /\ state[call[t].span] = "InUse" /\ span_gen[call[t].span] = sweep_generation
    /\ \A u \in Threads : pc[u] = "locked" => u = t

(* What a call of sweep_one will return, from its first step to its last.     *)
PagesSound ==
  /\ \A t \in Threads :
       /\ pc[t] \in PopSteps => call[t].pages = NothingLeft
       /\ pc[t] \in SweepSteps /\ ~call[t].direct => call[t].pages = Pages[call[t].span]
       /\ pc[t] = "end" => \/ call[t].pages = NothingLeft /\ sweep_done
                           \/ call[t].pages = 0
                           \/ call[t].span \in Spans
  /\ PagesReturned

Overlapping ==
  /\ TypeOK /\ Shapes /\ Counted /\ NothingBefore /\ ManualEmpty /\ ClaimsSound /\ LockSound
  /\ PagesSound /\ NoUnderflow

-------------------------------------------------------------------------------
(* When calls do not overlap.                                                 *)

OneRuns == \A t, u \in Threads : Running(t) /\ Running(u) => t = u

(* The first slot of a buffer is the only one that is lost; another that is   *)
(* not written yet is the last one of the swept buffer.                       *)
Filling(b) == b = Pushable(sweep_generation) /\ \E t \in Threads : pc[t] = "fill"
FirstLost ==
  \A b \in Buffers :
    /\ ~has_block[b] => Len(sweep_buffers[b]) = IF Filling(b) THEN 1 ELSE 0
    /\ \A i \in DOMAIN sweep_buffers[b] : sweep_buffers[b][i] = NoSpan =>
         i = 1 \/ (Filling(b) /\ i = Len(sweep_buffers[b]))
FillSound ==
  \A t \in Threads : pc[t] = "fill" =>
    call[t].slot = Len(Pushed) /\ Pushed # <<>> /\ Pushed[Len(Pushed)] = NoSpan

(* Nothing waits when the sweep is done, or when a pop has found nothing.     *)
Drained ==
  sweep_done \/ (\E t \in Threads : pc[t] \in {"undo", "none"}) => Unswept = <<>>

(* The swept buffer has spans in use that nobody has or can claim.            *)
PushedSound ==
  \A s \in InBuffer(Pushable(sweep_generation)) :
    /\ state[s] = "InUse" /\ span_gen[s] # sweep_generation - 2
    /\ \A t \in Threads : ~Has(t, s)

(* A span that waits, or was popped, is in use or has been swept.             *)
WaitingSound ==
  /\ \A s \in InBuffer(Popable(sweep_generation)) :
       state[s] # "InUse" => span_gen[s] = sweep_generation
  /\ \A t \in Threads : pc[t] \in {"load", "inspect"} /\ state[call[t].span] # "InUse" =>
       span_gen[call[t].span] = sweep_generation

(* A buffer holds a span once.                                                *)
Once ==
  \A b \in Buffers : \A i, j \in Slots(b) : sweep_buffers[b][i] = sweep_buffers[b][j] => i = j

(* The marks of a span that waits for its sweep are of objects it has, and    *)
(* one that is not in use has none.                                           *)
MarksSound ==
  \A s \in Spans :
    /\ span_gen[s] = sweep_generation - 2 =>
         marked[s] = live[s] /\ live[s] <= allocations_count[s]
    /\ state[s] # "InUse" => allocations_count[s] = 0

(* Nobody else claims the span that sweep_one has looked at, so that its      *)
(* compare_and_swap succeeds and the span is dropped.  Only direct callers    *)
(* get as far as sweep, and the span is theirs from its claim to the return.  *)
SpanSound ==
  \A t \in Threads : \A s \in {call[t].span} :
    /\ pc[t] = "inspect" => call[t].seen = span_gen[s]
    /\ pc[t] = "claim" => state[s] = "InUse" /\ span_gen[s] = sweep_generation - 2
    /\ pc[t] \in SweepSteps =>
         /\ call[t].direct /\ state[s] = "InUse"
         /\ span_gen[s] = IF \/ pc[t] \notin {"dispose", "locked", "push", "fill"}
                             \/ ~call[t].to_heap /\ call[t].freed # 0
                          THEN sweep_generation - 1 ELSE sweep_generation

(* The locals of sweep and what the span has of them.                         *)
Unread == {"sweep", "check", "count"}
Unstored == Unread \cup {"freed", "store"}
LocalsSound ==
  \A t \in Threads : \A s \in {call[t].span} : pc[t] \in SweepSteps =>
    /\ pc[t] = "check" => call[t].seen = sweep_generation - 1
    /\ pc[t] \in Unstored \cup {"swap"} => marked[s] = live[s]
    /\ pc[t] \in Unstored => live[s] <= allocations_count[s]
    /\ pc[t] \notin Unread =>
         call[t].number = live[s] /\ call[t].to_heap = (s \in Large /\ live[s] = 0)
    /\ pc[t] \notin Unstored => allocations_count[s] = live[s]
    /\ pc[t] \in {"state", "owner", "release"} => call[t].to_heap \/ call[t].freed = 0
    /\ pc[t] = "locked" => call[t].to_heap
    /\ pc[t] \in {"push", "fill"} => ~call[t].to_heap

(* Only an overflow poisons the lock, and no panic at all is left when also   *)
(* nothing is missing and the memory of alloc is zero: the sweep of a release *)
(* build, once it is complete.                                                *)
Calm == Exclusive /\ Unimplemented = {} /\ FreshIsZero /\ ~OverflowChecks
CalmSound ==
  HeapNotPoisoned /\ (Calm => \A t \in Threads : pc[t] # "panicked")

Alone ==
  /\ OneRuns /\ FirstLost /\ FillSound /\ Drained /\ PushedSound /\ WaitingSound /\ Once
  /\ MarksSound /\ SpanSound /\ LocalsSound /\ CalmSound

IInv == Overlapping /\ (Exclusive => Alone)
===============================================================================
