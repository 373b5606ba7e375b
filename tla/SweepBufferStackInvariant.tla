----------------------- MODULE SweepBufferStackInvariant -----------------------
(******************************************************************************)
(* Why SweepBuffer is a stack of places: the inductive invariant of the       *)
(* refinement in SweepBufferStack, on top of those of SweepBufferRegime.      *)
(******************************************************************************)
EXTENDS SweepBufferStack, SweepBufferRegime

(* All spans fit in the first block and in the cells of the first spine.      *)
OneBlock ==
  Cardinality(Spans) <= BlockEntries /\ Cardinality(Spans) <= InitSpineCap

(* The spine is allocated once, for the one block there is.                   *)
Allocated == live = 1 /\ DOMAIN cells = 0 .. InitSpineCap - 1
MemorySound ==
  /\ spine_length <= 1
  /\ spine_cap # 0 => Allocated /\ spine = live
  /\ \A t \in Pushers : pc[t] = "publish" => Allocated
  /\ spine_cap = 0 => live = 0 \/ \E t \in Pushers : pc[t] = "publish"

(* A push has a span and stores it in the spine, unless a Relaxed load of the *)
(* spine yields the null pointer it was before; one push fills the block.     *)
PushesSound ==
  \A t \in Pushers :
    /\ pc[t] \in PushSteps => item[t] \in Spans
    /\ pc[t] = "panicked" => RelaxedMemory
    /\ pc[t] \in {"locate", "store", "fill"} => spine_length > 0
    /\ pc[t] = "store" => base[t] = live
    /\ \A u \in Pushers : pc[t] = "fill" /\ pc[u] = "fill" => t = u

(* A pop has the place on top, and what was in it.                            *)
PopsSound ==
  \A t \in Poppers : pc[t] \in {"read", "clear"} =>
    /\ spine_length > 0 /\ cursor[t] = index
    /\ pc[t] = "clear" => base[t] = live /\ item[t] = cells[cursor[t]]

(* No span is in a cell above the places in use, but for that of a pop.       *)
PlacesSound ==
  \A i \in DOMAIN cells : cells[i] \in Spans =>
    \/ i < Used
    \/ \E t \in Poppers : pc[t] \in {"read", "clear"} /\ cursor[t] = i

StackIInv == IInv /\ MemorySound /\ PushesSound /\ PopsSound /\ PlacesSound
===============================================================================
