-------------------------------- MODULE SpanLife --------------------------------
(******************************************************************************)
(* What the comments of memory_span.rs promise of one span: its states, and   *)
(* of a span in use what its sweep generation says relative to the heap's.    *)
(*                                                                            *)
(*   ready     as swept as the heap: "ready to use"                           *)
(*   unswept   two behind: "needs sweeping"                                   *)
(*   claimed   one behind: "currently being swept"                            *)
(*   stale     further behind: no sweep will ever take it                     *)
(*                                                                            *)
(* A span goes back to the heap only when it has been swept in this cycle; it *)
(* is claimed at most once in a cycle; and sweeping leaves a span alone that  *)
(* is not in use.                                                             *)
(******************************************************************************)
VARIABLE life

Lives == {"dead", "free", "manual", "ready", "unswept", "claimed", "stale"}

Init == life = "dead"

From(old, new) == life = old /\ life' = new

Allocate == life \in {"dead", "free"} /\ life' \in {"ready", "manual"}
FreeManual == From("manual", "free")

(* A collection makes every span unswept; one that was not swept is left      *)
(* behind, whether it was claimed or not.                                     *)
NextCycle == From("ready", "unswept") \/ From("unswept", "stale") \/ From("claimed", "stale")

Claim == From("unswept", "claimed")
Swept == From("claimed", "ready")
Free == From("ready", "free")

Next == Allocate \/ FreeManual \/ NextCycle \/ Claim \/ Swept \/ Free

Spec == Init /\ [][Next]_life
===============================================================================
