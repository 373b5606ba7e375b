---------------------------- MODULE SpanBitsInvariant ----------------------------
(******************************************************************************)
(* The inductive invariant of SpanBits: what the two callers of               *)
(* next_free_index may rely on at each step of a search.                      *)
(******************************************************************************)
EXTENDS SpanBits

Searching == pc \in {"enter", "scan"}

(* Nothing is under way, or an allocation searches.                           *)
Allocating == pc = "idle" \/ (Searching /\ caller = "allocate")

(* sweep has counted, and has not yet exchanged the bitmaps.                  *)
Sweeping == pc = "reset" \/ (Searching /\ caller = "sweep")

(* A search is for one of its two callers.                                    *)
CallerKnown ==
  /\ pc \in {"idle", "reset"} => caller = "none"
  /\ Searching => caller \in {"allocate", "sweep"}

(* The search has passed over objects in use only, and the cache shows where  *)
(* it is.                                                                     *)
ScanSound ==
  pc = "scan" => /\ free_index <= scan /\ scan < number_of_elements
                 /\ free_index .. scan - 1 \subseteq alloc_bits
                 /\ CacheShows(scan)

(* The objects in use are known from the index and the bits, and all counted; *)
(* only they are marked.                                                      *)
Counted ==
  Allocating => /\ InUse = {n \in Objects : n < free_index \/ n \in alloc_bits}
                /\ taken \cap alloc_bits = {}
                /\ allocations_count = Cardinality(InUse)
                /\ gc_mark_bits \cap Objects \subseteq InUse

(* What sweep counted are the marked objects.                                 *)
SweepCounted == Sweeping => allocations_count = Cardinality(gc_mark_bits \cap Objects)

(* A span is used as its bits say, from one call to the next, and a search    *)
(* relies on no more than that.                                               *)
IInv ==
  /\ TypeOK /\ CallerKnown
  /\ CacheCoherent /\ ScanSound
  /\ Counted /\ SweepCounted
===============================================================================
