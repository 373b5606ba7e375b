------------------------------ MODULE FreeObjects ------------------------------
(******************************************************************************)
(* What next_free_index promises, without words and caches: "the index of the *)
(* next free object in s at or after s.freeindex", or the number of objects   *)
(* when there is none, and the index moves on behind it.                      *)
(******************************************************************************)
EXTENDS Integers

CONSTANT Size

VARIABLES
  bits,   (* the objects that were in use when the span was last swept *)
  index,  (* where the search begins                                   *)
  found   (* the last answer                                           *)

freeVars == <<bits, index, found>>

FreeInit == bits \subseteq 0 .. Size - 1 /\ index = 0 /\ found = 0

NextFree ==
  /\ \/ /\ found' \in index .. Size - 1 /\ found' \notin bits
        /\ index .. found' - 1 \subseteq bits
        /\ index' = found' + 1
     \/ /\ index .. Size - 1 \subseteq bits
        /\ found' = Size
        /\ index' = Size
  /\ UNCHANGED bits

(* The span is swept.                                                         *)
Renew ==
  /\ bits' \in SUBSET (0 .. Size - 1)
  /\ index' = 0
  /\ UNCHANGED found

FreeSpec == FreeInit /\ [][NextFree \/ Renew]_freeVars
===============================================================================
