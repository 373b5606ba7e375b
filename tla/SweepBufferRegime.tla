--------------------------- MODULE SweepBufferRegime ---------------------------
(******************************************************************************)
(* The use of a sweep buffer under which its bookkeeping is sound, and the    *)
(* inductive invariant that shows it: at most one thread pops, and no more    *)
(* threads push at a time than a block has entries.  The program satisfies    *)
(* both (sweep_one takes &mut self); the comments of sweep_buffer.rs promise  *)
(* more, see the violated properties of SweepBufferStack.                       *)
(******************************************************************************)
EXTENDS SweepBuffer

ASSUME RegimeAssumption ==
  /\ IsFiniteSet(Pushers)
  /\ Cardinality(Pushers) <= BlockEntries
  /\ Pushers \cap Poppers = {}
  /\ \A q, r \in Poppers : q = r

(* Pushes and pops keep to their phase and to the threads that make them.     *)
Roles ==
  /\ \A t \in Pushers : pc[t] \in {"idle"} \cup PushSteps
  /\ \A t \in Poppers : pc[t] \in {"idle"} \cup PopSteps
  /\ phase = "push" => \A t \in Poppers : pc[t] = "idle"
  /\ phase = "pop" => \A t \in Pushers : pc[t] = "idle"

Mutex == \A t \in Threads : pc[t] \in Holding <=> cap_holder = t

Undoing == \E t \in Poppers : pc[t] = "undo"
Popping == \E t \in Poppers : pc[t] \in {"read", "clear"}

(* The index counts no more slots than there are spans inside, so it cannot   *)
(* wrap, but for the moment in which a pop of an empty buffer has it wrapped. *)
IndexBounded ==
  IF Undoing THEN index = IndexMod - 1
  ELSE index + (IF Popping THEN 1 ELSE 0) <= Cardinality(inside)

(* What the holder of the mutex has established about its block.              *)
HolderKnows ==
  /\ spine_length <= spine_cap
  /\ \A t \in Pushers :
       /\ pc[t] \in {"grow", "publish", "install"} => Top(cursor[t]) >= spine_length
       /\ pc[t] \in {"grow", "publish"} => spine_length = spine_cap
       /\ pc[t] = "install" => spine_length < spine_cap

IInv ==
  /\ TypeOK
  /\ Roles
  /\ Mutex
  /\ IndexBounded
  /\ SlotsExclusive
  /\ HolderKnows
  /\ SpineCovers

(* NoSpanTwice and what makes it inductive: pushes hold different spans, and  *)
(* what a pop has read is still in the cell it read.                          *)
SpanInv ==
  /\ NoSpanTwice
  /\ \A t \in Pushers :
       /\ pc[t] = "idle" => item[t] = NoSpan
       /\ item[t] \in inside \cup {NoSpan}
       /\ \A u \in Pushers \ {t} : item[t] \in Spans => item[u] # item[t]
  /\ \A t \in Poppers :
       /\ pc[t] # "clear" => item[t] = NoSpan
       /\ item[t] \in Spans =>
            /\ InSpine(base[t], Offset(cursor[t]))
            /\ cells[Offset(cursor[t])] = item[t]
===============================================================================
