--------------------------- MODULE SweepBufferStack ----------------------------
(******************************************************************************)
(* SweepBuffer implements SpanStack while the spans fit in the first block    *)
(* and in the cells of the first spine: then entry `bottom' of block 0 has a  *)
(* cell of its own.  One span is lost, that of the push that installs the     *)
(* block, because allocate_block never links the block it fills.              *)
(******************************************************************************)
EXTENDS SweepBuffer

(* What a cell holds, as far as a pop can tell a span from anything else.     *)
SpanIn(c) == IF c \in Spans THEN c ELSE NoSpan
Place(i) == IF i \in DOMAIN cells THEN SpanIn(cells[i]) ELSE NoSpan

StackOf == [i \in 1 .. Used |-> Place(Offset(i - 1))]
PlaceOf == [t \in Pushers |-> IF pc[t] \in PushSteps THEN cursor[t] + 1 ELSE 0]
SpanOf == [t \in Pushers |-> item[t]]
TakenOf == [t \in Poppers |-> CASE pc[t] = "read" -> <<Place(Offset(cursor[t]))>>
                                 [] pc[t] = "clear" -> <<SpanIn(item[t])>>
                                 [] OTHER -> <<>>]
HasLost == spine_length > 0 /\ \A t \in Pushers : pc[t] # "fill"

Stack == INSTANCE SpanStack WITH
  stack <- StackOf, place <- PlaceOf, span <- SpanOf, taken <- TakenOf, lost <- HasLost

(* Pops return the spans in the opposite order of the claims of their pushes, *)
(* whatever order the pushes end in; a popped or lost place is left empty for *)
(* the next push, and a pop of the empty buffer is as if it had not been.     *)
ImplementsStack == Stack!StackSpec

(* Its safety: whatever the scheduler does, each step is one of the stack's.  *)
StepsLikeAStack == Stack!StackInit /\ [][Stack!StackNext]_(Stack!stackVars)

-------------------------------------------------------------------------------
(* What comments of sweep_buffer.rs say and the code does not keep.           *)

Kept == {s \in Spans : \E i \in DOMAIN cells : cells[i] = s}
Quiet == \A t \in Threads : pc[t] = "idle"

(* "push adds span s to buffer b": when no call is under way, every span that *)
(* was pushed and not popped is in a cell a pop can read.                     *)
PushAdds == Quiet => inside \subseteq Kept

(* "pop is safe to call concurrently with other pop operations": a pop works  *)
(* on a slot of a block that was installed.                                   *)
PopsStayInBuffer ==
  \A t \in Poppers : pc[t] = "read" => Top(cursor[t]) < spine_length

(* "We can't immediately free the old spine since a concurrent push with a    *)
(* lower index could still be reading from it": the memory a push is about to *)
(* store to is not freed.                                                     *)
OldSpineKept == \A t \in Pushers : pc[t] = "store" => base[t] = live
===============================================================================
