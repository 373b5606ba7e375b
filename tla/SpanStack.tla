------------------------------- MODULE SpanStack -------------------------------
(******************************************************************************)
(* What the users of a sweep buffer see of it: a stack of places.  A push     *)
(* claims the place on top, later the span settles in it or, once in the life *)
(* of the stack, is lost and leaves the place empty.  A pop takes the place   *)
(* on top, with what is in it.  Pushes may overlap, and so may pops, but no   *)
(* place is taken while a push is under way.  GcSweep uses this stack, with   *)
(* each push in one step.                                                     *)
(******************************************************************************)
EXTENDS Naturals, Sequences

CONSTANTS Pushers, Poppers, Spans, NoSpan

VARIABLES
  stack,        (* the places: a span, or NoSpan if none has settled there     *)
  place, span,  (* of each pusher: its place, or 0, and the span for it        *)
  taken,        (* of each popper: nothing, or what was in the place it took   *)
  lost          (* a span has been lost                                        *)

stackVars == <<stack, place, span, taken, lost>>

StackInit ==
  /\ stack = <<>> /\ lost = FALSE
  /\ place = [t \in Pushers |-> 0] /\ span = [t \in Pushers |-> NoSpan]
  /\ taken = [t \in Poppers |-> <<>>]

Claim(t, s) ==
  /\ place[t] = 0
  /\ \A u \in Poppers : taken[u] = <<>>
  /\ stack' = Append(stack, NoSpan)
  /\ place' = [place EXCEPT ![t] = Len(stack')]
  /\ span' = [span EXCEPT ![t] = s]
  /\ UNCHANGED <<taken, lost>>

(* The push returns.                                                          *)
Leave(t) ==
  /\ place[t] # 0
  /\ place' = [place EXCEPT ![t] = 0]
  /\ span' = [span EXCEPT ![t] = NoSpan]
  /\ UNCHANGED taken

Settle(t) ==
  /\ Leave(t)
  /\ stack' = [stack EXCEPT ![place[t]] = span[t]]
  /\ UNCHANGED lost

Lose(t) ==
  /\ Leave(t)
  /\ ~lost /\ lost' = TRUE
  /\ UNCHANGED stack

Take(t) ==
  /\ stack # <<>> /\ taken[t] = <<>>
  /\ \A u \in Pushers : place[u] = 0
  /\ taken' = [taken EXCEPT ![t] = <<stack[Len(stack)]>>]
  /\ stack' = SubSeq(stack, 1, Len(stack) - 1)
  /\ UNCHANGED <<place, span, lost>>

(* The pop returns.                                                           *)
Hand(t) ==
  /\ taken[t] # <<>>
  /\ taken' = [taken EXCEPT ![t] = <<>>]
  /\ UNCHANGED <<stack, place, span, lost>>

StackNext ==
  \/ \E t \in Pushers : Settle(t) \/ Lose(t) \/ \E s \in Spans : Claim(t, s)
  \/ \E t \in Poppers : Take(t) \/ Hand(t)

(* Calls that have begun return.                                              *)
StackSpec ==
  /\ StackInit
  /\ [][StackNext]_stackVars
  /\ \A t \in Pushers : WF_stackVars(Settle(t) \/ Lose(t))
  /\ \A t \in Poppers : WF_stackVars(Hand(t))
===============================================================================
