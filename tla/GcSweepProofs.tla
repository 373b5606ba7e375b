----------------------------- MODULE GcSweepProofs -----------------------------
(******************************************************************************)
(* That IInv of GcSweepInvariant is inductive, and what follows from it, for  *)
(* any number of threads, spans and cycles.                                   *)
(*                                                                            *)
(* Overlapping is about each call by itself: its own step keeps it (OwnStep), *)
(* and a step of another call changes no span in a way that breaks it         *)
(* (SpanChanges, OtherStep).  Alone is proved under the assumption that one   *)
(* call runs, and from what becomes of the two buffers (QueuesStep).          *)
(******************************************************************************)
EXTENDS GcSweepInvariant, FiniteSetTheorems, SequenceTheorems, TLAPS

-------------------------------------------------------------------------------
(* Generations and buffers.                                                   *)

(* The buffers have different roles, and trade them when a collection starts. *)
LEMMA BufferRoles ==
  ASSUME NEW g \in Nat
  PROVE  /\ Pushable(g) \in Buffers /\ Popable(g) \in Buffers /\ Pushable(g) # Popable(g)
         /\ Pushable(g + 2) = Popable(g) /\ Popable(g + 2) = Pushable(g)
         /\ g % 2 = 0 => (g + 2) % 2 = 0 /\ g # 1
BY DEF Pushable, Popable, Buffers

(* A buffer is a sequence of slots; that it holds each of its spans once.     *)
Typed == sweep_buffers \in [Buffers -> Seq(Spans \cup {NoSpan})]
Distinct(b) ==
  \A i, j \in Slots(b) : sweep_buffers[b][i] = sweep_buffers[b][j] => i = j

(* A step on buffer b leaves the others alone.                                *)
OthersSame(b) ==
  \A c \in Buffers \ {b} :
    /\ sweep_buffers'[c] = sweep_buffers[c] /\ Slots(c)' = Slots(c)
    /\ InBuffer(c)' = InBuffer(c) /\ (Distinct(c) => Distinct(c)')

(* A buffer that is not touched holds the same spans in the same slots.       *)
LEMMA BufferSame ==
  ASSUME NEW c, sweep_buffers'[c] = sweep_buffers[c]
  PROVE  /\ Slots(c)' = Slots(c) /\ InBuffer(c)' = InBuffer(c)
         /\ Distinct(c) => Distinct(c)'
<1>1. Slots(c)' = Slots(c)
  BY DEF Slots
<1> QED BY <1>1 DEF InBuffer, Distinct

LEMMA OthersAreSame ==
  ASSUME NEW b, \A c \in Buffers \ {b} : sweep_buffers'[c] = sweep_buffers[c]
  PROVE  OthersSame(b)
BY BufferSame, Zenon DEF OthersSame

LEMMA OtherBuffer ==
  ASSUME NEW b, NEW c \in Buffers, c # b, OthersSame(b)
  PROVE  sweep_buffers'[c] = sweep_buffers[c] /\ InBuffer(c)' = InBuffer(c)
BY DEF OthersSame

(* An append adds a slot at the end, and the span in it if it has one.        *)
Appends(b, x) ==
  /\ Typed /\ b \in Buffers /\ x \in Spans \cup {NoSpan}
  /\ sweep_buffers' = [sweep_buffers EXCEPT ![b] = Append(@, x)]
Appended(b, x) ==
  /\ Typed' /\ OthersSame(b)
  /\ Len(sweep_buffers[b]) \in Nat
  /\ DOMAIN sweep_buffers[b] = 1 .. Len(sweep_buffers[b])
  /\ Len(sweep_buffers'[b]) = Len(sweep_buffers[b]) + 1
  /\ DOMAIN sweep_buffers'[b] = 1 .. Len(sweep_buffers[b]) + 1
  /\ \A i \in 1 .. Len(sweep_buffers[b]) : sweep_buffers'[b][i] = sweep_buffers[b][i]
  /\ sweep_buffers'[b][Len(sweep_buffers[b]) + 1] = x
  /\ InBuffer(b)' \subseteq InBuffer(b) \cup ({x} \ {NoSpan})
  /\ x \notin InBuffer(b) /\ Distinct(b) => Distinct(b)'

LEMMA AppendEffect ==
  ASSUME NEW b, NEW x, Appends(b, x)
  PROVE  Appended(b, x)
<1>0. /\ Typed /\ b \in Buffers /\ x \in Spans \cup {NoSpan}
      /\ sweep_buffers' = [sweep_buffers EXCEPT ![b] = Append(@, x)]
  BY DEF Appends
<1> DEFINE old == sweep_buffers[b]
           new == Append(old, x)
           C == Spans \cup {NoSpan}
<1>1. old \in Seq(C) /\ x \in C
  BY <1>0 DEF Typed
<1>2. /\ new \in Seq(C) /\ Len(new) = Len(old) + 1 /\ Len(old) \in Nat
      /\ \A i \in 1 .. Len(old) : new[i] = old[i]
      /\ new[Len(old) + 1] = x
      /\ DOMAIN new = 1 .. Len(new) /\ DOMAIN old = 1 .. Len(old)
  <2> HIDE DEF old
  <2> QED BY <1>1, AppendProperties, LenProperties
<1> HIDE DEF new
<1>3. sweep_buffers' = [sweep_buffers EXCEPT ![b] = new]
  BY <1>0 DEF new
<1>4. sweep_buffers'[b] = new /\ \A c \in Buffers \ {b} : sweep_buffers'[c] = sweep_buffers[c]
  BY <1>0, <1>3 DEF Typed
<1>5. Typed' /\ OthersSame(b)
  <2>1. Typed'
    BY <1>0, <1>2, <1>3 DEF Typed
  <2> QED BY <1>4, <2>1, OthersAreSame
<1>6. \A i \in Slots(b)' : /\ i \in 1 .. Len(old) + 1 /\ new[i] # NoSpan
                           /\ i = Len(old) + 1 => new[i] = x
                           /\ i # Len(old) + 1 => i \in Slots(b) /\ new[i] = old[i]
  BY <1>2, <1>4 DEF Slots
<1>7. InBuffer(b)' \subseteq InBuffer(b) \cup ({x} \ {NoSpan})
  BY <1>4, <1>6 DEF InBuffer
<1>8. x \notin InBuffer(b) /\ Distinct(b) => Distinct(b)'
  <2> SUFFICES ASSUME x \notin InBuffer(b), Distinct(b), NEW i \in Slots(b)',
                      NEW j \in Slots(b)', new[i] = new[j]
               PROVE  i = j
    BY <1>4 DEF Distinct
  <2>1. \A k \in Slots(b) : old[k] # x
    BY DEF InBuffer
  <2> QED BY <1>6, <2>1 DEF Distinct
<1> QED
  BY <1>2, <1>4, <1>5, <1>7, <1>8 DEF Appended

(* A pop takes the last slot.                                                 *)
LEMMA PopEffect ==
  ASSUME Typed, NEW b \in Buffers, sweep_buffers[b] # <<>>,
         sweep_buffers' = [sweep_buffers EXCEPT ![b] = SubSeq(@, 1, Len(@) - 1)]
  PROVE  /\ Typed' /\ OthersSame(b)
         /\ Len(sweep_buffers[b]) \in Nat \ {0}
         /\ DOMAIN sweep_buffers[b] = 1 .. Len(sweep_buffers[b])
         /\ Len(sweep_buffers'[b]) = Len(sweep_buffers[b]) - 1
         /\ DOMAIN sweep_buffers'[b] = 1 .. Len(sweep_buffers[b]) - 1
         /\ \A i \in 1 .. Len(sweep_buffers[b]) - 1 : sweep_buffers'[b][i] = sweep_buffers[b][i]
         /\ InBuffer(b)' \subseteq InBuffer(b)
         /\ Distinct(b) => Distinct(b)'
         /\ sweep_buffers[b][Len(sweep_buffers[b])] \in Spans \cup {NoSpan}
         /\ sweep_buffers[b][Len(sweep_buffers[b])] # NoSpan =>
              sweep_buffers[b][Len(sweep_buffers[b])] \in InBuffer(b)
<1> DEFINE old == sweep_buffers[b]
           new == SubSeq(old, 1, Len(old) - 1)
           C == Spans \cup {NoSpan}
<1>1. old \in Seq(C) /\ Len(old) \in Nat \ {0} /\ DOMAIN old = 1 .. Len(old)
  BY EmptySeq, LenProperties DEF Typed
<1>2. \A i \in 1 .. Len(old) : old[i] \in C
  BY <1>1, ElementOfSeq
<1>3. /\ new \in Seq(C) /\ Len(new) = Len(old) - 1
      /\ \A i \in 1 .. Len(old) - 1 : new[i] = old[i]
      /\ DOMAIN new = 1 .. Len(old) - 1
  <2> HIDE DEF old
  <2>1. \A i \in 1 .. Len(old) - 1 : old[i] \in C
    BY <1>1, <1>2
  <2>2. 1 \in Int /\ Len(old) - 1 \in Int
    BY <1>1
  <2>3. /\ new \in Seq(C)
        /\ Len(new) = IF 1 <= Len(old) - 1 THEN Len(old) - 1 - 1 + 1 ELSE 0
        /\ \A i \in 1 .. Len(old) - 1 - 1 + 1 : new[i] = old[1 + i - 1]
    BY <2>1, <2>2, SubSeqProperties
  <2>4. Len(new) = Len(old) - 1
    BY <1>1, <2>3
  <2>5. DOMAIN new = 1 .. Len(new)
    BY <2>3, LenProperties
  <2>6. \A i \in 1 .. Len(old) - 1 : new[i] = old[i]
    <3> SUFFICES ASSUME NEW i \in 1 .. Len(old) - 1 PROVE new[i] = old[i]
      OBVIOUS
    <3>1. i \in 1 .. Len(old) - 1 - 1 + 1 /\ 1 + i - 1 = i
      BY <1>1
    <3> HIDE DEF new
    <3> QED BY <2>3, <3>1
  <2> HIDE DEF new
  <2> QED BY <2>3, <2>4, <2>5, <2>6
<1> HIDE DEF new
<1>4. sweep_buffers' = [sweep_buffers EXCEPT ![b] = new]
  BY DEF new
<1>5. sweep_buffers'[b] = new /\ \A c \in Buffers \ {b} : sweep_buffers'[c] = sweep_buffers[c]
  BY <1>4 DEF Typed
<1>6. Typed' /\ OthersSame(b)
  <2>1. Typed'
    BY <1>3, <1>4 DEF Typed
  <2> QED BY <1>5, <2>1, OthersAreSame
<1>7. \A i \in Slots(b)' : i \in Slots(b) /\ new[i] = old[i]
  BY <1>1, <1>3, <1>5 DEF Slots
<1>8. InBuffer(b)' \subseteq InBuffer(b)
  BY <1>5, <1>7, Zenon DEF InBuffer
<1>9. ASSUME Distinct(b) PROVE Distinct(b)'
  <2> SUFFICES ASSUME NEW i \in Slots(b)', NEW j \in Slots(b)',
                      sweep_buffers'[b][i] = sweep_buffers'[b][j]
               PROVE  i = j
    BY Zenon DEF Distinct
  <2>1. i \in Slots(b) /\ j \in Slots(b) /\ old[i] = old[j]
    BY <1>5, <1>7
  <2> QED BY <1>9, <2>1, Zenon DEF Distinct
<1>10. old[Len(old)] \in C /\ (old[Len(old)] # NoSpan => old[Len(old)] \in InBuffer(b))
  BY <1>1, <1>2 DEF InBuffer, Slots
<1> QED
  BY <1>1, <1>3, <1>5, <1>6, <1>8, <1>9, <1>10

(* A write puts a span in a slot that was claimed for it.                     *)
Fills(b, i, s) ==
  /\ Typed /\ b \in Buffers /\ i \in Nat /\ s \in Spans
  /\ sweep_buffers' = [sweep_buffers EXCEPT ![b][i] = s]
Filled(b, i, s) ==
  /\ Typed' /\ OthersSame(b)
  /\ Len(sweep_buffers'[b]) = Len(sweep_buffers[b])
  /\ DOMAIN sweep_buffers'[b] = DOMAIN sweep_buffers[b]
  /\ \A j \in DOMAIN sweep_buffers[b] :
       sweep_buffers'[b][j] = IF j = i THEN s ELSE sweep_buffers[b][j]
  /\ InBuffer(b)' \subseteq InBuffer(b) \cup {s}
  /\ s \notin InBuffer(b) /\ Distinct(b) => Distinct(b)'

LEMMA FillEffect ==
  ASSUME NEW b, NEW i, NEW s, Fills(b, i, s)
  PROVE  Filled(b, i, s)
<1>0. /\ Typed /\ b \in Buffers /\ i \in Nat /\ s \in Spans
      /\ sweep_buffers' = [sweep_buffers EXCEPT ![b][i] = s]
  BY DEF Fills
<1> DEFINE old == sweep_buffers[b]
           new == [old EXCEPT ![i] = s]
           C == Spans \cup {NoSpan}
<1>1. old \in Seq(C) /\ Len(old) \in Nat /\ DOMAIN old = 1 .. Len(old)
  BY <1>0, LenProperties DEF Typed
<1>2. sweep_buffers' = [sweep_buffers EXCEPT ![b] = new]
  BY <1>0, Zenon
<1>3. /\ DOMAIN new = DOMAIN old
      /\ \A j \in DOMAIN old : new[j] = IF j = i THEN s ELSE old[j]
  BY <1>1
<1>4. new \in Seq(C) /\ Len(new) = Len(old)
  <2>1. \A j \in 1 .. Len(old) : old[j] \in C
    BY <1>1, ElementOfSeq
  <2>2. new \in [1 .. Len(old) -> C]
    BY <1>0, <1>1, <2>1
  <2> HIDE DEF new, old
  <2>3. new \in Seq(C)
    BY <1>1, <2>2, SeqDef
  <2> QED BY <1>1, <1>3, <2>3, LenProperties
<1> HIDE DEF new
<1>5. sweep_buffers'[b] = new /\ \A c \in Buffers \ {b} : sweep_buffers'[c] = sweep_buffers[c]
  BY <1>0, <1>2 DEF Typed
<1>6. Typed' /\ OthersSame(b)
  <2>1. Typed'
    BY <1>0, <1>2, <1>4 DEF Typed
  <2> QED BY <1>5, <2>1, OthersAreSame
<1>7. \A j \in Slots(b)' : /\ new[j] = IF j = i THEN s ELSE old[j]
                           /\ j # i => j \in Slots(b)
  BY <1>1, <1>3, <1>4, <1>5 DEF Slots
<1>8. InBuffer(b)' \subseteq InBuffer(b) \cup {s}
  <2>1. \A j \in Slots(b)' : new[j] = s \/ (j \in Slots(b) /\ new[j] = old[j])
    BY <1>7
  <2> QED BY <1>5, <2>1 DEF InBuffer
<1>9. s \notin InBuffer(b) /\ Distinct(b) => Distinct(b)'
  <2> SUFFICES ASSUME s \notin InBuffer(b), Distinct(b), NEW j \in Slots(b)',
                      NEW k \in Slots(b)', new[j] = new[k]
               PROVE  j = k
    BY <1>5 DEF Distinct
  <2>1. \A l \in Slots(b) : old[l] # s
    BY DEF InBuffer
  <2> QED BY <1>7, <2>1 DEF Distinct
<1> QED
  BY <1>3, <1>4, <1>5, <1>6, <1>8, <1>9 DEF Filled

-------------------------------------------------------------------------------
(* Type correctness.                                                          *)

Places == {"idle", "panicked", "end"} \cup PopSteps \cup SweepSteps
Calls == [span : Spans \cup {NoSpan}, gen : 0 .. MaxGeneration, direct : BOOLEAN,
          seen : 0 .. MaxGeneration, number : 0 .. Elements, freed : 0 .. Elements,
          to_heap : BOOLEAN, slot : Nat, pages : 0 .. NothingLeft]

(* The variables of heap, spans and calls, by themselves.                     *)
HeapType ==
  /\ sweep_generation \in 0 .. MaxGeneration /\ sweep_done \in BOOLEAN
  /\ pages_swept \in Nat
  /\ pages_in_use \in 0 .. CounterMod - 1 /\ poisoned \in BOOLEAN
SpanType ==
  /\ state \in [Spans -> {"Dead", "InUse", "Manual", "Free"}]
  /\ span_gen \in [Spans -> 0 .. MaxGeneration]
  /\ allocations_count \in [Spans -> 0 .. Elements]
  /\ marked \in [Spans -> 0 .. Elements] /\ live \in [Spans -> 0 .. Elements]
CallType == pc \in [Threads -> Places] /\ call \in [Threads -> Calls]
BufferType == Typed /\ has_block \in [Buffers -> BOOLEAN]

(* TypeOK in these parts.                                                     *)
LEMMA TypeParts ==
  TypeOK <=> CallType /\ HeapType /\ SpanType /\ BufferType /\ sweepers \in Nat
BY DEF TypeOK, CallType, HeapType, SpanType, BufferType, Typed, Buffers, Places, Calls

(* What the invariant says of types, and which buffers the cycle uses.        *)
LEMMA Types ==
  ASSUME Overlapping
  PROVE  /\ CallType /\ HeapType /\ SpanType /\ BufferType /\ Typed
         /\ sweep_generation \in Nat
         /\ Pushable(sweep_generation) \in Buffers /\ Popable(sweep_generation) \in Buffers
         /\ Pushable(sweep_generation) # Popable(sweep_generation)
<1>1. CallType /\ HeapType /\ SpanType /\ BufferType
  BY TypeParts DEF Overlapping
<1>2. sweep_generation \in Nat
  BY <1>1 DEF HeapType
<1> QED BY <1>1, <1>2, BufferRoles DEF BufferType

(* The locals before a call are well typed.                                   *)
LEMMA NoCallType == NoCall \in Calls
BY ParametersAssumption DEF NoCall, Calls, NothingLeft

(* A span has at least one object, and no more than Elements.                 *)
LEMMA ElementsType == \A s \in Spans : ElementsOf(s) \in 1 .. Elements
BY ParametersAssumption DEF ElementsOf

(* The pages of a span are never the !0 of an empty buffer.                   *)
LEMMA PagesType == \A s \in Spans : Pages[s] \in 1 .. NothingLeft - 1
BY ParametersAssumption, PagesAssumption DEF NothingLeft

(* A count of objects fits in a u16.                                          *)
LEMMA CountFits == \A n \in 0 .. Elements : n % CountMod = n
BY ParametersAssumption, CountAssumption

(* A call that has a span, and what the generations of the two are.           *)
LEMMA Holding ==
  ASSUME Overlapping, NEW t \in Threads, pc[t] \in Claiming
  PROVE  /\ call[t].span \in Spans /\ call[t].gen = sweep_generation
         /\ sweep_generation \in Nat /\ span_gen[call[t].span] \in Nat
         /\ span_gen[call[t].span] <= sweep_generation
         /\ span_gen[call[t].span] >= sweep_generation - 2
         /\ pc[t] # "claim" => span_gen[call[t].span] >= sweep_generation - 1
         /\ state[call[t].span] # "InUse" =>
              state[call[t].span] = "Free" /\ span_gen[call[t].span] = sweep_generation
<1>1. call[t].gen = sweep_generation
  BY DEF Overlapping, Counted, Running, Claiming, SweepSteps
<1>2. \A s \in {call[t].span} :
        /\ s \in Spans
        /\ span_gen[s] >= sweep_generation - IF pc[t] = "claim" THEN 2 ELSE 1
        /\ state[s] # "InUse" => state[s] = "Free" /\ span_gen[s] = sweep_generation
  BY Zenon DEF Overlapping, ClaimsSound
<1>3. call[t].span \in Spans
  BY <1>2
<1>4. /\ sweep_generation \in Nat /\ span_gen[call[t].span] \in Nat
      /\ span_gen[call[t].span] <= sweep_generation
  BY <1>3 DEF Overlapping, TypeOK, Shapes
<1> QED BY <1>1, <1>2, <1>3, <1>4

(* The generation of any call that runs is that of the heap.                  *)
LEMMA SameGeneration ==
  ASSUME Overlapping, NEW t \in Threads, Running(t)
  PROVE  call[t].gen = sweep_generation
BY DEF Overlapping, Counted

(* The slot that a pop takes holds a span or nothing.                         *)
LEMMA PoppedSlot ==
  ASSUME Overlapping, NEW t \in Threads, pc[t] = "pop"
  PROVE  /\ Popped(t) = Unswept
         /\ Popped(t) # <<>> => LastSlot(t) \in Spans \cup {NoSpan}
<1>1. call[t].gen = sweep_generation
  BY SameGeneration DEF Running
<1>2. Popable(sweep_generation) \in Buffers /\ Typed
  BY Types
<1>3. Unswept \in Seq(Spans \cup {NoSpan})
  BY <1>2 DEF Unswept, Typed
<1>4. Unswept # <<>> => Len(Unswept) \in 1 .. Len(Unswept)
  BY <1>3, EmptySeq
<1>5. Unswept # <<>> => Unswept[Len(Unswept)] \in Spans \cup {NoSpan}
  BY <1>3, <1>4, ElementOfSeq
<1>6. Popped(t) = Unswept
  BY <1>1 DEF Popped, Unswept
<1> QED BY <1>5, <1>6 DEF LastSlot

(* Steps of the places alone, and steps that return from sweep.               *)
LEMMA GotoType ==
  ASSUME CallType, NEW t \in Threads, NEW from, NEW to \in Places, Goto(t, from, to)
  PROVE  pc' \in [Threads -> Places] /\ (UNCHANGED call => CallType')
BY DEF CallType, Goto

LEMMA ReturnType ==
  ASSUME CallType, NEW t \in Threads, NEW from, NEW result \in BOOLEAN, Return(t, from, result)
  PROVE  CallType'
<1>1. 0 \in 0 .. NothingLeft
  BY ParametersAssumption DEF NothingLeft
<1>2. CASE call[t].direct
  <2>1. Goto(t, from, "idle") /\ call' = [call EXCEPT ![t] = NoCall]
    BY <1>2, Zenon DEF Return
  <2> QED BY <2>1, NoCallType DEF Goto, CallType, Places
<1>3. CASE ~call[t].direct
  <2>1. pc' \in [Threads -> Places]
    BY <1>3, GotoType DEF Return, Places
  <2>2. call' \in [Threads -> Calls]
    BY <1>1, <1>3 DEF Return, CallType, Calls
  <2> QED BY <2>1, <2>2 DEF CallType
<1> QED BY <1>2, <1>3

(* The threads keep to the places of a call, and its locals to their types.   *)
LEMMA CallStep ==
  ASSUME Overlapping, [Next]_vars
  PROVE  CallType'
<1>0. CallType /\ HeapType /\ SpanType
  BY Types
<1>1. ASSUME NEW s \in Spans, AllocateSpan(s) \/ AllocateManual(s) \/ FreeManualSpan(s)
      PROVE  CallType'
  BY <1>0, <1>1 DEF AllocateSpan, AllocateManual, FreeManualSpan, CallType
<1>2. CASE StartCycle \/ UNCHANGED vars
  BY <1>0, <1>2 DEF StartCycle, CallType, vars
<1>3. ASSUME NEW t \in Threads, SweepOneBegin(t) \/ SweepOneDone(t) PROVE CallType'
  <2>1. CASE SweepOneBegin(t)
    <3>1. [NoCall EXCEPT !.gen = sweep_generation] \in Calls
      BY <1>0, NoCallType DEF HeapType, Calls
    <3> QED BY <1>0, <2>1, <3>1 DEF SweepOneBegin, Goto, CallType, Places, PopSteps
  <2>2. CASE SweepOneDone(t)
    BY <1>0, <2>2 DEF SweepOneDone, vars, CallType
  <2> QED BY <1>3, <2>1, <2>2
<1>4. ASSUME NEW t \in Threads, NEW s \in Spans, DirectSweep(t, s) PROVE CallType'
  <2>1. [NoCall EXCEPT !.span = s, !.gen = sweep_generation, !.direct = TRUE] \in Calls
    BY <1>0, NoCallType DEF HeapType, Calls
  <2> QED BY <1>0, <1>4, <2>1 DEF DirectSweep, Goto, CallType, Places, SweepSteps
<1>5. ASSUME NEW t \in Threads, SweepOneStep(t) PROVE CallType'
  <2> USE DEF Places, PopSteps, SweepSteps
  <2>1. CASE PopNone(t) \/ PopWild(t) \/ PopEmpty(t) \/ PopBeyond(t) \/ PopUndo(t)
             \/ SweepingDone(t) \/ Inspect(t)
    BY <1>0, <2>1, GotoType
    DEF PopNone, PopWild, PopEmpty, PopBeyond, PopUndo, SweepingDone, Inspect, Local
  <2>2. CASE PopSpan(t)
    <3>1. LastSlot(t) \in Spans
      BY <2>2, PoppedSlot DEF PopSpan, Goto
    <3>2. Goto(t, "pop", "load") /\ call' = [call EXCEPT ![t].span = LastSlot(t)]
      BY <2>2 DEF PopSpan
    <3> HIDE DEF Places, PopSteps, SweepSteps
    <3>3. call' \in [Threads -> Calls]
      BY <1>0, <3>1, <3>2 DEF CallType, Calls
    <3> QED BY <1>0, <3>2, <3>3, GotoType DEF CallType, Places, PopSteps
  <2>3. CASE LoadGeneration(t)
    <3>1. call[t].span \in Spans
      BY <2>3 DEF LoadGeneration, Local, Goto, Overlapping, ClaimsSound
    <3> QED BY <1>0, <2>3, <3>1 DEF LoadGeneration, Local, Goto, CallType, Calls, SpanType
  <2>4. CASE Claim(t)
    <3>1. Pages[call[t].span] \in 0 .. NothingLeft
      BY <2>4, Holding, PagesType, ParametersAssumption DEF Claim, Claiming, NothingLeft
    <3> QED BY <1>0, <2>4, <3>1 DEF Claim, Goto, CallType, Calls
  <2>5. CASE SweepOneEnd(t)
    BY <1>0, <2>5, NoCallType DEF SweepOneEnd, Goto, CallType
  <2> QED BY <1>5, <2>1, <2>2, <2>3, <2>4, <2>5 DEF SweepOneStep
<1>6. ASSUME NEW t \in Threads, SweepStep(t) PROVE CallType'
  <2> USE DEF Places, PopSteps, SweepSteps
  <2>0. pc[t] \in SweepSteps => call[t].span \in Spans
    BY Holding DEF Claiming
  <2>1. CASE SweepCheck(t) \/ StoreCount(t) \/ SwapBits(t) \/ ReleaseState(t) \/ ReleaseOwner(t)
    BY <1>0, <2>1, GotoType DEF SweepCheck, StoreCount, SwapBits, ReleaseState, ReleaseOwner, Local
  <2>2. CASE SweepRelease(t) \/ SweepToCentral(t) \/ SweepToHeap(t) \/ SweepKeep(t)
    BY <1>0, <2>2, GotoType DEF SweepRelease, SweepToCentral, SweepToHeap, SweepKeep, Local
  <2>3. CASE SweepLoad(t)
    BY <1>0, <2>0, <2>3 DEF SweepLoad, Local, Goto, CallType, Calls, SpanType
  <2>4. CASE SweepCount(t)
    <3>1. call[t].span \in Spans /\ Goto(t, "count", "freed")
      BY <2>0, <2>4 DEF SweepCount, Local, Goto
    <3>2. marked[call[t].span] % CountMod \in 0 .. Elements
      BY <1>0, <3>1, CountFits DEF SpanType
    <3>3. /\ (call[t].span \in Large /\ marked[call[t].span] % CountMod = 0) \in BOOLEAN
          /\ call[t] \in Calls
      BY <1>0 DEF CallType
    <3>4. [call[t] EXCEPT !.number = marked[call[t].span] % CountMod,
             !.to_heap = call[t].span \in Large /\ marked[call[t].span] % CountMod = 0] \in Calls
      BY <3>2, <3>3 DEF Calls
    <3>5. call' = [call EXCEPT ![t] = [call[t] EXCEPT
             !.number = marked[call[t].span] % CountMod,
             !.to_heap = call[t].span \in Large /\ marked[call[t].span] % CountMod = 0]]
      BY <1>0, <2>4 DEF SweepCount, CallType, Calls
    <3>6. pc' \in [Threads -> Places]
      BY <1>0, <3>1, GotoType
    <3> QED BY <1>0, <3>4, <3>5, <3>6 DEF CallType
  <2>5. CASE CountFreed(t)
    <3>1. call[t].span \in Spans /\ call[t].number \in 0 .. Elements
      BY <1>0, <2>0, <2>5 DEF CountFreed, Local, Goto, CallType, Calls
    <3>2. allocations_count[call[t].span] \in 0 .. Elements
      BY <1>0, <3>1 DEF SpanType
    <3>3. call[t].number <= allocations_count[call[t].span] =>
            allocations_count[call[t].span] - call[t].number \in 0 .. Elements
      BY <3>1, <3>2, ParametersAssumption
    <3>4. pc' \in [Threads -> Places]
      BY <1>0, <2>5, GotoType DEF CountFreed, Local
    <3> DEFINE freed == IF call[t].number > allocations_count[call[t].span] THEN call[t].freed
                        ELSE allocations_count[call[t].span] - call[t].number
    <3>5. call' = [call EXCEPT ![t] = [call[t] EXCEPT !.freed = freed]]
      BY <1>0, <2>5 DEF CountFreed, CallType, Calls
    <3>6. freed \in 0 .. Elements
      BY <1>0, <3>1, <3>2, <3>3 DEF CallType, Calls
    <3> HIDE DEF freed
    <3>7. call' \in [Threads -> Calls]
      BY <1>0, <3>5, <3>6 DEF CallType, Calls
    <3> QED BY <1>0, <3>4, <3>7 DEF CallType
  <2>6. CASE FreeLocked(t)
    BY <1>0, <2>6, ReturnType DEF FreeLocked
  <2>7. CASE SweepPush(t)
    <3> DEFINE place == Len(sweep_buffers[Pushable(call[t].gen)]) + 1
    <3>1. place \in Nat
      <4>1. call[t].gen \in Nat /\ Typed
        BY <1>0, Types DEF CallType, Calls
      <4>2. sweep_buffers[Pushable(call[t].gen)] \in Seq(Spans \cup {NoSpan})
        BY <4>1, BufferRoles DEF Typed
      <4> QED BY <4>2, LenProperties
    <3>2. Goto(t, "push", "fill") /\ call' = [call EXCEPT ![t].slot = place]
      BY <2>7 DEF SweepPush
    <3> HIDE DEF place, Places, PopSteps, SweepSteps
    <3>3. call' \in [Threads -> Calls]
      BY <1>0, <3>1, <3>2 DEF CallType, Calls
    <3> QED BY <1>0, <3>2, <3>3, GotoType DEF CallType, Places, SweepSteps
  <2>8. CASE PushFill(t)
    BY <1>0, <2>8, ReturnType DEF PushFill
  <2> QED BY <1>6, <2>1, <2>2, <2>3, <2>4, <2>5, <2>6, <2>7, <2>8 DEF SweepStep
<1> QED
  BY <1>1, <1>2, <1>3, <1>4, <1>5, <1>6 DEF Next

-------------------------------------------------------------------------------
(* A step is one of a thread, or an external one that finds nobody running.   *)

StepOf(t) ==
  \/ SweepOneBegin(t) \/ SweepOneDone(t) \/ SweepOneStep(t) \/ SweepStep(t)
  \/ \E s \in Spans : DirectSweep(t, s)
External ==
  StartCycle \/ \E s \in Spans : AllocateSpan(s) \/ AllocateManual(s) \/ FreeManualSpan(s)

LEMMA StepKinds ==
  ASSUME [Next]_vars
  PROVE  \/ \E t \in Threads : StepOf(t)
         \/ External
         \/ UNCHANGED vars
BY DEF Next, StepOf, External

LEMMA ExternalStep ==
  ASSUME External
  PROVE  NobodyRuns /\ UNCHANGED <<pc, call, sweepers, pages_in_use>>
BY DEF External, StartCycle, AllocateSpan, AllocateManual, FreeManualSpan, heapVars, lockedVars

(* What a thread's step leaves alone: the generation and the objects in use;  *)
(* sweep_done but for the end of the buffer; the lock and the count of pages  *)
(* but for the release of a span; and what other threads do.                  *)
LEMMA ThreadKeeps ==
  ASSUME NEW t \in Threads, StepOf(t)
  PROVE  /\ sweep_generation' = sweep_generation /\ live' = live
         /\ SweepingDone(t) \/ sweep_done' = sweep_done
         /\ SweepToHeap(t) \/ poisoned' = poisoned
         /\ FreeLocked(t) \/ (pages_in_use' = pages_in_use /\ state' = state)
         /\ SweepCheck(t) \/ pages_swept' = pages_swept
         /\ StoreCount(t) \/ allocations_count' = allocations_count
         /\ SwapBits(t) \/ marked' = marked
         /\ \/ Claim(t) \/ SweepRelease(t) \/ \E s \in Spans : DirectSweep(t, s)
            \/ span_gen' = span_gen
<1> USE DEF heapVars, lockedVars, spanVars, Local
<1>1. CASE SweepOneBegin(t) \/ SweepOneDone(t) \/ \E s \in Spans : DirectSweep(t, s)
  BY <1>1 DEF SweepOneBegin, SweepOneDone, DirectSweep, vars
<1>2. CASE SweepOneStep(t)
  BY <1>2 DEF SweepOneStep, PopSpan, PopNone, PopWild, PopEmpty, PopBeyond, PopUndo,
     SweepingDone, LoadGeneration, Inspect, Claim, SweepOneEnd
<1>3. CASE SweepStep(t)
  <2>1. CASE SweepLoad(t) \/ SweepCheck(t) \/ SweepCount(t) \/ CountFreed(t) \/ StoreCount(t)
             \/ SwapBits(t) \/ ReleaseState(t) \/ ReleaseOwner(t)
    BY <2>1 DEF SweepLoad, SweepCheck, SweepCount, CountFreed, StoreCount, SwapBits,
       ReleaseState, ReleaseOwner
  <2>2. CASE SweepRelease(t) \/ SweepToCentral(t) \/ SweepToHeap(t) \/ FreeLocked(t)
             \/ SweepKeep(t) \/ SweepPush(t) \/ PushFill(t)
    BY <2>2 DEF SweepRelease, SweepToCentral, SweepToHeap, FreeLocked, SweepKeep, SweepPush,
       PushFill
  <2> QED BY <1>3, <2>1, <2>2 DEF SweepStep
<1> QED BY <1>1, <1>2, <1>3 DEF StepOf

(* A thread's step is none of another thread's.                               *)
LEMMA OthersKeep ==
  ASSUME CallType, NEW t \in Threads, StepOf(t), NEW u \in Threads \ {t}
  PROVE  pc'[u] = pc[u] /\ call'[u] = call[u]
<1>1. ASSUME NEW from, NEW to, Goto(t, from, to) PROVE pc'[u] = pc[u]
  BY <1>1 DEF Goto, CallType
<1>2. ASSUME NEW from, NEW result, Return(t, from, result)
      PROVE  pc'[u] = pc[u] /\ call'[u] = call[u]
  BY <1>2 DEF Return, Goto, CallType
<1> USE DEF Local
<1>3. CASE SweepOneBegin(t) \/ \E s \in Spans : DirectSweep(t, s)
  BY <1>1, <1>3 DEF SweepOneBegin, DirectSweep, CallType
<1>4. CASE SweepOneDone(t)
  BY <1>4 DEF SweepOneDone, vars
<1>5. CASE PopNone(t) \/ PopWild(t) \/ PopEmpty(t) \/ PopBeyond(t) \/ PopUndo(t)
           \/ SweepingDone(t) \/ Inspect(t)
  BY <1>1, <1>5 DEF PopNone, PopWild, PopEmpty, PopBeyond, PopUndo, SweepingDone, Inspect
<1>6. CASE PopSpan(t) \/ LoadGeneration(t) \/ Claim(t) \/ SweepOneEnd(t)
  BY <1>1, <1>6 DEF PopSpan, LoadGeneration, Claim, SweepOneEnd, CallType
<1>7. CASE SweepLoad(t) \/ SweepCount(t) \/ CountFreed(t)
  BY <1>1, <1>7 DEF SweepLoad, SweepCount, CountFreed, CallType
<1>8. CASE SweepCheck(t) \/ StoreCount(t) \/ SwapBits(t) \/ ReleaseState(t) \/ ReleaseOwner(t)
           \/ SweepRelease(t) \/ SweepToCentral(t) \/ SweepToHeap(t) \/ SweepKeep(t)
  BY <1>1, <1>8 DEF SweepCheck, StoreCount, SwapBits, ReleaseState, ReleaseOwner,
     SweepRelease, SweepToCentral, SweepToHeap, SweepKeep
<1>9. CASE FreeLocked(t) \/ SweepPush(t) \/ PushFill(t)
  BY <1>1, <1>2, <1>9 DEF FreeLocked, SweepPush, PushFill, CallType
<1> QED
  BY <1>3, <1>4, <1>5, <1>6, <1>7, <1>8, <1>9 DEF StepOf, SweepOneStep, SweepStep

-------------------------------------------------------------------------------
(* What becomes of a span.                                                    *)

Kept(s) == state'[s] = state[s] /\ span_gen'[s] = span_gen[s]
Taken(s) ==
  /\ state[s] \in {"Dead", "Free"} /\ state'[s] = "InUse" /\ span_gen'[s] = sweep_generation
Moved(s) ==
  /\ \/ state[s] \in {"Dead", "Free"} /\ state'[s] = "Manual"
     \/ state[s] = "Manual" /\ state'[s] = "Free"
  /\ span_gen'[s] = span_gen[s]
Claimed(s) ==
  /\ state[s] = "InUse" /\ state'[s] = "InUse"
  /\ span_gen[s] = sweep_generation - 2 /\ span_gen'[s] = sweep_generation - 1
Released(s) ==
  /\ state[s] = "InUse" /\ state'[s] = "InUse"
  /\ span_gen[s] = sweep_generation - 1 /\ span_gen'[s] = sweep_generation
Freed(s) ==
  /\ state[s] = "InUse" /\ state'[s] = "Free"
  /\ span_gen[s] = sweep_generation /\ span_gen'[s] = span_gen[s]

(* A thread claims a span, or releases or frees the one it has.               *)
ThreadChange(t, s) ==
  \/ Kept(s)
  \/ Claimed(s) /\ (DirectSweep(t, s) \/ (Claim(t) /\ s = call[t].span))
  \/ Released(s) /\ pc[t] = "release" /\ s = call[t].span
  \/ Freed(s) /\ pc[t] = "locked" /\ s = call[t].span

LEMMA ThreadChanges ==
  ASSUME Overlapping, NEW t \in Threads, StepOf(t), NEW s \in Spans
  PROVE  ThreadChange(t, s)
<1>0. /\ SpanType /\ sweep_generation \in Nat
      /\ span_gen[s] \in Nat /\ span_gen[s] <= sweep_generation
  BY Types DEF SpanType, Overlapping, Shapes
<1>1. CASE state' = state /\ span_gen' = span_gen
  BY <1>1 DEF ThreadChange, Kept
<1>2. ASSUME NEW r \in Spans, DirectSweep(t, r) PROVE ThreadChange(t, s)
  BY <1>0, <1>2 DEF DirectSweep, ThreadChange, Kept, Claimed, SpanType
<1>3. CASE Claim(t)
  <2>1. /\ call[t].span \in Spans /\ call[t].gen = sweep_generation
        /\ state[call[t].span] # "InUse" => span_gen[call[t].span] = sweep_generation
    BY <1>3, Holding DEF Claim, Claiming
  <2>2. UNCHANGED state
    BY <1>3 DEF Claim
  <2>3. CASE UNCHANGED span_gen
    BY <2>2, <2>3 DEF ThreadChange, Kept
  <2>4. CASE /\ span_gen[call[t].span] = call[t].gen - 2
             /\ span_gen' = [span_gen EXCEPT ![call[t].span] = call[t].gen - 1]
    BY <1>0, <1>3, <2>1, <2>2, <2>4 DEF ThreadChange, Kept, Claimed, SpanType
  <2> QED BY <1>3, <2>3, <2>4 DEF Claim
<1>4. CASE SweepRelease(t)
  <2>1. pc[t] = "release"
    BY <1>4 DEF SweepRelease, Goto
  <2>2. /\ call[t].span \in Spans /\ call[t].gen = sweep_generation
        /\ span_gen[call[t].span] >= sweep_generation - 1
        /\ state[call[t].span] # "InUse" => span_gen[call[t].span] = sweep_generation
    BY <2>1, Holding DEF Claiming, SweepSteps
  <2>3. UNCHANGED state /\ span_gen' = [span_gen EXCEPT ![call[t].span] = sweep_generation]
    BY <1>4, <2>2 DEF SweepRelease
  <2> QED BY <1>0, <2>1, <2>2, <2>3 DEF ThreadChange, Kept, Released, SpanType
<1>5. CASE FreeLocked(t)
  <2>1. pc[t] = "locked"
    BY <1>5 DEF FreeLocked, Return, Goto
  <2>2. state[call[t].span] = "InUse" /\ span_gen[call[t].span] = sweep_generation
    BY <2>1 DEF Overlapping, LockSound
  <2>3. UNCHANGED span_gen /\ state' = [state EXCEPT ![call[t].span] = "Free"]
    BY <1>5 DEF FreeLocked
  <2> QED BY <1>0, <2>1, <2>2, <2>3 DEF ThreadChange, Kept, Freed, SpanType
<1> QED
  BY <1>1, <1>2, <1>3, <1>4, <1>5, ThreadKeeps

(* In any step a span is as it was, or does one step of its life.             *)
SpanChange(s) ==
  Kept(s) \/ Taken(s) \/ Moved(s) \/ Claimed(s) \/ Released(s) \/ Freed(s)

LEMMA SpanChanges ==
  ASSUME Overlapping, [Next]_vars, NEW s \in Spans
  PROVE  /\ SpanChange(s)
         /\ \/ StartCycle /\ sweep_generation' = sweep_generation + 2 /\ Kept(s)
            \/ sweep_generation' = sweep_generation
<1>0. SpanType
  BY Types
<1>1. ASSUME NEW t \in Threads, StepOf(t)
      PROVE  SpanChange(s) /\ sweep_generation' = sweep_generation
  BY <1>1, ThreadChanges, ThreadKeeps DEF ThreadChange, SpanChange
<1>2. CASE StartCycle
  BY <1>2 DEF StartCycle, SpanChange, Kept
<1>3. ASSUME NEW r \in Spans, AllocateSpan(r)
      PROVE  SpanChange(s) /\ sweep_generation' = sweep_generation
  BY <1>0, <1>3 DEF AllocateSpan, SpanChange, Kept, Taken, SpanType, heapVars
<1>4. ASSUME NEW r \in Spans, AllocateManual(r) \/ FreeManualSpan(r)
      PROVE  SpanChange(s) /\ sweep_generation' = sweep_generation
  BY <1>0, <1>4 DEF AllocateManual, FreeManualSpan, SpanChange, Kept, Moved, SpanType, heapVars
<1>5. CASE UNCHANGED vars
  BY <1>5 DEF vars, heapVars, spanVars, SpanChange, Kept
<1> QED
  BY <1>1, <1>2, <1>3, <1>4, <1>5, StepKinds DEF External

-------------------------------------------------------------------------------
(* The types of heap, spans and buffers.                                      *)

LEMMA HeapStep ==
  ASSUME Overlapping, [Next]_vars
  PROVE  HeapType' /\ sweep_generation' % 2 = 0
<1>0. HeapType /\ sweep_generation % 2 = 0
  BY Types DEF Overlapping, Shapes
<1>1. CASE StartCycle
  <2>1. sweep_generation + 2 \in 0 .. MaxGeneration /\ (sweep_generation + 2) % 2 = 0
    BY <1>0, <1>1, BufferRoles, ParametersAssumption DEF StartCycle, HeapType
  <2> QED BY <1>0, <1>1, <2>1 DEF StartCycle, lockedVars, HeapType
<1>2. ASSUME NEW s \in Spans, AllocateSpan(s) \/ AllocateManual(s) \/ FreeManualSpan(s)
      PROVE  HeapType' /\ sweep_generation' % 2 = 0
  BY <1>0, <1>2 DEF AllocateSpan, AllocateManual, FreeManualSpan, heapVars, lockedVars, HeapType
<1>3. ASSUME NEW t \in Threads, StepOf(t)
      PROVE  HeapType' /\ sweep_generation' % 2 = 0
  <2>1. pc[t] \in SweepSteps => call[t].span \in Spans
    BY Holding DEF Claiming
  <2>2. pages_swept' \in Nat
    <3>1. CASE SweepCheck(t)
      <4>1. Pages[call[t].span] \in Nat /\ pages_swept \in Nat
        BY <1>0, <2>1, <3>1, ParametersAssumption DEF SweepCheck, Goto, SweepSteps, HeapType
      <4>2. pages_swept' \in {pages_swept, pages_swept + Pages[call[t].span]}
        BY <3>1, <4>1 DEF SweepCheck
      <4> QED BY <4>1, <4>2
    <3> QED BY <1>0, <1>3, <3>1, ThreadKeeps DEF HeapType
  <2>3. pages_in_use' \in 0 .. CounterMod - 1
    <3>1. CASE FreeLocked(t)
      <4>1. call[t].span \in Spans
        BY <2>1, <3>1 DEF FreeLocked, Return, Goto, SweepSteps
      <4>2. (pages_in_use - Pages[call[t].span]) % CounterMod \in 0 .. CounterMod - 1
        BY <1>0, <4>1, ParametersAssumption DEF HeapType
      <4> QED BY <3>1, <4>2 DEF FreeLocked
    <3> QED BY <1>0, <1>3, <3>1, ThreadKeeps DEF HeapType
  <2>4. poisoned' \in BOOLEAN
    BY <1>0, <1>3, ThreadKeeps DEF HeapType, SweepToHeap
  <2>5. sweep_done' \in BOOLEAN
    BY <1>0, <1>3, ThreadKeeps DEF HeapType, SweepingDone
  <2> QED BY <1>0, <1>3, <2>2, <2>3, <2>4, <2>5, ThreadKeeps DEF HeapType
<1>4. CASE UNCHANGED vars
  BY <1>0, <1>4 DEF vars, heapVars, lockedVars, HeapType
<1> QED
  BY <1>1, <1>2, <1>3, <1>4, StepKinds DEF External

(* Spans keep their types, and none is ahead of the heap.                     *)
SpansTyped == SpanType /\ \A s \in Spans : span_gen[s] <= sweep_generation

LEMMA SpanTypeStep ==
  ASSUME Overlapping, [Next]_vars
  PROVE  SpansTyped'
<1>0. SpansTyped /\ SpanType /\ HeapType /\ CallType /\ MaxGeneration \in Nat
  BY Types, ParametersAssumption DEF SpansTyped, Overlapping, Shapes
<1>1. ASSUME NEW s \in Spans, AllocateSpan(s) PROVE SpansTyped'
  <2>1. PICK n \in 1 .. ElementsOf(s) :
          /\ allocations_count' = [allocations_count EXCEPT ![s] = n]
          /\ live' = [live EXCEPT ![s] = n]
    BY <1>1 DEF AllocateSpan
  <2>2. n \in 0 .. Elements
    BY ElementsType, ParametersAssumption
  <2> QED BY <1>0, <1>1, <2>1, <2>2 DEF AllocateSpan, heapVars, SpansTyped, SpanType, HeapType
<1>2. ASSUME NEW s \in Spans, AllocateManual(s) \/ FreeManualSpan(s) PROVE SpansTyped'
  BY <1>0, <1>2, ParametersAssumption DEF AllocateManual, FreeManualSpan, heapVars,
     SpansTyped, SpanType
<1>3. CASE StartCycle
  <2>1. marked' \in [Spans -> 0 .. Elements] /\ live' = marked'
    BY <1>3 DEF StartCycle
  <2> QED BY <1>0, <1>3, <2>1 DEF StartCycle, SpansTyped, SpanType, HeapType
<1>4. ASSUME NEW t \in Threads, StepOf(t) PROVE SpansTyped'
  <2>0. pc[t] \in Claiming => call[t].span \in Spans /\ call[t].gen = sweep_generation
    BY Holding
  <2>1. sweep_generation' = sweep_generation /\ live' = live
    BY <1>4, ThreadKeeps
  <2>2. state' \in [Spans -> {"Dead", "InUse", "Manual", "Free"}]
    BY <1>0, <1>4, ThreadKeeps DEF SpanType, FreeLocked
  <2>3. allocations_count' \in [Spans -> 0 .. Elements]
    BY <1>0, <1>4, ThreadKeeps DEF SpanType, StoreCount, CallType, Calls
  <2>4. marked' \in [Spans -> 0 .. Elements]
    <3>1. 0 \in 0 .. Elements
      BY ParametersAssumption
    <3>2. SwapBits(t) => \/ marked' = marked
                         \/ marked' = [marked EXCEPT ![call[t].span] = 0]
      BY DEF SwapBits, Local, spanVars
    <3> QED BY <1>0, <1>4, <3>1, <3>2, ThreadKeeps DEF SpanType
  <2>5. /\ span_gen' \in [Spans -> 0 .. MaxGeneration]
        /\ \A s \in Spans : span_gen'[s] <= sweep_generation
    <3>1. \A s \in Spans : span_gen'[s] <= sweep_generation
      <4> SUFFICES ASSUME NEW s \in Spans PROVE span_gen'[s] <= sweep_generation
        OBVIOUS
      <4>1. ThreadChange(t, s)
        BY <1>4, ThreadChanges
      <4> QED BY <1>0, <4>1
          DEF ThreadChange, Kept, Claimed, Released, Freed, SpansTyped, HeapType
    <3>2. ASSUME NEW r \in Spans, DirectSweep(t, r) PROVE span_gen' \in [Spans -> 0 .. MaxGeneration]
      <4>1. span_gen[r] = sweep_generation - 2 /\ span_gen[r] \in 0 .. MaxGeneration
        BY <1>0, <3>2 DEF DirectSweep, SpanType
      <4>2. sweep_generation - 1 \in 0 .. MaxGeneration
        BY <1>0, <4>1 DEF HeapType
      <4> QED BY <1>0, <3>2, <4>2 DEF DirectSweep, SpanType
    <3>3. ASSUME Claim(t) PROVE span_gen' \in [Spans -> 0 .. MaxGeneration]
      <4>1. call[t].span \in Spans /\ call[t].gen = sweep_generation
        BY <2>0, <3>3 DEF Claim, Claiming
      <4>2. span_gen[call[t].span] \in 0 .. MaxGeneration
        BY <1>0, <4>1 DEF SpanType
      <4>3. span_gen[call[t].span] = sweep_generation - 2 => sweep_generation - 1 \in 0 .. MaxGeneration
        BY <1>0, <4>2 DEF HeapType
      <4>4. \/ span_gen' = span_gen
            \/ /\ span_gen[call[t].span] = sweep_generation - 2
               /\ span_gen' = [span_gen EXCEPT ![call[t].span] = sweep_generation - 1]
        BY <3>3, <4>1 DEF Claim
      <4>5. span_gen \in [Spans -> 0 .. MaxGeneration]
        BY <1>0 DEF SpanType
      <4> QED BY <4>1, <4>3, <4>4, <4>5
    <3>4. ASSUME SweepRelease(t) PROVE span_gen' \in [Spans -> 0 .. MaxGeneration]
      <4>1. /\ span_gen' = [span_gen EXCEPT ![call[t].span] = sweep_generation]
            /\ call[t].span \in Spans
        BY <2>0, <3>4 DEF SweepRelease, Goto, Claiming, SweepSteps
      <4>2. span_gen \in [Spans -> 0 .. MaxGeneration] /\ sweep_generation \in 0 .. MaxGeneration
        BY <1>0 DEF SpanType, HeapType
      <4> QED BY <4>1, <4>2
    <3>5. span_gen' = span_gen => span_gen' \in [Spans -> 0 .. MaxGeneration]
      BY <1>0 DEF SpanType
    <3> QED BY <1>4, <3>1, <3>2, <3>3, <3>4, <3>5, ThreadKeeps
  <2>6. live' \in [Spans -> 0 .. Elements]
    BY <1>0, <2>1 DEF SpanType
  <2>7. SpanType'
    BY <2>2, <2>3, <2>4, <2>5, <2>6 DEF SpanType
  <2> QED BY <2>1, <2>5, <2>7 DEF SpansTyped
<1>5. CASE UNCHANGED vars
  BY <1>0, <1>5 DEF vars, heapVars, spanVars, SpansTyped, SpanType
<1> QED
  BY <1>1, <1>2, <1>3, <1>4, <1>5, StepKinds DEF External

-------------------------------------------------------------------------------
(* The buffers.                                                               *)

(* The steps that touch a buffer, and what those on the unswept one do.       *)
Pops(t) == PopSpan(t) \/ PopNone(t) \/ PopWild(t)

LEMMA BufferStep ==
  ASSUME [Next]_vars
  PROVE  \/ UNCHANGED bufferVars
         \/ \E s \in Spans : AllocateSpan(s)
         \/ \E t \in Threads : Pops(t) \/ SweepPush(t) \/ PushFill(t)
<1> USE DEF Local
<1>1. ASSUME NEW s \in Spans, AllocateManual(s) \/ FreeManualSpan(s) PROVE UNCHANGED bufferVars
  BY <1>1 DEF AllocateManual, FreeManualSpan
<1>2. CASE StartCycle \/ UNCHANGED vars
  BY <1>2 DEF StartCycle, vars
<1>3. ASSUME NEW t \in Threads,
             SweepOneBegin(t) \/ SweepOneDone(t) \/ \E s \in Spans : DirectSweep(t, s)
      PROVE  UNCHANGED bufferVars
  BY <1>3 DEF SweepOneBegin, SweepOneDone, DirectSweep, vars
<1>4. ASSUME NEW t \in Threads, SweepOneStep(t) PROVE UNCHANGED bufferVars \/ Pops(t)
  BY <1>4 DEF SweepOneStep, Pops, PopEmpty, PopBeyond, PopUndo, SweepingDone, LoadGeneration,
     Inspect, Claim, SweepOneEnd
<1>5. ASSUME NEW t \in Threads, SweepStep(t)
      PROVE  UNCHANGED bufferVars \/ SweepPush(t) \/ PushFill(t)
  BY <1>5 DEF SweepStep, SweepLoad, SweepCheck, SweepCount, CountFreed, StoreCount, SwapBits,
     ReleaseState, ReleaseOwner, SweepRelease, SweepToCentral, SweepToHeap, FreeLocked, SweepKeep
<1> QED
  BY <1>1, <1>2, <1>3, <1>4, <1>5 DEF Next

(* A pop is of the unswept buffer, a push of the swept one.                   *)
LEMMA PopForm ==
  ASSUME Overlapping, NEW t \in Threads, Pops(t)
  PROVE  /\ pc[t] = "pop" /\ Unswept # <<>> /\ Unswept = sweep_buffers[Popable(sweep_generation)]
         /\ LastSlot(t) = Unswept[Len(Unswept)]
         /\ sweep_buffers' = [sweep_buffers EXCEPT
                                ![Popable(sweep_generation)] = SubSeq(@, 1, Len(@) - 1)]
         /\ UNCHANGED <<sweep_generation, has_block>>
<1>1. pc[t] = "pop"
  BY DEF Pops, PopSpan, PopNone, PopWild, Goto
<1>2. call[t].gen = sweep_generation
  BY <1>1, SameGeneration DEF Running
<1> QED
  BY <1>1, <1>2 DEF Pops, PopSpan, PopNone, PopWild, Popped, LastSlot, Pop, Unswept, heapVars

LEMMA PushForm ==
  ASSUME Overlapping, NEW t \in Threads, SweepPush(t)
  PROVE  /\ pc[t] = "push" /\ pc'[t] = "fill" /\ call'[t].span = call[t].span
         /\ call'[t].slot = Len(Pushed) + 1
         /\ sweep_buffers' = [sweep_buffers EXCEPT
                                ![Pushable(sweep_generation)] = Append(@, NoSpan)]
         /\ UNCHANGED <<sweep_generation, has_block>>
<1>1. pc[t] = "push" /\ CallType
  BY Types DEF SweepPush, Goto
<1>2. call[t].gen = sweep_generation
  BY <1>1, SameGeneration DEF Running
<1> QED
  BY <1>1, <1>2 DEF SweepPush, Goto, Pushed, CallType, Calls, heapVars

LEMMA FillForm ==
  ASSUME Overlapping, NEW t \in Threads, PushFill(t)
  PROVE  /\ pc[t] = "fill" /\ call[t].span \in Spans /\ call[t].slot \in Nat
         /\ sweep_buffers' = IF has_block[Pushable(sweep_generation)]
                             THEN [sweep_buffers EXCEPT
                                     ![Pushable(sweep_generation)][call[t].slot] = call[t].span]
                             ELSE sweep_buffers
         /\ has_block' = [has_block EXCEPT ![Pushable(sweep_generation)] = TRUE]
         /\ UNCHANGED sweep_generation
<1>1. pc[t] = "fill"
  BY DEF PushFill, Return, Goto
<1>2. call[t].gen = sweep_generation /\ call[t].span \in Spans
  BY <1>1, Holding DEF Claiming, SweepSteps
<1>3. call[t].slot \in Nat
  BY Types DEF CallType, Calls
<1> QED
  BY <1>1, <1>2, <1>3 DEF PushFill, heapVars

LEMMA AllocateForm ==
  ASSUME Overlapping, NEW s \in Spans, AllocateSpan(s)
  PROVE  /\ sweep_buffers' = [sweep_buffers EXCEPT ![Pushable(sweep_generation)] =
                                Append(@, IF has_block[Pushable(sweep_generation)] THEN s
                                          ELSE NoSpan)]
         /\ has_block' = [has_block EXCEPT ![Pushable(sweep_generation)] = TRUE]
         /\ UNCHANGED sweep_generation
BY DEF AllocateSpan, Push, heapVars

(* The buffers stay sequences of slots, and nothing waits before the first    *)
(* collection.                                                                *)
LEMMA BufferTypeStep ==
  ASSUME Overlapping, [Next]_vars
  PROVE  BufferType' /\ NothingBefore'
<1> PICK p, q : p = Pushable(sweep_generation) /\ q = Popable(sweep_generation)
  OBVIOUS
<1>0. /\ Typed /\ has_block \in [Buffers -> BOOLEAN]
      /\ p \in Buffers /\ q \in Buffers /\ p # q
      /\ sweep_generation = 0 => sweep_buffers[q] = <<>>
  BY Types DEF BufferType, Overlapping, NothingBefore, Unswept
<1>1. CASE StartCycle
  <2>1. UNCHANGED <<sweep_buffers, has_block>> /\ sweep_generation' # 0
    BY <1>1, Types DEF StartCycle, bufferVars
  <2> QED BY <1>0, <2>1 DEF BufferType, Typed, NothingBefore
<1>2. CASE UNCHANGED bufferVars /\ UNCHANGED sweep_generation
  <2>1. UNCHANGED <<sweep_buffers, has_block, sweep_generation>>
    BY <1>2 DEF bufferVars
  <2> QED BY <1>0, <2>1 DEF BufferType, Typed, NothingBefore, Unswept
<1>3. ASSUME Typed', has_block' \in [Buffers -> BOOLEAN], sweep_buffers'[q] = sweep_buffers[q],
             UNCHANGED sweep_generation
      PROVE  BufferType' /\ NothingBefore'
  BY <1>0, <1>3 DEF BufferType, NothingBefore, Unswept
<1>4. ASSUME NEW t \in Threads, Pops(t) PROVE BufferType' /\ NothingBefore'
  <2>1. /\ sweep_buffers[q] # <<>> /\ UNCHANGED <<has_block, sweep_generation>>
        /\ sweep_buffers' = [sweep_buffers EXCEPT ![q] = SubSeq(@, 1, Len(@) - 1)]
    BY <1>4, PopForm
  <2>2. Typed'
    BY <1>0, <2>1, PopEffect
  <2> QED BY <1>0, <2>1, <2>2 DEF BufferType, NothingBefore
<1>5. ASSUME NEW t \in Threads, SweepPush(t) PROVE BufferType' /\ NothingBefore'
  <2>1. /\ UNCHANGED <<has_block, sweep_generation>>
        /\ Appends(p, NoSpan)
    BY <1>0, <1>5, PushForm DEF Appends
  <2>2. Typed' /\ sweep_buffers'[q] = sweep_buffers[q]
    <3>1. Typed' /\ OthersSame(p)
      BY <2>1, AppendEffect DEF Appended
    <3> QED BY <1>0, <3>1, OtherBuffer
  <2> QED BY <1>0, <1>3, <2>1, <2>2
<1>6. ASSUME NEW t \in Threads, PushFill(t) PROVE BufferType' /\ NothingBefore'
  <2> PICK i, s : i = call[t].slot /\ s = call[t].span
    OBVIOUS
  <2>1. /\ UNCHANGED sweep_generation /\ has_block' \in [Buffers -> BOOLEAN]
        /\ sweep_buffers' = sweep_buffers \/ Fills(p, i, s)
    BY <1>0, <1>6, FillForm DEF Fills
  <2>2. Typed' /\ sweep_buffers'[q] = sweep_buffers[q]
    <3>1. CASE sweep_buffers' = sweep_buffers
      BY <1>0, <3>1 DEF Typed
    <3>2. CASE Fills(p, i, s)
      <4>1. Typed' /\ OthersSame(p)
        BY <3>2, FillEffect DEF Filled
      <4> QED BY <1>0, <4>1, OtherBuffer
    <3> QED BY <2>1, <3>1, <3>2
  <2> QED BY <1>3, <2>1, <2>2
<1>7. ASSUME NEW s \in Spans, AllocateSpan(s) PROVE BufferType' /\ NothingBefore'
  <2>1. PICK x : Appends(p, x)
    BY <1>0, <1>7, AllocateForm DEF Appends
  <2>2. has_block' \in [Buffers -> BOOLEAN] /\ UNCHANGED sweep_generation
    BY <1>0, <1>7, AllocateForm
  <2>3. Typed' /\ sweep_buffers'[q] = sweep_buffers[q]
    <3>1. Typed' /\ OthersSame(p)
      BY <2>1, AppendEffect DEF Appended
    <3> QED BY <1>0, <3>1, OtherBuffer
  <2> QED BY <1>3, <2>2, <2>3
<1>8. StartCycle \/ UNCHANGED sweep_generation
  <2>1. External \/ UNCHANGED vars => StartCycle \/ UNCHANGED sweep_generation
    BY DEF External, AllocateSpan, AllocateManual, FreeManualSpan, heapVars, vars
  <2> QED BY <2>1, StepKinds, ThreadKeeps
<1> QED
  BY <1>1, <1>2, <1>4, <1>5, <1>6, <1>7, <1>8, BufferStep

-------------------------------------------------------------------------------
(* A thread's own steps.                                                      *)

SameCall(t) ==
  /\ call'[t].span = call[t].span /\ call'[t].gen = call[t].gen
  /\ call'[t].direct = call[t].direct

(* A step of a call goes from place to place, and keeps to its span.          *)
LEMMA GotoForm ==
  ASSUME CallType, NEW t \in Threads, NEW from, NEW to, Goto(t, from, to)
  PROVE  /\ pc[t] = from /\ pc'[t] = to
         /\ UNCHANGED call => SameCall(t) /\ call'[t].pages = call[t].pages
BY DEF CallType, Goto, SameCall

LEMMA ReturnForm ==
  ASSUME CallType, NEW t \in Threads, NEW from, NEW result, Return(t, from, result)
  PROVE  /\ pc[t] = from
         /\ call[t].direct => pc'[t] = "idle" /\ call'[t] = NoCall
         /\ ~call[t].direct => /\ pc'[t] = "end" /\ SameCall(t)
                               /\ call'[t].pages = IF result THEN call[t].pages ELSE 0
<1>1. CASE call[t].direct
  <2>1. Goto(t, from, "idle") /\ call' = [call EXCEPT ![t] = NoCall]
    BY <1>1, Zenon DEF Return
  <2> QED BY <1>1, <2>1 DEF Goto, CallType
<1>2. CASE ~call[t].direct
  <2>1. /\ Goto(t, from, "end")
        /\ call' = [call EXCEPT ![t].pages = IF result THEN @ ELSE 0]
    BY <1>2, Zenon DEF Return
  <2> QED BY <1>2, <2>1 DEF Goto, CallType, Calls, SameCall
<1> QED BY <1>1, <1>2

(* sweep_one between its first step and its last.                             *)
LEMMA PopWithin ==
  ASSUME CallType, NEW t \in Threads, SweepOneStep(t), ~SweepOneEnd(t)
  PROVE  /\ pc[t] \in PopSteps /\ pc'[t] \in PopSteps \cup {"sweep", "end", "panicked"}
         /\ call'[t].gen = call[t].gen /\ call'[t].direct = call[t].direct
         /\ Claim(t) \/ call'[t].pages = call[t].pages
         /\ PopSpan(t) \/ call'[t].span = call[t].span
         /\ UNCHANGED sweepers
<1> USE DEF PopSteps, Local, heapVars
<1>1. CASE PopNone(t) \/ PopWild(t) \/ PopEmpty(t) \/ PopBeyond(t) \/ PopUndo(t)
           \/ SweepingDone(t) \/ Inspect(t)
  <2>1. UNCHANGED call /\ UNCHANGED sweepers
    BY <1>1 DEF PopNone, PopWild, PopEmpty, PopBeyond, PopUndo, SweepingDone, Inspect
  <2>2. \E from \in PopSteps, to \in PopSteps \cup {"end", "panicked"} : Goto(t, from, to)
    BY <1>1 DEF PopNone, PopWild, PopEmpty, PopBeyond, PopUndo, SweepingDone, Inspect
  <2> QED BY <2>1, <2>2, GotoForm DEF SameCall
<1>2. CASE PopSpan(t) \/ LoadGeneration(t)
  BY <1>2 DEF PopSpan, LoadGeneration, Goto, CallType, Calls
<1>3. CASE Claim(t)
  BY <1>3 DEF Claim, Goto, CallType, Calls
<1> QED BY <1>1, <1>2, <1>3 DEF SweepOneStep

(* sweep between its first step and its last.                                 *)
LEMMA SweepWithin ==
  ASSUME CallType, NEW t \in Threads, SweepStep(t), ~FreeLocked(t), ~PushFill(t)
  PROVE  /\ pc[t] \in SweepSteps \ {"locked", "fill"}
         /\ pc'[t] \in SweepSteps \cup {"panicked"}
         /\ SameCall(t) /\ call'[t].pages = call[t].pages
         /\ UNCHANGED sweepers
<1> USE DEF SweepSteps, Local, heapVars
<1>1. CASE SweepCheck(t) \/ StoreCount(t) \/ SwapBits(t) \/ ReleaseState(t) \/ ReleaseOwner(t)
  <2>1. UNCHANGED call /\ UNCHANGED sweepers
    BY <1>1 DEF SweepCheck, StoreCount, SwapBits, ReleaseState, ReleaseOwner
  <2>2. \E from \in SweepSteps \ {"locked", "fill"}, to \in SweepSteps \cup {"panicked"} :
          Goto(t, from, to)
    BY <1>1 DEF SweepCheck, StoreCount, SwapBits, ReleaseState, ReleaseOwner
  <2> QED BY <2>1, <2>2, GotoForm
<1>2. CASE SweepRelease(t) \/ SweepToCentral(t) \/ SweepToHeap(t) \/ SweepKeep(t)
  <2>1. UNCHANGED call /\ UNCHANGED sweepers
    BY <1>2 DEF SweepRelease, SweepToCentral, SweepToHeap, SweepKeep
  <2>2. \E from \in SweepSteps \ {"locked", "fill"}, to \in SweepSteps \cup {"panicked"} :
          Goto(t, from, to)
    BY <1>2 DEF SweepRelease, SweepToCentral, SweepToHeap, SweepKeep
  <2> QED BY <2>1, <2>2, GotoForm
<1>3. CASE SweepLoad(t) \/ SweepPush(t)
  BY <1>3 DEF SweepLoad, SweepPush, Goto, CallType, Calls, SameCall
<1>4. CASE SweepCount(t)
  BY <1>4 DEF SweepCount, Goto, CallType, Calls, SameCall
<1>5. CASE CountFreed(t)
  BY <1>5 DEF CountFreed, Goto, CallType, Calls, SameCall
<1> QED BY <1>1, <1>2, <1>3, <1>4, <1>5 DEF SweepStep

-------------------------------------------------------------------------------
(* The number of calls of sweep_one.                                          *)

Open == {t \in Threads : pc[t] # "idle" /\ ~call[t].direct}

LEMMA OpenIsFinite == IsFiniteSet(Open) /\ Cardinality(Open) \in Nat
BY ParametersAssumption, FS_Subset, FS_CardinalityType DEF Open

LEMMA OpenStep ==
  ASSUME Overlapping, [Next]_vars
  PROVE  sweepers' = Cardinality(Open)'
<1>0. sweepers = Cardinality(Open) /\ CallType
  BY Types DEF Overlapping, Counted, Open
<1>1. CASE External \/ UNCHANGED vars
  <2>1. UNCHANGED <<pc, call, sweepers>>
    BY <1>1, ExternalStep DEF vars, heapVars
  <2> QED BY <1>0, <2>1 DEF Open
<1>2. ASSUME NEW t \in Threads, StepOf(t), UNCHANGED sweepers,
             (pc'[t] # "idle" /\ ~call'[t].direct) <=> (pc[t] # "idle" /\ ~call[t].direct)
      PROVE  sweepers' = Cardinality(Open)'
  <2>1. \A u \in Threads \ {t} : pc'[u] = pc[u] /\ call'[u] = call[u]
    BY <1>0, <1>2, OthersKeep
  <2>2. Open' = Open
    BY <1>2, <2>1 DEF Open
  <2> QED BY <1>0, <1>2, <2>2
<1>3. ASSUME NEW t \in Threads, SweepOneBegin(t) PROVE sweepers' = Cardinality(Open)'
  <2>1. /\ pc[t] = "idle" /\ pc'[t] = "pop" /\ ~call'[t].direct /\ sweepers' = sweepers + 1
        /\ \A u \in Threads \ {t} : pc'[u] = pc[u] /\ call'[u] = call[u]
    BY <1>0, <1>3, OthersKeep DEF SweepOneBegin, StepOf, Goto, CallType, Calls, NoCall
  <2>2. Open' = Open \cup {t} /\ t \notin Open
    BY <2>1 DEF Open
  <2> QED BY <1>0, <2>1, <2>2, OpenIsFinite, FS_AddElement
<1>4. ASSUME NEW t \in Threads, SweepOneEnd(t) PROVE sweepers' = Cardinality(Open)'
  <2>1. /\ pc[t] = "end" /\ pc'[t] = "idle" /\ sweepers' = sweepers - 1
        /\ \A u \in Threads \ {t} : pc'[u] = pc[u] /\ call'[u] = call[u]
    BY <1>0, <1>4, OthersKeep DEF SweepOneEnd, StepOf, SweepOneStep, Goto, CallType
  <2>2. ~call[t].direct
    BY <2>1 DEF Overlapping, Counted
  <2>3. Open' = Open \ {t} /\ t \in Open
    BY <2>1, <2>2 DEF Open
  <2> QED BY <1>0, <2>1, <2>3, OpenIsFinite, FS_RemoveElement
<1>5. ASSUME NEW t \in Threads, StepOf(t), ~SweepOneBegin(t), ~SweepOneEnd(t)
      PROVE  sweepers' = Cardinality(Open)'
  <2>1. CASE SweepOneDone(t)
    BY <1>2, <1>5, <2>1 DEF SweepOneDone, vars, heapVars
  <2>2. ASSUME NEW s \in Spans, DirectSweep(t, s) PROVE sweepers' = Cardinality(Open)'
    <3>1. pc[t] = "idle" /\ call'[t].direct /\ UNCHANGED sweepers
      BY <1>0, <2>2 DEF DirectSweep, Goto, CallType, Calls, NoCall, heapVars
    <3> QED BY <1>2, <1>5, <3>1
  <2>3. CASE SweepOneStep(t)
    <3>1. /\ pc[t] # "idle" /\ pc'[t] # "idle" /\ call'[t].direct = call[t].direct
          /\ UNCHANGED sweepers
      BY <1>0, <1>5, <2>3, PopWithin DEF PopSteps
    <3> QED BY <1>2, <1>5, <3>1
  <2>4. CASE SweepStep(t) /\ ~FreeLocked(t) /\ ~PushFill(t)
    <3>1. /\ pc[t] # "idle" /\ pc'[t] # "idle" /\ call'[t].direct = call[t].direct
          /\ UNCHANGED sweepers
      BY <1>0, <2>4, SweepWithin DEF SweepSteps, SameCall
    <3> QED BY <1>2, <1>5, <3>1
  <2>5. CASE FreeLocked(t) \/ PushFill(t)
    <3>1. /\ Return(t, "locked", TRUE) \/ Return(t, "fill", FALSE)
          /\ UNCHANGED sweepers
      BY <2>5 DEF FreeLocked, PushFill, heapVars
    <3>2. pc[t] # "idle"
      BY <3>1 DEF Return, Goto
    <3>3. CASE call[t].direct
      <4>1. pc'[t] = "idle"
        BY <1>0, <3>1, <3>3, ReturnForm
      <4> QED BY <1>2, <1>5, <3>1, <3>3, <4>1
    <3>4. CASE ~call[t].direct
      <4>1. pc'[t] = "end" /\ call'[t].direct = call[t].direct
        BY <1>0, <3>1, <3>4, ReturnForm DEF SameCall
      <4> QED BY <1>2, <1>5, <3>1, <3>2, <3>4, <4>1
    <3> QED BY <3>3, <3>4
  <2> QED BY <1>5, <2>1, <2>2, <2>3, <2>4, <2>5 DEF StepOf
<1> QED BY <1>1, <1>3, <1>4, <1>5, StepKinds

(* Where a thread comes from to a place, and what it does where it fills.     *)
LEMMA Arrives ==
  ASSUME CallType, NEW t \in Threads, StepOf(t), ~SweepOneDone(t)
  PROVE  /\ pc'[t] = "load" => PopSpan(t)
         /\ pc'[t] = "inspect" => LoadGeneration(t)
         /\ pc'[t] = "claim" => Inspect(t)
         /\ pc'[t] = "undo" => PopEmpty(t)
         /\ pc'[t] = "none" => PopNone(t) \/ PopUndo(t)
         /\ pc'[t] = "sweep" => Claim(t) \/ \E s \in Spans : DirectSweep(t, s)
         /\ pc'[t] = "locked" => SweepToHeap(t)
         /\ pc'[t] = "fill" => SweepPush(t)
         /\ pc[t] = "fill" => PushFill(t)
<1> USE DEF Local
<1>1. CASE SweepOneBegin(t) \/ SweepOneEnd(t)
  BY <1>1 DEF SweepOneBegin, SweepOneEnd, Goto, CallType
<1>2. CASE \E s \in Spans : DirectSweep(t, s)
  <2>1. Goto(t, "idle", "sweep")
    BY <1>2 DEF DirectSweep
  <2> QED BY <1>2, <2>1 DEF Goto, CallType
<1>3. CASE PopSpan(t) \/ PopNone(t) \/ PopEmpty(t) \/ PopUndo(t) \/ LoadGeneration(t)
  BY <1>3 DEF PopSpan, PopNone, PopEmpty, PopUndo, LoadGeneration, Goto, CallType
<1>4. CASE PopWild(t) \/ PopBeyond(t) \/ SweepingDone(t)
  BY <1>4 DEF PopWild, PopBeyond, SweepingDone, Goto, CallType
<1>5. CASE Inspect(t) \/ Claim(t)
  BY <1>5 DEF Inspect, Claim, Goto, CallType
<1>6. CASE SweepLoad(t) \/ SweepCheck(t) \/ SweepCount(t) \/ CountFreed(t) \/ StoreCount(t)
           \/ SwapBits(t) \/ ReleaseState(t) \/ ReleaseOwner(t)
  <2>1. \E from \in SweepSteps \ {"fill"},
           to \in (SweepSteps \cup {"panicked"}) \ {"sweep", "locked", "fill"} : Goto(t, from, to)
    BY <1>6 DEF SweepLoad, SweepCheck, SweepCount, CountFreed, StoreCount, SwapBits,
       ReleaseState, ReleaseOwner, SweepSteps
  <2> QED BY <2>1 DEF Goto, CallType, SweepSteps
<1>7. CASE SweepRelease(t) \/ SweepToCentral(t) \/ SweepKeep(t)
  <2>1. \E from \in {"release", "dispose"}, to \in {"dispose", "push"} : Goto(t, from, to)
    BY <1>7 DEF SweepRelease, SweepToCentral, SweepKeep
  <2> QED BY <2>1 DEF Goto, CallType
<1>8. CASE SweepToHeap(t) \/ SweepPush(t)
  BY <1>8 DEF SweepToHeap, SweepPush, Goto, CallType
<1>9. CASE FreeLocked(t) \/ PushFill(t)
  <2>1. Return(t, "locked", TRUE) \/ (Return(t, "fill", FALSE) /\ PushFill(t))
    BY <1>9 DEF FreeLocked, PushFill
  <2>2. pc[t] = "locked" \/ PushFill(t)
    BY <2>1 DEF Return, Goto
  <2>3. pc'[t] = "idle" \/ pc'[t] = "end"
    <3>1. CASE call[t].direct
      BY <2>1, <3>1, ReturnForm
    <3>2. CASE ~call[t].direct
      BY <2>1, <3>2, ReturnForm
    <3> QED BY <3>1, <3>2
  <2> QED BY <2>2, <2>3
<1> QED
  BY <1>1, <1>2, <1>3, <1>4, <1>5, <1>6, <1>7, <1>8, <1>9 DEF StepOf, SweepOneStep, SweepStep

-------------------------------------------------------------------------------
(* Each call by itself.                                                       *)

Belongs(t) ==
  /\ Running(t) => call[t].gen = sweep_generation
  /\ pc[t] \in PopSteps \cup {"end"} => ~call[t].direct
  /\ pc[t] \in {"load", "inspect", "claim"} => call[t].gen >= 2
Claims(t) ==
  /\ pc[t] \in {"load", "inspect"} => call[t].span \in Spans
  /\ pc[t] = "inspect" => call[t].seen <= span_gen[call[t].span]
  /\ pc[t] \in Claiming =>
       /\ call[t].span \in Spans
       /\ span_gen[call[t].span] >= sweep_generation - IF pc[t] = "claim" THEN 2 ELSE 1
       /\ state[call[t].span] # "InUse" =>
            state[call[t].span] = "Free" /\ span_gen[call[t].span] = sweep_generation
Returns(t) ==
  /\ pc[t] \in PopSteps => call[t].pages = NothingLeft
  /\ pc[t] \in SweepSteps /\ ~call[t].direct => call[t].pages = Pages[call[t].span]
  /\ pc[t] = "end" => \/ call[t].pages = NothingLeft /\ sweep_done
                      \/ call[t].pages = 0
                      \/ /\ call[t].span \in Spans /\ state[call[t].span] = "Free"
                         /\ call[t].pages = Pages[call[t].span]
CallSound(t) == Belongs(t) /\ Claims(t) /\ Returns(t)

(* Overlapping is this of every call, and what relates several.               *)
LEMMA OverlappingParts ==
  Overlapping <=> /\ TypeOK /\ Shapes /\ sweepers = Cardinality(Open)
                  /\ NothingBefore /\ ManualEmpty /\ LockSound
                  /\ \A t \in Threads : CallSound(t)
<1>1. (\A t \in Threads : Belongs(t)) /\ sweepers = Cardinality(Open) <=> Counted /\ NoUnderflow
  BY DEF Belongs, Counted, NoUnderflow, Open
<1>2. (\A t \in Threads : Claims(t)) <=> ClaimsSound
  BY DEF Claims, ClaimsSound
<1>3. (\A t \in Threads : Returns(t)) <=> PagesSound
  BY DEF Returns, PagesSound, PagesReturned
<1> QED BY <1>1, <1>2, <1>3 DEF Overlapping, CallSound

(* A call that does not run says nothing.                                     *)
LEMMA NotRunning ==
  ASSUME NEW t \in Threads, pc[t] \in {"idle", "panicked"}
  PROVE  CallSound(t)
BY DEF CallSound, Belongs, Claims, Returns, Running, Claiming, PopSteps, SweepSteps

(* Nothing that another thread does breaks what a call relies on.             *)
LEMMA OtherStep ==
  ASSUME Overlapping, NEW t \in Threads, StepOf(t), NEW u \in Threads \ {t}
  PROVE  CallSound(u)'
<1>0. /\ CallSound(u) /\ CallType /\ SpanType /\ sweep_generation \in Nat
      /\ pc'[u] = pc[u] /\ call'[u] = call[u] /\ sweep_generation' = sweep_generation
  BY OverlappingParts, Types, OthersKeep, ThreadKeeps
<1>1. Belongs(u)'
  BY <1>0 DEF CallSound, Belongs, Running
<1>2. call[u].span \in Spans =>
        /\ span_gen[call[u].span] \in Nat /\ span_gen'[call[u].span] >= span_gen[call[u].span]
        /\ state[call[u].span] # "InUse" =>
             /\ state'[call[u].span] = state[call[u].span]
             /\ span_gen'[call[u].span] = span_gen[call[u].span]
        /\ state'[call[u].span] # state[call[u].span] =>
             state'[call[u].span] = "Free" /\ span_gen'[call[u].span] = sweep_generation
  <2> SUFFICES ASSUME NEW s \in Spans
               PROVE  /\ span_gen[s] \in Nat /\ span_gen'[s] >= span_gen[s]
                      /\ state[s] # "InUse" => state'[s] = state[s] /\ span_gen'[s] = span_gen[s]
                      /\ state'[s] # state[s] =>
                           state'[s] = "Free" /\ span_gen'[s] = sweep_generation
    OBVIOUS
  <2>1. span_gen[s] \in Nat /\ ThreadChange(t, s)
    BY <1>0, ThreadChanges DEF SpanType
  <2> QED BY <1>0, <2>1 DEF ThreadChange, Kept, Claimed, Released, Freed
<1>3. Claims(u)'
  <2>1. pc[u] = "inspect" => call[u].seen \in Nat /\ call[u].seen <= span_gen'[call[u].span]
    <3> SUFFICES ASSUME pc[u] = "inspect"
                 PROVE  call[u].seen \in Nat /\ call[u].seen <= span_gen'[call[u].span]
      OBVIOUS
    <3>1. call[u].seen \in Nat
      BY <1>0 DEF CallType, Calls
    <3>2. call[u].span \in Spans /\ call[u].seen <= span_gen[call[u].span]
      BY <1>0 DEF CallSound, Claims
    <3>3. span_gen'[call[u].span] \in Nat
      BY <3>2, SpanTypeStep DEF SpansTyped, SpanType, Next, StepOf
    <3> QED BY <1>2, <3>1, <3>2, <3>3
  <2>2. pc[u] \in Claiming =>
          /\ call[u].span \in Spans
          /\ span_gen'[call[u].span] >= sweep_generation - IF pc[u] = "claim" THEN 2 ELSE 1
          /\ state'[call[u].span] # "InUse" =>
               state'[call[u].span] = "Free" /\ span_gen'[call[u].span] = sweep_generation
    <3> SUFFICES ASSUME pc[u] \in Claiming
                 PROVE  /\ call[u].span \in Spans
                        /\ span_gen'[call[u].span] >=
                             sweep_generation - IF pc[u] = "claim" THEN 2 ELSE 1
                        /\ state'[call[u].span] # "InUse" =>
                             /\ state'[call[u].span] = "Free"
                             /\ span_gen'[call[u].span] = sweep_generation
      OBVIOUS
    <3>1. /\ call[u].span \in Spans
          /\ span_gen[call[u].span] >= sweep_generation - IF pc[u] = "claim" THEN 2 ELSE 1
          /\ state[call[u].span] # "InUse" =>
               state[call[u].span] = "Free" /\ span_gen[call[u].span] = sweep_generation
      BY <1>0 DEF CallSound, Claims
    <3>2. span_gen'[call[u].span] \in Nat
      BY <3>1, SpanTypeStep DEF SpansTyped, SpanType, Next, StepOf
    <3> QED BY <1>0, <1>2, <3>1, <3>2
  <2> QED BY <1>0, <2>1, <2>2 DEF CallSound, Claims
<1>4. Returns(u)'
  <2>1. sweep_done => sweep_done'
    BY ThreadKeeps DEF SweepingDone
  <2> QED BY <1>0, <1>2, <2>1 DEF CallSound, Returns
<1> QED BY <1>1, <1>3, <1>4 DEF CallSound

(* A call keeps what it relies on: in sweep_one, ...                          *)
LEMMA OwnPopStep ==
  ASSUME Overlapping, NEW t \in Threads, SweepOneStep(t), ~SweepOneEnd(t)
  PROVE  CallSound(t)'
<1>0. /\ CallSound(t) /\ CallType /\ SpanType /\ sweep_generation \in Nat
      /\ sweep_generation % 2 = 0
  BY OverlappingParts, Types DEF Shapes
<1>1. /\ pc[t] \in PopSteps /\ pc'[t] \in PopSteps \cup {"sweep", "end", "panicked"}
      /\ call'[t].gen = call[t].gen /\ call'[t].direct = call[t].direct
      /\ Claim(t) \/ call'[t].pages = call[t].pages
      /\ PopSpan(t) \/ call'[t].span = call[t].span
  BY <1>0, PopWithin
<1>2. /\ call[t].gen = sweep_generation /\ sweep_generation' = sweep_generation
      /\ ~call[t].direct /\ call[t].pages = NothingLeft
  BY <1>0, <1>1, ThreadKeeps
  DEF StepOf, CallSound, Belongs, Returns, Running, PopSteps
<1>3. CASE PopSpan(t)
  <2>1. pc[t] = "pop" /\ pc'[t] = "load" /\ call'[t].span = LastSlot(t)
    BY <1>0, <1>3 DEF PopSpan, Goto, CallType, Calls
  <2>2. LastSlot(t) \in Spans /\ Unswept # <<>>
    BY <1>3, <2>1, PoppedSlot DEF PopSpan
  <2>3. sweep_generation >= 2
    <3>1. sweep_generation # 0
      BY <2>2 DEF Overlapping, NothingBefore
    <3> QED BY <1>0, <3>1, BufferRoles
  <2>4. call'[t].pages = NothingLeft
    BY <1>0, <1>2, <1>3 DEF PopSpan, CallType, Calls
  <2> QED BY <1>1, <1>2, <2>1, <2>2, <2>3, <2>4
      DEF CallSound, Belongs, Claims, Returns, Claiming, SweepSteps
<1>4. CASE LoadGeneration(t)
  <2>1. /\ pc[t] = "load" /\ pc'[t] = "inspect" /\ span_gen' = span_gen
        /\ call'[t].seen = span_gen[call[t].span] /\ call'[t].span = call[t].span
        /\ call'[t].pages = call[t].pages
    BY <1>0, <1>4 DEF LoadGeneration, Local, Goto, CallType, Calls, spanVars
  <2>2. call[t].span \in Spans /\ call[t].gen >= 2
    BY <1>0, <2>1 DEF CallSound, Belongs, Claims
  <2>3. span_gen[call[t].span] \in Nat
    BY <1>0, <2>2 DEF SpanType
  <2> QED BY <1>1, <1>2, <2>1, <2>2, <2>3
      DEF CallSound, Belongs, Claims, Returns, Claiming, SweepSteps
<1>5. CASE Inspect(t)
  <2>1. /\ pc[t] = "inspect" /\ pc'[t] \in {"panicked", "pop", "claim"}
        /\ UNCHANGED <<span_gen, state, call>>
        /\ pc'[t] = "claim" => state[call[t].span] = "InUse" /\ call[t].seen = call[t].gen - 2
    BY <1>0, <1>5 DEF Inspect, Local, Goto, CallType, spanVars
  <2>2. /\ call[t].span \in Spans /\ call[t].gen >= 2
        /\ call[t].seen <= span_gen[call[t].span]
    BY <1>0, <2>1 DEF CallSound, Belongs, Claims
  <2>3. Belongs(t)' /\ Returns(t)'
    BY <1>1, <1>2, <2>1, <2>2 DEF Belongs, Returns, SweepSteps
  <2>4. Claims(t)'
    <3>1. CASE pc'[t] = "claim"
      BY <1>2, <2>1, <2>2, <3>1 DEF Claims, Claiming, SweepSteps
    <3>2. CASE pc'[t] # "claim"
      BY <2>1, <3>2 DEF Claims, Claiming, SweepSteps
    <3> QED BY <3>1, <3>2
  <2> QED BY <2>3, <2>4 DEF CallSound
<1>6. CASE Claim(t)
  <2>1. /\ pc[t] = "claim" /\ UNCHANGED state
        /\ \/ pc'[t] = "pop" /\ UNCHANGED call
           \/ /\ span_gen[call[t].span] # sweep_generation - 2 /\ UNCHANGED span_gen
              /\ pc'[t] = "sweep" /\ call'[t].pages = Pages[call[t].span]
              /\ call'[t].span = call[t].span
    BY <1>0, <1>2, <1>6 DEF Claim, Goto, CallType, Calls
  <2>2. /\ call[t].span \in Spans /\ span_gen[call[t].span] \in Nat
        /\ span_gen[call[t].span] >= sweep_generation - 2
        /\ state[call[t].span] # "InUse" =>
             state[call[t].span] = "Free" /\ span_gen[call[t].span] = sweep_generation
    BY <2>1, Holding DEF Claiming
  <2>3. CASE pc'[t] = "pop" /\ UNCHANGED call
    BY <1>2, <2>3 DEF CallSound, Belongs, Claims, Returns, Claiming, SweepSteps
  <2>4. CASE /\ span_gen[call[t].span] # sweep_generation - 2 /\ UNCHANGED span_gen
             /\ pc'[t] = "sweep" /\ call'[t].pages = Pages[call[t].span]
             /\ call'[t].span = call[t].span
    <3>1. span_gen[call[t].span] >= sweep_generation - 1
      BY <1>0, <2>2, <2>4
    <3> QED BY <1>1, <1>2, <2>1, <2>2, <2>4, <3>1
        DEF CallSound, Belongs, Claims, Returns, Claiming, SweepSteps, PopSteps
  <2> QED BY <2>1, <2>3, <2>4
<1>7. CASE SweepingDone(t)
  <2>1. pc'[t] = "end" /\ sweep_done' /\ UNCHANGED call
    BY <1>0, <1>7 DEF SweepingDone, Goto, CallType
  <2> QED BY <1>2, <2>1
      DEF CallSound, Belongs, Claims, Returns, Claiming, SweepSteps, PopSteps
<1>8. CASE PopNone(t) \/ PopWild(t) \/ PopEmpty(t) \/ PopBeyond(t) \/ PopUndo(t)
  <2>1. pc'[t] \in {"none", "undo", "panicked"} /\ UNCHANGED call
    BY <1>0, <1>8 DEF PopNone, PopWild, PopEmpty, PopBeyond, PopUndo, Local, Goto, CallType
  <2> QED BY <1>2, <2>1
      DEF CallSound, Belongs, Claims, Returns, Claiming, SweepSteps, PopSteps
<1> QED
  BY <1>3, <1>4, <1>5, <1>6, <1>7, <1>8 DEF SweepOneStep

(* ... in sweep, ...                                                          *)
LEMMA OwnSweepStep ==
  ASSUME Overlapping, NEW t \in Threads, SweepStep(t)
  PROVE  CallSound(t)'
<1>0. CallSound(t) /\ CallType /\ SpanType /\ sweep_generation \in Nat
  BY OverlappingParts, Types
<1>1. pc[t] \in SweepSteps
  <2>1. CASE FreeLocked(t) \/ PushFill(t)
    BY <1>0, <2>1, ReturnForm DEF FreeLocked, PushFill, SweepSteps
  <2> QED BY <1>0, <2>1, SweepWithin
<1>2. /\ call[t].span \in Spans /\ call[t].gen = sweep_generation
      /\ span_gen[call[t].span] \in Nat
      /\ span_gen[call[t].span] >= sweep_generation - 1
      /\ state[call[t].span] # "InUse" =>
           state[call[t].span] = "Free" /\ span_gen[call[t].span] = sweep_generation
  BY <1>1, Holding DEF Claiming, SweepSteps
<1>3. sweep_generation' = sweep_generation /\ ThreadChange(t, call[t].span)
  BY <1>2, ThreadKeeps, ThreadChanges DEF StepOf
<1>4. CASE FreeLocked(t) \/ PushFill(t)
  <2>1. \/ Return(t, "locked", TRUE) /\ state' = [state EXCEPT ![call[t].span] = "Free"]
        \/ Return(t, "fill", FALSE)
    BY <1>4 DEF FreeLocked, PushFill
  <2>2. CASE call[t].direct
    <3>1. pc'[t] = "idle"
      BY <1>0, <2>1, <2>2, ReturnForm
    <3> QED BY <3>1 DEF CallSound, Belongs, Claims, Returns, Running, Claiming, PopSteps, SweepSteps
  <2>3. CASE ~call[t].direct
    <3>1. call[t].pages = Pages[call[t].span]
      BY <1>0, <1>1, <2>3 DEF CallSound, Returns
    <3>2. /\ pc'[t] = "end" /\ SameCall(t)
          /\ \/ call'[t].pages = call[t].pages /\ state'[call[t].span] = "Free"
             \/ call'[t].pages = 0
      BY <1>0, <1>2, <2>1, <2>3, ReturnForm DEF SpanType
    <3> QED BY <1>2, <1>3, <2>3, <3>1, <3>2
        DEF CallSound, Belongs, Claims, Returns, SameCall, Running, Claiming, PopSteps, SweepSteps
  <2> QED BY <2>2, <2>3
<1>5. CASE ~FreeLocked(t) /\ ~PushFill(t)
  <2>1. /\ pc'[t] \in SweepSteps \cup {"panicked"} /\ SameCall(t)
        /\ call'[t].pages = call[t].pages
    BY <1>0, <1>5, SweepWithin
  <2>2. CASE pc'[t] = "panicked"
    BY <2>2 DEF CallSound, Belongs, Claims, Returns, Running, Claiming, PopSteps, SweepSteps
  <2>3. CASE pc'[t] \in SweepSteps
    <3>1. /\ pc'[t] \notin PopSteps \cup {"end", "load", "inspect", "claim"}
          /\ pc'[t] \in Claiming
      BY <2>3 DEF PopSteps, SweepSteps, Claiming
    <3>2. Belongs(t)'
      BY <1>2, <1>3, <2>1, <3>1 DEF Belongs, SameCall
    <3>3. Returns(t)'
      BY <1>0, <1>1, <2>1, <3>1 DEF CallSound, Returns, SameCall
    <3>4. Claims(t)'
      <4>1. /\ span_gen'[call[t].span] >= sweep_generation - 1
            /\ state'[call[t].span] # "InUse" =>
                 state'[call[t].span] = "Free" /\ span_gen'[call[t].span] = sweep_generation
        BY <1>0, <1>2, <1>3 DEF ThreadChange, Kept, Claimed, Released, Freed
      <4> QED BY <1>2, <1>3, <2>1, <3>1, <4>1 DEF Claims, SameCall
    <3> QED BY <3>2, <3>3, <3>4 DEF CallSound
  <2> QED BY <2>1, <2>2, <2>3
<1> QED BY <1>4, <1>5

(* ... and when it begins and returns.                                        *)
LEMMA OwnStep ==
  ASSUME Overlapping, NEW t \in Threads, StepOf(t)
  PROVE  CallSound(t)'
<1>0. CallSound(t) /\ CallType /\ SpanType /\ sweep_generation \in Nat
  BY OverlappingParts, Types
<1>1. CASE SweepOneBegin(t)
  <2>1. /\ pc'[t] = "pop" /\ sweep_generation' = sweep_generation
        /\ call'[t] = [NoCall EXCEPT !.gen = sweep_generation]
    BY <1>0, <1>1 DEF SweepOneBegin, Goto, CallType
  <2>2. call'[t].gen = sweep_generation /\ ~call'[t].direct /\ call'[t].pages = NothingLeft
    BY <2>1 DEF NoCall
  <2> QED BY <2>1, <2>2
      DEF CallSound, Belongs, Claims, Returns, Claiming, PopSteps, SweepSteps
<1>2. CASE SweepOneDone(t)
  BY <1>0, <1>2 DEF SweepOneDone, vars, heapVars, spanVars, CallSound, Belongs, Claims, Returns,
     Running
<1>3. ASSUME NEW s \in Spans, DirectSweep(t, s) PROVE CallSound(t)'
  <2>1. /\ pc'[t] = "sweep" /\ sweep_generation' = sweep_generation
        /\ call'[t] = [NoCall EXCEPT !.span = s, !.gen = sweep_generation, !.direct = TRUE]
        /\ state'[s] = "InUse" /\ span_gen'[s] = sweep_generation - 1
    BY <1>0, <1>3 DEF DirectSweep, Goto, CallType, SpanType, heapVars
  <2>2. call'[t].gen = sweep_generation /\ call'[t].direct /\ call'[t].span = s
    BY <2>1 DEF NoCall
  <2> QED BY <1>0, <2>1, <2>2
      DEF CallSound, Belongs, Claims, Returns, Claiming, PopSteps, SweepSteps
<1>4. CASE SweepOneEnd(t)
  <2>1. pc'[t] = "idle"
    BY <1>0, <1>4 DEF SweepOneEnd, Goto, CallType
  <2> QED BY <2>1
      DEF CallSound, Belongs, Claims, Returns, Running, Claiming, PopSteps, SweepSteps
<1> QED BY <1>1, <1>2, <1>3, <1>4, OwnPopStep, OwnSweepStep DEF StepOf

-------------------------------------------------------------------------------
(* What relates calls that overlap.                                           *)

LEMMA AnyStep ==
  ASSUME Overlapping, [Next]_vars
  PROVE  \A t \in Threads : CallSound(t)'
<1> SUFFICES ASSUME NEW t \in Threads PROVE CallSound(t)'
  OBVIOUS
<1>1. ASSUME NEW u \in Threads, StepOf(u) PROVE CallSound(t)'
  BY <1>1, OwnStep, OtherStep
<1>2. CASE External
  <2>1. NobodyRuns /\ pc' = pc
    BY <1>2, ExternalStep
  <2>2. pc'[t] \in {"idle", "panicked"}
    BY <2>1 DEF NobodyRuns, Running
  <2> QED BY <2>2
      DEF CallSound, Belongs, Claims, Returns, Running, Claiming, PopSteps, SweepSteps
<1>3. CASE UNCHANGED vars
  <2>1. CallSound(t)
    BY OverlappingParts
  <2> QED BY <1>3, <2>1 DEF vars, heapVars, spanVars, CallSound, Belongs, Claims, Returns, Running
<1> QED BY <1>1, <1>2, <1>3, StepKinds

(* Who has the lock has it alone until it lets go.                           *)
LEMMA LockStep ==
  ASSUME Overlapping, [Next]_vars
  PROVE  LockSound'
<1>0. CallType /\ LockSound /\ sweep_generation \in Nat
  BY Types DEF Overlapping
<1>1. CASE External
  BY <1>1, ExternalStep DEF LockSound, NobodyRuns, Running
<1>2. CASE UNCHANGED vars
  BY <1>0, <1>2 DEF vars, heapVars, spanVars, LockSound
<1>3. ASSUME NEW t \in Threads, StepOf(t) PROVE LockSound'
  <2>0. /\ \A u \in Threads \ {t} : pc'[u] = pc[u] /\ call'[u] = call[u]
        /\ sweep_generation' = sweep_generation
    BY <1>0, <1>3, OthersKeep, ThreadKeeps
  <2>1. CASE SweepOneDone(t)
    BY <1>0, <2>1 DEF SweepOneDone, vars, heapVars, spanVars, LockSound
  <2>2. CASE SweepToHeap(t) /\ pc'[t] = "locked"
    <3>1. /\ \A u \in Threads : pc[u] # "locked"
          /\ UNCHANGED <<state, span_gen, call>> /\ pc[t] = "dispose"
          /\ CanFree(call[t].span)
      BY <1>0, <2>2 DEF SweepToHeap, Goto, CallType, spanVars
    <3>2. state[call[t].span] # "InUse" => state[call[t].span] = "Free"
      BY <3>1, Holding DEF Claiming, SweepSteps
    <3>3. state[call[t].span] = "InUse" /\ span_gen[call[t].span] = sweep_generation
      BY <3>1, <3>2 DEF CanFree
    <3> QED BY <2>0, <2>2, <3>1, <3>3 DEF LockSound
  <2>3. CASE pc'[t] # "locked"
    <3> SUFFICES ASSUME NEW u \in Threads, pc'[u] = "locked"
                 PROVE  /\ state'[call'[u].span] = "InUse"
                        /\ span_gen'[call'[u].span] = sweep_generation
                        /\ \A w \in Threads : pc'[w] = "locked" => w = u
      BY <2>0 DEF LockSound
    <3>1. u # t /\ pc[u] = "locked" /\ call'[u] = call[u]
      BY <2>0, <2>3
    <3>2. /\ state[call[u].span] = "InUse" /\ span_gen[call[u].span] = sweep_generation
          /\ \A w \in Threads : pc[w] = "locked" => w = u
      BY <1>0, <3>1 DEF LockSound
    <3>3. call[u].span \in Spans /\ pc[t] # "locked"
      BY <3>1, <3>2, Holding DEF Claiming, SweepSteps
    <3>4. ThreadChange(t, call[u].span)
      BY <1>3, <3>3, ThreadChanges
    <3>5. Kept(call[u].span)
      BY <1>0, <3>2, <3>3, <3>4 DEF ThreadChange, Claimed, Released, Freed
    <3> QED BY <2>0, <2>3, <3>1, <3>2, <3>5 DEF Kept
  <2> QED BY <1>0, <1>3, <2>1, <2>2, <2>3, Arrives
<1> QED BY <1>1, <1>2, <1>3, StepKinds

LEMMA ManualStep ==
  ASSUME Overlapping, [Next]_vars
  PROVE  ManualEmpty'
<1>0. ManualEmpty /\ SpanType
  BY Types DEF Overlapping
<1> SUFFICES ASSUME NEW s \in Spans, state'[s] = "Manual" PROVE allocations_count'[s] = 0
  BY DEF ManualEmpty
<1>1. ASSUME NEW t \in Threads, StepOf(t) PROVE allocations_count'[s] = 0
  <2>1. state[s] = "Manual"
    BY <1>1, ThreadChanges DEF ThreadChange, Kept, Claimed, Released, Freed
  <2>2. allocations_count[s] = 0
    BY <1>0, <2>1 DEF ManualEmpty
  <2>3. CASE StoreCount(t)
    <3>1. call[t].span \in Spans /\ call[t].span # s
      BY <2>1, <2>3, Holding DEF StoreCount, Goto, Claiming, SweepSteps
    <3> QED BY <1>0, <2>2, <2>3, <3>1 DEF StoreCount, SpanType
  <2> QED BY <1>1, <2>2, <2>3, ThreadKeeps
<1>2. ASSUME NEW r \in Spans, AllocateSpan(r) PROVE allocations_count'[s] = 0
  BY <1>0, <1>2 DEF AllocateSpan, ManualEmpty, SpanType
<1>3. ASSUME NEW r \in Spans, AllocateManual(r) PROVE allocations_count'[s] = 0
  BY <1>0, <1>3 DEF AllocateManual, ManualEmpty, SpanType
<1>4. ASSUME NEW r \in Spans, FreeManualSpan(r) PROVE allocations_count'[s] = 0
  BY <1>0, <1>4 DEF FreeManualSpan, ManualEmpty, SpanType
<1>5. CASE StartCycle \/ UNCHANGED vars
  BY <1>0, <1>5 DEF StartCycle, vars, spanVars, ManualEmpty
<1> QED BY <1>1, <1>2, <1>3, <1>4, <1>5, StepKinds DEF External

(* The part of the invariant that holds however calls overlap.                *)
LEMMA OverlappingInit ==
  ASSUME Init
  PROVE  Overlapping
<1>1. CallType /\ HeapType /\ SpanType
  <2>1. CallType
    BY NoCallType DEF Init, CallType, Places
  <2>2. HeapType
    <3>1. 0 \in 0 .. MaxGeneration /\ 0 \in 0 .. CounterMod - 1
      BY ParametersAssumption
    <3> QED BY <3>1 DEF Init, HeapType
  <2>3. SpanType
    BY ParametersAssumption DEF Init, SpanType
  <2> QED BY <2>1, <2>2, <2>3
<1>2. BufferType
  <2>1. <<>> \in Seq(Spans \cup {NoSpan})
    BY EmptySeq
  <2> QED BY <2>1 DEF Init, BufferType, Typed, Buffers
<1>3. \A t \in Threads : pc[t] = "idle"
  BY DEF Init
<1>4. sweepers = Cardinality(Open) /\ sweepers \in Nat
  <2>1. Open = {}
    BY <1>3 DEF Open
  <2> QED BY <2>1, FS_EmptySet DEF Init
<1>5. Shapes /\ NothingBefore /\ ManualEmpty /\ LockSound
  <2>1. Popable(0) \in {0, 1} /\ sweep_generation = 0
    BY BufferRoles DEF Init, Buffers
  <2> QED BY <1>3, <2>1 DEF Init, Shapes, NothingBefore, Unswept, ManualEmpty, LockSound
<1>6. \A t \in Threads : CallSound(t)
  BY <1>3, NotRunning
<1> QED
  BY <1>1, <1>2, <1>4, <1>5, <1>6, TypeParts, OverlappingParts

LEMMA OverlappingStep ==
  ASSUME Overlapping, [Next]_vars
  PROVE  Overlapping'
<1>1. sweepers' = Cardinality(Open)' /\ Cardinality(Open)' \in Nat
  BY OpenStep, OpenIsFinite, ParametersAssumption, FS_Subset, FS_CardinalityType DEF Open
<1>2. TypeOK'
  BY <1>1, CallStep, HeapStep, SpanTypeStep, BufferTypeStep, TypeParts DEF SpansTyped, TypeOK,
     CallType, HeapType, SpanType, BufferType, Typed, Buffers, Places, Calls
<1>3. Shapes'
  BY HeapStep, SpanTypeStep DEF Shapes, SpansTyped
<1>4. /\ NothingBefore' /\ ManualEmpty' /\ LockSound'
      /\ \A t \in Threads : CallSound(t)'
  BY BufferTypeStep, ManualStep, LockStep, AnyStep
<1>5. (\A t \in Threads : Belongs(t)') => /\ (sweepers' = Cardinality(Open)' => Counted')
                                          /\ NoUnderflow'
  BY DEF Belongs, Counted, NoUnderflow, Open
<1>6. (\A t \in Threads : Claims(t)') => ClaimsSound'
  BY DEF Claims, ClaimsSound
<1>7. (\A t \in Threads : Returns(t)') => PagesSound'
  BY DEF Returns, PagesSound, PagesReturned
<1> QED
  BY <1>1, <1>2, <1>3, <1>4, <1>5, <1>6, <1>7 DEF Overlapping, CallSound

-------------------------------------------------------------------------------
(* When calls do not overlap: who acts, and what the others do.               *)

LEMMA Actor ==
  ASSUME Exclusive, Overlapping, OneRuns, NEW t \in Threads, StepOf(t)
  PROVE  \A u \in Threads \ {t} :
           ~Running(u) /\ ~Running(u)' /\ pc'[u] = pc[u] /\ call'[u] = call[u]
<1>0. CallType
  BY Types
<1>1. Running(t) \/ NobodyRuns
  <2>1. CASE SweepOneBegin(t) \/ SweepOneDone(t) \/ \E s \in Spans : DirectSweep(t, s)
    BY <2>1 DEF SweepOneBegin, SweepOneDone, DirectSweep, MayCall
  <2>2. CASE SweepOneEnd(t)
    BY <2>2 DEF SweepOneEnd, Goto, Running
  <2>3. CASE SweepOneStep(t) /\ ~SweepOneEnd(t)
    BY <1>0, <2>3, PopWithin DEF PopSteps, Running
  <2>4. CASE FreeLocked(t) \/ PushFill(t)
    BY <2>4 DEF FreeLocked, PushFill, Return, Goto, Running
  <2>5. CASE SweepStep(t) /\ ~FreeLocked(t) /\ ~PushFill(t)
    BY <1>0, <2>5, SweepWithin DEF SweepSteps, Running
  <2> QED BY <2>1, <2>2, <2>3, <2>4, <2>5 DEF StepOf
<1>2. \A u \in Threads \ {t} : ~Running(u)
  BY <1>1 DEF OneRuns, NobodyRuns
<1>3. \A u \in Threads \ {t} : pc'[u] = pc[u] /\ call'[u] = call[u]
  BY <1>0, OthersKeep
<1> QED BY <1>2, <1>3 DEF Running

LEMMA ExternalQuiet ==
  ASSUME External
  PROVE  \A t \in Threads : ~Running(t) /\ ~Running(t)'
BY ExternalStep DEF NobodyRuns, Running

LEMMA OneRunsStep ==
  ASSUME Exclusive, Overlapping, OneRuns, [Next]_vars
  PROVE  OneRuns'
<1>1. ASSUME NEW t \in Threads, StepOf(t) PROVE OneRuns'
  BY <1>1, Actor DEF OneRuns
<1>2. CASE External
  BY <1>2, ExternalQuiet DEF OneRuns
<1>3. CASE UNCHANGED vars
  BY <1>3 DEF vars, OneRuns, Running
<1> QED BY <1>1, <1>2, <1>3, StepKinds

-------------------------------------------------------------------------------
(* The buffers, when calls do not overlap.                                    *)

Swept == InBuffer(Pushable(sweep_generation))
Waiting == InBuffer(Popable(sweep_generation))

(* What is in a buffer is a span.                                             *)
LEMMA QueuedSpans ==
  ASSUME Typed, NEW b \in Buffers
  PROVE  InBuffer(b) \subseteq Spans /\ NoSpan \notin InBuffer(b)
<1>1. \A i \in 1 .. Len(sweep_buffers[b]) : sweep_buffers[b][i] \in Spans \cup {NoSpan}
  BY ElementOfSeq DEF Typed
<1> QED BY <1>1, ParametersAssumption DEF InBuffer, Slots

(* Both buffers hold spans once if the one that a step is on does.            *)
LEMMA OnceKept ==
  ASSUME NEW b \in Buffers, Once, OthersSame(b), Distinct(b) => Distinct(b)'
  PROVE  Once'
<1>1. \A c \in Buffers : Distinct(c)
  BY DEF Once, Distinct
<1>2. \A c \in Buffers : Distinct(c)'
  BY <1>1 DEF OthersSame
<1> QED BY <1>2 DEF Once, Distinct

(* Before a push the swept buffer has lost its first slot only, and it has    *)
(* none of the spans that are pushed.                                         *)
LEMMA BeforePush ==
  ASSUME Exclusive, Overlapping, Alone
  PROVE  /\ \A s \in Spans : AllocateSpan(s) => s \notin Swept /\ \A b \in Buffers : ~Filling(b)
         /\ \A t \in Threads : SweepPush(t) => \A b \in Buffers : ~Filling(b)
         /\ \A t \in Threads : PushFill(t) => call[t].span \notin Swept
<1>1. ASSUME NEW s \in Spans, AllocateSpan(s)
      PROVE  s \notin Swept /\ \A b \in Buffers : ~Filling(b)
  BY <1>1 DEF AllocateSpan, Alone, PushedSound, Swept, NobodyRuns, Running, Filling
<1>2. ASSUME NEW t \in Threads, SweepPush(t) PROVE \A b \in Buffers : ~Filling(b)
  <2>1. pc[t] = "push" /\ Running(t)
    BY <1>2 DEF SweepPush, Goto, Running
  <2>2. \A u \in Threads : pc[u] = "fill" => Running(u)
    BY DEF Running
  <2> QED BY <2>1, <2>2 DEF Alone, OneRuns, Filling
<1>3. ASSUME NEW t \in Threads, PushFill(t) PROVE call[t].span \notin Swept
  <2>1. pc[t] = "fill"
    BY <1>3, FillForm
  <2>2. Has(t, call[t].span)
    BY <2>1 DEF Has, Claiming, SweepSteps
  <2> QED BY <2>2 DEF Alone, PushedSound, Swept
<1> QED BY <1>1, <1>2, <1>3

(* Whether somebody fills, after a step.                                      *)
LEMMA FillingStep ==
  ASSUME Exclusive, Overlapping, Alone, [Next]_vars
  PROVE  \/ \E t \in Threads : SweepPush(t) /\ pc'[t] = "fill"
         \/ (\E t \in Threads : PushFill(t)) /\ \A u \in Threads : pc'[u] # "fill"
         \/ \A u \in Threads : pc[u] # "fill" /\ pc'[u] # "fill"
         \/ UNCHANGED vars
<1>1. ASSUME NEW t \in Threads, StepOf(t)
      PROVE  \/ SweepPush(t) /\ pc'[t] = "fill"
             \/ PushFill(t) /\ \A u \in Threads : pc'[u] # "fill"
             \/ \A u \in Threads : pc[u] # "fill" /\ pc'[u] # "fill"
             \/ UNCHANGED vars
  <2>1. \A u \in Threads \ {t} : pc[u] # "fill" /\ pc'[u] # "fill"
    BY <1>1, Actor DEF Alone, Running
  <2>2. CASE SweepOneDone(t)
    BY <2>2 DEF SweepOneDone
  <2>3. CASE ~SweepOneDone(t)
    <3>1. (pc'[t] = "fill" => SweepPush(t)) /\ (pc[t] = "fill" => PushFill(t))
      BY <1>1, <2>3, Types, Arrives
    <3>2. SweepPush(t) => pc[t] # "fill"
      BY DEF SweepPush, Goto
    <3>3. SweepPush(t) => pc'[t] = "fill"
      BY PushForm
    <3>4. PushFill(t) => pc[t] = "fill"
      BY FillForm
    <3> QED BY <2>1, <3>1, <3>2, <3>3, <3>4
  <2> QED BY <2>2, <2>3
<1>2. CASE External
  BY <1>2, ExternalQuiet DEF Running
<1> QED BY <1>1, <1>2, StepKinds

(* The steps that do not touch a buffer leave it in the same state.           *)
LEMMA StillBuffers ==
  ASSUME Exclusive, Overlapping, Alone, [Next]_vars, UNCHANGED bufferVars,
         \A t \in Threads : ~SweepPush(t) /\ ~PushFill(t)
  PROVE  FirstLost' /\ FillSound' /\ Once'
<1>1. UNCHANGED sweep_buffers /\ UNCHANGED has_block
  BY DEF bufferVars
<1>2. Once'
  BY <1>1 DEF Alone, Once, Slots
<1>3. CASE UNCHANGED vars
  <2>1. UNCHANGED <<pc, call, sweep_generation>>
    BY <1>3 DEF vars, heapVars
  <2>2. \A b \in Buffers : Filling(b)' = Filling(b)
    BY <2>1 DEF Filling
  <2>3. FirstLost'
    BY <1>1, <2>2 DEF Alone, FirstLost
  <2>4. FillSound'
    BY <1>1, <2>1 DEF Alone, FillSound, Pushed
  <2> QED BY <1>2, <2>3, <2>4
<1>4. CASE \A u \in Threads : pc[u] # "fill" /\ pc'[u] # "fill"
  <2>1. FillSound'
    BY <1>4 DEF FillSound
  <2>2. \A b \in Buffers : ~Filling(b) /\ ~Filling(b)'
    BY <1>4 DEF Filling
  <2> QED BY <1>1, <1>2, <2>1, <2>2 DEF Alone, FirstLost
<1> QED BY <1>2, <1>3, <1>4, FillingStep

(* What a step does to the two buffers of the cycle.                          *)
QueueStep ==
  /\ FirstLost' /\ FillSound' /\ Once'
  /\ Waiting' \subseteq Waiting
  /\ \A s \in Swept' : \/ s \in Swept
                       \/ s \in Spans /\ AllocateSpan(s)
                       \/ \E t \in Threads : PushFill(t) /\ s = call[t].span
  /\ Unswept = <<>> => Unswept' = <<>>

(* A push claims a slot and leaves it unwritten.                              *)
LEMMA PushQueue ==
  ASSUME Exclusive, Overlapping, Alone, NEW t \in Threads, SweepPush(t)
  PROVE  QueueStep
<1> PICK p, q : p = Pushable(sweep_generation) /\ q = Popable(sweep_generation)
  OBVIOUS
<1>0. /\ Typed /\ p \in Buffers /\ q \in Buffers /\ p # q
      /\ has_block \in [Buffers -> BOOLEAN] /\ CallType
  BY Types DEF BufferType
<1>1. /\ pc'[t] = "fill" /\ call'[t].slot = Len(sweep_buffers[p]) + 1
      /\ sweep_buffers' = [sweep_buffers EXCEPT ![p] = Append(@, NoSpan)]
      /\ sweep_generation' = sweep_generation /\ has_block' = has_block
  BY PushForm DEF Pushed
<1>2. \A b \in Buffers : ~Filling(b)
  BY BeforePush
<1>3. \A u \in Threads \ {t} : pc'[u] # "fill"
  BY Actor DEF Alone, StepOf, SweepStep, Running
<1>4. \A b \in Buffers : Filling(b)' <=> b = p
  BY <1>1 DEF Filling
<1> DEFINE old == sweep_buffers[p]
           new == sweep_buffers'[p]
<1>5. /\ OthersSame(p) /\ Len(old) \in Nat /\ DOMAIN old = 1 .. Len(old)
      /\ Len(new) = Len(old) + 1 /\ DOMAIN new = 1 .. Len(old) + 1
      /\ \A i \in 1 .. Len(old) : new[i] = old[i]
      /\ new[Len(old) + 1] = NoSpan
      /\ Swept' \subseteq Swept
      /\ Distinct(p) => Distinct(p)'
  <2>1. NoSpan \notin InBuffer(p)
    BY <1>0, QueuedSpans
  <2>2. Appends(p, NoSpan)
    BY <1>0, <1>1 DEF Appends
  <2>3. Appended(p, NoSpan)
    BY <2>2, AppendEffect
  <2> QED BY <1>1, <2>1, <2>3 DEF Appended, Swept
<1>6. sweep_buffers'[q] = sweep_buffers[q] /\ InBuffer(q)' = InBuffer(q)
  BY <1>0, <1>5, OtherBuffer
<1>7. FillSound'
  <2>1. Pushed' = new
    BY <1>1 DEF Pushed
  <2>2. new # <<>>
    <3>1. 1 \in DOMAIN new
      BY <1>5
    <3> QED BY <3>1
  <2> QED BY <1>1, <1>3, <1>5, <2>1, <2>2 DEF FillSound
<1>8. FirstLost'
  <2>1. ASSUME NEW b \in Buffers \ {p}
        PROVE  /\ ~has_block'[b] => Len(sweep_buffers'[b]) = 0
               /\ \A i \in DOMAIN sweep_buffers'[b] : sweep_buffers'[b][i] = NoSpan => i = 1
    BY <1>1, <1>2, <1>5 DEF OthersSame, Alone, FirstLost
  <2>2. /\ ~has_block'[p] => Len(new) = 1
        /\ \A i \in DOMAIN new : new[i] = NoSpan => i = 1 \/ i = Len(new)
    <3>1. /\ ~has_block[p] => Len(old) = 0
          /\ \A i \in DOMAIN old : old[i] = NoSpan => i = 1
      BY <1>0, <1>2 DEF Alone, FirstLost
    <3> QED BY <1>1, <1>5, <3>1
  <2> QED BY <1>4, <2>1, <2>2 DEF FirstLost
<1>9. Once'
  BY <1>0, <1>5, OnceKept DEF Alone
<1> QED BY <1>1, <1>5, <1>6, <1>7, <1>8, <1>9 DEF QueueStep, Waiting, Swept, Unswept

(* Its second step writes the span, but for the first slot of a buffer.       *)
LEMMA FillQueue ==
  ASSUME Exclusive, Overlapping, Alone, NEW t \in Threads, PushFill(t)
  PROVE  QueueStep
<1> PICK p, q, s, i : /\ p = Pushable(sweep_generation) /\ q = Popable(sweep_generation)
                      /\ s = call[t].span /\ i = call[t].slot
  OBVIOUS
<1> DEFINE old == sweep_buffers[p]
           new == sweep_buffers'[p]
<1>0. /\ Typed /\ p \in Buffers /\ q \in Buffers /\ p # q
      /\ has_block \in [Buffers -> BOOLEAN] /\ CallType
  BY Types DEF BufferType
<1>1. /\ pc[t] = "fill" /\ s \in Spans /\ i \in Nat
      /\ sweep_buffers' = IF has_block[p] THEN [sweep_buffers EXCEPT ![p][i] = s]
                          ELSE sweep_buffers
      /\ has_block' = [has_block EXCEPT ![p] = TRUE]
      /\ sweep_generation' = sweep_generation
  BY FillForm
<1>2. s \notin Swept
  BY BeforePush
<1>3. \A u \in Threads : pc'[u] # "fill"
  <2>1. \A u \in Threads \ {t} : pc'[u] # "fill"
    BY Actor DEF Alone, StepOf, SweepStep, Running
  <2>2. Return(t, "fill", FALSE)
    BY DEF PushFill
  <2>3. pc'[t] # "fill"
    <3>1. CASE call[t].direct
      BY <1>0, <2>2, <3>1, ReturnForm
    <3>2. CASE ~call[t].direct
      BY <1>0, <2>2, <3>2, ReturnForm
    <3> QED BY <3>1, <3>2
  <2> QED BY <2>1, <2>3
<1>4. \A b \in Buffers : ~Filling(b)' /\ (Filling(b) <=> b = p)
  BY <1>1, <1>3 DEF Filling
<1>5. i = Len(old) /\ old # <<>> /\ old[Len(old)] = NoSpan
  BY <1>1 DEF Alone, FillSound, Pushed
<1>6. /\ Len(old) \in Nat /\ DOMAIN old = 1 .. Len(old)
      /\ ~has_block[p] => Len(old) = 1
      /\ \A j \in 1 .. Len(old) : old[j] = NoSpan => j = 1 \/ j = Len(old)
  <2>1. Len(old) \in Nat /\ DOMAIN old = 1 .. Len(old)
    BY <1>0, LenProperties DEF Typed
  <2> QED BY <1>0, <1>4, <2>1 DEF Alone, FirstLost
<1>7. /\ OthersSame(p) /\ Len(new) = Len(old) /\ DOMAIN new = DOMAIN old
      /\ \A j \in DOMAIN old : new[j] = IF has_block[p] /\ j = Len(old) THEN s ELSE old[j]
      /\ InBuffer(p)' \subseteq InBuffer(p) \cup {s}
      /\ Distinct(p) => Distinct(p)'
  <2>1. CASE has_block[p]
    <3>1. sweep_buffers' = [sweep_buffers EXCEPT ![p][i] = s]
      BY <1>1, <2>1
    <3>2. s \notin InBuffer(p)
      BY <1>2 DEF Swept
    <3>3. Fills(p, i, s)
      BY <1>0, <1>1, <3>1 DEF Fills
    <3>4. Filled(p, i, s)
      BY <3>3, FillEffect
    <3> QED BY <1>5, <2>1, <3>2, <3>4 DEF Filled
  <2>2. CASE ~has_block[p]
    <3>1. sweep_buffers' = sweep_buffers
      BY <1>1, <2>2
    <3>2. OthersSame(p)
      BY <3>1, OthersAreSame
    <3>3. InBuffer(p)' = InBuffer(p) /\ (Distinct(p) => Distinct(p)')
      <4>1. \A c : sweep_buffers'[c] = sweep_buffers[c]
        BY <3>1
      <4> QED BY <4>1, BufferSame
    <3> QED BY <2>2, <3>1, <3>2, <3>3
  <2> QED BY <2>1, <2>2
<1>8. sweep_buffers'[q] = sweep_buffers[q] /\ InBuffer(q)' = InBuffer(q)
  BY <1>0, <1>7, OtherBuffer
<1>9. FirstLost'
  <2>1. ASSUME NEW b \in Buffers \ {p}
        PROVE  /\ ~has_block'[b] => Len(sweep_buffers'[b]) = 0
               /\ \A j \in DOMAIN sweep_buffers'[b] : sweep_buffers'[b][j] = NoSpan => j = 1
    BY <1>0, <1>1, <1>4, <1>7 DEF OthersSame, Alone, FirstLost
  <2>2. has_block'[p]
    BY <1>0, <1>1
  <2>3. ASSUME NEW j \in DOMAIN old, new[j] = NoSpan PROVE j = 1
    <3>1. CASE has_block[p] /\ j = Len(old)
      BY <1>1, <1>7, <2>3, <3>1, ParametersAssumption
    <3>2. CASE ~(has_block[p] /\ j = Len(old))
      <4>1. old[j] = NoSpan
        BY <1>7, <2>3, <3>2
      <4> QED BY <1>6, <3>2, <4>1
    <3> QED BY <3>1, <3>2
  <2> QED BY <1>4, <1>7, <2>1, <2>2, <2>3 DEF FirstLost
<1>10. FillSound' /\ Once'
  <2>1. Once'
    BY <1>0, <1>7, OnceKept DEF Alone
  <2> QED BY <1>3, <2>1 DEF FillSound
<1>11. \A r \in Swept' : r \in Swept \/ (PushFill(t) /\ r = call[t].span)
  BY <1>1, <1>7 DEF Swept
<1>12. Waiting' \subseteq Waiting /\ (Unswept = <<>> => Unswept' = <<>>)
  BY <1>1, <1>8 DEF Waiting, Unswept
<1> QED BY <1>9, <1>10, <1>11, <1>12 DEF QueueStep

(* An allocation pushes in one step.                                          *)
LEMMA AllocateQueue ==
  ASSUME Exclusive, Overlapping, Alone, NEW s \in Spans, AllocateSpan(s)
  PROVE  QueueStep
<1> PICK p, q, x : /\ p = Pushable(sweep_generation) /\ q = Popable(sweep_generation)
                   /\ x = IF has_block[p] THEN s ELSE NoSpan
  OBVIOUS
<1> DEFINE old == sweep_buffers[p]
           new == sweep_buffers'[p]
<1>0. /\ Typed /\ p \in Buffers /\ q \in Buffers /\ p # q
      /\ has_block \in [Buffers -> BOOLEAN]
  BY Types DEF BufferType
<1>1. /\ sweep_buffers' = [sweep_buffers EXCEPT ![p] = Append(@, x)]
      /\ has_block' = [has_block EXCEPT ![p] = TRUE]
      /\ sweep_generation' = sweep_generation
  BY AllocateForm
<1>2. s \notin Swept /\ \A b \in Buffers : ~Filling(b)
  BY BeforePush
<1>3. \A u \in Threads : pc'[u] # "fill"
  BY DEF AllocateSpan, NobodyRuns, Running
<1>4. \A b \in Buffers : ~Filling(b)'
  BY <1>3 DEF Filling
<1>5. x \in Spans \cup {NoSpan} /\ x \notin InBuffer(p) /\ (has_block[p] => x = s)
  BY <1>0, <1>2, QueuedSpans DEF Swept
<1>6. /\ OthersSame(p) /\ Len(old) \in Nat /\ DOMAIN old = 1 .. Len(old)
      /\ Len(new) = Len(old) + 1 /\ DOMAIN new = 1 .. Len(old) + 1
      /\ \A i \in 1 .. Len(old) : new[i] = old[i]
      /\ new[Len(old) + 1] = x
      /\ InBuffer(p)' \subseteq InBuffer(p) \cup ({x} \ {NoSpan})
      /\ Distinct(p) => Distinct(p)'
  <2>1. Appends(p, x)
    BY <1>0, <1>1, <1>5 DEF Appends
  <2>2. Appended(p, x)
    BY <2>1, AppendEffect
  <2> QED BY <1>5, <2>2 DEF Appended
<1>7. sweep_buffers'[q] = sweep_buffers[q] /\ InBuffer(q)' = InBuffer(q)
  BY <1>0, <1>6, OtherBuffer
<1>8. FirstLost'
  <2>1. ASSUME NEW b \in Buffers \ {p}
        PROVE  /\ ~has_block'[b] => Len(sweep_buffers'[b]) = 0
               /\ \A i \in DOMAIN sweep_buffers'[b] : sweep_buffers'[b][i] = NoSpan => i = 1
    BY <1>0, <1>1, <1>2, <1>6 DEF OthersSame, Alone, FirstLost
  <2>2. has_block'[p]
    BY <1>0, <1>1
  <2>3. \A i \in DOMAIN new : new[i] = NoSpan => i = 1
    <3>1. /\ ~has_block[p] => Len(old) = 0
          /\ \A i \in DOMAIN old : old[i] = NoSpan => i = 1
      BY <1>0, <1>2 DEF Alone, FirstLost
    <3> QED BY <1>5, <1>6, <3>1, ParametersAssumption
  <2> QED BY <1>4, <2>1, <2>2, <2>3 DEF FirstLost
<1>9. FillSound' /\ Once'
  <2>1. Once'
    BY <1>0, <1>6, OnceKept DEF Alone
  <2> QED BY <1>3, <2>1 DEF FillSound
<1>10. \A r \in Swept' : r \in Swept \/ r = s
  BY <1>1, <1>6 DEF Swept
<1>11. Waiting' \subseteq Waiting /\ (Unswept = <<>> => Unswept' = <<>>)
  BY <1>1, <1>7 DEF Waiting, Unswept
<1> QED BY <1>8, <1>9, <1>10, <1>11 DEF QueueStep

(* A pop takes the last slot of the unswept buffer.                           *)
LEMMA PopQueue ==
  ASSUME Exclusive, Overlapping, Alone, NEW t \in Threads, Pops(t)
  PROVE  QueueStep
<1> PICK p, q : p = Pushable(sweep_generation) /\ q = Popable(sweep_generation)
  OBVIOUS
<1> DEFINE old == sweep_buffers[q]
           new == sweep_buffers'[q]
<1>0. /\ Typed /\ p \in Buffers /\ q \in Buffers /\ p # q
      /\ has_block \in [Buffers -> BOOLEAN]
  BY Types DEF BufferType
<1>1. /\ pc[t] = "pop" /\ old # <<>>
      /\ sweep_buffers' = [sweep_buffers EXCEPT ![q] = SubSeq(@, 1, Len(@) - 1)]
      /\ sweep_generation' = sweep_generation /\ has_block' = has_block
  BY PopForm
<1>2. \A u \in Threads : pc[u] # "fill" /\ pc'[u] # "fill"
  <2>1. \A u \in Threads \ {t} : pc[u] # "fill" /\ pc'[u] # "fill"
    BY Actor DEF Alone, StepOf, SweepOneStep, Pops, Running
  <2>2. pc'[t] # "fill"
    BY Types DEF Pops, PopSpan, PopNone, PopWild, Goto, CallType
  <2> QED BY <1>1, <2>1, <2>2
<1>3. \A b \in Buffers : ~Filling(b) /\ ~Filling(b)'
  BY <1>2 DEF Filling
<1>4. /\ OthersSame(q) /\ Len(old) \in Nat \ {0} /\ DOMAIN old = 1 .. Len(old)
      /\ DOMAIN new = 1 .. Len(old) - 1
      /\ \A i \in 1 .. Len(old) - 1 : new[i] = old[i]
      /\ InBuffer(q)' \subseteq InBuffer(q)
      /\ Distinct(q) => Distinct(q)'
  BY <1>0, <1>1, PopEffect
<1>5. InBuffer(p)' = InBuffer(p)
  BY <1>0, <1>4, OtherBuffer
<1>6. FirstLost'
  <2>1. ASSUME NEW b \in Buffers \ {q}
        PROVE  /\ ~has_block'[b] => Len(sweep_buffers'[b]) = 0
               /\ \A i \in DOMAIN sweep_buffers'[b] : sweep_buffers'[b][i] = NoSpan => i = 1
    BY <1>0, <1>1, <1>3, <1>4 DEF OthersSame, Alone, FirstLost
  <2>2. /\ ~has_block[q] => Len(old) = 0
        /\ \A i \in DOMAIN old : old[i] = NoSpan => i = 1
    BY <1>0, <1>3 DEF Alone, FirstLost
  <2>3. has_block'[q] /\ \A i \in DOMAIN new : new[i] = NoSpan => i = 1
    BY <1>1, <1>4, <2>2
  <2> QED BY <1>3, <2>1, <2>3 DEF FirstLost
<1>7. FillSound' /\ Once'
  <2>1. Once'
    BY <1>0, <1>4, OnceKept DEF Alone
  <2> QED BY <1>2, <2>1 DEF FillSound
<1>8. Swept' = Swept /\ Waiting' \subseteq Waiting /\ Unswept # <<>>
  BY <1>1, <1>4, <1>5 DEF Swept, Waiting, Unswept
<1> QED BY <1>6, <1>7, <1>8 DEF QueueStep

(* In all other steps the buffers keep what they have; when a collection      *)
(* starts they trade their roles, and the one that was drained takes pushes.  *)
LEMMA QueuesStep ==
  ASSUME Exclusive, Overlapping, Alone, [Next]_vars
  PROVE  /\ FirstLost' /\ FillSound' /\ Once'
         /\ \/ StartCycle /\ Swept' = {} /\ Waiting' = Swept
            \/ QueueStep /\ sweep_generation' = sweep_generation
<1>1. CASE StartCycle
  <2>1. UNCHANGED bufferVars /\ UNCHANGED sweep_buffers
    BY <1>1 DEF StartCycle, bufferVars
  <2>2. \A t \in Threads : ~SweepPush(t) /\ ~PushFill(t)
    BY <1>1 DEF StartCycle, NobodyRuns, Running, SweepPush, PushFill, Return, Goto
  <2>3. /\ Pushable(sweep_generation)' = Popable(sweep_generation)
        /\ Popable(sweep_generation)' = Pushable(sweep_generation)
    BY <1>1, Types, BufferRoles DEF StartCycle
  <2>4. Waiting' = Swept
    BY <2>1, <2>3 DEF Waiting, Swept, InBuffer, Slots
  <2>5. Swept' = {}
    <3>1. sweep_buffers[Popable(sweep_generation)] = <<>>
      BY <1>1 DEF StartCycle, Alone, Drained, Unswept
    <3> QED BY <2>1, <2>3, <3>1 DEF Swept, InBuffer, Slots
  <2> QED BY <1>1, <2>1, <2>2, <2>4, <2>5, StillBuffers
<1>2. CASE ~StartCycle
  <2>1. sweep_generation' = sweep_generation
    <3>1. External \/ UNCHANGED vars => sweep_generation' = sweep_generation
      BY <1>2 DEF External, AllocateSpan, AllocateManual, FreeManualSpan, heapVars, vars
    <3> QED BY <3>1, StepKinds, ThreadKeeps
  <2>2. QueueStep
    <3>1. ASSUME NEW s \in Spans, AllocateSpan(s) PROVE QueueStep
      BY <3>1, AllocateQueue
    <3>2. ASSUME NEW t \in Threads, Pops(t) \/ SweepPush(t) \/ PushFill(t) PROVE QueueStep
      BY <3>2, PopQueue, PushQueue, FillQueue
    <3>3. CASE UNCHANGED bufferVars /\ \A t \in Threads : ~SweepPush(t) /\ ~PushFill(t)
      <4>1. FirstLost' /\ FillSound' /\ Once'
        BY <3>3, StillBuffers
      <4>2. UNCHANGED sweep_buffers
        BY <3>3 DEF bufferVars
      <4>3. Waiting' = Waiting /\ Swept' = Swept /\ Unswept' = Unswept
        BY <2>1, <4>2 DEF Waiting, Swept, Unswept, InBuffer, Slots
      <4> QED BY <4>1, <4>3 DEF QueueStep
    <3> QED BY <3>1, <3>2, <3>3, BufferStep
  <2> QED BY <2>1, <2>2 DEF QueueStep
<1> QED BY <1>1, <1>2

-------------------------------------------------------------------------------
(* What the buffers hold, when calls do not overlap.                          *)

(* A pop that finds None finds it in the first slot: the buffer is empty then.*)
LEMMA DrainedStep ==
  ASSUME Exclusive, Overlapping, Alone, [Next]_vars
  PROVE  Drained'
<1>1. CASE StartCycle
  BY <1>1 DEF StartCycle, Drained, NobodyRuns, Running
<1>2. CASE ~StartCycle
  <2>1. Unswept = <<>> => Unswept' = <<>>
    BY <1>2, QueuesStep DEF QueueStep
  <2>2. CASE External
    <3>1. sweep_done' = sweep_done
      BY <1>2, <2>2 DEF External, AllocateSpan, AllocateManual, FreeManualSpan, heapVars
    <3>2. \A t \in Threads : ~Running(t)'
      BY <2>2, ExternalQuiet
    <3> QED BY <2>1, <3>1, <3>2 DEF Alone, Drained, Running
  <2>3. CASE UNCHANGED vars
    BY <2>1, <2>3 DEF vars, heapVars, Alone, Drained
  <2>4. ASSUME NEW t \in Threads, StepOf(t) PROVE Drained'
    <3>1. \A u \in Threads \ {t} : ~Running(u)'
      BY <2>4, Actor DEF Alone
    <3>2. sweep_done' => Unswept = <<>>
      <4>1. SweepingDone(t) => pc[t] = "none"
        BY DEF SweepingDone, Goto
      <4> QED BY <2>4, <4>1, ThreadKeeps DEF Alone, Drained
    <3>3. ASSUME pc'[t] \in {"undo", "none"} PROVE Unswept' = <<>>
      <4>1. CASE SweepOneDone(t)
        BY <3>3, <4>1 DEF SweepOneDone, MayCall, vars
      <4>2. CASE PopEmpty(t)
        <5>1. Popped(t) = Unswept
          BY <4>2, PoppedSlot DEF PopEmpty, Local, Goto
        <5> QED BY <2>1, <4>2, <5>1 DEF PopEmpty
      <4>3. CASE PopUndo(t)
        <5>1. pc[t] = "undo"
          BY <4>3 DEF PopUndo, Local, Goto
        <5> QED BY <2>1, <5>1 DEF Alone, Drained
      <4>4. CASE PopNone(t)
        <5>1. PICK q : q = Popable(sweep_generation)
          OBVIOUS
        <5>2. Typed /\ q \in Buffers /\ q # Pushable(sweep_generation)
          BY <5>1, Types
        <5>3. /\ Unswept # <<>> /\ Unswept = sweep_buffers[q]
              /\ sweep_buffers[q][Len(sweep_buffers[q])] = NoSpan
              /\ sweep_buffers' = [sweep_buffers EXCEPT ![q] = SubSeq(@, 1, Len(@) - 1)]
              /\ sweep_generation' = sweep_generation
          BY <4>4, <5>1, PopForm DEF Pops, PopNone
        <5>4. /\ Typed' /\ Len(sweep_buffers[q]) \in Nat \ {0}
              /\ DOMAIN sweep_buffers[q] = 1 .. Len(sweep_buffers[q])
              /\ Len(sweep_buffers'[q]) = Len(sweep_buffers[q]) - 1
          BY <5>2, <5>3, PopEffect
        <5>5. ~Filling(q)
          BY <5>2 DEF Filling
        <5>6. Len(sweep_buffers[q]) \in DOMAIN sweep_buffers[q]
          BY <5>4
        <5>7. Len(sweep_buffers[q]) = 1
          BY <5>2, <5>3, <5>5, <5>6 DEF Alone, FirstLost
        <5>8. sweep_buffers'[q] = <<>>
          BY <5>2, <5>4, <5>7, EmptySeq DEF Typed
        <5> QED BY <5>1, <5>3, <5>8 DEF Unswept
      <4> QED BY <2>4, <3>3, <4>1, <4>2, <4>3, <4>4, Types, Arrives
    <3> QED BY <2>1, <3>1, <3>2, <3>3 DEF Drained, Running
  <2> QED BY <2>2, <2>3, <2>4, StepKinds
<1> QED BY <1>1, <1>2

(* Who has a span had it before, or has just found it in need of sweeping.    *)
LEMMA HasStep ==
  ASSUME Overlapping, NEW t \in Threads, StepOf(t), NEW s, Has(t, s)'
  PROVE  \/ Has(t, s)
         \/ state[s] = "InUse" /\ span_gen[s] = sweep_generation - 2
         \/ pc[t] = "inspect" /\ call[t].span = s /\ call[t].seen = call[t].gen - 2
<1>0. CallType /\ pc'[t] \in Claiming /\ call'[t].span = s
  BY Types DEF Has
<1>1. CASE SweepOneDone(t)
  BY <1>0, <1>1 DEF SweepOneDone, vars, Has
<1>2. CASE SweepOneBegin(t) \/ SweepOneEnd(t)
  BY <1>0, <1>2 DEF SweepOneBegin, SweepOneEnd, Goto, CallType, Claiming, SweepSteps
<1>3. ASSUME NEW r \in Spans, DirectSweep(t, r)
      PROVE  state[s] = "InUse" /\ span_gen[s] = sweep_generation - 2
  <2>1. call'[t].span = r
    BY <1>0, <1>3 DEF DirectSweep, CallType, Calls, NoCall
  <2> QED BY <1>0, <1>3, <2>1 DEF DirectSweep
<1>4. CASE SweepOneStep(t) /\ ~SweepOneEnd(t)
  <2>1. pc'[t] = "claim" \/ pc'[t] = "sweep"
    BY <1>0, <1>4, PopWithin DEF Claiming, SweepSteps, PopSteps
  <2>2. CASE Inspect(t)
    BY <1>0, <2>1, <2>2 DEF Inspect, Local, Goto, CallType
  <2>3. CASE Claim(t)
    <3>1. pc[t] = "claim"
      BY <2>3 DEF Claim
    <3>2. call'[t].span = call[t].span
      BY <1>0, <1>4, <3>1, PopWithin DEF PopSpan, Goto
    <3> QED BY <1>0, <3>1, <3>2 DEF Has, Claiming
  <2>4. CASE \E r \in Spans : DirectSweep(t, r)
    BY <1>3, <2>4
  <2> QED BY <1>0, <2>1, <2>2, <2>3, <2>4, Arrives DEF SweepOneDone, vars, Has
<1>5. CASE SweepStep(t) /\ ~FreeLocked(t) /\ ~PushFill(t)
  BY <1>0, <1>5, SweepWithin DEF Has, Claiming, SweepSteps, SameCall
<1>6. CASE FreeLocked(t) \/ PushFill(t)
  <2>1. Return(t, "locked", TRUE) \/ Return(t, "fill", FALSE)
    BY <1>6 DEF FreeLocked, PushFill
  <2>2. pc'[t] = "idle" \/ pc'[t] = "end"
    <3>1. CASE call[t].direct
      BY <1>0, <2>1, <3>1, ReturnForm
    <3>2. CASE ~call[t].direct
      BY <1>0, <2>1, <3>2, ReturnForm
    <3> QED BY <3>1, <3>2
  <2> QED BY <1>0, <2>2 DEF Claiming, SweepSteps
<1> QED BY <1>1, <1>2, <1>3, <1>4, <1>5, <1>6 DEF StepOf

LEMMA AloneHas ==
  ASSUME Exclusive, Overlapping, Alone, [Next]_vars, NEW t \in Threads, NEW s, Has(t, s)'
  PROVE  Has(t, s) \/ (state[s] = "InUse" /\ span_gen[s] = sweep_generation - 2)
<1>1. CASE StepOf(t)
  <2>1. pc[t] = "inspect" => /\ call[t].gen = sweep_generation
                             /\ call[t].seen = span_gen[call[t].span]
                             /\ state[call[t].span] # "InUse" =>
                                  span_gen[call[t].span] = sweep_generation
    BY DEF Overlapping, Counted, Running, Alone, SpanSound, WaitingSound
  <2>2. sweep_generation \in Nat
    BY Types
  <2> QED BY <1>1, <2>1, <2>2, HasStep
<1>2. ASSUME NEW u \in Threads \ {t}, StepOf(u) PROVE Has(t, s)
  BY <1>2, OthersKeep, Types DEF Has
<1>3. CASE External \/ UNCHANGED vars
  BY <1>3, ExternalStep DEF Has, vars
<1> QED BY <1>1, <1>2, <1>3, StepKinds

(* A span is pushed when nobody can claim it, and by who had it last.         *)
LEMMA PushedStep ==
  ASSUME Exclusive, Overlapping, Alone, [Next]_vars
  PROVE  PushedSound'
<1>0. SpanType /\ Typed /\ CallType /\ sweep_generation \in Nat /\ Swept \subseteq Spans
  BY Types, QueuedSpans DEF Swept
<1>4. ASSUME StartCycle PROVE PushedSound'
  <2>1. sweep_generation' # sweep_generation
    BY <1>0, <1>4 DEF StartCycle
  <2>2. Swept' = {}
    BY <2>1, QueuesStep
  <2> QED BY <2>2 DEF PushedSound, Swept
<1>5. ~StartCycle => sweep_generation' = sweep_generation
  BY QueuesStep
<1> SUFFICES ASSUME NEW s \in Swept', ~StartCycle
             PROVE  /\ state'[s] = "InUse" /\ span_gen'[s] # sweep_generation - 2
                    /\ \A t \in Threads : ~Has(t, s)'
  BY <1>4, <1>5 DEF PushedSound, Swept
<1>1. CASE s \in Swept
  <2>1. /\ s \in Spans /\ state[s] = "InUse" /\ span_gen[s] # sweep_generation - 2
        /\ \A t \in Threads : ~Has(t, s)
    BY <1>0, <1>1 DEF Alone, PushedSound, Swept
  <2>2. \A t \in Threads : ~Has(t, s)'
    BY <2>1, AloneHas
  <2>3. Kept(s)
    <3>1. ASSUME NEW t \in Threads, StepOf(t) PROVE Kept(s)
      <4>1. ThreadChange(t, s)
        BY <2>1, <3>1, ThreadChanges
      <4>2. pc[t] \notin {"release", "locked"} \/ s # call[t].span
        BY <2>1 DEF Has, Claiming, SweepSteps
      <4> QED BY <2>1, <4>1, <4>2 DEF ThreadChange, Claimed
    <3>2. CASE External \/ UNCHANGED vars
      <4>2. ASSUME NEW r \in Spans, AllocateSpan(r) \/ AllocateManual(r) \/ FreeManualSpan(r)
            PROVE  Kept(s)
        BY <1>0, <2>1, <4>2 DEF AllocateSpan, AllocateManual, FreeManualSpan, SpanType, Kept
      <4>3. UNCHANGED vars => Kept(s)
        BY DEF vars, spanVars, Kept
      <4> QED BY <3>2, <4>2, <4>3 DEF External
    <3> QED BY <3>1, <3>2, StepKinds
  <2> QED BY <2>1, <2>2, <2>3 DEF Kept
<1>2. CASE s \in Spans /\ AllocateSpan(s)
  <2>1. state'[s] = "InUse" /\ span_gen'[s] = sweep_generation
    BY <1>0, <1>2 DEF AllocateSpan, SpanType
  <2>2. \A t \in Threads : ~Has(t, s)'
    BY <1>2 DEF AllocateSpan, NobodyRuns, Running, Has, Claiming, SweepSteps
  <2> QED BY <1>0, <2>1, <2>2
<1>3. ASSUME NEW t \in Threads, PushFill(t), s = call[t].span
      PROVE  /\ state'[s] = "InUse" /\ span_gen'[s] # sweep_generation - 2
             /\ \A u \in Threads : ~Has(u, s)'
  <2>1. pc[t] = "fill" /\ s \in Spans /\ UNCHANGED <<state, span_gen>>
    BY <1>3, FillForm DEF PushFill, spanVars
  <2>2. /\ state[s] = "InUse" /\ span_gen[s] \in {sweep_generation - 1, sweep_generation}
        /\ call[t].direct
    BY <1>3, <2>1 DEF Alone, SpanSound, SweepSteps
  <2>3. pc'[t] = "idle"
    BY <1>0, <1>3, <2>2, ReturnForm DEF PushFill
  <2>4. \A u \in Threads : ~Has(u, s)'
    BY <1>3, <2>3, Actor DEF Alone, StepOf, SweepStep, Has, Running, Claiming, SweepSteps
  <2> QED BY <1>0, <2>1, <2>2, <2>4
<1> QED BY <1>1, <1>2, <1>3, QueuesStep DEF QueueStep

(* A waiting span leaves use only by the end of its sweep.                    *)
LEMMA WaitingStep ==
  ASSUME Exclusive, Overlapping, Alone, [Next]_vars
  PROVE  WaitingSound'
<1> DEFINE Good(s) == state[s] # "InUse" => span_gen[s] = sweep_generation
<1>0. /\ Typed /\ Waiting \subseteq Spans /\ CallType
      /\ \A s \in Waiting : Good(s)
      /\ \A t \in Threads : pc[t] \in {"load", "inspect"} =>
           call[t].span \in Spans /\ Good(call[t].span)
  BY Types, QueuedSpans DEF Alone, WaitingSound, Waiting, Overlapping, ClaimsSound
<1>1. CASE StartCycle
  <2>1. \A s \in Waiting' : state'[s] = "InUse"
    <3>0. sweep_generation' # sweep_generation
      BY <1>1, Types DEF StartCycle
    <3>1. state' = state /\ Waiting' = Swept
      BY <1>1, <3>0, QueuesStep DEF StartCycle
    <3> QED BY <3>1 DEF Alone, PushedSound, Swept
  <2>2. \A t \in Threads : pc'[t] \notin {"load", "inspect"}
    BY <1>1 DEF StartCycle, NobodyRuns, Running
  <2> QED BY <2>1, <2>2 DEF WaitingSound, Waiting
<1>2. CASE ~StartCycle
  <2>1. sweep_generation' = sweep_generation /\ Waiting' \subseteq Waiting
    BY <1>2, QueuesStep DEF QueueStep
  <2>2. ASSUME NEW s \in Spans, Good(s) PROVE Good(s)'
    BY <2>1, <2>2, SpanChanges DEF SpanChange, Kept, Taken, Moved, Claimed, Released, Freed
  <2>3. ASSUME NEW t \in Threads, pc'[t] \in {"load", "inspect"}
        PROVE  call'[t].span \in Spans /\ Good(call'[t].span)
    <3>1. CASE pc[t] \in {"load", "inspect"} /\ call'[t].span = call[t].span
      BY <1>0, <3>1
    <3>2. CASE PopSpan(t)
      <4>1. call'[t].span = LastSlot(t) /\ LastSlot(t) # NoSpan
        BY <1>0, <3>2 DEF PopSpan, CallType, Calls
      <4>2. PICK q : q = Popable(sweep_generation)
        OBVIOUS
      <4>3. /\ q \in Buffers /\ sweep_buffers[q] # <<>>
            /\ LastSlot(t) = sweep_buffers[q][Len(sweep_buffers[q])]
            /\ sweep_buffers' = [sweep_buffers EXCEPT ![q] = SubSeq(@, 1, Len(@) - 1)]
        BY <3>2, <4>2, Types, PopForm DEF Pops
      <4>4. LastSlot(t) \in Waiting
        BY <1>0, <4>1, <4>2, <4>3, PopEffect DEF Waiting
      <4> QED BY <1>0, <4>1, <4>4
    <3>3. CASE LoadGeneration(t)
      BY <1>0, <3>1, <3>3 DEF LoadGeneration, Local, Goto, CallType, Calls
    <3>4. CASE SweepOneDone(t)
      BY <2>3, <3>4 DEF SweepOneDone, MayCall, vars
    <3>5. ASSUME NEW u \in Threads \ {t}, StepOf(u)
          PROVE  pc[t] \in {"load", "inspect"} /\ call'[t].span = call[t].span
      BY <1>0, <2>3, <3>5, OthersKeep
    <3>6. CASE External \/ UNCHANGED vars
      BY <2>3, <3>1, <3>6, ExternalStep DEF vars
    <3> QED BY <1>0, <2>3, <3>1, <3>2, <3>3, <3>4, <3>5, <3>6, StepKinds, Arrives
  <2>4. \A s \in Waiting' : Good(s)'
    BY <1>0, <2>1, <2>2
  <2>5. ASSUME NEW t \in Threads, pc'[t] \in {"load", "inspect"}
        PROVE  state'[call'[t].span] # "InUse" => span_gen'[call'[t].span] = sweep_generation'
    <3>1. PICK s : s = call'[t].span
      OBVIOUS
    <3>2. s \in Spans /\ Good(s)
      BY <2>3, <2>5, <3>1
    <3>3. Good(s)'
      BY <2>2, <3>2
    <3> QED BY <3>1, <3>3
  <2> QED BY <2>4, <2>5 DEF WaitingSound, Waiting
<1> QED BY <1>1, <1>2


-------------------------------------------------------------------------------
(* The spans that are swept and their counts, when calls do not overlap.      *)

(* SpanSound and LocalsSound of one call.                                     *)
Looks(t) == \A s \in {call[t].span} :
  /\ pc[t] = "inspect" => call[t].seen = span_gen[s]
  /\ pc[t] = "claim" => state[s] = "InUse" /\ span_gen[s] = sweep_generation - 2
Sweeps(t) == \A s \in {call[t].span} : pc[t] \in SweepSteps =>
  /\ call[t].direct /\ state[s] = "InUse"
  /\ span_gen[s] = IF \/ pc[t] \notin {"dispose", "locked", "push", "fill"}
                      \/ ~call[t].to_heap /\ call[t].freed # 0
                   THEN sweep_generation - 1 ELSE sweep_generation
  /\ pc[t] = "check" => call[t].seen = sweep_generation - 1
  /\ pc[t] \in Unstored \cup {"swap"} => marked[s] = live[s]
  /\ pc[t] \in Unstored => live[s] <= allocations_count[s]
  /\ pc[t] \notin Unread =>
       call[t].number = live[s] /\ call[t].to_heap = (s \in Large /\ live[s] = 0)
  /\ pc[t] \notin Unstored => allocations_count[s] = live[s]
  /\ pc[t] \in {"state", "owner", "release"} => call[t].to_heap \/ call[t].freed = 0
  /\ pc[t] = "locked" => call[t].to_heap
  /\ pc[t] \in {"push", "fill"} => ~call[t].to_heap

LEMMA AloneParts ==
  SpanSound /\ LocalsSound => \A t \in Threads : Looks(t) /\ Sweeps(t)
<1> SUFFICES ASSUME SpanSound, LocalsSound, NEW t \in Threads PROVE Looks(t) /\ Sweeps(t)
  OBVIOUS
<1> PICK s : s = call[t].span
  OBVIOUS
<1>1. Looks(t)
  BY DEF SpanSound, Looks
<1>2. Sweeps(t)
  BY DEF SpanSound, LocalsSound, Sweeps
<1> QED BY <1>1, <1>2

LEMMA StillCall ==
  ASSUME NEW t, ~Running(t)
  PROVE  Looks(t) /\ Sweeps(t)
BY DEF Running, Looks, Sweeps, SweepSteps

(* sweep, from step to step.                                                  *)
LEMMA SweepsOn ==
  ASSUME Overlapping, NEW t \in Threads, Sweeps(t), SweepStep(t), ~FreeLocked(t), ~PushFill(t)
  PROVE  Sweeps(t)'
<1> PICK s : s = call[t].span
  OBVIOUS
<1>0. /\ CallType /\ SpanType /\ sweep_generation \in Nat
      /\ pc[t] \in SweepSteps /\ SameCall(t) /\ call'[t].span = s
      /\ pc'[t] \in SweepSteps \cup {"panicked"}
  BY Types, SweepWithin DEF SameCall
<1>1. /\ s \in Spans /\ call[t].gen = sweep_generation
      /\ live' = live /\ sweep_generation' = sweep_generation
  BY <1>0, Holding, ThreadKeeps DEF Claiming, StepOf
<1>2. /\ live[s] \in 0 .. Elements /\ allocations_count[s] \in 0 .. Elements
  BY <1>0, <1>1 DEF SpanType
<1>3. CASE pc'[t] = "panicked"
  BY <1>3 DEF Sweeps, SweepSteps
<1> SUFFICES ASSUME pc'[t] # "panicked" PROVE Sweeps(t)'
  BY <1>3
<1> USE DEF Local, spanVars, Unread, Unstored
<1>4. CASE SweepLoad(t)
  <2>1. /\ pc[t] = "sweep" /\ pc'[t] = "check" /\ UNCHANGED spanVars
        /\ call'[t].seen = span_gen[s]
    BY <1>0, <1>4 DEF SweepLoad, Goto, CallType, Calls
  <2> QED BY <1>0, <1>1, <2>1 DEF Sweeps, SweepSteps, SameCall
<1>5. CASE SweepCheck(t)
  <2>1. pc[t] = "check" /\ pc'[t] = "count" /\ UNCHANGED spanVars /\ UNCHANGED call
    BY <1>0, <1>5 DEF SweepCheck, Goto, CallType
  <2> QED BY <1>0, <1>1, <2>1 DEF Sweeps, SweepSteps
<1>6. CASE SweepCount(t)
  <2>1. /\ pc[t] = "count" /\ pc'[t] = "freed" /\ UNCHANGED spanVars
        /\ call'[t].number = marked[s] % CountMod
        /\ call'[t].to_heap = (s \in Large /\ marked[s] % CountMod = 0)
    BY <1>0, <1>6 DEF SweepCount, Goto, CallType, Calls
  <2>2. marked[s] = live[s] /\ live[s] % CountMod = live[s]
    BY <1>2, <2>1, CountFits DEF Sweeps, SweepSteps
  <2> QED BY <1>0, <1>1, <2>1, <2>2 DEF Sweeps, SweepSteps, SameCall
<1>7. CASE CountFreed(t)
  <2>1. /\ pc[t] = "freed" /\ pc'[t] = "store" /\ UNCHANGED spanVars
        /\ call'[t].number = call[t].number /\ call'[t].to_heap = call[t].to_heap
    BY <1>0, <1>7 DEF CountFreed, Goto, CallType, Calls
  <2> QED BY <1>0, <1>1, <2>1 DEF Sweeps, SweepSteps, SameCall
<1>8. CASE StoreCount(t)
  <2>1. /\ pc[t] = "store" /\ pc'[t] = "swap" /\ UNCHANGED <<state, span_gen, marked, call>>
        /\ allocations_count'[s] = call[t].number
    BY <1>0, <1>1, <1>8 DEF StoreCount, Goto, CallType, SpanType
  <2> QED BY <1>0, <1>1, <2>1 DEF Sweeps, SweepSteps
<1>9. CASE SwapBits(t)
  <2>1. /\ pc[t] = "swap" /\ UNCHANGED <<state, span_gen, allocations_count, call>>
        /\ pc'[t] = IF call[t].to_heap \/ call[t].freed = 0 THEN "state" ELSE "dispose"
    BY <1>0, <1>9 DEF SwapBits, Goto, CallType
  <2> QED BY <1>0, <1>1, <2>1 DEF Sweeps, SweepSteps
<1>10. CASE ReleaseState(t) \/ ReleaseOwner(t)
  <2>1. /\ pc[t] \in {"state", "owner"} /\ pc'[t] \in {"owner", "release"}
        /\ UNCHANGED spanVars /\ UNCHANGED call
    BY <1>0, <1>10 DEF ReleaseState, ReleaseOwner, Goto, CallType
  <2> QED BY <1>0, <1>1, <2>1 DEF Sweeps, SweepSteps
<1>11. CASE SweepRelease(t)
  <2>1. /\ pc[t] = "release" /\ pc'[t] = "dispose"
        /\ UNCHANGED <<state, allocations_count, marked, call>>
        /\ span_gen'[s] = sweep_generation
    BY <1>0, <1>1, <1>11 DEF SweepRelease, Goto, CallType, SpanType
  <2> QED BY <1>0, <1>1, <2>1 DEF Sweeps, SweepSteps
<1>12. CASE SweepToCentral(t) \/ SweepKeep(t)
  <2>1. /\ pc[t] = "dispose" /\ pc'[t] = "push" /\ UNCHANGED spanVars /\ UNCHANGED call
        /\ ~call[t].to_heap \/ s \notin Large
    BY <1>0, <1>12 DEF SweepToCentral, SweepKeep, Goto, CallType
  <2> QED BY <1>0, <1>1, <2>1 DEF Sweeps, SweepSteps
<1>13. CASE SweepToHeap(t)
  <2>1. /\ pc[t] = "dispose" /\ pc'[t] = "locked" /\ UNCHANGED spanVars /\ UNCHANGED call
        /\ call[t].to_heap
    BY <1>0, <1>13 DEF SweepToHeap, Goto, CallType
  <2> QED BY <1>0, <1>1, <2>1 DEF Sweeps, SweepSteps
<1>14. CASE SweepPush(t)
  <2>1. /\ pc[t] = "push" /\ pc'[t] = "fill" /\ UNCHANGED spanVars
        /\ call'[t].number = call[t].number /\ call'[t].to_heap = call[t].to_heap
        /\ call'[t].freed = call[t].freed
    BY <1>0, <1>14 DEF SweepPush, Goto, CallType, Calls
  <2> QED BY <1>0, <1>1, <2>1 DEF Sweeps, SweepSteps, SameCall
<1> QED
  BY <1>4, <1>5, <1>6, <1>7, <1>8, <1>9, <1>10, <1>11, <1>12, <1>13, <1>14 DEF SweepStep

(* A claim of sweep_one goes on to the next span, and sweep begins for direct *)
(* callers only.                                                              *)
LEMMA ClaimIsLost ==
  ASSUME Overlapping, NEW t \in Threads, Looks(t), Claim(t)
  PROVE  /\ pc'[t] = "pop" /\ UNCHANGED call
         /\ call[t].span \in Spans /\ state'[call[t].span] = "InUse"
         /\ span_gen'[call[t].span] = sweep_generation - 1
<1>1. pc[t] = "claim" /\ CallType /\ SpanType
  BY Types DEF Claim
<1>2. call[t].gen = sweep_generation /\ call[t].span \in Spans
  BY <1>1, Holding DEF Claiming
<1>3. state[call[t].span] = "InUse" /\ span_gen[call[t].span] = call[t].gen - 2
  BY <1>1, <1>2 DEF Looks
<1> QED BY <1>1, <1>2, <1>3 DEF Claim, Goto, CallType, SpanType

LEMMA OwnSpanStep ==
  ASSUME Overlapping, MarksSound, NEW t \in Threads, StepOf(t), Looks(t), Sweeps(t)
  PROVE  Looks(t)' /\ Sweeps(t)'
<1>0. CallType /\ SpanType /\ sweep_generation' = sweep_generation
  BY Types, ThreadKeeps
<1>1. CASE SweepOneDone(t)
  BY <1>1 DEF SweepOneDone, vars, heapVars, spanVars, Looks, Sweeps
<1>2. CASE ~SweepOneDone(t)
  <2>1. CASE pc'[t] = "inspect"
    <3>1. LoadGeneration(t)
      BY <1>0, <1>2, <2>1, Arrives
    <3>2. UNCHANGED span_gen /\ call'[t].span = call[t].span
          /\ call'[t].seen = span_gen[call[t].span]
      BY <1>0, <3>1 DEF LoadGeneration, Local, spanVars, CallType, Calls
    <3> QED BY <2>1, <3>2 DEF Looks, Sweeps, SweepSteps
  <2>2. CASE pc'[t] = "claim"
    <3>1. Inspect(t)
      BY <1>0, <1>2, <2>2, Arrives
    <3>2. /\ pc[t] = "inspect" /\ UNCHANGED spanVars /\ UNCHANGED call
          /\ state[call[t].span] = "InUse" /\ call[t].seen = call[t].gen - 2
      BY <1>0, <2>2, <3>1 DEF Inspect, Local, Goto, CallType
    <3>3. call[t].gen = sweep_generation /\ call[t].seen = span_gen[call[t].span]
      BY <3>2, SameGeneration DEF Running, Looks
    <3> QED BY <1>0, <2>2, <3>2, <3>3 DEF Looks, Sweeps, SweepSteps, spanVars
  <2>3. CASE pc'[t] \in SweepSteps
    <3>1. ASSUME NEW s \in Spans, DirectSweep(t, s) PROVE Sweeps(t)'
      <4>1. /\ pc'[t] = "sweep" /\ call'[t].span = s /\ call'[t].direct
            /\ state'[s] = "InUse" /\ span_gen'[s] = sweep_generation - 1
            /\ UNCHANGED <<marked, live, allocations_count>>
        BY <1>0, <3>1 DEF DirectSweep, Goto, CallType, SpanType, NoCall
      <4>2. marked[s] = live[s] /\ live[s] <= allocations_count[s]
        BY <3>1 DEF MarksSound, DirectSweep
      <4> QED BY <1>0, <4>1, <4>2 DEF Sweeps, SweepSteps, Unread, Unstored
    <3>2. ~SweepOneStep(t)
      <4>1. SweepOneStep(t) /\ ~SweepOneEnd(t) => pc'[t] = "sweep"
        BY <1>0, <2>3, PopWithin DEF PopSteps, SweepSteps
      <4>2. ~SweepOneEnd(t)
        BY <1>0, <2>3 DEF SweepOneEnd, Goto, CallType, SweepSteps
      <4>3. \A s \in Spans : DirectSweep(t, s) => pc[t] = "idle"
        BY DEF DirectSweep, Goto
      <4>4. SweepOneStep(t) => pc[t] # "idle"
        BY <1>0, <4>2, PopWithin DEF PopSteps
      <4>5. ~Claim(t)
        BY <2>3, ClaimIsLost DEF SweepSteps
      <4> QED BY <1>0, <1>2, <4>1, <4>2, <4>3, <4>4, <4>5, Arrives
    <3>3. SweepOneBegin(t) => pc'[t] = "pop"
      BY <1>0 DEF SweepOneBegin, Goto, CallType
    <3>4. ASSUME Return(t, "locked", TRUE) \/ Return(t, "fill", FALSE) PROVE FALSE
      <4>1. pc'[t] \in {"idle", "end"}
        <5>1. CASE call[t].direct
          BY <1>0, <3>4, <5>1, ReturnForm
        <5>2. CASE ~call[t].direct
          BY <1>0, <3>4, <5>2, ReturnForm
        <5> QED BY <5>1, <5>2
      <4> QED BY <2>3, <4>1 DEF SweepSteps
    <3>5. ~FreeLocked(t) /\ ~PushFill(t)
      BY <3>4 DEF FreeLocked, PushFill
    <3>6. Sweeps(t)'
      BY <1>2, <2>3, <3>1, <3>2, <3>3, <3>5, SweepsOn DEF StepOf, SweepSteps
    <3> QED BY <2>3, <3>6 DEF Looks, SweepSteps
  <2> QED BY <2>1, <2>2, <2>3 DEF Looks, Sweeps
<1> QED BY <1>1, <1>2

LEMMA SpanStep ==
  ASSUME Exclusive, Overlapping, Alone, [Next]_vars
  PROVE  SpanSound' /\ LocalsSound'
<1>0. \A t \in Threads : Looks(t) /\ Sweeps(t)
  BY AloneParts DEF Alone
<1>1. ASSUME NEW t \in Threads, StepOf(t) PROVE \A u \in Threads : Looks(u)' /\ Sweeps(u)'
  <2>1. Looks(t)' /\ Sweeps(t)'
    BY <1>0, <1>1, OwnSpanStep DEF Alone
  <2>2. \A u \in Threads \ {t} : ~Running(u)'
    BY <1>1, Actor DEF Alone
  <2>3. ASSUME NEW u \in Threads, ~Running(u)' PROVE Looks(u)' /\ Sweeps(u)'
    BY <2>3 DEF Running, Looks, Sweeps, SweepSteps
  <2> QED BY <2>1, <2>2, <2>3
<1>2. ASSUME External, NEW u \in Threads PROVE Looks(u)' /\ Sweeps(u)'
  <2>1. ~Running(u)'
    BY <1>2, ExternalQuiet
  <2> QED BY <2>1 DEF Running, Looks, Sweeps, SweepSteps
<1>3. ASSUME UNCHANGED vars, NEW u \in Threads PROVE Looks(u)' /\ Sweeps(u)'
  BY <1>0, <1>3 DEF vars, heapVars, spanVars, Looks, Sweeps
<1>4. \A u \in Threads : Looks(u)' /\ Sweeps(u)'
  BY <1>1, <1>2, <1>3, StepKinds
<1>5. SpanSound'
  BY <1>4 DEF SpanSound, Looks, Sweeps
<1>6. LocalsSound'
  BY <1>4 DEF LocalsSound, Sweeps
<1> QED BY <1>5, <1>6

MarksOf(s) ==
  /\ span_gen[s] = sweep_generation - 2 =>
       marked[s] = live[s] /\ live[s] <= allocations_count[s]
  /\ state[s] # "InUse" => allocations_count[s] = 0

LEMMA MarksStep ==
  ASSUME Exclusive, Overlapping, Alone, [Next]_vars
  PROVE  MarksSound'
<1>0. SpanType /\ sweep_generation \in Nat /\ MarksSound
  BY Types DEF Alone
<1> SUFFICES ASSUME NEW s \in Spans PROVE MarksOf(s)'
  BY DEF MarksSound, MarksOf
<1>1. span_gen[s] \in Nat /\ MarksOf(s)
  BY <1>0 DEF MarksSound, MarksOf, SpanType
<1>2. CASE StartCycle
  BY <1>1, <1>2 DEF StartCycle, MarksOf
<1>3. ASSUME NEW r \in Spans, AllocateSpan(r)
      PROVE  MarksOf(s)'
  BY <1>0, <1>1, <1>3 DEF AllocateSpan, SpanType, heapVars, MarksOf
<1>4. ASSUME NEW r \in Spans, AllocateManual(r) \/ FreeManualSpan(r)
      PROVE  MarksOf(s)'
  <2>1. CASE AllocateManual(r)
    <3>1. allocations_count[r] = 0 /\ UNCHANGED <<span_gen, marked, live, sweep_generation>>
      BY <1>0, <2>1 DEF AllocateManual, MarksSound, heapVars
    <3> QED BY <1>0, <1>1, <2>1, <3>1 DEF AllocateManual, SpanType, MarksOf
  <2>2. CASE FreeManualSpan(r)
    BY <1>0, <1>1, <2>2 DEF FreeManualSpan, SpanType, heapVars, MarksOf
  <2> QED BY <1>4, <2>1, <2>2
<1>5. ASSUME NEW t \in Threads, StepOf(t)
      PROVE  MarksOf(s)'
  <2>1. ThreadChange(t, s) /\ sweep_generation' = sweep_generation /\ live' = live
    BY <1>5, ThreadChanges, ThreadKeeps
  <2>2. Sweeps(t) /\ (pc[t] \in SweepSteps /\ call[t].span = s => state[s] = "InUse")
    BY AloneParts DEF Alone, Sweeps
  <2>3. span_gen'[s] = sweep_generation - 2 => Kept(s)
    BY <1>0, <1>1, <2>1 DEF ThreadChange, Claimed, Released, Freed
  <2>4. allocations_count'[s] = allocations_count[s] \/
          (StoreCount(t) /\ s = call[t].span /\ pc[t] = "store")
    BY <1>0, <1>5, ThreadKeeps DEF StoreCount, Goto, SpanType
  <2>5. marked'[s] = marked[s] \/ (SwapBits(t) /\ s = call[t].span /\ pc[t] = "swap")
    <3>1. SwapBits(t) => /\ pc[t] = "swap"
                         /\ marked' = marked \/ marked' = [marked EXCEPT ![call[t].span] = 0]
      BY DEF SwapBits, Local, Goto, spanVars
    <3> QED BY <1>0, <1>5, <3>1, ThreadKeeps DEF SpanType
  <2>6. pc[t] \in {"store", "swap"} /\ s = call[t].span =>
          state[s] = "InUse" /\ span_gen[s] = sweep_generation - 1
    BY <2>2 DEF Sweeps, SweepSteps
  <2>7. state'[s] = state[s] \/ (Freed(s) /\ pc[t] = "locked" /\ s = call[t].span)
    BY <2>1 DEF ThreadChange, Kept, Claimed, Released
  <2>8. pc[t] = "locked" /\ s = call[t].span => allocations_count[s] = 0
    BY <2>2 DEF Sweeps, SweepSteps, Unread, Unstored
  <2> QED BY <1>0, <1>1, <2>1, <2>3, <2>4, <2>5, <2>6, <2>7, <2>8 DEF Kept, MarksOf
<1>6. CASE UNCHANGED vars
  BY <1>1, <1>6 DEF vars, heapVars, spanVars, MarksOf
<1> QED BY <1>2, <1>3, <1>4, <1>5, <1>6, StepKinds DEF External

(* The steps that can panic.                                                  *)
LEMMA Panics ==
  ASSUME CallType, NEW t \in Threads, StepOf(t), ~SweepOneDone(t), pc'[t] = "panicked"
  PROVE  \/ PopWild(t) \/ PopBeyond(t) \/ Inspect(t)
         \/ SweepCheck(t) \/ CountFreed(t) \/ SwapBits(t) \/ ReleaseState(t) \/ ReleaseOwner(t)
         \/ SweepToHeap(t)
<1>1. ASSUME NEW from, NEW to, Goto(t, from, to) PROVE to = "panicked"
  BY <1>1 DEF Goto, CallType
<1> USE DEF Local
<1>2. ~SweepOneBegin(t) /\ ~SweepOneEnd(t) /\ \A s \in Spans : ~DirectSweep(t, s)
  BY <1>1 DEF SweepOneBegin, SweepOneEnd, DirectSweep
<1>3. /\ ~PopSpan(t) /\ ~PopNone(t) /\ ~PopEmpty(t) /\ ~PopUndo(t) /\ ~SweepingDone(t)
      /\ ~LoadGeneration(t)
  BY <1>1 DEF PopSpan, PopNone, PopEmpty, PopUndo, SweepingDone, LoadGeneration
<1>4. ~Claim(t)
  BY <1>1 DEF Claim
<1>5. /\ ~SweepLoad(t) /\ ~SweepCount(t) /\ ~StoreCount(t) /\ ~SweepRelease(t)
      /\ ~SweepToCentral(t) /\ ~SweepKeep(t) /\ ~SweepPush(t)
  BY <1>1 DEF SweepLoad, SweepCount, StoreCount, SweepRelease, SweepToCentral, SweepKeep,
     SweepPush
<1>6. ASSUME NEW from, NEW result, Return(t, from, result) PROVE FALSE
  <2>1. CASE call[t].direct
    BY <1>6, <2>1, ReturnForm
  <2>2. CASE ~call[t].direct
    BY <1>6, <2>2, ReturnForm
  <2> QED BY <2>1, <2>2
<1>7. ~FreeLocked(t) /\ ~PushFill(t)
  BY <1>6 DEF FreeLocked, PushFill
<1> QED
  BY <1>2, <1>3, <1>4, <1>5, <1>7 DEF StepOf, SweepOneStep, SweepStep

(* The span that a call gives to the heap can be freed, but for an overflow.  *)
LEMMA HeapAccepts ==
  ASSUME Overlapping, NEW t \in Threads, Sweeps(t), SweepToHeap(t), ~CanFree(call[t].span)
  PROVE  OverflowChecks
<1>1. pc[t] = "dispose" /\ call[t].to_heap /\ call[t].span \in Spans
  BY Holding DEF SweepToHeap, Goto, Claiming, SweepSteps
<1>2. /\ state[call[t].span] = "InUse" /\ span_gen[call[t].span] = sweep_generation
      /\ allocations_count[call[t].span] = 0
  BY <1>1 DEF Sweeps, SweepSteps, Unread, Unstored
<1> QED BY <1>2 DEF CanFree

LEMMA CalmStep ==
  ASSUME Exclusive, Overlapping, Alone, [Next]_vars
  PROVE  CalmSound'
<1>0. /\ CallType /\ (poisoned => OverflowChecks)
      /\ Calm => \A t \in Threads : pc[t] # "panicked"
      /\ \A t \in Threads : Looks(t) /\ Sweeps(t)
  BY Types, AloneParts DEF Alone, CalmSound, HeapNotPoisoned
<1>1. poisoned' => OverflowChecks
  <2>1. ASSUME NEW s \in Spans, FreeManualSpan(s) PROVE poisoned' => OverflowChecks
    <3>1. CanFree(s)
      BY <2>1 DEF FreeManualSpan, CanFree, Overlapping, ManualEmpty
    <3> QED BY <1>0, <2>1, <3>1 DEF FreeManualSpan
  <2>2. ASSUME NEW s \in Spans, AllocateSpan(s) \/ AllocateManual(s) PROVE UNCHANGED poisoned
    BY <2>2 DEF AllocateSpan, AllocateManual, lockedVars
  <2>3. StartCycle \/ UNCHANGED vars => UNCHANGED poisoned
    BY DEF StartCycle, vars, lockedVars
  <2>4. ASSUME NEW t \in Threads, StepOf(t) PROVE poisoned' => OverflowChecks
    <3>1. (SweepToHeap(t) /\ poisoned') => poisoned \/ ~CanFree(call[t].span)
      BY DEF SweepToHeap
    <3> QED BY <1>0, <2>4, <3>1, ThreadKeeps, HeapAccepts
  <2> QED BY <1>0, <2>1, <2>2, <2>3, <2>4, StepKinds DEF External
<1>2. ASSUME Calm, NEW t \in Threads PROVE pc'[t] # "panicked"
  <2>0. pc[t] # "panicked" /\ ~poisoned
    BY <1>0, <1>2 DEF Calm
  <2>1. CASE External \/ UNCHANGED vars
    BY <2>0, <2>1, ExternalStep DEF vars
  <2>2. ASSUME NEW u \in Threads \ {t}, StepOf(u) PROVE pc'[t] = pc[t]
    BY <1>0, <2>2, OthersKeep
  <2>3. CASE StepOf(t)
    <3> SUFFICES ASSUME pc'[t] = "panicked" PROVE FALSE
      OBVIOUS
    <3>1. ~SweepOneDone(t)
      BY <2>0 DEF SweepOneDone, vars
    <3> USE DEF Local
    <3>2. ~PopWild(t)
      BY <1>2 DEF PopWild, Calm
    <3>3. ~PopBeyond(t)
      <4>1. PopBeyond(t) => pc[t] = "pop" /\ \E u \in Threads : pc[u] = "undo"
        BY DEF PopBeyond, BelowZero, Goto
      <4> QED BY <4>1 DEF Alone, OneRuns, Running
    <3>4. ~Inspect(t)
      <4>1. pc[t] = "inspect" => /\ call[t].seen = span_gen[call[t].span]
                                 /\ call[t].gen = sweep_generation
                                 /\ state[call[t].span] # "InUse" =>
                                      span_gen[call[t].span] = sweep_generation
        BY <1>0, SameGeneration DEF Looks, Running, Alone, WaitingSound
      <4> QED BY <1>0, <4>1 DEF Inspect, Goto, CallType
    <3>5. /\ pc[t] \in SweepSteps => /\ call[t].span \in Spans /\ call[t].gen = sweep_generation
                                     /\ state[call[t].span] = "InUse"
          /\ pc[t] = "check" => call[t].seen = sweep_generation - 1
          /\ pc[t] = "owner" => span_gen[call[t].span] = sweep_generation - 1
          /\ pc[t] = "freed" => /\ call[t].number = live[call[t].span]
                                /\ live[call[t].span] <= allocations_count[call[t].span]
      BY <1>0, Holding DEF Sweeps, SweepSteps, Claiming, Unread, Unstored
    <3>6. ~SweepCheck(t)
      BY <1>0, <1>2, <3>5 DEF SweepCheck, Goto, CallType, Calm, SweepSteps
    <3>7. ~CountFreed(t)
      <4>1. pc[t] = "freed" => /\ call[t].number \in Nat
                               /\ allocations_count[call[t].span] \in Nat
        BY <1>0, <3>5, Types DEF CallType, Calls, SpanType, SweepSteps
      <4> QED BY <1>0, <3>5, <4>1 DEF CountFreed, Goto, CallType
    <3>8. ~SwapBits(t)
      BY <1>0, <1>2 DEF SwapBits, Goto, CallType, Calm
    <3>9. ~ReleaseState(t) /\ ~ReleaseOwner(t)
      BY <1>0, <3>5 DEF ReleaseState, ReleaseOwner, Goto, CallType, SweepSteps
    <3>10. ~SweepToHeap(t)
      <4>1. SweepToHeap(t) => CanFree(call[t].span)
        BY <1>0, <1>2, HeapAccepts DEF Calm
      <4> QED BY <1>0, <2>0, <4>1 DEF SweepToHeap, Goto, CallType
    <3> QED
      BY <1>0, <2>3, <3>1, <3>2, <3>3, <3>4, <3>6, <3>7, <3>8, <3>9, <3>10, Panics
  <2> QED BY <2>0, <2>1, <2>2, <2>3, StepKinds
<1> QED BY <1>1, <1>2 DEF CalmSound, HeapNotPoisoned

-------------------------------------------------------------------------------
(* The invariant.                                                             *)

LEMMA AloneInit ==
  ASSUME Init
  PROVE  Alone
<1>1. \A t \in Threads : pc[t] = "idle"
  BY DEF Init
<1>2. \A b \in Buffers : sweep_buffers[b] = <<>>
  BY DEF Init, Buffers
<1>3. \A b \in Buffers : Slots(b) = {} /\ InBuffer(b) = {} /\ ~Filling(b)
  BY <1>1, <1>2 DEF Slots, InBuffer, Filling
<1>4. /\ sweep_generation = 0 /\ Pushable(0) \in Buffers /\ Popable(0) \in Buffers
  BY BufferRoles DEF Init
<1>5. OneRuns /\ FillSound /\ SpanSound /\ LocalsSound
  BY <1>1 DEF OneRuns, Running, FillSound, SpanSound, LocalsSound, SweepSteps
<1>6. FirstLost
  BY <1>2, <1>3 DEF FirstLost
<1>7. Drained /\ PushedSound /\ WaitingSound /\ Once
  BY <1>1, <1>2, <1>3, <1>4 DEF Drained, Unswept, PushedSound, WaitingSound, Once
<1>8. MarksSound /\ CalmSound
  BY <1>1 DEF Init, MarksSound, CalmSound, HeapNotPoisoned
<1> QED BY <1>5, <1>6, <1>7, <1>8 DEF Alone

LEMMA AloneStep ==
  ASSUME Exclusive, Overlapping, Alone, [Next]_vars
  PROVE  Alone'
BY OneRunsStep, QueuesStep, DrainedStep, PushedStep, WaitingStep, MarksStep, SpanStep, CalmStep
   DEF Alone

LEMMA InitInvariant == Init => IInv
BY OverlappingInit, AloneInit DEF IInv

LEMMA NextInvariant == IInv /\ [Next]_vars => IInv'
BY OverlappingStep, AloneStep DEF IInv

(* IInv holds in every state, calls overlapping or not: what it says of calls *)
(* that overlap is about the loads and stores of GC::sweep_one and            *)
(* MemorySpanData::sweep one at a time.                                       *)
THEOREM InvariantHolds == Spec => []IInv
BY InitInvariant, NextInvariant, PTL DEF Spec

-------------------------------------------------------------------------------
(* What it says of the sweep, however calls overlap.                          *)

(* The variables of heap, spans, buffers and calls stay within their types,   *)
(* pages_in_use within a u64.                                                 *)
THEOREM TypeCorrect == Spec => []TypeOK
BY InvariantHolds, PTL DEF IInv, Overlapping

(* Nothing is popped before the first collection, so that the subtraction     *)
(* `sweep_generation - 2' of sweep_one does not underflow.                    *)
THEOREM GenerationsDoNotUnderflow == Spec => []NoUnderflow
BY InvariantHolds, PTL DEF IInv, Overlapping

(* sweep_one returns !0 only when the sweep is done, and else 0 or the pages  *)
(* of a span that the heap has got: also when several calls sweep one span.   *)
THEOREM PagesAreReturned == Spec => []PagesReturned
BY InvariantHolds, PTL DEF IInv, Overlapping, PagesSound

(* A step of the sweep is a step of the life of each span, or none of it.     *)
LEMMA LifeStep ==
  ASSUME IInv, [Next]_vars, NEW s \in Spans
  PROVE  Life(s)!Next \/ UNCHANGED LifeOf(s)
<1>1. /\ sweep_generation \in Nat /\ span_gen[s] \in Nat /\ span_gen[s] <= sweep_generation
      /\ SpanChange(s)
      /\ \/ sweep_generation' = sweep_generation + 2 /\ Kept(s)
         \/ sweep_generation' = sweep_generation
      /\ state[s] \in {"Dead", "InUse", "Manual", "Free"}
  <2>1. Overlapping
    BY DEF IInv
  <2>2. SpanType /\ sweep_generation \in Nat /\ span_gen[s] <= sweep_generation
    BY <2>1, Types DEF Overlapping, Shapes
  <2> QED BY <2>1, <2>2, SpanChanges DEF SpanType
<1>2. PICK old, new : old = LifeOf(s) /\ new = LifeOf(s)'
  OBVIOUS
<1>3. SUFFICES \/ old \in {"dead", "free"} /\ new \in {"ready", "manual"}
               \/ old = "manual" /\ new = "free"
               \/ old = "ready" /\ new = "unswept"
               \/ old \in {"unswept", "claimed"} /\ new = "stale"
               \/ old = "unswept" /\ new = "claimed"
               \/ old = "claimed" /\ new = "ready"
               \/ old = "ready" /\ new = "free"
               \/ old = new
  BY <1>2 DEF Life!Next, Life!Allocate, Life!FreeManual, Life!NextCycle, Life!Claim,
     Life!Swept, Life!Free, Life!From
<1>4. CASE sweep_generation' = sweep_generation + 2 /\ Kept(s)
  BY <1>1, <1>2, <1>4 DEF Kept, LifeOf
<1>5. CASE sweep_generation' = sweep_generation
  <2>1. CASE Kept(s)
    BY <1>1, <1>2, <1>5, <2>1 DEF Kept, LifeOf
  <2>2. CASE Taken(s) \/ Moved(s)
    BY <1>1, <1>2, <1>5, <2>2 DEF Taken, Moved, LifeOf
  <2>3. CASE Claimed(s) \/ Released(s)
    BY <1>1, <1>2, <1>5, <2>3 DEF Claimed, Released, LifeOf
  <2>4. CASE Freed(s)
    BY <1>1, <1>2, <1>5, <2>4 DEF Freed, LifeOf
  <2> QED BY <1>1, <2>1, <2>2, <2>3, <2>4 DEF SpanChange
<1> QED BY <1>1, <1>4, <1>5

(* The sweep implements the life that the comments promise of every span:     *)
(* none is freed unswept, claimed twice in a collection or swept while not in *)
(* use, by calls that overlap, entries out of date or a claim that is dropped.*)
THEOREM LivesAreAsPromised == Spec => ImplementsLife
<1>1. Init => \A s \in Spans : Life(s)!Init
  BY DEF Init, LifeOf, Life!Init
<1>2. IInv /\ [Next]_vars => [\A s \in Spans : Life(s)!Next \/ UNCHANGED LifeOf(s)]_vars
  BY LifeStep
<1> QED BY <1>1, <1>2, InvariantHolds, PTL DEF Spec, ImplementsLife

(* fetch_sub returns the value before the subtraction: whoever leaves         *)
(* sweep_one counts itself, so that its comparison with 0 never finds the     *)
(* last sweeper.                                                              *)
THEOREM LastSweeperUnnoticed == Spec => [](\A t \in Threads : pc[t] = "end" => sweepers # 0)
<1>1. ASSUME IInv, NEW t \in Threads, pc[t] = "end" PROVE sweepers # 0
  <2>1. t \in Open /\ sweepers = Cardinality(Open)
    BY <1>1 DEF IInv, Overlapping, Counted, Open
  <2> QED BY <2>1, OpenIsFinite, FS_EmptySet
<1>2. IInv => \A t \in Threads : pc[t] = "end" => sweepers # 0
  BY <1>1
<1> QED BY <1>2, InvariantHolds, PTL

-------------------------------------------------------------------------------
(* What it says of calls that do not overlap.                                 *)

(* When sweep_one sets sweep_done, the unswept buffer is empty and stays so:  *)
(* no entry of one cycle is on the swept list of the next.                    *)
THEOREM DrainedWhenDone == Exclusive => (Spec => []DoneMeansDrained)
<1> SUFFICES ASSUME Exclusive PROVE Spec => []DoneMeansDrained
  OBVIOUS
<1>1. IInv => DoneMeansDrained
  BY DEF IInv, Alone, Drained, DoneMeansDrained
<1> QED BY <1>1, InvariantHolds, PTL

(* Under `&mut self' the assertion of sweep_one about a span that is not in   *)
(* use in the unswept list never fails.                                       *)
THEOREM UnsweptListIsSound == Exclusive => (Spec => []UnsweptSound)
<1> SUFFICES ASSUME Exclusive PROVE Spec => []UnsweptSound
  OBVIOUS
<1>1. IInv => UnsweptSound
  <2> SUFFICES ASSUME Overlapping, Alone PROVE UnsweptSound
    BY DEF IInv
  <2>1. \A i \in Slots(Popable(sweep_generation)) :
          Unswept[i] \in InBuffer(Popable(sweep_generation))
    BY DEF InBuffer, Unswept
  <2>2. ASSUME NEW t \in Threads, pc[t] = "inspect"
        PROVE  state[call[t].span] = "InUse" \/ call[t].seen = call[t].gen
    <3>1. call[t].gen = sweep_generation /\ call[t].seen = span_gen[call[t].span]
      BY <2>2, SameGeneration DEF Running, Alone, SpanSound
    <3> QED BY <2>2, <3>1 DEF Alone, WaitingSound
  <2> QED BY <2>1, <2>2 DEF UnsweptSound, Alone, WaitingSound
<1> QED BY <1>1, InvariantHolds, PTL

(* The span that has the lock was counted without marks, and is not counted   *)
(* again before it is freed.                                                  *)
LEMMA LiveStep ==
  ASSUME Exclusive, IInv, [Next]_vars, NEW s \in Spans, state[s] = "InUse", state'[s] = "Free"
  PROVE  live[s] = 0 /\ span_gen[s] = sweep_generation
<1>0. Overlapping /\ Alone
  BY DEF IInv
<1>1. ASSUME NEW t \in Threads, StepOf(t)
      PROVE  live[s] = 0 /\ span_gen[s] = sweep_generation
  <2>1. Freed(s) /\ pc[t] = "locked" /\ s = call[t].span
    BY <1>0, <1>1, ThreadChanges DEF ThreadChange, Kept, Claimed, Released
  <2>2. Sweeps(t)
    BY <1>0, AloneParts DEF Alone
  <2> QED BY <2>1, <2>2 DEF Freed, Sweeps, SweepSteps, Unread, Unstored
<1>2. External \/ UNCHANGED vars => state'[s] # "Free"
  <2>1. SpanType
    BY <1>0, Types
  <2> QED BY <2>1 DEF External, StartCycle, AllocateSpan, AllocateManual, FreeManualSpan, vars,
       spanVars, SpanType
<1> QED BY <1>1, <1>2, StepKinds

(* Under `&mut self' a span goes back to the heap only in the collection that *)
(* swept it and only with none of its objects in use: what is in use is what  *)
(* the mark phase found, or was allocated since, not what the bitmaps say.    *)
THEOREM LiveObjectsStay == Exclusive => (Spec => NoLiveObjectFreed)
<1> SUFFICES ASSUME Exclusive PROVE Spec => NoLiveObjectFreed
  OBVIOUS
<1>1. IInv /\ [Next]_vars =>
        [\A s \in Spans : state[s] = "InUse" /\ state'[s] = "Free" =>
           live[s] = 0 /\ span_gen[s] = sweep_generation]_vars
  BY LiveStep
<1> QED BY <1>1, InvariantHolds, PTL DEF Spec, NoLiveObjectFreed

(* Under `&mut self' no panic of free_span poisons the lock of the heap, but  *)
(* the overflow of pages_in_use in a build that checks for it.                *)
THEOREM HeapStaysSound == Exclusive => (Spec => []HeapNotPoisoned)
<1> SUFFICES ASSUME Exclusive PROVE Spec => []HeapNotPoisoned
  OBVIOUS
<1>1. IInv => HeapNotPoisoned
  BY DEF IInv, Alone, CalmSound
<1> QED BY <1>1, InvariantHolds, PTL

(* No call is lost to a panic, so that those counted are those under way.     *)
LEMMA CalmCounts ==
  ASSUME Calm, IInv
  PROVE  SweepersExact
<1>1. {t \in Threads : pc[t] # "idle" /\ ~call[t].direct}
        = {t \in Threads : Running(t) /\ ~call[t].direct}
  BY DEF IInv, Alone, CalmSound, Calm, Running
<1> QED BY <1>1 DEF SweepersExact, IInv, Overlapping, Counted

(* `sweepers' counts the calls under way in a complete release build: no call *)
(* is lost to a panic.                                                        *)
THEOREM SweepersAreExact == Calm => (Spec => []SweepersExact)
<1> SUFFICES ASSUME Calm PROVE Spec => []SweepersExact
  OBVIOUS
<1>1. IInv => SweepersExact
  BY CalmCounts
<1> QED BY <1>1, InvariantHolds, PTL

(* What is on the swept list cannot be claimed, so that a waiting entry of it *)
(* is out of date.                                                            *)
LEMMA AloneQueues ==
  ASSUME Exclusive, IInv
  PROVE  OnceInBuffer
<1>1. \A b \in Buffers : \A i, j \in Slots(b) :
        sweep_buffers[b][i] = sweep_buffers[b][j] => i = j
  BY DEF IInv, Alone, Once
<1>2. ASSUME NEW i \in Slots(0), NEW j \in Slots(1),
             sweep_buffers[0][i] = sweep_buffers[1][j]
      PROVE  span_gen[sweep_buffers[0][i]] # sweep_generation - 2
  <2>1. PICK p : p = Pushable(sweep_generation)
    OBVIOUS
  <2>2. p = 0 \/ p = 1
    BY <2>1, Types DEF IInv, Buffers
  <2>3. \A s \in InBuffer(p) : span_gen[s] # sweep_generation - 2
    BY <2>1 DEF IInv, Alone, PushedSound
  <2>4. sweep_buffers[0][i] \in InBuffer(0) /\ sweep_buffers[1][j] \in InBuffer(1)
    BY DEF InBuffer
  <2> QED BY <1>2, <2>2, <2>3, <2>4
<1> QED BY <1>1, <1>2 DEF OnceInBuffer, Buffers

(* When calls do not overlap a buffer holds a span once, and a span is in     *)
(* both only with an entry that is out of date: none is swept on both lists.  *)
THEOREM SpansAreQueuedOnce == Exclusive => (Spec => []OnceInBuffer)
<1> SUFFICES ASSUME Exclusive PROVE Spec => []OnceInBuffer
  OBVIOUS
<1>1. IInv => OnceInBuffer
  BY AloneQueues
<1> QED BY <1>1, InvariantHolds, PTL

(* When calls do not overlap sweep_one sweeps nothing: its compare_and_swap   *)
(* succeeds, which the code takes for a failure, and only a direct caller     *)
(* ever reaches MemorySpanData::sweep.                                        *)
THEOREM SweepOneNeverSweeps ==
  Exclusive => (Spec => [](\A t \in Threads : pc[t] \in SweepSteps => call[t].direct))
<1> SUFFICES ASSUME Exclusive
             PROVE  Spec => [](\A t \in Threads : pc[t] \in SweepSteps => call[t].direct)
  OBVIOUS
<1>1. IInv => \A t \in Threads : pc[t] \in SweepSteps => call[t].direct
  BY DEF IInv, Alone, SpanSound
<1> QED BY <1>1, InvariantHolds, PTL

-------------------------------------------------------------------------------
(* Spans that are lost.                                                       *)

(* A call has a span, or has seen it in need of sweeping.                     *)
Held(s) ==
  \E t \in Threads :
    Has(t, s) \/ (pc[t] = "inspect" /\ call[t].span = s /\ call[t].seen = call[t].gen - 2)

(* A span in use that has been claimed, or has missed a cycle, and that no    *)
(* call has.                                                                  *)
Abandoned(s) ==
  /\ state[s] = "InUse" /\ span_gen[s] \notin {sweep_generation, sweep_generation - 2}
  /\ ~Held(s)

(* Nobody looks at such a span again: sweep_one and direct callers claim only *)
(* spans of the last generation, and only a call that has a span sweeps it.   *)
LEMMA AbandonedStep ==
  ASSUME IInv, [Next]_vars, NEW s \in Spans, Abandoned(s)
  PROVE  Abandoned(s)' /\ Kept(s)
<1>0. /\ Overlapping /\ CallType /\ SpanType /\ sweep_generation \in Nat
      /\ span_gen[s] \in Nat /\ span_gen[s] <= sweep_generation
  BY Types DEF IInv, Overlapping, Shapes, SpanType
<1>1. ASSUME NEW t \in Threads, StepOf(t) PROVE Kept(s) /\ ~Held(s)'
  <2>1. ThreadChange(t, s)
    BY <1>0, <1>1, ThreadChanges
  <2>2. pc[t] = "release" => s # call[t].span
    BY DEF Abandoned, Held, Has, Claiming, SweepSteps
  <2>3. Kept(s)
    BY <2>1, <2>2 DEF ThreadChange, Abandoned, Claimed, Freed
  <2>4. ~Has(t, s)'
    BY <1>0, <1>1, HasStep DEF Abandoned, Held
  <2>5. ASSUME pc'[t] = "inspect", call'[t].span = s PROVE call'[t].seen # call'[t].gen - 2
    <3>1. CASE SweepOneDone(t)
      BY <2>5, <3>1 DEF SweepOneDone, vars, Abandoned, Held
    <3>2. CASE LoadGeneration(t)
      <4>1. /\ pc[t] = "load" /\ call[t].span = s
            /\ call'[t].seen = span_gen[s] /\ call'[t].gen = call[t].gen
        BY <1>0, <2>5, <3>2 DEF LoadGeneration, Local, Goto, CallType, Calls
      <4>2. call[t].gen = sweep_generation
        BY <1>0, <4>1, SameGeneration DEF Running
      <4> QED BY <4>1, <4>2 DEF Abandoned
    <3> QED BY <1>0, <1>1, <2>5, <3>1, <3>2, Arrives
  <2>6. \A u \in Threads \ {t} : pc'[u] = pc[u] /\ call'[u] = call[u]
    BY <1>0, <1>1, OthersKeep
  <2> QED BY <2>3, <2>4, <2>5, <2>6 DEF Abandoned, Held, Has
<1>2. ASSUME External PROVE Kept(s) /\ ~Held(s)'
  <2>1. ~Held(s)'
    BY <1>2, ExternalQuiet DEF Held, Has, Running, Claiming, SweepSteps
  <2>2. Kept(s)
    BY <1>0, <1>2 DEF External, StartCycle, AllocateSpan, AllocateManual, FreeManualSpan, Kept,
       Abandoned, SpanType
  <2> QED BY <2>1, <2>2
<1>3. ASSUME UNCHANGED vars PROVE Kept(s) /\ ~Held(s)'
  BY <1>3 DEF vars, spanVars, Kept, Abandoned, Held, Has
<1>4. Kept(s) /\ ~Held(s)'
  BY <1>1, <1>2, <1>3, StepKinds
<1>5. sweep_generation' = sweep_generation \/ sweep_generation' = sweep_generation + 2
  BY <1>0, SpanChanges
<1> QED BY <1>0, <1>4, <1>5 DEF Abandoned, Kept

(* A span that is claimed and then dropped is lost for good: in every later   *)
(* state it is in use and swept by nobody, so that it is never freed and      *)
(* never allocated from again.                                                *)
THEOREM AbandonedForGood ==
  \A s \in Spans : Spec => [](Abandoned(s) => [](Abandoned(s) /\ state[s] = "InUse"))
<1> SUFFICES ASSUME NEW s \in Spans
             PROVE  Spec => [](Abandoned(s) => [](Abandoned(s) /\ state[s] = "InUse"))
  OBVIOUS
<1>1. IInv /\ [Next]_vars /\ Abandoned(s) => Abandoned(s)'
  BY AbandonedStep
<1>2. Abandoned(s) => state[s] = "InUse"
  BY DEF Abandoned
<1> QED BY <1>1, <1>2, InvariantHolds, PTL DEF Spec

(* A claimed span that its only call lets go of is abandoned.                 *)
LEMMA LetGo ==
  ASSUME Exclusive, Overlapping, OneRuns, NEW t \in Threads, StepOf(t), NEW s \in Spans,
         state'[s] = "InUse", span_gen'[s] = sweep_generation - 1, pc'[t] \in {"idle", "pop"}
  PROVE  Abandoned(s)'
<1>1. sweep_generation \in Nat /\ sweep_generation' = sweep_generation
  BY Types, ThreadKeeps
<1>2. \A u \in Threads \ {t} : ~Running(u)'
  BY Actor
<1>3. ~Held(s)'
  BY <1>2 DEF Held, Has, Running, Claiming, SweepSteps
<1> QED BY <1>1, <1>3 DEF Abandoned

(* The compare_and_swap of sweep_one takes the span from the list and from    *)
(* everybody, when calls do not overlap.                                      *)
LEMMA ClaimDrops ==
  ASSUME Exclusive, IInv, NEW t \in Threads, Claim(t)
  PROVE  Abandoned(call[t].span)'
<1>1. Overlapping /\ OneRuns /\ Looks(t) /\ StepOf(t)
  BY AloneParts DEF IInv, Alone, StepOf, SweepOneStep
<1>2. PICK s : s = call[t].span
  OBVIOUS
<1>3. /\ pc'[t] = "pop" /\ UNCHANGED call /\ s \in Spans
      /\ state'[s] = "InUse" /\ span_gen'[s] = sweep_generation - 1
  BY <1>1, <1>2, ClaimIsLost
<1>4. Abandoned(s)'
  BY <1>1, <1>3, LetGo
<1> QED BY <1>2, <1>3, <1>4

(* And sweep_one loses every span it claims, when calls do not overlap: its   *)
(* compare_and_swap gets the span, the loop takes that for a failure and pops *)
(* the next one.                                                              *)
THEOREM ClaimLosesTheSpan ==
  Exclusive => (Spec => [][\A t \in Threads : Claim(t) => Abandoned(call[t].span)']_vars)
<1> SUFFICES ASSUME Exclusive
             PROVE  Spec => [][\A t \in Threads : Claim(t) => Abandoned(call[t].span)']_vars
  OBVIOUS
<1>1. IInv /\ [Next]_vars => [\A t \in Threads : Claim(t) => Abandoned(call[t].span)']_vars
  BY ClaimDrops
<1> QED BY <1>1, InvariantHolds, PTL DEF Spec

(* A span that sweep frees in part is put on the swept list with the          *)
(* generation of one that is being swept: MemoryCentral::free_span, which     *)
(* would release it, is a stub.                                               *)
LEMMA PartFreedDrops ==
  ASSUME Exclusive, IInv, NEW t \in Threads, PushFill(t), call[t].freed # 0,
         NEW s, s = call[t].span
  PROVE  Abandoned(s)'
<1>1. Overlapping /\ OneRuns /\ Sweeps(t) /\ StepOf(t) /\ CallType
  BY AloneParts, Types DEF IInv, Alone, StepOf, SweepStep
<1>2. pc[t] = "fill" /\ s \in Spans /\ UNCHANGED <<state, span_gen>>
  BY <1>1, FillForm DEF PushFill, spanVars
<1>3. /\ call[t].direct /\ state[s] = "InUse" /\ span_gen[s] = sweep_generation - 1
  BY <1>1, <1>2 DEF Sweeps, SweepSteps
<1>4. pc'[t] = "idle"
  BY <1>1, <1>3, ReturnForm DEF PushFill
<1> QED BY <1>1, <1>2, <1>3, <1>4, LetGo

(* Under `&mut self' every span of which a sweep frees a part of the objects  *)
(* is lost when sweep returns: in use, never allocated from or swept again.   *)
THEOREM PartFreedIsLost ==
  Exclusive =>
    (Spec => [][\A t \in Threads : \A s \in {call[t].span} :
                  PushFill(t) /\ call[t].freed # 0 => Abandoned(s)']_vars)
<1> SUFFICES ASSUME Exclusive
             PROVE  Spec => [][\A t \in Threads : \A s \in {call[t].span} :
                                 PushFill(t) /\ call[t].freed # 0 => Abandoned(s)']_vars
  OBVIOUS
<1>1. IInv /\ [Next]_vars =>
        [\A t \in Threads : \A s \in {call[t].span} :
           PushFill(t) /\ call[t].freed # 0 => Abandoned(s)']_vars
  BY PartFreedDrops
<1> QED BY <1>1, InvariantHolds, PTL DEF Spec

-------------------------------------------------------------------------------
(* What depends on the build.                                                 *)

(* While the count of pages in use is 0, a build with overflow checks panics  *)
(* instead of giving a span in use back.                                      *)
NoneLocked == pages_in_use = 0 /\ \A t \in Threads : pc[t] # "locked"

LEMMA CheckedStep ==
  ASSUME IInv, [Next]_vars, OverflowChecks, NoneLocked
  PROVE  /\ NoneLocked'
         /\ \A s \in Spans : state[s] = "InUse" => state'[s] = "InUse"
<1>0. Overlapping /\ CallType /\ SpanType
  BY Types DEF IInv
<1>1. CASE External
  BY <1>0, <1>1, ExternalStep DEF External, StartCycle, AllocateSpan, AllocateManual,
     FreeManualSpan, SpanType, NoneLocked
<1>2. CASE UNCHANGED vars
  BY <1>2 DEF vars, lockedVars, spanVars, NoneLocked
<1>3. ASSUME NEW t \in Threads, StepOf(t) PROVE NoneLocked' /\ state' = state
  <2>1. ~FreeLocked(t)
    BY DEF FreeLocked, Return, Goto, NoneLocked
  <2>2. pages_in_use' = 0 /\ state' = state
    BY <1>3, <2>1, ThreadKeeps DEF NoneLocked
  <2>3. \A u \in Threads \ {t} : pc'[u] # "locked"
    BY <1>0, <1>3, OthersKeep DEF NoneLocked
  <2>4. ~(SweepToHeap(t) /\ pc'[t] = "locked")
    <3> SUFFICES ASSUME SweepToHeap(t), pc'[t] = "locked" PROVE FALSE
      OBVIOUS
    <3>1. CanFree(call[t].span) /\ pc[t] = "dispose"
      BY <1>0 DEF SweepToHeap, Goto, CallType
    <3>2. call[t].span \in Spans /\ state[call[t].span] # "Manual"
      BY <1>0, <3>1, Holding DEF Claiming, SweepSteps
    <3>3. Pages[call[t].span] \in Nat \ {0}
      BY <3>2, ParametersAssumption
    <3> QED BY <3>1, <3>2, <3>3 DEF CanFree, NoneLocked
  <2>5. SweepOneDone(t) => pc' = pc
    BY DEF SweepOneDone, vars
  <2>6. pc'[t] # "locked"
    BY <1>0, <1>3, <2>4, <2>5, Arrives DEF NoneLocked
  <2> QED BY <2>2, <2>3, <2>6 DEF NoneLocked
<1> QED BY <1>1, <1>2, <1>3, StepKinds

(* Nothing in the code adds to pages_in_use, so that it stays 0 in a build    *)
(* with overflow checks, where free_span panics on the subtraction: there no  *)
(* sweep ever gives a span in use back to the heap.                           *)
THEOREM CheckedBuildFreesNothing ==
  OverflowChecks =>
    (Spec => /\ [](pages_in_use = 0)
             /\ [][\A s \in Spans : state[s] = "InUse" => state'[s] = "InUse"]_vars)
<1> SUFFICES ASSUME OverflowChecks
             PROVE  Spec => /\ [](pages_in_use = 0)
                            /\ [][\A s \in Spans : state[s] = "InUse" => state'[s] = "InUse"]_vars
  OBVIOUS
<1>1. Init => NoneLocked
  BY DEF Init, NoneLocked
<1>2. IInv /\ NoneLocked /\ [Next]_vars =>
        /\ NoneLocked'
        /\ [\A s \in Spans : state[s] = "InUse" => state'[s] = "InUse"]_vars
  BY CheckedStep
<1>3. NoneLocked => pages_in_use = 0
  BY DEF NoneLocked
<1> QED BY <1>1, <1>2, <1>3, InvariantHolds, PTL DEF Spec

(* The sweep of the repository lacks a function on its way.                   *)
Beyond == {"state", "owner", "release", "dispose", "locked", "push", "fill"}
Short(t) ==
  /\ pc[t] \notin Beyond
  /\ pc[t] \in {"count", "freed", "store", "swap"} => "free_specials" \notin Unimplemented

LEMMA ShortStep ==
  ASSUME CallType, NEW t \in Threads, StepOf(t), Short(t), Unimplemented # {}
  PROVE  Short(t)'
<1>0. "free_specials" \in Unimplemented \/ "new_mark_bits" \in Unimplemented
  BY ParametersAssumption
<1> USE DEF Local
<1>1. CASE SweepOneBegin(t) \/ SweepOneEnd(t)
  BY <1>1 DEF SweepOneBegin, SweepOneEnd, Goto, CallType, Short, Beyond
<1>2. ASSUME NEW s \in Spans, DirectSweep(t, s) PROVE Short(t)'
  BY <1>2 DEF DirectSweep, Goto, CallType, Short, Beyond
<1>3. CASE SweepOneDone(t)
  BY <1>3 DEF SweepOneDone, vars, Short
<1>4. CASE SweepOneStep(t) /\ ~SweepOneEnd(t)
  <2>1. pc'[t] \in PopSteps \cup {"sweep", "end", "panicked"}
    BY <1>4, PopWithin
  <2> QED BY <2>1 DEF PopSteps, Short, Beyond
<1>5. CASE SweepStep(t)
  <2>1. ~FreeLocked(t) /\ ~PushFill(t)
    BY DEF FreeLocked, PushFill, Return, Goto, Short, Beyond
  <2>2. /\ ~ReleaseState(t) /\ ~ReleaseOwner(t) /\ ~SweepRelease(t) /\ ~SweepToCentral(t)
        /\ ~SweepToHeap(t) /\ ~SweepKeep(t) /\ ~SweepPush(t)
    BY DEF ReleaseState, ReleaseOwner, SweepRelease, SweepToCentral, SweepToHeap, SweepKeep,
       SweepPush, Goto, Short, Beyond
  <2>3. CASE SweepLoad(t) \/ SweepCheck(t)
    BY <2>3 DEF SweepLoad, SweepCheck, Goto, CallType, Short, Beyond
  <2>4. CASE SweepCount(t) \/ CountFreed(t) \/ StoreCount(t)
    BY <2>4 DEF SweepCount, CountFreed, StoreCount, Goto, CallType, Short, Beyond
  <2>5. CASE SwapBits(t)
    BY <1>0, <2>5 DEF SwapBits, Goto, CallType, Short, Beyond
  <2> QED BY <1>5, <2>1, <2>2, <2>3, <2>4, <2>5 DEF SweepStep
<1> QED BY <1>1, <1>2, <1>3, <1>4, <1>5 DEF StepOf

LEMMA UnfinishedStep ==
  ASSUME IInv, [Next]_vars, Unimplemented # {}, \A t \in Threads : Short(t)
  PROVE  /\ \A t \in Threads : Short(t)'
         /\ \A s \in Spans : state[s] = "InUse" => state'[s] = "InUse"
<1>0. CallType /\ SpanType
  BY Types DEF IInv
<1>1. CASE External
  BY <1>0, <1>1, ExternalStep DEF External, StartCycle, AllocateSpan, AllocateManual,
     FreeManualSpan, SpanType, Short
<1>2. CASE UNCHANGED vars
  BY <1>2 DEF vars, spanVars, Short
<1>3. ASSUME NEW t \in Threads, StepOf(t)
      PROVE  (\A u \in Threads : Short(u)') /\ state' = state
  <2>1. Short(t)'
    BY <1>0, <1>3, ShortStep
  <2>2. \A u \in Threads \ {t} : Short(u)'
    BY <1>0, <1>3, OthersKeep DEF Short
  <2>3. ~FreeLocked(t)
    BY DEF FreeLocked, Return, Goto, Short, Beyond
  <2> QED BY <1>3, <2>1, <2>2, <2>3, ThreadKeeps
<1> QED BY <1>1, <1>2, <1>3, StepKinds

(* As long as free_specials or the allocation of new mark bits is             *)
(* `unimplemented!()', as both are, every sweep ends in a panic before it can *)
(* release its span: no span in use goes back to the heap or to a list.       *)
THEOREM UnfinishedSweepFreesNothing ==
  Unimplemented # {} =>
    (Spec => /\ [](\A t \in Threads : pc[t] \notin Beyond)
             /\ [][\A s \in Spans : state[s] = "InUse" => state'[s] = "InUse"]_vars)
<1> DEFINE AllShort == \A t \in Threads : Short(t)
<1> SUFFICES ASSUME Unimplemented # {}
             PROVE  Spec => /\ [](\A t \in Threads : pc[t] \notin Beyond)
                            /\ [][\A s \in Spans : state[s] = "InUse" => state'[s] = "InUse"]_vars
  OBVIOUS
<1>1. Init => AllShort
  BY DEF Init, Short, Beyond
<1>2. IInv /\ AllShort /\ [Next]_vars =>
        /\ AllShort'
        /\ [\A s \in Spans : state[s] = "InUse" => state'[s] = "InUse"]_vars
  BY UnfinishedStep
<1>3. AllShort => \A t \in Threads : pc[t] \notin Beyond
  BY DEF Short
<1> QED BY <1>1, <1>2, <1>3, InvariantHolds, PTL DEF Spec
===============================================================================
