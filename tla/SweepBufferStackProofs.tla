------------------------ MODULE SweepBufferStackProofs ------------------------
(******************************************************************************)
(* SweepBuffer steps like the stack of places of SpanStack: for any number of *)
(* pushes under way, one pop at a time, and spans that fit in one block and   *)
(* in the cells of the first spine.                                           *)
(******************************************************************************)
EXTENDS SweepBufferStackInvariant, SweepBufferProofs, SequenceTheorems

-------------------------------------------------------------------------------
(* Cells and slots.                                                           *)

(* Slots of the first block have cells of their own.                          *)
LEMMA SlotIsCell ==
  ASSUME OneBlock, NEW c \in Nat, c < Cardinality(Spans)
  PROVE  Top(c) = 0 /\ Offset(c) = c /\ c \in 0 .. InitSpineCap - 1
<1>1. Cardinality(Spans) \in Nat
  BY IndexAssumption, FS_CardinalityType
<1>2. c < BlockEntries /\ c < InitSpineCap
  BY <1>1, SizesAssumption DEF OneBlock
<1>3. Top(c) = 0
  BY <1>2, SizesAssumption DEF Top
<1>4. Bottom(c) = c
  BY <1>2, SizesAssumption DEF Bottom
<1>. QED
  BY <1>2, <1>3, <1>4, SizesAssumption DEF Offset

(* No more slots are in use, nor any in the hands of a call, than there are   *)
(* spans.                                                                     *)
LEMMA SlotsBounded ==
  ASSUME IInv
  PROVE  /\ Used \in Nat /\ Used <= Cardinality(Spans)
         /\ \A t \in Threads : Claimed(t) =>
              cursor[t] \in Nat /\ cursor[t] < Cardinality(Spans)
<1>1. /\ IsFiniteSet(inside) /\ Cardinality(inside) \in Nat
      /\ Cardinality(Spans) \in Nat /\ Cardinality(inside) <= Cardinality(Spans)
  BY IndexAssumption, FS_Subset, FS_CardinalityType DEF IInv, TypeOK
<1>2. Used \in Nat /\ Used <= Cardinality(Spans)
  BY <1>1 DEF IInv, TypeOK, IndexBounded, Undoing, Popping, Used
<1>3. ASSUME NEW t \in Threads, Claimed(t)
      PROVE  cursor[t] \in Nat /\ cursor[t] < Cardinality(Spans)
  <2>1. cursor[t] \in Nat
    BY DEF IInv, TypeOK
  <2>2. CASE pc[t] \in PushSteps
    <3>1. t \in Pushers /\ t \notin Poppers
      BY <2>2, PushRole, RegimeAssumption
    <3>2. cursor[t] < Used
      BY <1>3, <3>1 DEF IInv, SlotsExclusive
    <3>. QED
      BY <1>1, <1>2, <2>1, <3>2
  <2>3. CASE pc[t] \in {"read", "clear"}
    <3>1. t \in Poppers /\ Poppers = {t}
      BY <2>3, PopRole DEF PopSteps
    <3>2. Popping /\ ~Undoing
      BY <2>3, <3>1 DEF Popping, Undoing
    <3>3. Used = index /\ index \in Nat /\ index + 1 <= Cardinality(inside)
      BY <3>2 DEF IInv, TypeOK, IndexBounded, Used, Undoing
    <3>4. cursor[t] < Used + 1
      BY <1>3, <3>1 DEF IInv, SlotsExclusive
    <3>. QED
      BY <1>1, <2>1, <3>3, <3>4
  <2>. QED
    BY <1>3, <2>2, <2>3 DEF Claimed
<1>. QED
  BY <1>2, <1>3

(* What calls under way work on, under OneBlock.                              *)
LEMMA ClaimIsCell ==
  ASSUME OneBlock, IInv, NEW t \in Threads, Claimed(t)
  PROVE  /\ cursor[t] \in Nat /\ Top(cursor[t]) = 0 /\ Offset(cursor[t]) = cursor[t]
         /\ cursor[t] \in 0 .. InitSpineCap - 1
BY SlotsBounded, SlotIsCell

(* A slot in use is its own cell.                                             *)
LEMMA UsedIsCell ==
  ASSUME OneBlock, IInv, NEW i \in 1 .. Used
  PROVE  Offset(i - 1) = i - 1 /\ i - 1 \in 0 .. InitSpineCap - 1
<1>1. /\ Used \in Nat /\ Used <= Cardinality(Spans) /\ Cardinality(Spans) \in Nat
  BY SlotsBounded, IndexAssumption, FS_CardinalityType
<1>2. i - 1 \in Nat /\ i - 1 < Cardinality(Spans)
  BY <1>1
<1>. QED
  BY <1>2, SlotIsCell

(* Once a block is installed the spine is where everyone looks for it.        *)
LEMMA SpineIsLive ==
  ASSUME IInv, MemorySound, spine_length > 0
  PROVE  Allocated /\ spine = live
BY DEF IInv, TypeOK, HolderKnows, MemorySound

(* A push of a span finds room: there are fewer spans inside.                 *)
LEMMA ClaimCounts ==
  ASSUME IInv, NEW t \in Pushers, NEW s \in Spans, PushClaim(t, s)
  PROVE  /\ \A q \in Poppers : pc[q] = "idle"
         /\ Used = index /\ index \in Nat /\ index' = index + 1
         /\ index < Cardinality(Spans)
<1>1. phase = "push" /\ s \notin inside /\ index' = (index + 1) % IndexMod
  BY DEF PushClaim
<1>2. \A q \in Poppers : pc[q] = "idle"
  BY <1>1 DEF IInv, Roles
<1>3. index \in Nat /\ index <= Cardinality(inside) /\ Used = index
  BY <1>2 DEF IInv, TypeOK, IndexBounded, Undoing, Popping, Used
<1>4. /\ IsFiniteSet(Spans) /\ Cardinality(Spans) \in Nat
      /\ Cardinality(inside) \in Nat /\ Cardinality(inside) <= Cardinality(Spans)
  BY IndexAssumption, FS_Subset, FS_CardinalityType DEF IInv, TypeOK
<1>5. index + 1 < IndexMod
  BY <1>3, <1>4, IndexAssumption
<1>6. index < Cardinality(Spans)
  <2>1. /\ IsFiniteSet(inside) /\ inside \cup {s} \subseteq Spans
    BY <1>4, FS_Subset DEF IInv, TypeOK
  <2>2. Cardinality(inside \cup {s}) = Cardinality(inside) + 1
    BY <1>1, <2>1, FS_AddElement
  <2>3. Cardinality(inside \cup {s}) <= Cardinality(Spans)
    BY <1>4, <2>1, FS_Subset
  <2>. QED
    BY <1>3, <1>4, <2>2, <2>3
<1>. QED
  BY <1>1, <1>2, <1>3, <1>5, <1>6, IndexWraps

-------------------------------------------------------------------------------
(* The invariant is inductive.                                                *)

(* An empty buffer without memory.                                            *)
LEMMA StackInvInit == Init => StackIInv
<1>. SUFFICES ASSUME Init PROVE StackIInv
  OBVIOUS
<1>1. MemorySound /\ PushesSound /\ PopsSound /\ PlacesSound
  BY DEF Init, MemorySound, PushesSound, PopsSound, PlacesSound, PushSteps, Threads
<1>. QED
  BY <1>1, InvInit DEF StackIInv

(* A step of a push that neither touches the memory nor the count of blocks.  *)
LEMMA PushKeepsStack ==
  ASSUME StackIInv, NEW t \in Threads, pc[t] \in PushSteps,
         NEW to \in {"idle"} \cup PushSteps, pc' = [pc EXCEPT ![t] = to],
         to \notin {"publish", "store", "fill", "panicked"}, pc[t] # "publish",
         to = "locate" => spine_length > 0,
         UNCHANGED <<index, spine_length, spine_cap, spine, live, cells>>,
         \A u \in Threads \ {t} : item'[u] = item[u] /\ base'[u] = base[u],
         to # "idle" => item' = item
  PROVE  MemorySound' /\ PushesSound' /\ PopsSound' /\ PlacesSound'
<1>1. /\ t \in Pushers /\ t \notin Poppers /\ Used = index
      /\ \A q \in Poppers : pc[q] = "idle"
  BY PushRole, RegimeAssumption DEF StackIInv
<1>2. pc'[t] = to /\ \A u \in Threads \ {t} : pc'[u] = pc[u]
  BY DEF StackIInv, IInv, TypeOK
<1>3. \A q \in Poppers : pc'[q] = "idle"
  BY <1>1, <1>2 DEF Threads
<1>4. Used' = Used
  BY <1>1, <1>3 DEF Used
<1>5. MemorySound'
  BY <1>2 DEF StackIInv, MemorySound, Allocated, Threads
<1>6. PushesSound'
  BY <1>1, <1>2 DEF StackIInv, PushesSound, Threads, PushSteps
<1>7. PopsSound'
  BY <1>3 DEF PopsSound
<1>8. PlacesSound'
  BY <1>1, <1>4 DEF StackIInv, PlacesSound
<1>. QED
  BY <1>5, <1>6, <1>7, <1>8

(* One step per action: which of the cells and locals it touches.             *)
LEMMA StackInvStep == OneBlock /\ StackIInv /\ [Next]_vars => StackIInv'
<1>. SUFFICES ASSUME OneBlock, StackIInv, [Next]_vars
              PROVE  MemorySound' /\ PushesSound' /\ PopsSound' /\ PlacesSound'
  BY InvStep DEF StackIInv
<1>. USE DEF Threads
<1>0. /\ IInv /\ TypeOK /\ IInv' /\ MemorySound /\ PushesSound /\ PopsSound /\ PlacesSound
      /\ Junk \notin Spans /\ NoSpan \notin Spans
  BY InvStep, SentinelAssumption DEF StackIInv, IInv
<1>1. ASSUME NEW t \in Pushers, NEW s \in Spans, PushClaim(t, s)
      PROVE  MemorySound' /\ PushesSound' /\ PopsSound' /\ PlacesSound'
  <2>1. /\ pc[t] = "idle" /\ pc' = [pc EXCEPT ![t] = "load"]
        /\ item' = [item EXCEPT ![t] = s]
        /\ UNCHANGED <<spine_length, spine_cap, spine, live, cells, base>>
    BY <1>1 DEF PushClaim, Goto
  <2>2. /\ t \notin Poppers /\ Used = index /\ index \in Nat /\ index' = index + 1
        /\ \A q \in Poppers : pc[q] = "idle"
    BY <1>0, <1>1, ClaimCounts, RegimeAssumption
  <2>3. /\ pc'[t] = "load" /\ item'[t] = s
        /\ \A u \in Threads \ {t} : pc'[u] = pc[u] /\ item'[u] = item[u]
    BY <1>0, <2>1 DEF TypeOK
  <2>4. \A q \in Poppers : pc'[q] = "idle"
    BY <2>2, <2>3
  <2>5. Used' = Used + 1
    BY <2>2, <2>4 DEF Used
  <2>6. MemorySound'
    BY <1>0, <2>1, <2>3 DEF MemorySound, Allocated
  <2>7. PushesSound'
    BY <1>0, <2>1, <2>2, <2>3 DEF PushesSound, PushSteps
  <2>8. PopsSound'
    BY <2>4 DEF PopsSound
  <2>9. PlacesSound'
    BY <1>0, <2>1, <2>2, <2>5 DEF PlacesSound, TypeOK
  <2>. QED
    BY <2>6, <2>7, <2>8, <2>9
<1>2. ASSUME NEW t \in Threads,
             PushLoadLength(t) \/ PushLock(t) \/ PushRecheck(t)
      PROVE  MemorySound' /\ PushesSound' /\ PopsSound' /\ PlacesSound'
  <2>1. PICK to \in {"locate", "lock", "recheck", "grow", "install"} :
          /\ pc[t] \in PushSteps /\ pc[t] # "publish" /\ pc' = [pc EXCEPT ![t] = to]
          /\ to = "locate" => Top(cursor[t]) < spine_length
          /\ UNCHANGED <<index, spine_length, spine_cap, spine, live, cells, item, base>>
    <3>1. CASE PushLoadLength(t)
      BY <3>1 DEF PushLoadLength, Goto, PushSteps, shared
    <3>2. CASE PushLock(t)
      BY <3>2 DEF PushLock, Goto, PushSteps
    <3>3. CASE PushRecheck(t)
      BY <3>3 DEF PushRecheck, Goto, PushSteps
    <3>. QED
      BY <1>2, <3>1, <3>2, <3>3
  <2>2. to = "locate" => spine_length > 0
    <3>1. Top(cursor[t]) \in Nat /\ spine_length \in Nat
      BY <1>0, TopType DEF TypeOK
    <3>. QED
      BY <2>1, <3>1
  <2>. QED
    BY <2>1, <2>2, PushKeepsStack DEF PushSteps
<1>3. ASSUME NEW t \in Pushers, PushGrow(t)
      PROVE  MemorySound' /\ PushesSound' /\ PopsSound' /\ PlacesSound'
  <2>1. /\ pc[t] = "grow" /\ pc' = [pc EXCEPT ![t] = "publish"]
        /\ UNCHANGED <<index, spine_length, spine_cap, spine, item, base>>
    BY <1>3 DEF PushGrow, Goto
  <2>2. /\ t \notin Poppers /\ Used = index /\ \A q \in Poppers : pc[q] = "idle"
    BY <1>0, <2>1, PushRole, RegimeAssumption DEF PushSteps
  <2>3. /\ pc'[t] = "publish" /\ \A u \in Threads \ {t} : pc'[u] = pc[u]
        /\ \A q \in Poppers : pc'[q] = "idle"
    BY <1>0, <2>1, <2>2 DEF TypeOK
  <2>4. spine_cap = 0 /\ spine_length = 0 /\ live = 0
    <3>1. Top(cursor[t]) = 0
      BY <1>0, <2>1, ClaimIsCell DEF Claimed, PushSteps
    <3>2. spine_length \in Nat /\ spine_cap = spine_length /\ Top(cursor[t]) >= spine_length
      BY <1>0, <2>1 DEF IInv, HolderKnows, TypeOK
    <3>3. \A u \in Pushers : pc[u] # "publish"
      BY <1>0, <2>1, OneHolder DEF Holding
    <3>. QED
      BY <1>0, <3>1, <3>2, <3>3 DEF MemorySound
  <2>5. /\ cells' = [i \in 0 .. InitSpineCap - 1 |->
                       IF i \in DOMAIN cells THEN cells[i] ELSE Junk]
        /\ live' = 1
    BY <1>3, <2>4 DEF PushGrow, NextCap
  <2>6. MemorySound'
    BY <1>0, <2>1, <2>4, <2>5 DEF MemorySound, Allocated, TypeOK
  <2>7. PushesSound'
    BY <1>0, <2>1, <2>2, <2>3, <2>4 DEF PushesSound, PushSteps
  <2>8. PopsSound'
    BY <2>3 DEF PopsSound
  <2>9. Used' = Used
    BY <2>1, <2>2, <2>3 DEF Used
  <2>10. \A i \in DOMAIN cells' : cells'[i] \in Spans =>
           i \in DOMAIN cells /\ cells'[i] = cells[i]
    BY <1>0, <2>5
  <2>11. PlacesSound'
    BY <1>0, <2>2, <2>9, <2>10 DEF PlacesSound
  <2>. QED
    BY <2>6, <2>7, <2>8, <2>11
<1>4. ASSUME NEW t \in Pushers, PushPublish(t) \/ PushInstall(t)
      PROVE  MemorySound' /\ PushesSound' /\ PopsSound' /\ PlacesSound'
  <2>1. /\ \/ pc[t] = "publish" /\ pc' = [pc EXCEPT ![t] = "install"]
              /\ spine' = live /\ spine_cap' # 0 /\ UNCHANGED spine_length
           \/ pc[t] = "install" /\ pc' = [pc EXCEPT ![t] = "fill"]
              /\ spine_length' = spine_length + 1 /\ UNCHANGED <<spine, spine_cap>>
        /\ UNCHANGED <<index, live, cells, item, base>>
    BY <1>0, <1>4, SizesAssumption DEF PushPublish, PushInstall, Goto, NextCap, TypeOK
  <2>2. /\ t \notin Poppers /\ Used = index /\ \A q \in Poppers : pc[q] = "idle"
    BY <1>0, <2>1, PushRole, RegimeAssumption DEF PushSteps
  <2>3. /\ pc'[t] \in {"install", "fill"} /\ \A u \in Threads \ {t} : pc'[u] = pc[u]
        /\ \A q \in Poppers : pc'[q] = "idle"
    BY <1>0, <2>1, <2>2 DEF TypeOK
  <2>4. pc[t] = "install" => spine_length = 0 /\ pc'[t] = "fill"
    <3>1. Claimed(t)
      BY <2>1 DEF Claimed, PushSteps
    <3>. QED
      BY <1>0, <2>1, <3>1, ClaimIsCell, InOrder DEF GapFree, TypeOK
  <2>5. MemorySound'
    <3>1. CASE pc[t] = "publish"
      BY <1>0, <2>1, <2>3, <3>1 DEF MemorySound, Allocated
    <3>2. CASE pc[t] = "install"
      BY <1>0, <2>1, <2>3, <2>4, <3>2 DEF MemorySound, Allocated
    <3>. QED
      BY <2>1, <3>1, <3>2
  <2>6. PushesSound'
    <3>1. CASE pc[t] = "publish"
      <4>1. pc'[t] = "install"
        BY <1>0, <2>1, <3>1 DEF TypeOK
      <4>. QED
        BY <1>0, <2>1, <2>3, <3>1, <4>1 DEF PushesSound, PushSteps
    <3>2. CASE pc[t] = "install"
      <4>1. spine_length' > 0
        BY <2>1, <2>4, <3>2
      <4>2. \A u \in Pushers : pc'[u] = "fill" => u = t
        BY <1>0, <2>3, <2>4, <3>2 DEF PushesSound
      <4>. QED
        BY <1>0, <2>1, <2>3, <2>4, <3>2, <4>1, <4>2 DEF PushesSound, PushSteps
    <3>. QED
      BY <2>1, <3>1, <3>2
  <2>7. PopsSound'
    BY <2>3 DEF PopsSound
  <2>8. Used' = Used
    BY <2>1, <2>2, <2>3 DEF Used
  <2>9. PlacesSound'
    BY <1>0, <2>1, <2>2, <2>8 DEF PlacesSound
  <2>. QED
    BY <2>5, <2>6, <2>7, <2>9
<1>5. ASSUME NEW t \in Threads, PushFill(t)
      PROVE  MemorySound' /\ PushesSound' /\ PopsSound' /\ PlacesSound'
  <2>1. /\ pc[t] = "fill" /\ pc' = [pc EXCEPT ![t] = "idle"]
        /\ UNCHANGED <<index, spine_length, spine_cap, spine, live, cells>>
        /\ item' = [item EXCEPT ![t] = NoSpan] /\ base' = [base EXCEPT ![t] = 0]
    BY <1>5 DEF PushFill, Return, Goto, shared
  <2>2. \A u \in Threads \ {t} : item'[u] = item[u] /\ base'[u] = base[u]
    BY <1>0, <2>1 DEF TypeOK
  <2>. QED
    BY <2>1, <2>2, PushKeepsStack DEF PushSteps
<1>6. ASSUME NEW t \in Threads, PushLocate(t)
      PROVE  MemorySound' /\ PushesSound' /\ PopsSound' /\ PlacesSound'
  <2>1. PICK b \in IF RelaxedMemory THEN view[t] .. spine ELSE {spine} :
          /\ pc[t] = "locate"
          /\ pc' = [pc EXCEPT ![t] = IF b = 0 /\ Top(cursor[t]) = 0 THEN "panicked"
                                     ELSE "store"]
          /\ base' = [base EXCEPT ![t] = b]
          /\ UNCHANGED <<index, spine_length, spine_cap, spine, live, cells, item>>
    BY <1>6 DEF PushLocate, Goto, shared
  <2>2. /\ t \in Pushers /\ t \notin Poppers /\ Used = index
        /\ \A q \in Poppers : pc[q] = "idle"
    BY <1>0, <2>1, PushRole, RegimeAssumption DEF PushSteps
  <2>3. spine = live /\ live = 1
    BY <1>0, <2>1, <2>2, SpineIsLive DEF PushesSound, Allocated
  <2>4. b = 1 \/ (b = 0 /\ RelaxedMemory)
    BY <1>0, <2>3, SizesAssumption DEF TypeOK
  <2>5. /\ pc'[t] \in {"store", "panicked"} /\ base'[t] = b
        /\ pc'[t] = "panicked" => b = 0
        /\ pc'[t] = "store" => b # 0
        /\ \A u \in Threads \ {t} : pc'[u] = pc[u] /\ base'[u] = base[u]
    <3>1. Top(cursor[t]) = 0
      BY <1>0, <2>1, ClaimIsCell DEF Claimed, PushSteps
    <3>. QED
      BY <1>0, <2>1, <3>1 DEF TypeOK
  <2>6. \A q \in Poppers : pc'[q] = "idle"
    BY <2>2, <2>5
  <2>7. MemorySound'
    BY <1>0, <2>1, <2>5 DEF MemorySound, Allocated
  <2>8. PushesSound'
    BY <1>0, <2>1, <2>2, <2>3, <2>4, <2>5 DEF PushesSound, PushSteps
  <2>9. PopsSound'
    BY <2>6 DEF PopsSound
  <2>10. PlacesSound'
    BY <1>0, <2>1, <2>2, <2>6 DEF PlacesSound, Used
  <2>. QED
    BY <2>7, <2>8, <2>9, <2>10
<1>7. ASSUME NEW t \in Threads, PushStore(t)
      PROVE  MemorySound' /\ PushesSound' /\ PopsSound' /\ PlacesSound'
  <2>1. /\ pc[t] = "store" /\ pc' = [pc EXCEPT ![t] = "idle"]
        /\ item' = [item EXCEPT ![t] = NoSpan] /\ base' = [base EXCEPT ![t] = 0]
        /\ UNCHANGED <<index, spine_length, spine_cap, spine, live>>
    BY <1>7 DEF PushStore, Return, Goto
  <2>2. /\ t \in Pushers /\ t \notin Poppers /\ Used = index
        /\ \A q \in Poppers : pc[q] = "idle"
    BY <1>0, <2>1, PushRole, RegimeAssumption DEF PushSteps
  <2>3. Claimed(t)
    BY <2>1 DEF Claimed, PushSteps
  <2>4. cursor[t] \in 0 .. InitSpineCap - 1 /\ Offset(cursor[t]) = cursor[t]
    BY <1>0, <2>3, ClaimIsCell
  <2>5. cursor[t] < Used
    BY <1>0, <2>2, <2>3 DEF IInv, SlotsExclusive
  <2>6. /\ cells' = [cells EXCEPT ![cursor[t]] = item[t]] \/ cells' = cells
        /\ DOMAIN cells' = DOMAIN cells
        /\ \A i \in DOMAIN cells : i # cursor[t] => cells'[i] = cells[i]
    BY <1>0, <1>7, <2>4 DEF PushStore, TypeOK
  <2>7. /\ pc'[t] = "idle"
        /\ \A u \in Threads \ {t} :
             pc'[u] = pc[u] /\ base'[u] = base[u] /\ item'[u] = item[u]
        /\ \A q \in Poppers : pc'[q] = "idle"
    BY <1>0, <2>1, <2>2 DEF TypeOK
  <2>8. MemorySound'
    BY <1>0, <2>1, <2>6, <2>7 DEF MemorySound, Allocated
  <2>9. PushesSound'
    BY <1>0, <2>1, <2>2, <2>7 DEF PushesSound, PushSteps
  <2>10. PopsSound'
    BY <2>7 DEF PopsSound
  <2>11. Used' = Used
    BY <2>1, <2>2, <2>7 DEF Used
  <2>12. PlacesSound'
    <3>. SUFFICES ASSUME NEW i \in DOMAIN cells, cells'[i] \in Spans
                  PROVE  i < Used
      BY <2>6, <2>11 DEF PlacesSound
    <3>1. CASE i = cursor[t]
      BY <2>5, <3>1
    <3>2. CASE i # cursor[t]
      BY <1>0, <2>2, <2>6, <3>2 DEF PlacesSound
    <3>. QED
      BY <3>1, <3>2
  <2>. QED
    BY <2>8, <2>9, <2>10, <2>12
<1>8. ASSUME NEW t \in Poppers, PopClaim(t)
      PROVE  MemorySound' /\ PushesSound' /\ PopsSound' /\ PlacesSound'
  <2>1. /\ pc[t] = "idle" /\ phase = "pop"
        /\ pc' = [pc EXCEPT ![t] = IF index = 0 THEN "undo" ELSE "read"]
        /\ cursor' = [cursor EXCEPT ![t] = IF index = 0 THEN 0 ELSE index - 1]
        /\ index' = (index + IndexMod - 1) % IndexMod
        /\ UNCHANGED <<spine_length, spine_cap, spine, live, cells, item, base>>
    BY <1>8 DEF PopClaim, Goto
  <2>2. Poppers = {t} /\ t \notin Pushers /\ \A p \in Pushers : pc[p] = "idle"
    BY <1>0, <2>1, RegimeAssumption DEF IInv, Roles
  <2>3. /\ pc'[t] = (IF index = 0 THEN "undo" ELSE "read")
        /\ cursor'[t] = (IF index = 0 THEN 0 ELSE index - 1)
        /\ \A p \in Pushers : pc'[p] = "idle"
    BY <1>0, <2>1, <2>2 DEF TypeOK
  <2>4. Used = index /\ index \in 0 .. IndexMod - 1
    BY <1>0, <2>1, <2>2 DEF Used, TypeOK
  <2>5. \A i \in DOMAIN cells : cells[i] \in Spans => i < index /\ i \in Nat
    BY <1>0, <2>1, <2>2, <2>4 DEF PlacesSound, TypeOK
  <2>6. index # 0 => spine_length > 0 /\ index' = index - 1 /\ Used' = index - 1
    <3>. SUFFICES ASSUME index # 0
                  PROVE  spine_length > 0 /\ index' = index - 1 /\ Used' = index - 1
      OBVIOUS
    <3>1. index' = index - 1
      BY <2>1, <2>4, IndexWraps
    <3>2. Used' = index'
      BY <2>2, <2>3 DEF Used
    <3>3. index - 1 \in 0 .. Used - 1 /\ index - 1 \in Nat
      BY <2>4
    <3>4. Cardinality(Spans) \in Nat /\ Used <= Cardinality(Spans) /\ Used \in Nat
      BY <1>0, SlotsBounded, IndexAssumption, FS_CardinalityType
    <3>5. Top(index - 1) = 0
      BY <2>4, <3>3, <3>4, SlotIsCell
    <3>6. ~(Top(index - 1) >= spine_length)
      BY <1>0, <2>2, <3>3 DEF IInv, SpineCovers, Early
    <3>. QED
      BY <1>0, <3>1, <3>2, <3>5, <3>6 DEF TypeOK
  <2>7. MemorySound'
    BY <1>0, <2>1, <2>3 DEF MemorySound, Allocated
  <2>8. PushesSound'
    BY <2>3 DEF PushesSound, PushSteps
  <2>9. PopsSound'
    BY <2>1, <2>2, <2>3, <2>6 DEF PopsSound
  <2>10. PlacesSound'
    <3>. SUFFICES ASSUME NEW i \in DOMAIN cells, cells[i] \in Spans
                  PROVE  i < Used' \/ \E q \in Poppers :
                           pc'[q] \in {"read", "clear"} /\ cursor'[q] = i
      BY <2>1 DEF PlacesSound
    <3>1. i < index /\ i \in Nat /\ index # 0
      BY <2>4, <2>5
    <3>2. CASE i = index - 1
      BY <2>3, <3>1, <3>2
    <3>3. CASE i # index - 1
      BY <2>4, <2>6, <3>1, <3>3
    <3>. QED
      BY <3>2, <3>3
  <2>. QED
    BY <2>7, <2>8, <2>9, <2>10
<1>9. ASSUME NEW t \in Threads, PopUndo(t)
      PROVE  MemorySound' /\ PushesSound' /\ PopsSound' /\ PlacesSound'
  <2>1. /\ pc[t] = "undo" /\ pc' = [pc EXCEPT ![t] = "idle"]
        /\ index' = (index + 1) % IndexMod
        /\ UNCHANGED <<spine_length, spine_cap, spine, live, cells>>
    BY <1>9 DEF PopUndo, Return, Goto
  <2>2. t \in Poppers /\ Poppers = {t} /\ t \notin Pushers /\ \A p \in Pushers : pc[p] = "idle"
    BY <1>0, <2>1, PopRole, RegimeAssumption DEF PopSteps
  <2>3. pc'[t] = "idle" /\ \A p \in Pushers : pc'[p] = "idle"
    BY <1>0, <2>1, <2>2 DEF TypeOK
  <2>4. Used = 0 /\ index = IndexMod - 1
    BY <1>0, <2>1, <2>2 DEF Used, IInv, IndexBounded, Undoing
  <2>5. Used' = 0
    BY <2>1, <2>2, <2>3, <2>4, IndexWraps DEF Used
  <2>6. MemorySound'
    BY <1>0, <2>1, <2>3 DEF MemorySound, Allocated
  <2>7. PushesSound'
    BY <2>3 DEF PushesSound, PushSteps
  <2>8. PopsSound'
    BY <2>2, <2>3 DEF PopsSound
  <2>9. PlacesSound'
    BY <1>0, <2>1, <2>2, <2>4, <2>5 DEF PlacesSound
  <2>. QED
    BY <2>6, <2>7, <2>8, <2>9
<1>10. ASSUME NEW t \in Threads, PopRead(t)
       PROVE  MemorySound' /\ PushesSound' /\ PopsSound' /\ PlacesSound'
  <2>1. /\ pc[t] = "read" /\ pc' = [pc EXCEPT ![t] = "clear"]
        /\ base' = [base EXCEPT ![t] = spine]
        /\ item' = [item EXCEPT ![t] = IF InSpine(spine, Offset(cursor[t]))
                                       THEN cells[Offset(cursor[t])] ELSE Junk]
        /\ UNCHANGED <<index, spine_length, spine_cap, spine, live, cells, cursor>>
    BY <1>10 DEF PopRead, Goto, shared
  <2>2. t \in Poppers /\ Poppers = {t} /\ t \notin Pushers /\ \A p \in Pushers : pc[p] = "idle"
    BY <1>0, <2>1, PopRole, RegimeAssumption DEF PopSteps
  <2>3. /\ cursor[t] \in 0 .. InitSpineCap - 1 /\ Offset(cursor[t]) = cursor[t]
    BY <1>0, <2>1, ClaimIsCell DEF Claimed
  <2>4. spine_length > 0 /\ cursor[t] = index /\ Allocated /\ spine = live
    BY <1>0, <2>1, <2>2, SpineIsLive DEF PopsSound
  <2>5. /\ pc'[t] = "clear" /\ base'[t] = live /\ item'[t] = cells[cursor[t]]
        /\ \A p \in Pushers : pc'[p] = "idle"
    BY <1>0, <2>1, <2>2, <2>3, <2>4 DEF TypeOK, InSpine, Allocated
  <2>6. Used' = Used
    BY <2>1, <2>2, <2>5 DEF Used
  <2>7. MemorySound'
    BY <1>0, <2>1, <2>5 DEF MemorySound, Allocated
  <2>8. PushesSound'
    BY <2>5 DEF PushesSound, PushSteps
  <2>9. PopsSound'
    BY <2>1, <2>2, <2>4, <2>5 DEF PopsSound
  <2>10. PlacesSound'
    BY <1>0, <2>1, <2>2, <2>5, <2>6 DEF PlacesSound
  <2>. QED
    BY <2>7, <2>8, <2>9, <2>10
<1>11. ASSUME NEW t \in Threads, PopClear(t)
       PROVE  MemorySound' /\ PushesSound' /\ PopsSound' /\ PlacesSound'
  <2>1. /\ pc[t] = "clear" /\ pc' = [pc EXCEPT ![t] = "idle"]
        /\ cells' = IF InSpine(base[t], Offset(cursor[t]))
                    THEN [cells EXCEPT ![Offset(cursor[t])] = NoSpan] ELSE cells
        /\ UNCHANGED <<index, spine_length, spine_cap, spine, live>>
    BY <1>11 DEF PopClear, Return, Goto
  <2>2. t \in Poppers /\ Poppers = {t} /\ t \notin Pushers /\ \A p \in Pushers : pc[p] = "idle"
    BY <1>0, <2>1, PopRole, RegimeAssumption DEF PopSteps
  <2>3. /\ cursor[t] \in 0 .. InitSpineCap - 1 /\ Offset(cursor[t]) = cursor[t]
    BY <1>0, <2>1, ClaimIsCell DEF Claimed
  <2>4. base[t] = live /\ Allocated
    BY <1>0, <2>1, <2>2, SpineIsLive DEF PopsSound
  <2>5. cells' = [cells EXCEPT ![cursor[t]] = NoSpan] /\ cursor[t] \in DOMAIN cells
    BY <2>1, <2>3, <2>4 DEF InSpine, Allocated
  <2>6. pc'[t] = "idle" /\ \A p \in Pushers : pc'[p] = "idle"
    BY <1>0, <2>1, <2>2 DEF TypeOK
  <2>7. Used' = Used
    BY <2>1, <2>2, <2>6 DEF Used
  <2>8. DOMAIN cells' = DOMAIN cells /\ \A i \in DOMAIN cells' : cells'[i] \in Spans =>
          i # cursor[t] /\ cells'[i] = cells[i]
    BY <1>0, <2>5
  <2>9. MemorySound'
    BY <1>0, <2>1, <2>6, <2>8 DEF MemorySound, Allocated
  <2>10. PushesSound'
    BY <2>6 DEF PushesSound, PushSteps
  <2>11. PopsSound'
    BY <2>2, <2>6 DEF PopsSound
  <2>12. PlacesSound'
    BY <1>0, <2>2, <2>7, <2>8 DEF PlacesSound
  <2>. QED
    BY <2>9, <2>10, <2>11, <2>12
<1>12. CASE SwitchPhase \/ UNCHANGED vars
  <2>1. UNCHANGED <<index, spine_length, spine_cap, spine, live, cells, pc, cursor, item, base>>
    BY <1>12 DEF SwitchPhase, vars, shared, locals
  <2>2. MemorySound' /\ PushesSound'
    BY <1>0, <2>1 DEF MemorySound, PushesSound, Allocated
  <2>3. PopsSound' /\ PlacesSound'
    BY <1>0, <2>1 DEF PopsSound, PlacesSound, Used
  <2>. QED
    BY <2>2, <2>3
<1>13. ASSUME NEW t \in Threads, PushStep(t) \/ PopStep(t)
       PROVE  MemorySound' /\ PushesSound' /\ PopsSound' /\ PlacesSound'
  <2>1. PushGrow(t) \/ PushPublish(t) \/ PushInstall(t) => t \in Pushers
    BY <1>0, PushRole DEF PushGrow, PushPublish, PushInstall, Goto, PushSteps
  <2>. QED
    BY <1>2, <1>3, <1>4, <1>5, <1>6, <1>7, <1>9, <1>10, <1>11, <1>13, <2>1
       DEF PushStep, PopStep
<1>. QED
  BY <1>1, <1>8, <1>12, <1>13 DEF Next

(* While all spans fit in one block and in the cells of the first spine, each *)
(* push stores to a cell of the present spine, the one block is installed     *)
(* once, no span is left above the places in use, and no push panics unless   *)
(* relaxed loads are reordered.                                               *)
THEOREM MemoryIsSound == OneBlock => (Spec => []StackIInv)
<1>1. ASSUME OneBlock PROVE Spec => []StackIInv
  <2>1. StackIInv /\ [Next]_vars => StackIInv'
    BY <1>1, StackInvStep
  <2>. QED
    BY <2>1, StackInvInit, PTL DEF Spec
<1>. QED
  BY <1>1

-------------------------------------------------------------------------------
(* The steps of the buffer are steps of the stack.                            *)

(* The places of the stack are the cells of the slots in use.                 *)
LEMMA StackIsCells ==
  ASSUME OneBlock, IInv
  PROVE  StackOf = [i \in 1 .. Used |-> Place(i - 1)]
BY UsedIsCell DEF StackOf

(* It is a sequence.                                                          *)
LEMMA StackIsSeq ==
  ASSUME OneBlock, IInv
  PROVE  StackOf \in Seq(Spans \cup {NoSpan}) /\ Len(StackOf) = Used /\ DOMAIN StackOf = 1 .. Used
<1>1. Used \in Nat
  BY SlotsBounded
<1>2. \A i \in 1 .. Used : Place(i - 1) \in Spans \cup {NoSpan}
  BY DEF Place, SpanIn
<1>. QED
  BY <1>1, <1>2, StackIsCells

(* Each place in use keeps its content: the stack is unchanged.               *)
LEMMA SameCells ==
  ASSUME OneBlock, IInv, IInv', Used' = Used,
         \A i \in 0 .. Used - 1 : Place(i)' = Place(i)
  PROVE  StackOf' = StackOf
<1>1. Used \in Nat
  BY SlotsBounded
<1>2. StackOf = [i \in 1 .. Used |-> Place(i - 1)]
  BY StackIsCells
<1>3. OneBlock'
  BY DEF OneBlock
<1>4. \A i \in 1 .. Used' : Offset(i - 1) = i - 1 /\ i - 1 \in 0 .. Used - 1
  BY <1>1, UsedIsCell
<1>5. StackOf' = [i \in 1 .. Used' |-> Place(Offset(i - 1))']
  BY DEF StackOf, Offset, Top, Bottom
<1>6. \A i \in 1 .. Used' : Place(Offset(i - 1))' = Place(i - 1)
  BY <1>4 DEF Place
<1>. QED
  BY <1>2, <1>5, <1>6

(* A step of a push that is under way and stays so.                           *)
LEMMA PushStutters ==
  ASSUME OneBlock, IInv, IInv', NEW t \in Threads, pc[t] \in PushSteps,
         NEW to \in PushSteps, pc' = [pc EXCEPT ![t] = to],
         UNCHANGED <<index, cursor, item, HasLost>>,
         \A i \in 0 .. Used - 1 : Place(i)' = Place(i)
  PROVE  UNCHANGED Stack!stackVars
<1>1. /\ t \in Pushers /\ t \notin Poppers /\ Used = index
      /\ \A q \in Poppers : pc[q] = "idle"
  BY PushRole, RegimeAssumption
<1>2. pc'[t] = to /\ \A u \in Threads \ {t} : pc'[u] = pc[u]
  BY DEF IInv, TypeOK
<1>3. \A q \in Poppers : pc'[q] = "idle"
  BY <1>1, <1>2 DEF Threads
<1>4. StackOf' = StackOf
  BY <1>1, <1>3, SameCells DEF Used
<1>5. PlaceOf' = PlaceOf /\ SpanOf' = SpanOf
  BY <1>1, <1>2 DEF PlaceOf, SpanOf, Threads
<1>6. TakenOf' = TakenOf
  BY <1>1, <1>3 DEF TakenOf
<1>. QED
  BY <1>4, <1>5, <1>6 DEF Stack!stackVars

(* Append as a function.                                                      *)
LEMMA AppendIs ==
  ASSUME NEW S, NEW q \in Seq(S), NEW e \in S
  PROVE  Append(q, e) = [i \in 1 .. Len(q) + 1 |-> IF i = Len(q) + 1 THEN e ELSE q[i]]
<1>. DEFINE a == Append(q, e)
            f == [i \in 1 .. Len(q) + 1 |-> IF i = Len(q) + 1 THEN e ELSE q[i]]
<1>1. /\ a \in Seq(S) /\ Len(a) = Len(q) + 1 /\ Len(q) \in Nat
      /\ \A i \in 1 .. Len(q) : a[i] = q[i]
      /\ a[Len(q) + 1] = e
  BY AppendProperties
<1>2. f \in Seq(S) /\ Len(f) = Len(q) + 1
  BY <1>1
<1>3. \A i \in 1 .. Len(q) + 1 : a[i] = f[i]
  <2>. SUFFICES ASSUME NEW i \in 1 .. Len(q) + 1 PROVE a[i] = f[i]
    OBVIOUS
  <2>1. CASE i = Len(q) + 1
    BY <1>1, <2>1
  <2>2. CASE i # Len(q) + 1
    BY <1>1, <2>2
  <2>. QED
    BY <2>1, <2>2
<1>. HIDE DEF a, f
<1>4. a = f
  BY <1>1, <1>2, <1>3, SeqEqual
<1>. QED
  BY <1>4 DEF a, f

(* A stack without its top, as a function.                                    *)
LEMMA FrontIs ==
  ASSUME NEW S, NEW q \in Seq(S), NEW n \in Nat, n <= Len(q)
  PROVE  SubSeq(q, 1, n) = [i \in 1 .. n |-> q[i]]
OBVIOUS

(* A push claims the place on top, which holds no span.                       *)
LEMMA ClaimStep ==
  ASSUME OneBlock, StackIInv, IInv', NEW t \in Pushers, NEW s \in Spans, PushClaim(t, s)
  PROVE  Stack!Claim(t, s)
<1>0. IInv /\ TypeOK /\ PlacesSound /\ t \in Threads /\ t \notin Poppers
  BY RegimeAssumption DEF StackIInv, IInv, Threads
<1>1. /\ pc[t] = "idle" /\ pc' = [pc EXCEPT ![t] = "load"]
      /\ cursor' = [cursor EXCEPT ![t] = index] /\ item' = [item EXCEPT ![t] = s]
      /\ UNCHANGED <<spine_length, cells>>
  BY DEF PushClaim, Goto
<1>2. /\ \A q \in Poppers : pc[q] = "idle"
      /\ Used = index /\ index \in Nat /\ index' = index + 1
      /\ index < Cardinality(Spans)
  BY <1>0, ClaimCounts
<1>3. /\ pc'[t] = "load" /\ cursor'[t] = index /\ item'[t] = s
      /\ \A u \in Threads \ {t} : pc'[u] = pc[u] /\ cursor'[u] = cursor[u] /\ item'[u] = item[u]
  BY <1>0, <1>1 DEF IInv, TypeOK
<1>4. \A q \in Poppers : pc'[q] = "idle"
  BY <1>0, <1>2, <1>3 DEF Threads
<1>5. Used' = Used + 1
  BY <1>2, <1>4 DEF Used
<1>6. PlaceOf[t] = 0
  BY <1>1 DEF PlaceOf, PushSteps
<1>7. \A u \in Poppers : TakenOf[u] = <<>>
  BY <1>2 DEF TakenOf
<1>8. Place(index) = NoSpan
  BY <1>0, <1>2 DEF Place, SpanIn, PlacesSound
<1>9. StackOf' = [i \in 1 .. Used' |-> Place(i - 1)]
  <2>2. \A i \in 1 .. Used' : Offset(i - 1) = i - 1
    <3>1. \A i \in 1 .. Used : Offset(i - 1) = i - 1
      BY <1>0, UsedIsCell
    <3>2. Offset(index) = index
      BY <1>2, SlotIsCell
    <3>. QED
      BY <1>2, <1>5, <3>1, <3>2
  <2>3. StackOf' = [i \in 1 .. Used' |-> Place(Offset(i - 1))']
    BY DEF StackOf, Offset, Top, Bottom
  <2>4. \A i \in 1 .. Used' : Place(Offset(i - 1))' = Place(i - 1)
    BY <1>1, <2>2 DEF Place
  <2>. QED
    BY <2>3, <2>4
<1>10. StackOf' = Append(StackOf, NoSpan) /\ Len(StackOf') = index + 1
  <2>1. StackOf = [i \in 1 .. Used |-> Place(i - 1)]
    BY <1>0, StackIsCells
  <2>2. /\ StackOf \in Seq(Spans \cup {NoSpan}) /\ Len(StackOf) = Used
        /\ DOMAIN StackOf = 1 .. Used
    BY <1>0, StackIsSeq
  <2>3. Append(StackOf, NoSpan) =
          [i \in 1 .. Used + 1 |-> IF i = Used + 1 THEN NoSpan ELSE StackOf[i]]
    BY <2>2, AppendIs
  <2>4. \A i \in 1 .. Used + 1 :
          Place(i - 1) = IF i = Used + 1 THEN NoSpan ELSE StackOf[i]
    BY <1>2, <1>8, <2>1
  <2>5. StackOf' = Append(StackOf, NoSpan)
    BY <1>5, <1>9, <2>3, <2>4
  <2>. QED
    BY <1>2, <2>2, <2>5
<1>11. PlaceOf' = [PlaceOf EXCEPT ![t] = Len(StackOf')]
  BY <1>0, <1>3, <1>10 DEF PlaceOf, PushSteps, Threads
<1>12. SpanOf' = [SpanOf EXCEPT ![t] = s]
  BY <1>0, <1>3 DEF SpanOf, Threads
<1>13. TakenOf' = TakenOf
  BY <1>2, <1>4 DEF TakenOf
<1>14. HasLost' = HasLost
  BY <1>0, <1>1, <1>3 DEF HasLost, Threads
<1>. QED
  BY <1>6, <1>7, <1>10, <1>11, <1>12, <1>13, <1>14, Zenon DEF Stack!Claim

(* A push that returns.                                                       *)
LEMMA LeaveStep ==
  ASSUME OneBlock, StackIInv, IInv', NEW t \in Threads, NEW from \in {"fill", "store"},
         Return(t, from), UNCHANGED <<index, spine_length>>
  PROVE  /\ t \in Pushers /\ Used = index /\ Used' = index
         /\ \A u \in Threads \ {t} : pc'[u] = pc[u]
         /\ pc[t] = from /\ pc'[t] = "idle" /\ spine_length > 0
         /\ Claimed(t)
         /\ Stack!Leave(t)
<1>0. IInv /\ TypeOK
  BY DEF StackIInv, IInv
<1>1. /\ pc[t] = from /\ pc' = [pc EXCEPT ![t] = "idle"]
      /\ cursor' = [cursor EXCEPT ![t] = 0] /\ item' = [item EXCEPT ![t] = NoSpan]
  BY DEF Return, Goto
<1>2. /\ t \in Pushers /\ t \notin Poppers /\ Used = index
      /\ \A q \in Poppers : pc[q] = "idle"
  BY <1>0, <1>1, PushRole, RegimeAssumption DEF PushSteps
<1>3. /\ pc'[t] = "idle" /\ cursor'[t] = 0 /\ item'[t] = NoSpan
      /\ \A u \in Threads \ {t} : pc'[u] = pc[u] /\ cursor'[u] = cursor[u] /\ item'[u] = item[u]
  BY <1>0, <1>1 DEF TypeOK
<1>4. \A q \in Poppers : pc'[q] = "idle"
  BY <1>2, <1>3 DEF Threads
<1>5. Used' = index
  BY <1>2, <1>4 DEF Used
<1>6. PlaceOf[t] # 0
  BY <1>0, <1>1, <1>2 DEF PlaceOf, PushSteps, TypeOK
<1>7. PlaceOf' = [PlaceOf EXCEPT ![t] = 0]
  BY <1>2, <1>3 DEF PlaceOf, PushSteps, Threads
<1>8. SpanOf' = [SpanOf EXCEPT ![t] = NoSpan]
  BY <1>2, <1>3 DEF SpanOf, Threads
<1>9. TakenOf' = TakenOf
  BY <1>2, <1>4 DEF TakenOf
<1>10. spine_length > 0 /\ Claimed(t)
  BY <1>1, <1>2 DEF StackIInv, PushesSound, Claimed, PushSteps
<1>11. Stack!Leave(t)
  BY <1>6, <1>7, <1>8, <1>9, Zenon DEF Stack!Leave
<1>. QED
  BY <1>1, <1>2, <1>3, <1>5, <1>10, <1>11

(* The push that filled the block loses its span.                             *)
LEMMA LoseStep ==
  ASSUME OneBlock, StackIInv, IInv', NEW t \in Threads, PushFill(t)
  PROVE  t \in Pushers /\ Stack!Lose(t)
<1>1. Return(t, "fill") /\ UNCHANGED <<index, spine_length, cells>>
  BY DEF PushFill, shared
<1>2. /\ t \in Pushers /\ Used = index /\ Used' = index
      /\ \A u \in Threads \ {t} : pc'[u] = pc[u]
      /\ pc[t] = "fill" /\ pc'[t] = "idle" /\ spine_length > 0
      /\ Stack!Leave(t)
  BY <1>1, LeaveStep
<1>3. ~HasLost
  BY <1>2 DEF HasLost
<1>4. HasLost' = TRUE
  <2>1. \A u \in Pushers : pc'[u] # "fill"
    BY <1>2 DEF StackIInv, PushesSound, Threads
  <2>. QED
    BY <1>1, <1>2, <2>1 DEF HasLost
<1>5. StackOf' = StackOf
  BY <1>1, <1>2, SameCells DEF Place, StackIInv
<1>. QED
  BY <1>2, <1>3, <1>4, <1>5, Zenon DEF Stack!Lose

(* Any other push settles its span.                                           *)
LEMMA SettleStep ==
  ASSUME OneBlock, StackIInv, IInv', NEW t \in Threads, PushStore(t)
  PROVE  t \in Pushers /\ Stack!Settle(t)
<1>0. IInv /\ TypeOK /\ IInv' /\ PushesSound /\ MemorySound
  BY DEF StackIInv, IInv
<1>1. Return(t, "store") /\ UNCHANGED <<index, spine_length>>
  BY DEF PushStore
<1>2. /\ t \in Pushers /\ Used = index /\ Used' = index
      /\ \A u \in Threads \ {t} : pc'[u] = pc[u]
      /\ pc[t] = "store" /\ pc'[t] = "idle" /\ spine_length > 0
      /\ Claimed(t)
      /\ Stack!Leave(t)
  BY <1>1, LeaveStep
<1>3. /\ cursor[t] \in Nat /\ Offset(cursor[t]) = cursor[t]
      /\ cursor[t] \in 0 .. InitSpineCap - 1
  BY <1>0, <1>2, ClaimIsCell
<1>4. cursor[t] < Used /\ item[t] \in Spans
  BY <1>0, <1>2, RegimeAssumption DEF IInv, SlotsExclusive, PushesSound, PushSteps
<1>5. base[t] = live /\ cursor[t] \in DOMAIN cells
  BY <1>0, <1>2, <1>3, SpineIsLive DEF PushesSound, Allocated
<1>6. cells' = [cells EXCEPT ![cursor[t]] = item[t]]
  BY <1>3, <1>5 DEF PushStore, InSpine
<1>7. \A i \in Nat : Place(i)' = IF i = cursor[t] THEN item[t] ELSE Place(i)
  <2>1. /\ DOMAIN cells' = DOMAIN cells /\ cells'[cursor[t]] = item[t]
        /\ \A i \in DOMAIN cells : i # cursor[t] => cells'[i] = cells[i]
    BY <1>0, <1>5, <1>6 DEF TypeOK
  <2>. QED
    BY <1>4, <1>5, <2>1 DEF Place, SpanIn
<1>8. StackOf' = [i \in 1 .. Used |-> IF i - 1 = cursor[t] THEN item[t] ELSE Place(i - 1)]
  <2>1. StackOf' = [i \in 1 .. Used' |-> Place(Offset(i - 1))']
    BY DEF StackOf, Offset, Top, Bottom
  <2>2. \A i \in 1 .. Used' : Offset(i - 1) = i - 1 /\ i - 1 \in Nat
    BY <1>0, <1>2, UsedIsCell
  <2>3. \A i \in 1 .. Used' : Place(Offset(i - 1))' =
          IF i - 1 = cursor[t] THEN item[t] ELSE Place(i - 1)
    BY <1>7, <2>2
  <2>. QED
    BY <1>2, <2>1, <2>3
<1>9. PlaceOf[t] = cursor[t] + 1 /\ SpanOf[t] = item[t]
  BY <1>2 DEF PlaceOf, SpanOf, PushSteps
<1>10. StackOf' = [StackOf EXCEPT ![PlaceOf[t]] = SpanOf[t]]
  <2>1. StackOf = [i \in 1 .. Used |-> Place(i - 1)]
    BY <1>0, StackIsCells
  <2>2. \A i \in 1 .. Used :
          (IF i - 1 = cursor[t] THEN item[t] ELSE Place(i - 1)) =
          (IF i = PlaceOf[t] THEN SpanOf[t] ELSE StackOf[i])
    BY <1>3, <1>9, <2>1
  <2>3. StackOf' = [i \in 1 .. Used |-> IF i = PlaceOf[t] THEN SpanOf[t] ELSE StackOf[i]]
    BY <1>8, <2>2
  <2>4. DOMAIN StackOf = 1 .. Used
    BY <2>1
  <2>. QED
    BY <2>3, <2>4
<1>11. HasLost' = HasLost
  BY <1>1, <1>2 DEF HasLost, Threads
<1>. QED
  BY <1>2, <1>10, <1>11, Zenon DEF Stack!Settle

(* A pop takes the place on top, or finds nothing.                            *)
LEMMA TakeStep ==
  ASSUME OneBlock, StackIInv, IInv', NEW t \in Poppers, PopClaim(t)
  PROVE  Stack!Take(t) \/ UNCHANGED Stack!stackVars
<1>0. IInv /\ TypeOK /\ t \in Threads
  BY DEF StackIInv, IInv, Threads
<1>1. /\ pc[t] = "idle" /\ phase = "pop"
      /\ pc' = [pc EXCEPT ![t] = IF index = 0 THEN "undo" ELSE "read"]
      /\ cursor' = [cursor EXCEPT ![t] = IF index = 0 THEN 0 ELSE index - 1]
      /\ index' = (index + IndexMod - 1) % IndexMod
      /\ UNCHANGED <<spine_length, cells, item>>
  BY DEF PopClaim, Goto
<1>2. Poppers = {t} /\ t \notin Pushers /\ \A p \in Pushers : pc[p] = "idle"
  BY <1>0, <1>1, RegimeAssumption DEF IInv, Roles
<1>3. /\ pc'[t] = (IF index = 0 THEN "undo" ELSE "read")
      /\ cursor'[t] = (IF index = 0 THEN 0 ELSE index - 1)
      /\ \A p \in Pushers : pc'[p] = "idle" /\ cursor'[p] = cursor[p]
  BY <1>0, <1>1, <1>2 DEF TypeOK, Threads
<1>4. Used = index /\ index \in 0 .. IndexMod - 1
  BY <1>0, <1>1, <1>2 DEF Used, TypeOK
<1>5. PlaceOf' = PlaceOf /\ SpanOf' = SpanOf /\ \A u \in Pushers : PlaceOf[u] = 0
  BY <1>1, <1>2, <1>3 DEF PlaceOf, SpanOf, PushSteps
<1>6. HasLost' = HasLost
  BY <1>1, <1>2, <1>3 DEF HasLost
<1>7. TakenOf[t] = <<>>
  BY <1>1 DEF TakenOf
<1>8. CASE index = 0
  <2>1. Used' = Used
    BY <1>2, <1>3, <1>4, <1>8 DEF Used
  <2>2. StackOf' = StackOf
    BY <1>0, <1>1, <2>1, SameCells DEF Place
  <2>3. TakenOf' = TakenOf
    BY <1>1, <1>2, <1>3, <1>8 DEF TakenOf
  <2>. QED
    BY <1>5, <1>6, <2>2, <2>3 DEF Stack!stackVars
<1>9. CASE index # 0
  <2>1. Used' = index - 1 /\ cursor'[t] = index - 1 /\ pc'[t] = "read" /\ index - 1 \in Nat
    <3>1. index' = index - 1
      BY <1>1, <1>4, <1>9, IndexWraps
    <3>. QED
      BY <1>2, <1>3, <1>4, <1>9, <3>1 DEF Used
  <2>2. StackOf = [i \in 1 .. Used |-> Place(i - 1)]
    BY <1>0, StackIsCells
  <2>3. \A i \in 1 .. Used : Offset(i - 1) = i - 1
    BY <1>0, UsedIsCell
  <2>4. \A c \in Nat : Place(c)' = Place(c)
    BY <1>1 DEF Place
  <2>5. StackOf' = [i \in 1 .. Used - 1 |-> StackOf[i]]
    <3>1. StackOf' = [i \in 1 .. Used' |-> Place(Offset(i - 1))']
      BY DEF StackOf, Offset, Top, Bottom
    <3>2. \A i \in 1 .. Used - 1 : Place(Offset(i - 1))' = StackOf[i]
      BY <1>4, <2>2, <2>3, <2>4
    <3>. QED
      BY <1>4, <2>1, <3>1, <3>2
  <2>6. /\ StackOf \in Seq(Spans \cup {NoSpan}) /\ Len(StackOf) = Used
        /\ DOMAIN StackOf = 1 .. Used
    BY <1>0, StackIsSeq
  <2>7. StackOf # <<>>
    BY <1>4, <1>9, <2>6
  <2>8. StackOf' = SubSeq(StackOf, 1, Len(StackOf) - 1)
    <3>1. Used - 1 \in Nat /\ Used - 1 <= Len(StackOf) /\ Used \in Nat
      BY <1>4, <2>1, <2>6
    <3>2. SubSeq(StackOf, 1, Used - 1) = [i \in 1 .. Used - 1 |-> StackOf[i]]
      BY <2>6, <3>1, FrontIs
    <3>. QED
      BY <2>5, <2>6, <3>2
  <2>9. StackOf[Len(StackOf)] = Place(index - 1)
    BY <1>4, <1>9, <2>2, <2>6
  <2>10. TakenOf' = [TakenOf EXCEPT ![t] = <<StackOf[Len(StackOf)]>>]
    <3>1. Offset(cursor'[t]) = index - 1
      BY <1>4, <1>9, <2>1, <2>3
    <3>2. Place(Offset(cursor[t]))' = Place(index - 1)
      BY <1>1, <3>1 DEF Place, Offset, Top, Bottom
    <3>3. TakenOf'[t] = <<Place(index - 1)>>
      BY <2>1, <3>2 DEF TakenOf
    <3>. QED
      BY <1>2, <2>9, <3>3 DEF TakenOf
  <2>11. \A u \in Pushers : PlaceOf[u] = 0
    BY <1>5
  <2>12. Stack!Take(t)
    BY <1>5, <1>6, <1>7, <2>7, <2>8, <2>10, <2>11, Zenon DEF Stack!Take
  <2>. QED
    BY <2>12
<1>. QED
  BY <1>8, <1>9

(* A pop that is under way holds what it has taken.                           *)
LEMMA PopStutters ==
  ASSUME OneBlock, StackIInv, IInv', NEW t \in Threads, PopUndo(t) \/ PopRead(t)
  PROVE  UNCHANGED Stack!stackVars
<1>0. IInv /\ TypeOK /\ PopsSound /\ MemorySound
  BY DEF StackIInv, IInv
<1>1. pc[t] \in PopSteps /\ UNCHANGED <<spine_length, cells>>
  BY DEF PopUndo, PopRead, Return, Goto, PopSteps, shared
<1>2. t \in Poppers /\ Poppers = {t} /\ t \notin Pushers /\ \A p \in Pushers : pc[p] = "idle"
  BY <1>0, <1>1, PopRole, RegimeAssumption
<1>3. \A p \in Pushers :
        pc'[p] = pc[p] /\ cursor'[p] = cursor[p] /\ item'[p] = item[p]
  BY <1>0, <1>2 DEF PopUndo, PopRead, Return, Goto, TypeOK, Threads, shared
<1>4. PlaceOf' = PlaceOf /\ SpanOf' = SpanOf /\ HasLost' = HasLost
  BY <1>1, <1>3 DEF PlaceOf, SpanOf, HasLost
<1>5. CASE PopUndo(t)
  <2>1. /\ pc[t] = "undo" /\ pc' = [pc EXCEPT ![t] = "idle"]
        /\ index' = (index + 1) % IndexMod
    BY <1>5 DEF PopUndo, Return, Goto
  <2>2. pc'[t] = "idle" /\ Used = 0 /\ index = IndexMod - 1
    BY <1>0, <1>2, <2>1 DEF Used, TypeOK, IInv, IndexBounded, Undoing
  <2>3. Used' = Used
    BY <1>2, <2>1, <2>2, IndexWraps DEF Used
  <2>4. StackOf' = StackOf
    BY <1>0, <1>1, <2>3, SameCells DEF Place
  <2>5. TakenOf' = TakenOf
    BY <1>2, <2>1, <2>2 DEF TakenOf
  <2>. QED
    BY <1>4, <2>4, <2>5 DEF Stack!stackVars
<1>6. CASE PopRead(t)
  <2>1. /\ pc[t] = "read" /\ pc' = [pc EXCEPT ![t] = "clear"]
        /\ item' = [item EXCEPT ![t] = IF InSpine(spine, Offset(cursor[t]))
                                       THEN cells[Offset(cursor[t])] ELSE Junk]
        /\ UNCHANGED index
    BY <1>6 DEF PopRead, Goto, shared
  <2>2. cursor[t] \in 0 .. InitSpineCap - 1 /\ Offset(cursor[t]) = cursor[t]
    BY <1>0, <2>1, ClaimIsCell DEF Claimed
  <2>3. Allocated /\ spine = live
    BY <1>0, <1>2, <2>1, SpineIsLive DEF PopsSound
  <2>4. pc'[t] = "clear" /\ item'[t] = cells[cursor[t]] /\ cursor[t] \in DOMAIN cells
    BY <1>0, <2>1, <2>2, <2>3 DEF TypeOK, InSpine, Allocated
  <2>5. Used' = Used
    BY <1>2, <2>1, <2>4 DEF Used
  <2>6. StackOf' = StackOf
    BY <1>0, <1>1, <2>5, SameCells DEF Place
  <2>7. Place(Offset(cursor[t])) = SpanIn(item'[t])
    BY <2>2, <2>4 DEF Place
  <2>8. SpanIn(item[t])' = SpanIn(item'[t])
    BY DEF SpanIn
  <2>9. TakenOf' = TakenOf
    BY <1>2, <2>1, <2>4, <2>7, <2>8 DEF TakenOf
  <2>. QED
    BY <1>4, <2>6, <2>9 DEF Stack!stackVars
<1>. QED
  BY <1>5, <1>6

(* A pop clears the cell above the places in use, and hands over its span.    *)
LEMMA HandStep ==
  ASSUME OneBlock, StackIInv, IInv', NEW t \in Threads, PopClear(t)
  PROVE  t \in Poppers /\ Stack!Hand(t)
<1>0. IInv /\ TypeOK /\ PopsSound
  BY DEF StackIInv, IInv
<1>1. /\ pc[t] = "clear" /\ pc' = [pc EXCEPT ![t] = "idle"]
      /\ cursor' = [cursor EXCEPT ![t] = 0] /\ item' = [item EXCEPT ![t] = NoSpan]
      /\ cells' = IF InSpine(base[t], Offset(cursor[t]))
                  THEN [cells EXCEPT ![Offset(cursor[t])] = NoSpan] ELSE cells
      /\ UNCHANGED <<index, spine_length>>
  BY DEF PopClear, Return, Goto
<1>2. t \in Poppers /\ Poppers = {t} /\ t \notin Pushers /\ \A p \in Pushers : pc[p] = "idle"
  BY <1>0, <1>1, PopRole, RegimeAssumption DEF PopSteps
<1>3. /\ pc'[t] = "idle"
      /\ \A p \in Pushers :
           pc'[p] = pc[p] /\ cursor'[p] = cursor[p] /\ item'[p] = item[p]
  BY <1>0, <1>1, <1>2 DEF TypeOK, Threads
<1>4. PlaceOf' = PlaceOf /\ SpanOf' = SpanOf /\ HasLost' = HasLost
  BY <1>1, <1>3 DEF PlaceOf, SpanOf, HasLost
<1>5. Used' = Used /\ Used = index /\ index \in Nat
  BY <1>0, <1>1, <1>2, <1>3 DEF Used, TypeOK
<1>6. cursor[t] = index /\ Offset(cursor[t]) = index
  BY <1>0, <1>1, <1>2, ClaimIsCell DEF PopsSound, Claimed
<1>7. DOMAIN cells' = DOMAIN cells /\ \A i \in DOMAIN cells : i # index => cells'[i] = cells[i]
  BY <1>0, <1>1, <1>6 DEF TypeOK
<1>8. StackOf' = StackOf
  <2>1. \A i \in 0 .. Used - 1 : Place(i)' = Place(i)
    BY <1>5, <1>7 DEF Place, SpanIn
  <2>. QED
    BY <1>0, <1>5, <2>1, SameCells
<1>9. TakenOf[t] # <<>>
  BY <1>1, <1>2 DEF TakenOf
<1>10. TakenOf' = [TakenOf EXCEPT ![t] = <<>>]
  BY <1>2, <1>3 DEF TakenOf
<1>. QED
  BY <1>2, <1>4, <1>8, <1>9, <1>10, Zenon DEF Stack!Hand

(* The other steps of a push are its own: it holds its place meanwhile.       *)
LEMMA PushInside ==
  ASSUME OneBlock, StackIInv, IInv', NEW t \in Threads,
         \/ PushLoadLength(t) \/ PushLock(t) \/ PushRecheck(t) \/ PushGrow(t)
         \/ PushPublish(t) \/ PushInstall(t) \/ PushLocate(t)
  PROVE  UNCHANGED Stack!stackVars
<1>0. IInv /\ TypeOK /\ MemorySound /\ PushesSound
  BY DEF StackIInv, IInv
<1>1. ASSUME NEW to \in PushSteps, pc[t] \in PushSteps, pc' = [pc EXCEPT ![t] = to],
             UNCHANGED <<index, spine_length, cursor, item>>,
             to # "fill", pc[t] # "fill",
             \A i \in 0 .. Used - 1 : Place(i)' = Place(i)
      PROVE  UNCHANGED Stack!stackVars
  <2>1. \A u \in Pushers : pc'[u] = "fill" <=> pc[u] = "fill"
    BY <1>0, <1>1 DEF TypeOK, Threads
  <2>2. HasLost' = HasLost
    BY <1>1, <2>1 DEF HasLost
  <2>. QED
    BY <1>0, <1>1, <2>2, PushStutters
<1>2. UNCHANGED cells => \A i \in 0 .. Used - 1 : Place(i)' = Place(i)
  BY DEF Place
<1>3. CASE PushLoadLength(t)
  BY <1>1, <1>2, <1>3 DEF PushLoadLength, Goto, PushSteps, shared
<1>4. CASE PushLock(t)
  BY <1>1, <1>2, <1>4 DEF PushLock, Goto, PushSteps
<1>5. CASE PushRecheck(t)
  <2>1. PICK to \in {"locate", "grow", "install"} :
          /\ pc[t] = "recheck" /\ pc' = [pc EXCEPT ![t] = to]
          /\ UNCHANGED <<index, spine_length, cursor, item, cells>>
    BY <1>5 DEF PushRecheck, Goto
  <2>. QED
    BY <1>1, <1>2, <2>1 DEF PushSteps
<1>6. CASE PushGrow(t)
  <2>1. /\ pc[t] = "grow" /\ pc' = [pc EXCEPT ![t] = "publish"]
        /\ UNCHANGED <<index, spine_length, cursor, item>>
    BY <1>6 DEF PushGrow, Goto
  <2>2. t \in Pushers /\ Top(cursor[t]) = 0
    BY <1>0, <2>1, PushRole, ClaimIsCell DEF Claimed, PushSteps
  <2>3. spine_cap = 0
    BY <1>0, <2>1, <2>2 DEF IInv, HolderKnows, TypeOK
  <2>4. cells' = [i \in 0 .. InitSpineCap - 1 |->
                    IF i \in DOMAIN cells THEN cells[i] ELSE Junk]
    BY <1>6, <2>3 DEF PushGrow, NextCap
  <2>5. \A i \in 0 .. Used - 1 : i \in 0 .. InitSpineCap - 1
    <3>. SUFFICES ASSUME NEW i \in 0 .. Used - 1 PROVE i \in 0 .. InitSpineCap - 1
      OBVIOUS
    <3>1. Used \in Nat
      BY <1>0, SlotsBounded
    <3>2. i + 1 \in 1 .. Used /\ (i + 1) - 1 = i
      BY <3>1
    <3>. QED
      BY <1>0, <3>2, UsedIsCell
  <2>6. SpanIn(Junk) = NoSpan
    BY SentinelAssumption DEF SpanIn
  <2>7. \A i \in 0 .. Used - 1 : Place(i)' = Place(i)
    BY <2>4, <2>5, <2>6 DEF Place, SpanIn
  <2>. QED
    BY <1>1, <2>1, <2>7 DEF PushSteps
<1>7. CASE PushPublish(t)
  BY <1>1, <1>2, <1>7 DEF PushPublish, Goto, PushSteps
<1>8. CASE PushInstall(t)
  <2>1. /\ pc[t] = "install" /\ pc' = [pc EXCEPT ![t] = "fill"]
        /\ spine_length' = spine_length + 1
        /\ UNCHANGED <<index, cursor, item, cells>>
    BY <1>8 DEF PushInstall, Goto
  <2>2. t \in Pushers /\ Top(cursor[t]) = 0
    BY <1>0, <2>1, PushRole, ClaimIsCell DEF Claimed, PushSteps
  <2>3. spine_length = 0
    BY <1>0, <2>1, <2>2, InOrder DEF GapFree
  <2>4. pc'[t] = "fill"
    BY <1>0, <2>1 DEF TypeOK
  <2>5. HasLost' = HasLost
    BY <2>2, <2>3, <2>4 DEF HasLost
  <2>. QED
    BY <1>0, <1>2, <2>1, <2>5, PushStutters DEF PushSteps
<1>9. CASE PushLocate(t)
  <2>1. PICK to \in {"panicked", "store"} :
          /\ pc[t] = "locate" /\ pc' = [pc EXCEPT ![t] = to]
          /\ UNCHANGED <<index, spine_length, cursor, item, cells>>
    BY <1>9 DEF PushLocate, Goto, shared
  <2>. QED
    BY <1>1, <1>2, <2>1 DEF PushSteps
<1>. QED
  BY <1>3, <1>4, <1>5, <1>6, <1>7, <1>8, <1>9

(* Every step is one of the stack's, or does not show in it.                  *)
LEMMA StackStep ==
  ASSUME OneBlock, StackIInv, [Next]_vars
  PROVE  [Stack!StackNext]_(Stack!stackVars)
<1>0. IInv /\ IInv'
  BY InvStep DEF StackIInv
<1>1. ASSUME NEW t \in Pushers, NEW s \in Spans, PushClaim(t, s) PROVE Stack!StackNext
  BY <1>0, <1>1, ClaimStep, Zenon DEF Stack!StackNext
<1>2. ASSUME NEW t \in Poppers, PopClaim(t) PROVE [Stack!StackNext]_(Stack!stackVars)
  <2>1. Stack!Take(t) \/ UNCHANGED Stack!stackVars
    BY <1>0, <1>2, TakeStep
  <2>2. Stack!Take(t) => Stack!StackNext
    BY Zenon DEF Stack!StackNext
  <2>. QED
    BY <2>1, <2>2
<1>3. ASSUME NEW t \in Threads, PushFill(t) \/ PushStore(t) PROVE Stack!StackNext
  <2>1. t \in Pushers /\ (Stack!Lose(t) \/ Stack!Settle(t))
    BY <1>0, <1>3, LoseStep, SettleStep
  <2>. QED
    BY <2>1, Zenon DEF Stack!StackNext
<1>4. ASSUME NEW t \in Threads, PopClear(t) PROVE Stack!StackNext
  <2>1. t \in Poppers /\ Stack!Hand(t)
    BY <1>0, <1>4, HandStep
  <2>. QED
    BY <2>1, Zenon DEF Stack!StackNext
<1>5. ASSUME NEW t \in Threads, PushStep(t) \/ PopStep(t)
      PROVE  [Stack!StackNext]_(Stack!stackVars)
  <2>1. \/ PushLoadLength(t) \/ PushLock(t) \/ PushRecheck(t) \/ PushGrow(t)
        \/ PushPublish(t) \/ PushInstall(t) \/ PushLocate(t)
        => UNCHANGED Stack!stackVars
    BY <1>0, PushInside
  <2>2. PopUndo(t) \/ PopRead(t) => UNCHANGED Stack!stackVars
    BY <1>0, PopStutters
  <2>. QED
    BY <1>3, <1>4, <1>5, <2>1, <2>2 DEF PushStep, PopStep
<1>6. CASE SwitchPhase \/ UNCHANGED vars
  <2>1. UNCHANGED <<index, spine_length, cells, pc, cursor, item>>
    BY <1>6 DEF SwitchPhase, vars, shared, locals
  <2>2. StackOf' = StackOf
    BY <2>1 DEF StackOf, Used, Place, Offset, Top, Bottom
  <2>3. PlaceOf' = PlaceOf /\ SpanOf' = SpanOf /\ HasLost' = HasLost
    BY <2>1 DEF PlaceOf, SpanOf, HasLost
  <2>4. TakenOf' = TakenOf
    BY <2>1 DEF TakenOf, Place, SpanIn, Offset, Top, Bottom
  <2>. QED
    BY <2>2, <2>3, <2>4 DEF Stack!stackVars
<1>. QED
  BY <1>1, <1>2, <1>5, <1>6 DEF Next

(* The empty buffer is the empty stack.                                       *)
LEMMA StackStart == Init => Stack!StackInit
<1>. SUFFICES ASSUME Init PROVE Stack!StackInit
  OBVIOUS
<1>1. Used = 0
  BY DEF Init, Used, Threads
<1>2. StackOf = <<>>
  BY <1>1 DEF StackOf
<1>3. PlaceOf = [t \in Pushers |-> 0] /\ SpanOf = [t \in Pushers |-> NoSpan]
  BY DEF Init, PlaceOf, SpanOf, Threads, PushSteps
<1>4. TakenOf = [t \in Poppers |-> <<>>]
  BY DEF Init, TakenOf, Threads
<1>5. HasLost = FALSE
  BY DEF Init, HasLost
<1>. QED
  BY <1>2, <1>3, <1>4, <1>5, Zenon DEF Stack!StackInit

(* Pops return spans in the opposite order of the claims of their pushes,     *)
(* whatever the order in which pushes end, and but for the span of the push   *)
(* that installs the block each pushed span is in the place that was claimed  *)
(* for it.                                                                    *)
THEOREM BufferIsStack == OneBlock => (Spec => StepsLikeAStack)
<1>1. ASSUME OneBlock PROVE Spec => StepsLikeAStack
  <2>1. Spec => []StackIInv
    BY <1>1, MemoryIsSound
  <2>2. StackIInv /\ [Next]_vars => [Stack!StackNext]_(Stack!stackVars)
    BY <1>1, StackStep
  <2>. QED
    BY <2>1, <2>2, StackStart, PTL DEF Spec, StepsLikeAStack
<1>. QED
  BY <1>1
===============================================================================
