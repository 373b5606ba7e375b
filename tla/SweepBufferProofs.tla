--------------------------- MODULE SweepBufferProofs ---------------------------
(******************************************************************************)
(* Proofs about SweepBuffer, for any number of spans, any block size and any  *)
(* set of threads that satisfies RegimeAssumption.                            *)
(******************************************************************************)
EXTENDS SweepBufferRegime, FiniteSetTheorems, TLAPS

-------------------------------------------------------------------------------
(* Arithmetic of slots.                                                       *)

LEMMA TopType == \A c \in Nat : Top(c) \in Nat
BY SizesAssumption DEF Top

(* A slot is entry Bottom of block Top.                                       *)
LEMMA SlotIs ==
  ASSUME NEW c \in Nat
  PROVE  /\ Bottom(c) \in 0 .. BlockEntries - 1
         /\ c = BlockEntries * Top(c) + Bottom(c)
BY SizesAssumption, SMT DEF Top, Bottom

(* The slots of block k are the BlockEntries slots from k * BlockEntries.     *)
LEMMA TopIs ==
  ASSUME NEW c \in Nat, NEW k \in Nat,
         k * BlockEntries <= c, c < k * BlockEntries + BlockEntries
  PROVE  Top(c) = k
BY SizesAssumption DEF Top

(* A slot of a later block lies behind all slots of block k.                  *)
LEMMA TopAbove ==
  ASSUME NEW c \in Nat, NEW k \in Nat, Top(c) > k
  PROVE  k * BlockEntries + BlockEntries <= c
BY SizesAssumption DEF Top

(* Offsets are cells of a spine that is long enough.                          *)
LEMMA OffsetType == \A c \in Nat : Offset(c) \in Nat
BY TopType, SizesAssumption DEF Offset, Bottom

(* The wrapping arithmetic of the index.                                      *)
LEMMA IndexWraps ==
  /\ IndexMod \in Nat \ {0, 1}
  /\ \A i \in Nat : i % IndexMod \in 0 .. IndexMod - 1
  /\ \A i \in Nat : i < IndexMod => i % IndexMod = i
  /\ (IndexMod - 1 + 1) % IndexMod = 0
  /\ \A i \in 1 .. IndexMod - 1 : (i + IndexMod - 1) % IndexMod = i - 1
<1>1. Cardinality(Spans) \in Nat
  BY IndexAssumption, FS_CardinalityType
<1>2. IndexMod \in Nat \ {0, 1}
  BY <1>1, IndexAssumption
<1>3. \A i \in 1 .. IndexMod - 1 : (i + IndexMod - 1) % IndexMod = i - 1
  BY <1>2
<1>. QED
  BY <1>2, <1>3

-------------------------------------------------------------------------------
(* Type correctness.                                                          *)

LEMMA TypeInit == Init => TypeOK
BY IndexWraps, SentinelAssumption
   DEF Init, TypeOK, PushSteps, PopSteps, Cells, Threads

(* What Goto and Return leave of the types.                                   *)
LEMMA GotoType ==
  ASSUME TypeOK, NEW t \in Threads, NEW from,
         NEW to \in {"idle"} \cup PushSteps \cup PopSteps, Goto(t, from, to)
  PROVE  pc' \in [Threads -> {"idle"} \cup PushSteps \cup PopSteps]
BY DEF TypeOK, Goto

LEMMA ReturnType ==
  ASSUME TypeOK, NEW t \in Threads, NEW from, Return(t, from)
  PROVE  /\ pc' \in [Threads -> {"idle"} \cup PushSteps \cup PopSteps]
         /\ cursor' \in [Threads -> Nat]
         /\ item' \in [Threads -> Cells]
         /\ base' \in [Threads -> Nat]
BY DEF TypeOK, Return, Goto, Cells

(* Every step keeps the types.                                                *)
LEMMA TypeStep == TypeOK /\ [Next]_vars => TypeOK'
<1>. SUFFICES ASSUME TypeOK, [Next]_vars PROVE TypeOK'
  OBVIOUS
<1>. USE DEF Threads
<1>1. ASSUME NEW t \in Pushers, NEW s \in Spans, PushClaim(t, s) PROVE TypeOK'
  <2>1. pc' \in [Threads -> {"idle"} \cup PushSteps \cup PopSteps]
    BY <1>1, GotoType DEF PushClaim, PushSteps
  <2>2. index' \in 0 .. IndexMod - 1
    BY <1>1, IndexWraps DEF PushClaim, TypeOK
  <2>. QED
    BY <1>1, <2>1, <2>2 DEF PushClaim, TypeOK, Cells
<1>2. ASSUME NEW t \in Threads, PushLoadLength(t) PROVE TypeOK'
  <2>1. pc' \in [Threads -> {"idle"} \cup PushSteps \cup PopSteps]
    BY <1>2, GotoType DEF PushLoadLength, PushSteps
  <2>. QED
    BY <1>2, <2>1 DEF PushLoadLength, TypeOK, shared
<1>3. ASSUME NEW t \in Threads, PushLock(t) PROVE TypeOK'
  <2>1. pc' \in [Threads -> {"idle"} \cup PushSteps \cup PopSteps]
    BY <1>3, GotoType DEF PushLock, PushSteps
  <2>. QED
    BY <1>3, <2>1 DEF PushLock, TypeOK
<1>4. ASSUME NEW t \in Threads, PushRecheck(t) PROVE TypeOK'
  <2>1. pc' \in [Threads -> {"idle"} \cup PushSteps \cup PopSteps]
    BY <1>4, GotoType DEF PushRecheck, PushSteps
  <2>. QED
    BY <1>4, <2>1 DEF PushRecheck, TypeOK
<1>5. ASSUME NEW t \in Threads, PushGrow(t) PROVE TypeOK'
  <2>1. pc' \in [Threads -> {"idle"} \cup PushSteps \cup PopSteps]
    BY <1>5, GotoType DEF PushGrow, PushSteps
  <2>2. live' \in Nat
    BY <1>5 DEF PushGrow, TypeOK
  <2>3. PICK n \in Int :
          cells' = [i \in 0 .. n |-> IF i \in DOMAIN cells THEN cells[i] ELSE Junk]
    BY <1>5, SizesAssumption, SMTT(30) DEF PushGrow, NextCap, TypeOK
  <2>4. DOMAIN cells' \subseteq Nat /\ cells' \in [DOMAIN cells' -> Cells]
    BY <2>3 DEF TypeOK, Cells
  <2>. QED
    BY <1>5, <2>1, <2>2, <2>4 DEF PushGrow, TypeOK
<1>6. ASSUME NEW t \in Threads, PushPublish(t) PROVE TypeOK'
  <2>1. pc' \in [Threads -> {"idle"} \cup PushSteps \cup PopSteps]
    BY <1>6, GotoType DEF PushPublish, PushSteps
  <2>. QED
    BY <1>6, <2>1, SizesAssumption DEF PushPublish, NextCap, TypeOK
<1>7. ASSUME NEW t \in Threads, PushInstall(t) PROVE TypeOK'
  <2>1. pc' \in [Threads -> {"idle"} \cup PushSteps \cup PopSteps]
    BY <1>7, GotoType DEF PushInstall, PushSteps
  <2>. QED
    BY <1>7, <2>1 DEF PushInstall, TypeOK
<1>8. ASSUME NEW t \in Threads, PushFill(t) PROVE TypeOK'
  BY <1>8, ReturnType DEF PushFill, TypeOK, shared
<1>9. ASSUME NEW t \in Threads, PushLocate(t) PROVE TypeOK'
  <2>1. PICK b \in IF RelaxedMemory THEN view[t] .. spine ELSE {spine} :
          /\ Goto(t, "locate", IF b = 0 /\ Top(cursor[t]) = 0 THEN "panicked" ELSE "store")
          /\ base' = [base EXCEPT ![t] = b]
          /\ view' = [view EXCEPT ![t] = b]
    BY <1>9 DEF PushLocate
  <2>2. b \in Nat
    BY SizesAssumption DEF TypeOK
  <2>3. pc' \in [Threads -> {"idle"} \cup PushSteps \cup PopSteps]
    BY <2>1, GotoType DEF PushSteps
  <2>. QED
    BY <1>9, <2>1, <2>2, <2>3 DEF PushLocate, TypeOK, shared
<1>10. ASSUME NEW t \in Threads, PushStore(t) PROVE TypeOK'
  BY <1>10, ReturnType DEF PushStore, TypeOK
<1>11. ASSUME NEW t \in Poppers, PopClaim(t) PROVE TypeOK'
  <2>1. pc' \in [Threads -> {"idle"} \cup PushSteps \cup PopSteps]
    BY <1>11, GotoType DEF PopClaim, PopSteps
  <2>2. index' \in 0 .. IndexMod - 1
    BY <1>11, IndexWraps DEF PopClaim, TypeOK
  <2>. QED
    BY <1>11, <2>1, <2>2 DEF PopClaim, TypeOK
<1>12. ASSUME NEW t \in Threads, PopUndo(t) PROVE TypeOK'
  BY <1>12, ReturnType, IndexWraps DEF PopUndo, TypeOK
<1>13. ASSUME NEW t \in Threads, PopRead(t) PROVE TypeOK'
  <2>1. pc' \in [Threads -> {"idle"} \cup PushSteps \cup PopSteps]
    BY <1>13, GotoType DEF PopRead, PopSteps
  <2>2. item' \in [Threads -> Cells]
    BY <1>13 DEF PopRead, InSpine, TypeOK, Cells
  <2>. QED
    BY <1>13, <2>1, <2>2 DEF PopRead, TypeOK, shared
<1>14. ASSUME NEW t \in Threads, PopClear(t) PROVE TypeOK'
  <2>1. cells' \in [DOMAIN cells' -> Cells] /\ DOMAIN cells' \subseteq Nat
    BY <1>14 DEF PopClear, TypeOK, Cells
  <2>. QED
    BY <1>14, <2>1, ReturnType DEF PopClear, TypeOK
<1>15. CASE SwitchPhase
  BY <1>15 DEF SwitchPhase, TypeOK, shared, locals
<1>16. CASE UNCHANGED vars
  BY <1>16 DEF TypeOK, vars, shared, locals
<1>. QED
  BY <1>1, <1>2, <1>3, <1>4, <1>5, <1>6, <1>7, <1>8, <1>9, <1>10, <1>11, <1>12,
     <1>13, <1>14, <1>15, <1>16
     DEF Next, PushStep, PopStep

(* The types hold whatever the callers do, more pops at a time included.      *)
THEOREM TypeCorrect == Spec => []TypeOK
BY TypeInit, TypeStep, PTL DEF Spec

-------------------------------------------------------------------------------
(* Consequences of the invariant.                                             *)

(* While a push is under way no pop is, and the index is what it seems.       *)
LEMMA PushRole ==
  ASSUME IInv, NEW t \in Threads, pc[t] \in PushSteps
  PROVE  /\ t \in Pushers
         /\ phase = "push"
         /\ \A q \in Poppers : pc[q] = "idle"
         /\ Used = index
         /\ index <= Cardinality(inside)
<1>1. t \in Pushers /\ phase = "push"
  BY DEF IInv, TypeOK, Roles, Threads, PushSteps, PopSteps
<1>2. \A q \in Poppers : pc[q] = "idle"
  BY <1>1 DEF IInv, Roles
<1>3. index + 0 <= Cardinality(inside)
  BY <1>2 DEF IInv, IndexBounded, Undoing, Popping
<1>. QED
  BY <1>1, <1>2, <1>3 DEF Used, IInv, TypeOK

(* While a pop is under way no push and no other pop is.                      *)
LEMMA PopRole ==
  ASSUME IInv, NEW t \in Threads, pc[t] \in PopSteps
  PROVE  /\ Poppers = {t}
         /\ phase = "pop"
         /\ \A p \in Pushers : pc[p] = "idle"
<1>1. t \in Poppers /\ phase = "pop"
  BY DEF IInv, TypeOK, Roles, Threads, PushSteps, PopSteps
<1>. QED
  BY <1>1, RegimeAssumption DEF IInv, Roles

(* At most one push is past the mutex.                                        *)
LEMMA OneHolder ==
  ASSUME IInv, NEW t \in Threads, NEW u \in Threads, pc[t] \in Holding, pc[u] \in Holding
  PROVE  t = u
BY DEF IInv, Mutex

(* push installs blocks in order.  Were block spine_length skipped, all of    *)
(* its slots would be in the hands of pushes other than the installing one,   *)
(* more pushes than there are threads.                                        *)
LEMMA InOrder == IInv => GapFree
<1>. SUFFICES ASSUME IInv, NEW t \in Pushers, pc[t] = "install"
              PROVE  Top(cursor[t]) = spine_length /\ spine_length < spine_cap
  BY DEF GapFree
<1>. DEFINE L == spine_length
            first == L * BlockEntries
            Slots == first .. first + BlockEntries - 1
            Others == Pushers \ {t}
<1>1. /\ t \in Threads /\ cursor[t] \in Nat /\ L \in Nat /\ index \in Nat
      /\ BlockEntries \in Nat \ {0} /\ first \in Nat
  BY SizesAssumption DEF IInv, TypeOK, Threads
<1>2. spine_length < spine_cap /\ Top(cursor[t]) >= L
  BY DEF IInv, HolderKnows
<1>3. Used = index /\ cursor[t] < index
  BY <1>1, PushRole, RegimeAssumption DEF IInv, SlotsExclusive, Claimed, PushSteps
<1>4. ASSUME Top(cursor[t]) > L PROVE FALSE
  <2>1. first + BlockEntries <= cursor[t]
    BY <1>1, <1>4, TopAbove
  <2>2. \A c \in Slots : \E u \in Others : cursor[u] = c
    <3>. SUFFICES ASSUME NEW c \in Slots PROVE \E u \in Others : cursor[u] = c
      OBVIOUS
    <3>1. c \in Nat /\ c < index /\ c # cursor[t] /\ c \in 0 .. Used - 1
      BY <1>1, <1>3, <2>1
    <3>2. Top(c) = L
      BY <1>1, <3>1, TopIs
    <3>3. PICK u \in Pushers : pc[u] \in Early /\ cursor[u] = c
      BY <1>1, <3>1, <3>2 DEF IInv, SpineCovers
    <3>. QED
      BY <3>1, <3>3
  <2>. DEFINE owner == [c \in Slots |-> CHOOSE u \in Others : cursor[u] = c]
  <2>3. \A c \in Slots : owner[c] \in Others /\ cursor[owner[c]] = c
    BY <2>2
  <2>4. owner \in [Slots -> Others]
    BY <2>3
  <2>5. IsFiniteSet(Slots) /\ Cardinality(Slots) = BlockEntries
    BY <1>1, FS_Interval
  <2>6. /\ IsFiniteSet(Others)
        /\ Cardinality(Others) = Cardinality(Pushers) - 1
        /\ Cardinality(Pushers) \in Nat
    BY RegimeAssumption, FS_RemoveElement, FS_CardinalityType
  <2>7. Cardinality(Others) < Cardinality(Slots)
    BY <1>1, <2>5, <2>6, RegimeAssumption
  <2>8. \E c, d \in Slots : c # d /\ owner[c] = owner[d]
    <3>. HIDE DEF owner, Slots, Others
    <3>. QED
      BY <2>4, <2>5, <2>6, <2>7, FS_PigeonHole
  <2>. QED
    BY <2>3, <2>8
<1>. QED
  BY <1>1, <1>2, <1>4, TopType

-------------------------------------------------------------------------------
(* The invariant is inductive.                                                *)

LEMMA InvInit == Init => IInv
<1>. SUFFICES ASSUME Init PROVE IInv
  OBVIOUS
<1>1. TypeOK
  BY TypeInit
<1>2. Roles /\ Mutex /\ SlotsExclusive /\ HolderKnows /\ SpineCovers
  BY SentinelAssumption
     DEF Init, Roles, Mutex, SlotsExclusive, HolderKnows, SpineCovers, Claimed, Holding,
         PushSteps, Threads, Used
<1>3. IndexBounded
  BY FS_EmptySet DEF Init, IndexBounded, Undoing, Popping, Threads
<1>. QED
  BY <1>1, <1>2, <1>3 DEF IInv

(* A step of a push that is under way: only its own place in the call moves,  *)
(* and unless it stays among the early steps its block exists.                *)
LEMMA PushStepInv ==
  ASSUME IInv, TypeOK', NEW t \in Pushers, pc[t] \in PushSteps,
         NEW to \in {"idle"} \cup PushSteps, pc' = [pc EXCEPT ![t] = to],
         UNCHANGED <<phase, index, inside>>,
         \/ cursor' = cursor
         \/ to = "idle" /\ cursor' = [cursor EXCEPT ![t] = 0],
         spine_length' \in {spine_length, spine_length + 1},
         \/ to \in Early
         \/ Top(cursor[t]) < spine_length'
         \/ pc[t] \notin Early
  PROVE  Roles' /\ IndexBounded' /\ SlotsExclusive' /\ SpineCovers'
<1>1. /\ t \in Threads /\ phase = "push" /\ Used = index
      /\ \A q \in Poppers : pc[q] = "idle"
      /\ index <= Cardinality(inside)
  BY PushRole DEF Threads
<1>2. t \notin Poppers /\ \A u \in Threads \ {t} : pc'[u] = pc[u] /\ cursor'[u] = cursor[u]
  BY RegimeAssumption DEF IInv, TypeOK, Threads
<1>3. pc'[t] = to /\ (to # "idle" => cursor'[t] = cursor[t])
  BY <1>1 DEF IInv, TypeOK
<1>4. \A q \in Poppers : pc'[q] = "idle"
  BY <1>1, <1>2 DEF Threads
<1>5. Used' = index'
  BY <1>4 DEF Used
<1>6. Roles'
  BY <1>1, <1>2, <1>3, <1>4 DEF IInv, Roles, Threads
<1>7. IndexBounded'
  BY <1>1, <1>4 DEF IndexBounded, Undoing, Popping, IInv, TypeOK
<1>8. \A u \in Threads : Claimed(u)' => Claimed(u) /\ u \notin Poppers /\ cursor'[u] = cursor[u]
  BY <1>1, <1>2, <1>3, <1>4 DEF Claimed, PushSteps
<1>9. SlotsExclusive'
  BY <1>1, <1>5, <1>8 DEF IInv, SlotsExclusive
<1>10. SpineCovers'
  <2>. SUFFICES ASSUME NEW c \in 0 .. Used' - 1, Top(c) >= spine_length'
                PROVE  \E u \in Pushers : pc'[u] \in Early /\ cursor'[u] = c
    BY DEF SpineCovers, Top
  <2>1. c \in 0 .. Used - 1 /\ Top(c) >= spine_length
    <3>1. c \in Nat /\ spine_length \in Nat /\ spine_length' \in Nat
      BY DEF IInv, TypeOK
    <3>. QED
      BY <1>1, <1>5, <3>1, TopType
  <2>2. PICK u \in Pushers : pc[u] \in Early /\ cursor[u] = c
    BY <2>1 DEF IInv, SpineCovers
  <2>3. CASE u = t
    <3>1. c \in Nat /\ spine_length' \in Nat
      BY DEF TypeOK
    <3>2. to \in Early
      BY <2>2, <2>3, <3>1, TopType
    <3>. QED
      BY <1>3, <2>2, <2>3, <3>2 DEF Early
  <2>4. CASE u # t
    BY <1>2, <2>2, <2>4 DEF Threads
  <2>. QED
    BY <2>3, <2>4
<1>. QED
  BY <1>6, <1>7, <1>9, <1>10

(* One step per action: which conjuncts it can disturb.                       *)
LEMMA InvStep == IInv /\ [Next]_vars => IInv'
<1>. SUFFICES ASSUME IInv, [Next]_vars PROVE IInv'
  OBVIOUS
<1>. USE DEF Goto, Return
<1>0. TypeOK /\ TypeOK' /\ GapFree
  BY TypeStep, InOrder DEF IInv
<1>1. ASSUME NEW t \in Pushers, NEW s \in Spans, PushClaim(t, s) PROVE IInv'
  <2>1. /\ t \in Threads /\ t \notin Poppers
        /\ pc[t] = "idle" /\ pc' = [pc EXCEPT ![t] = "load"]
        /\ cursor' = [cursor EXCEPT ![t] = index]
        /\ phase = "push" /\ phase' = phase
        /\ inside' = inside \cup {s} /\ s \notin inside
        /\ UNCHANGED <<spine_length, spine_cap, cap_holder>>
    BY <1>1, RegimeAssumption DEF PushClaim, Threads
  <2>2. \A q \in Poppers : pc[q] = "idle" /\ pc'[q] = "idle"
    BY <1>0, <2>1 DEF IInv, Roles, TypeOK, Threads
  <2>3. /\ index \in Nat /\ index <= Cardinality(inside) /\ index + 1 < IndexMod
        /\ Cardinality(inside) \in Nat
        /\ Cardinality(inside') = Cardinality(inside) + 1
    <3>1. IsFiniteSet(inside) /\ Cardinality(inside) <= Cardinality(Spans)
      BY <1>0, IndexAssumption, FS_Subset DEF TypeOK
    <3>2. Cardinality(inside) \in Nat /\ Cardinality(Spans) \in Nat
      BY <3>1, IndexAssumption, FS_CardinalityType
    <3>3. Cardinality(inside') = Cardinality(inside) + 1
      BY <2>1, <3>1, FS_AddElement
    <3>4. index \in Nat /\ index + 0 <= Cardinality(inside)
      BY <1>0, <2>2 DEF IInv, IndexBounded, Undoing, Popping, TypeOK
    <3>. QED
      BY <3>1, <3>2, <3>3, <3>4, IndexAssumption
  <2>4. index' = index + 1
    BY <1>1, <2>3, IndexWraps DEF PushClaim
  <2>5. Used = index /\ Used' = index + 1
    BY <2>2, <2>4 DEF Used
  <2>6. Roles'
    BY <1>0, <2>1, <2>2 DEF IInv, Roles, TypeOK, PushSteps, Threads
  <2>7. Mutex'
    BY <1>0, <2>1 DEF IInv, Mutex, Holding, TypeOK
  <2>8. IndexBounded'
    BY <2>2, <2>3, <2>4 DEF IndexBounded, Undoing, Popping
  <2>9. SlotsExclusive'
    <3>1. \A u \in Threads : Claimed(u)' =>
            /\ u \notin Poppers
            /\ u # t => Claimed(u) /\ cursor'[u] = cursor[u] /\ cursor[u] < index
      <4>. SUFFICES ASSUME NEW u \in Threads, Claimed(u)', u # t
                    PROVE  /\ u \notin Poppers /\ Claimed(u)
                           /\ cursor'[u] = cursor[u] /\ cursor[u] < index
        BY <2>1
      <4>1. pc'[u] = pc[u] /\ cursor'[u] = cursor[u]
        BY <1>0, <2>1 DEF TypeOK
      <4>2. Claimed(u) /\ u \notin Poppers
        BY <2>2, <4>1 DEF Claimed, PushSteps
      <4>. QED
        BY <2>5, <4>1, <4>2 DEF IInv, SlotsExclusive
    <3>2. cursor'[t] = index
      BY <1>0, <2>1 DEF TypeOK
    <3>3. \A u \in Threads : Claimed(u)' => cursor'[u] \in Nat
      BY <1>0 DEF TypeOK
    <3>. QED
      BY <2>3, <2>5, <3>1, <3>2, <3>3 DEF IInv, SlotsExclusive
  <2>10. HolderKnows'
    BY <1>0, <2>1 DEF IInv, HolderKnows, TypeOK, Top
  <2>11. SpineCovers'
    <3>. SUFFICES ASSUME NEW c \in 0 .. Used' - 1, Top(c) >= spine_length
                  PROVE  \E u \in Pushers : pc'[u] \in Early /\ cursor'[u] = c
      BY <2>1 DEF SpineCovers, Top
    <3>1. CASE c = index
      BY <1>0, <2>1, <3>1 DEF TypeOK, Early
    <3>2. CASE c # index
      <4>1. PICK u \in Pushers : pc[u] \in Early /\ cursor[u] = c
        BY <2>3, <2>5, <3>2 DEF IInv, SpineCovers
      <4>. QED
        BY <1>0, <2>1, <4>1 DEF TypeOK, Early, Threads
    <3>. QED
      BY <3>1, <3>2
  <2>. QED
    BY <1>0, <2>6, <2>7, <2>8, <2>9, <2>10, <2>11 DEF IInv
<1>2. ASSUME NEW t \in Threads, PushLoadLength(t) PROVE IInv'
  <2>. DEFINE to == IF Top(cursor[t]) < spine_length THEN "locate" ELSE "lock"
  <2>1. /\ pc[t] = "load" /\ pc' = [pc EXCEPT ![t] = to]
        /\ UNCHANGED <<phase, index, spine_length, spine_cap, cap_holder, cursor, inside>>
    BY <1>2 DEF PushLoadLength, shared
  <2>2. t \in Pushers
    BY <2>1, PushRole DEF PushSteps
  <2>3. Roles' /\ IndexBounded' /\ SlotsExclusive' /\ SpineCovers'
    BY <1>0, <2>1, <2>2, PushStepInv DEF PushSteps, Early
  <2>4. Mutex'
    BY <1>0, <2>1 DEF IInv, Mutex, Holding, TypeOK
  <2>5. HolderKnows'
    BY <1>0, <2>1, <2>2 DEF IInv, HolderKnows, TypeOK, Threads, Top
  <2>. QED
    BY <1>0, <2>3, <2>4, <2>5 DEF IInv
<1>3. ASSUME NEW t \in Threads, PushLock(t) PROVE IInv'
  <2>1. /\ pc[t] = "lock" /\ pc' = [pc EXCEPT ![t] = "recheck"]
        /\ cap_holder = NoThread /\ cap_holder' = t
        /\ UNCHANGED <<phase, index, spine_length, spine_cap, cursor, inside>>
    BY <1>3 DEF PushLock
  <2>2. t \in Pushers
    BY <2>1, PushRole DEF PushSteps
  <2>3. Roles' /\ IndexBounded' /\ SlotsExclusive' /\ SpineCovers'
    BY <1>0, <2>1, <2>2, PushStepInv DEF PushSteps, Early
  <2>4. Mutex'
    BY <1>0, <2>1, SentinelAssumption DEF IInv, Mutex, Holding, TypeOK
  <2>5. HolderKnows'
    BY <1>0, <2>1, <2>2 DEF IInv, HolderKnows, TypeOK, Threads, Top
  <2>. QED
    BY <1>0, <2>3, <2>4, <2>5 DEF IInv
<1>4. ASSUME NEW t \in Threads, PushRecheck(t) PROVE IInv'
  <2>. DEFINE next == IF spine_length = spine_cap THEN "grow" ELSE "install"
  <2>1. /\ pc[t] = "recheck"
        /\ UNCHANGED <<phase, index, spine_length, spine_cap, cursor, inside>>
    BY <1>4 DEF PushRecheck
  <2>2. t \in Pushers
    BY <2>1, PushRole DEF PushSteps
  <2>3. cap_holder = t /\ \A u \in Threads \ {t} : pc[u] \notin Holding
    BY <2>1 DEF IInv, Mutex, Holding
  <2>4. CASE /\ Top(cursor[t]) < spine_length
             /\ pc' = [pc EXCEPT ![t] = "locate"] /\ cap_holder' = NoThread
    <3>1. Roles' /\ IndexBounded' /\ SlotsExclusive' /\ SpineCovers'
      BY <1>0, <2>1, <2>2, <2>4, PushStepInv DEF PushSteps, Early
    <3>2. Mutex'
      BY <1>0, <2>3, <2>4, SentinelAssumption DEF Mutex, Holding, TypeOK
    <3>3. HolderKnows'
      BY <1>0, <2>1, <2>2, <2>4 DEF IInv, HolderKnows, TypeOK, Threads, Top
    <3>. QED
      BY <1>0, <3>1, <3>2, <3>3 DEF IInv
  <2>5. CASE /\ Top(cursor[t]) >= spine_length
             /\ pc' = [pc EXCEPT ![t] = next] /\ cap_holder' = cap_holder
    <3>1. Roles' /\ IndexBounded' /\ SlotsExclusive' /\ SpineCovers'
      BY <1>0, <2>1, <2>2, <2>5, PushStepInv DEF PushSteps, Early
    <3>2. Mutex'
      BY <1>0, <2>1, <2>3, <2>5 DEF IInv, Mutex, Holding, TypeOK
    <3>3. HolderKnows'
      BY <1>0, <2>1, <2>2, <2>5 DEF IInv, HolderKnows, TypeOK, Threads, Top
    <3>. QED
      BY <1>0, <3>1, <3>2, <3>3 DEF IInv
  <2>. QED
    BY <1>4, <2>4, <2>5 DEF PushRecheck
<1>5. ASSUME NEW t \in Threads, PushGrow(t) PROVE IInv'
  <2>1. /\ pc[t] = "grow" /\ pc' = [pc EXCEPT ![t] = "publish"]
        /\ UNCHANGED <<phase, index, spine_length, spine_cap, cap_holder, cursor, inside>>
    BY <1>5 DEF PushGrow
  <2>2. t \in Pushers
    BY <2>1, PushRole DEF PushSteps
  <2>3. Roles' /\ IndexBounded' /\ SlotsExclusive' /\ SpineCovers'
    BY <1>0, <2>1, <2>2, PushStepInv DEF PushSteps, Early
  <2>4. Mutex'
    BY <1>0, <2>1 DEF IInv, Mutex, Holding, TypeOK
  <2>5. HolderKnows'
    BY <1>0, <2>1, <2>2 DEF IInv, HolderKnows, TypeOK, Threads, Top
  <2>. QED
    BY <1>0, <2>3, <2>4, <2>5 DEF IInv
<1>6. ASSUME NEW t \in Threads, PushPublish(t) PROVE IInv'
  <2>1. /\ pc[t] = "publish" /\ pc' = [pc EXCEPT ![t] = "install"]
        /\ spine_cap' = NextCap
        /\ UNCHANGED <<phase, index, spine_length, cap_holder, cursor, inside>>
    BY <1>6 DEF PushPublish
  <2>2. t \in Pushers
    BY <2>1, PushRole DEF PushSteps
  <2>3. \A u \in Threads \ {t} : pc[u] \notin Holding
    BY <2>1, OneHolder DEF Holding
  <2>4. spine_length = spine_cap /\ spine_cap < spine_cap'
    BY <1>0, <2>1, <2>2, SizesAssumption DEF IInv, HolderKnows, NextCap, TypeOK
  <2>5. Roles' /\ IndexBounded' /\ SlotsExclusive' /\ SpineCovers'
    BY <1>0, <2>1, <2>2, PushStepInv DEF PushSteps, Early
  <2>6. Mutex'
    BY <1>0, <2>1 DEF IInv, Mutex, Holding, TypeOK
  <2>7. HolderKnows'
    BY <1>0, <2>1, <2>2, <2>3, <2>4 DEF IInv, HolderKnows, TypeOK, Threads, Top, Holding
  <2>. QED
    BY <1>0, <2>5, <2>6, <2>7 DEF IInv
<1>7. ASSUME NEW t \in Threads, PushInstall(t) PROVE IInv'
  <2>1. /\ pc[t] = "install" /\ pc' = [pc EXCEPT ![t] = "fill"]
        /\ spine_length' = spine_length + 1 /\ cap_holder' = NoThread
        /\ UNCHANGED <<phase, index, spine_cap, cursor, inside>>
    BY <1>7 DEF PushInstall
  <2>2. t \in Pushers
    BY <2>1, PushRole DEF PushSteps
  <2>3. \A u \in Threads \ {t} : pc[u] \notin Holding
    BY <2>1, OneHolder DEF Holding
  <2>4. Top(cursor[t]) = spine_length /\ spine_length < spine_cap
    BY <1>0, <2>1, <2>2 DEF GapFree
  <2>5. Top(cursor[t]) < spine_length'
    BY <1>0, <2>1, <2>4 DEF TypeOK
  <2>8. Roles' /\ IndexBounded' /\ SlotsExclusive' /\ SpineCovers'
    BY <1>0, <2>1, <2>2, <2>5, PushStepInv DEF PushSteps
  <2>6. Mutex'
    BY <1>0, <2>1, <2>3, SentinelAssumption DEF IInv, Mutex, Holding, TypeOK
  <2>7. HolderKnows'
    BY <1>0, <2>1, <2>2, <2>3, <2>4 DEF IInv, HolderKnows, TypeOK, Threads, Top, Holding
  <2>. QED
    BY <1>0, <2>6, <2>7, <2>8 DEF IInv
<1>8. ASSUME NEW t \in Threads, PushFill(t) PROVE IInv'
  <2>1. /\ pc[t] = "fill" /\ pc' = [pc EXCEPT ![t] = "idle"]
        /\ cursor' = [cursor EXCEPT ![t] = 0]
        /\ UNCHANGED <<phase, index, spine_length, spine_cap, cap_holder, inside>>
    BY <1>8 DEF PushFill, shared
  <2>2. t \in Pushers
    BY <2>1, PushRole DEF PushSteps
  <2>3. Roles' /\ IndexBounded' /\ SlotsExclusive' /\ SpineCovers'
    BY <1>0, <2>1, <2>2, PushStepInv DEF PushSteps, Early
  <2>4. Mutex'
    BY <1>0, <2>1 DEF IInv, Mutex, Holding, TypeOK
  <2>5. HolderKnows'
    BY <1>0, <2>1, <2>2 DEF IInv, HolderKnows, TypeOK, Threads, Top
  <2>. QED
    BY <1>0, <2>3, <2>4, <2>5 DEF IInv
<1>9. ASSUME NEW t \in Threads, PushLocate(t) PROVE IInv'
  <2>1. PICK to \in {"panicked", "store"} :
          /\ pc[t] = "locate" /\ pc' = [pc EXCEPT ![t] = to]
          /\ UNCHANGED <<phase, index, spine_length, spine_cap, cap_holder, cursor, inside>>
    BY <1>9 DEF PushLocate, shared
  <2>2. t \in Pushers
    BY <2>1, PushRole DEF PushSteps
  <2>3. Roles' /\ IndexBounded' /\ SlotsExclusive' /\ SpineCovers'
    BY <1>0, <2>1, <2>2, PushStepInv DEF PushSteps, Early
  <2>4. Mutex'
    BY <1>0, <2>1 DEF IInv, Mutex, Holding, TypeOK
  <2>5. HolderKnows'
    BY <1>0, <2>1, <2>2 DEF IInv, HolderKnows, TypeOK, Threads, Top
  <2>. QED
    BY <1>0, <2>3, <2>4, <2>5 DEF IInv
<1>10. ASSUME NEW t \in Threads, PushStore(t) PROVE IInv'
  <2>1. /\ pc[t] = "store" /\ pc' = [pc EXCEPT ![t] = "idle"]
        /\ cursor' = [cursor EXCEPT ![t] = 0]
        /\ UNCHANGED <<phase, index, spine_length, spine_cap, cap_holder, inside>>
    BY <1>10 DEF PushStore
  <2>2. t \in Pushers
    BY <2>1, PushRole DEF PushSteps
  <2>3. Roles' /\ IndexBounded' /\ SlotsExclusive' /\ SpineCovers'
    BY <1>0, <2>1, <2>2, PushStepInv DEF PushSteps, Early
  <2>4. Mutex'
    BY <1>0, <2>1 DEF IInv, Mutex, Holding, TypeOK
  <2>5. HolderKnows'
    BY <1>0, <2>1, <2>2 DEF IInv, HolderKnows, TypeOK, Threads, Top
  <2>. QED
    BY <1>0, <2>3, <2>4, <2>5 DEF IInv
<1>11. ASSUME NEW t \in Poppers, PopClaim(t) PROVE IInv'
  <2>. DEFINE to == IF index = 0 THEN "undo" ELSE "read"
  <2>1. /\ pc[t] = "idle" /\ pc' = [pc EXCEPT ![t] = to]
        /\ cursor' = [cursor EXCEPT ![t] = IF index = 0 THEN 0 ELSE index - 1]
        /\ index' = (index + IndexMod - 1) % IndexMod
        /\ phase = "pop"
        /\ UNCHANGED <<phase, spine_length, spine_cap, cap_holder, inside>>
    BY <1>11 DEF PopClaim
  <2>2. t \in Threads /\ t \notin Pushers /\ Poppers = {t}
    BY RegimeAssumption DEF Threads
  <2>3. /\ pc'[t] = to /\ cursor'[t] = IF index = 0 THEN 0 ELSE index - 1
        /\ \A p \in Pushers : pc[p] = "idle" /\ pc'[p] = "idle"
    BY <1>0, <2>1, <2>2 DEF IInv, Roles, TypeOK, Threads
  <2>4. index \in 0 .. IndexMod - 1 /\ index + 0 <= Cardinality(inside)
    BY <1>0, <2>1, <2>2 DEF IInv, IndexBounded, Undoing, Popping, TypeOK
  <2>5. index' = IF index = 0 THEN IndexMod - 1 ELSE index - 1
    BY <2>1, <2>4, IndexWraps
  <2>6. Used = index /\ Used' = IF index = 0 THEN 0 ELSE index - 1
    BY <2>1, <2>2, <2>3, <2>5 DEF Used
  <2>7. Roles'
    BY <2>1, <2>2, <2>3 DEF IInv, Roles, PopSteps
  <2>8. Mutex'
    BY <1>0, <2>1, <2>2, <2>3 DEF IInv, Mutex, Holding, TypeOK, Threads
  <2>9. IndexBounded'
    BY <2>1, <2>2, <2>3, <2>4, <2>5 DEF IndexBounded, Undoing, Popping
  <2>10. SlotsExclusive'
    BY <2>2, <2>3, <2>4, <2>6 DEF SlotsExclusive, Claimed, Threads, PushSteps
  <2>11. HolderKnows'
    BY <2>1, <2>3 DEF IInv, HolderKnows
  <2>12. SpineCovers'
    <3>. SUFFICES ASSUME NEW c \in 0 .. Used' - 1, Top(c) >= spine_length PROVE FALSE
      BY <2>1 DEF SpineCovers, Top
    <3>. QED
      BY <2>3, <2>4, <2>6 DEF IInv, SpineCovers, Early
  <2>. QED
    BY <1>0, <2>7, <2>8, <2>9, <2>10, <2>11, <2>12 DEF IInv
<1>12. ASSUME NEW t \in Threads, PopUndo(t) PROVE IInv'
  <2>1. /\ pc[t] = "undo" /\ pc' = [pc EXCEPT ![t] = "idle"]
        /\ index' = (index + 1) % IndexMod
        /\ UNCHANGED <<phase, spine_length, spine_cap, cap_holder, inside>>
    BY <1>12 DEF PopUndo
  <2>2. t \notin Pushers /\ Poppers = {t} /\ phase = "pop"
    BY <2>1, PopRole, RegimeAssumption DEF PopSteps
  <2>3. /\ pc'[t] = "idle"
        /\ \A p \in Pushers : pc[p] = "idle" /\ pc'[p] = "idle"
    BY <1>0, <2>1, <2>2, PopRole DEF TypeOK, Threads, PopSteps
  <2>4. index' = 0 /\ Used' = 0
    <3>1. index = IndexMod - 1
      BY <2>1, <2>2 DEF IInv, IndexBounded, Undoing
    <3>2. index' = 0
      BY <2>1, <3>1, IndexWraps
    <3>. QED
      BY <3>2 DEF Used
  <2>5. Roles'
    BY <2>1, <2>2, <2>3 DEF IInv, Roles, PopSteps
  <2>6. Mutex'
    BY <1>0, <2>1, <2>2, <2>3 DEF IInv, Mutex, Holding, TypeOK, Threads
  <2>7. IndexBounded'
    <3>1. Cardinality(inside') \in Nat
      BY <1>0, IndexAssumption, FS_Subset, FS_CardinalityType DEF TypeOK
    <3>. QED
      BY <2>2, <2>3, <2>4, <3>1 DEF IndexBounded, Undoing, Popping
  <2>8. SlotsExclusive'
    BY <2>2, <2>3 DEF SlotsExclusive, Claimed, Threads, PushSteps
  <2>9. HolderKnows'
    BY <2>1, <2>3 DEF IInv, HolderKnows
  <2>10. SpineCovers'
    BY <2>4 DEF SpineCovers
  <2>. QED
    BY <1>0, <2>5, <2>6, <2>7, <2>8, <2>9, <2>10 DEF IInv
<1>13. ASSUME NEW t \in Threads, PopRead(t) PROVE IInv'
  <2>1. /\ pc[t] = "read" /\ pc' = [pc EXCEPT ![t] = "clear"]
        /\ UNCHANGED <<phase, index, spine_length, spine_cap, cap_holder, cursor, inside>>
    BY <1>13 DEF PopRead, shared
  <2>2. t \notin Pushers /\ Poppers = {t} /\ phase = "pop"
    BY <2>1, PopRole, RegimeAssumption DEF PopSteps
  <2>3. /\ pc'[t] = "clear"
        /\ \A p \in Pushers : pc[p] = "idle" /\ pc'[p] = "idle"
    BY <1>0, <2>1, <2>2, PopRole DEF TypeOK, Threads, PopSteps
  <2>4. Used' = Used
    BY <2>1, <2>2, <2>3 DEF Used
  <2>5. Roles'
    BY <2>1, <2>2, <2>3 DEF IInv, Roles, PopSteps
  <2>6. Mutex'
    BY <1>0, <2>1, <2>2, <2>3 DEF IInv, Mutex, Holding, TypeOK, Threads
  <2>7. IndexBounded'
    BY <2>1, <2>2, <2>3 DEF IInv, IndexBounded, Undoing, Popping
  <2>8. SlotsExclusive'
    BY <2>1, <2>2, <2>3, <2>4 DEF IInv, SlotsExclusive, Claimed, Threads, PushSteps
  <2>9. HolderKnows'
    BY <2>1, <2>3 DEF IInv, HolderKnows
  <2>10. SpineCovers'
    BY <2>1, <2>3, <2>4 DEF IInv, SpineCovers, Early, Top
  <2>. QED
    BY <1>0, <2>5, <2>6, <2>7, <2>8, <2>9, <2>10 DEF IInv
<1>14. ASSUME NEW t \in Threads, PopClear(t) PROVE IInv'
  <2>1. /\ pc[t] = "clear" /\ pc' = [pc EXCEPT ![t] = "idle"]
        /\ inside' = inside \ {item[t]}
        /\ UNCHANGED <<phase, index, spine_length, spine_cap, cap_holder>>
    BY <1>14 DEF PopClear
  <2>2. t \notin Pushers /\ Poppers = {t} /\ phase = "pop"
    BY <2>1, PopRole, RegimeAssumption DEF PopSteps
  <2>3. /\ pc'[t] = "idle"
        /\ \A p \in Pushers : pc[p] = "idle" /\ pc'[p] = "idle"
    BY <1>0, <2>1, <2>2, PopRole DEF TypeOK, Threads, PopSteps
  <2>4. Used' = Used
    BY <2>1, <2>2, <2>3 DEF Used
  <2>5. Roles'
    BY <2>1, <2>2, <2>3 DEF IInv, Roles, PopSteps
  <2>6. Mutex'
    BY <1>0, <2>1, <2>2, <2>3 DEF IInv, Mutex, Holding, TypeOK, Threads
  <2>7. IndexBounded'
    <3>1. IsFiniteSet(inside)
      BY <1>0, IndexAssumption, FS_Subset DEF TypeOK
    <3>2. Cardinality(inside) \in Nat
      BY <3>1, FS_CardinalityType
    <3>3. Cardinality(inside') >= Cardinality(inside) - 1
      BY <2>1, <3>1, <3>2, FS_RemoveElement
    <3>4. Cardinality(inside') \in Nat
      BY <1>0, IndexAssumption, FS_Subset, FS_CardinalityType DEF TypeOK
    <3>5. index \in Nat /\ index + 1 <= Cardinality(inside)
      BY <1>0, <2>1, <2>2 DEF IInv, IndexBounded, Undoing, Popping, TypeOK
    <3>. QED
      BY <2>1, <2>2, <2>3, <3>2, <3>3, <3>4, <3>5 DEF IndexBounded, Undoing, Popping
  <2>8. SlotsExclusive'
    BY <2>2, <2>3 DEF SlotsExclusive, Claimed, Threads, PushSteps
  <2>9. HolderKnows'
    BY <2>1, <2>3 DEF IInv, HolderKnows
  <2>10. SpineCovers'
    BY <2>1, <2>3, <2>4 DEF IInv, SpineCovers, Early, Top
  <2>. QED
    BY <1>0, <2>5, <2>6, <2>7, <2>8, <2>9, <2>10 DEF IInv
<1>15. CASE SwitchPhase
  <2>1. /\ \A t \in Threads : pc[t] = "idle"
        /\ UNCHANGED <<index, spine_length, spine_cap, cap_holder, pc, cursor, inside>>
    BY <1>15 DEF SwitchPhase, shared, locals
  <2>2. Roles'
    BY <2>1 DEF IInv, Roles, Threads
  <2>3. Mutex' /\ HolderKnows'
    BY <2>1 DEF IInv, Mutex, HolderKnows
  <2>4. IndexBounded' /\ SlotsExclusive' /\ SpineCovers'
    BY <2>1 DEF IInv, IndexBounded, Undoing, Popping, SlotsExclusive, Claimed,
                SpineCovers, Used, Top
  <2>. QED
    BY <1>0, <2>2, <2>3, <2>4 DEF IInv
<1>16. CASE UNCHANGED vars
  <2>1. UNCHANGED <<phase, index, spine_length, spine_cap, cap_holder, pc, cursor, inside>>
    BY <1>16 DEF vars, shared, locals
  <2>2. Roles' /\ Mutex' /\ HolderKnows'
    BY <2>1 DEF IInv, Roles, Mutex, HolderKnows
  <2>3. IndexBounded' /\ SlotsExclusive' /\ SpineCovers'
    BY <2>1 DEF IInv, IndexBounded, Undoing, Popping, SlotsExclusive, Claimed,
                SpineCovers, Used, Top
  <2>. QED
    BY <1>0, <2>2, <2>3 DEF IInv
<1>. QED
  BY <1>1, <1>2, <1>3, <1>4, <1>5, <1>6, <1>7, <1>8, <1>9, <1>10, <1>11, <1>12,
     <1>13, <1>14, <1>15, <1>16
     DEF Next, PushStep, PopStep

(* The bookkeeping of the sweep buffer, for every size and number of spans.   *)
THEOREM Bookkeeping == Spec => []IInv
BY InvInit, InvStep, PTL DEF Spec

(* push installs its blocks in order and within the capacity of the spine.    *)
THEOREM BlocksInOrder == Spec => []GapFree
BY Bookkeeping, InOrder, PTL

(* Every slot in use has its block, or the push that is to install it is      *)
(* under way: the lock-free path and pop never reach beyond spine_length.     *)
THEOREM BlocksCoverSlots == Spec => []SpineCovers
<1>1. IInv => SpineCovers
  BY DEF IInv
<1>. QED
  BY <1>1, Bookkeeping, PTL

(* No two calls under way work on the same slot.                              *)
THEOREM SlotsAreExclusive == Spec => []SlotsExclusive
<1>1. IInv => SlotsExclusive
  BY DEF IInv
<1>. QED
  BY <1>1, Bookkeeping, PTL

(* "spine_length cannot change until we release the lock".                    *)
THEOREM LengthIsStable == Spec => LengthStableUnderLock
<1>1. ASSUME IInv, [Next]_vars
      PROVE  [\A t \in Threads : pc[t] \in Holding /\ pc'[t] \in Holding =>
                spine_length' = spine_length]_vars
  <2>1. CASE spine_length' = spine_length
    BY <2>1
  <2>2. ASSUME NEW u \in Threads, PushInstall(u)
        PROVE  \A t \in Threads : pc[t] \in Holding => pc'[t] \notin Holding
    <3>1. pc[u] = "install" /\ pc' = [pc EXCEPT ![u] = "fill"]
      BY <2>2 DEF PushInstall, Goto
    <3>2. \A t \in Threads : pc[t] \in Holding => t = u
      BY <1>1, <3>1, OneHolder DEF Holding
    <3>. QED
      BY <1>1, <3>1, <3>2 DEF IInv, TypeOK, Holding
  <2>. QED
    BY <1>1, <2>1, <2>2
       DEF Next, PushStep, PopStep, PushClaim, PushLoadLength, PushLock, PushRecheck,
           PushGrow, PushPublish, PushFill, PushLocate, PushStore, PopClaim, PopUndo,
           PopRead, PopClear, SwitchPhase, vars, shared
<1>. QED
  BY <1>1, Bookkeeping, PTL DEF Spec, LengthStableUnderLock

-------------------------------------------------------------------------------
(* A span is in one place.                                                    *)

LEMMA SpanInit == Init => SpanInv
BY SentinelAssumption, RegimeAssumption
   DEF Init, SpanInv, NoSpanTwice, Threads

(* A step within a push that leaves the spans where they are.                 *)
LEMMA PushKeepsSpans ==
  ASSUME IInv, SpanInv, NEW t \in Threads, pc[t] \in PushSteps,
         NEW to \in PushSteps, pc' = [pc EXCEPT ![t] = to],
         UNCHANGED <<cells, inside, item>>
  PROVE  SpanInv'
<1>1. t \in Pushers /\ \A q \in Poppers : pc[q] = "idle"
  BY PushRole
<1>2. \A q \in Poppers : item[q] = NoSpan
  BY <1>1 DEF SpanInv
<1>3. \A p \in Pushers : pc'[p] = "idle" => pc[p] = "idle"
  BY DEF IInv, TypeOK, Threads, PushSteps
<1>4. NoSpanTwice'
  BY <1>2 DEF SpanInv, NoSpanTwice
<1>. QED
  BY <1>2, <1>3, <1>4, SentinelAssumption DEF SpanInv

(* Every step leaves each span in one place.                                  *)
LEMMA SpanStep == IInv /\ SpanInv /\ [Next]_vars => SpanInv'
<1>. SUFFICES ASSUME IInv, SpanInv, [Next]_vars PROVE SpanInv'
  OBVIOUS
<1>0. /\ TypeOK /\ TypeOK' /\ NoSpanTwice /\ Pushers \cap Poppers = {}
      /\ NoSpan \notin Spans /\ Junk \notin Spans
  BY TypeStep, RegimeAssumption, SentinelAssumption DEF IInv, SpanInv
<1>1. ASSUME NEW t \in Pushers, NEW s \in Spans, PushClaim(t, s) PROVE SpanInv'
  <2>1. /\ pc[t] = "idle" /\ pc' = [pc EXCEPT ![t] = "load"]
        /\ item' = [item EXCEPT ![t] = s] /\ s \notin inside
        /\ inside' = inside \cup {s}
        /\ phase = "push" /\ UNCHANGED <<cells, base, live>>
    BY <1>1 DEF PushClaim, Goto
  <2>2. \A q \in Poppers : item[q] = NoSpan /\ item'[q] = NoSpan
    BY <1>0, <2>1 DEF IInv, Roles, SpanInv, TypeOK, Threads
  <2>3. /\ item'[t] = s /\ pc'[t] = "load"
        /\ \A u \in Pushers \ {t} : item'[u] = item[u] /\ pc'[u] = pc[u]
    BY <1>0, <2>1 DEF TypeOK, Threads
  <2>4. NoSpanTwice'
    BY <1>0, <2>1, <2>2, <2>3 DEF NoSpanTwice
  <2>. QED
    BY <1>0, <2>1, <2>2, <2>3, <2>4 DEF SpanInv
<1>2. ASSUME NEW t \in Threads, PushLoadLength(t) PROVE SpanInv'
  BY <1>2, PushKeepsSpans DEF PushLoadLength, Goto, PushSteps, shared
<1>3. ASSUME NEW t \in Threads, PushLock(t) PROVE SpanInv'
  BY <1>3, PushKeepsSpans DEF PushLock, Goto, PushSteps
<1>4. ASSUME NEW t \in Threads, PushRecheck(t) PROVE SpanInv'
  BY <1>4, PushKeepsSpans DEF PushRecheck, Goto, PushSteps
<1>5. ASSUME NEW t \in Threads, PushGrow(t) PROVE SpanInv'
  <2>1. /\ pc[t] = "grow" /\ pc' = [pc EXCEPT ![t] = "publish"]
        /\ UNCHANGED <<inside, item>>
    BY <1>5 DEF PushGrow, Goto
  <2>2. t \in Pushers /\ \A q \in Poppers : pc[q] = "idle"
    BY <2>1, PushRole DEF PushSteps
  <2>3. \A q \in Poppers : item[q] = NoSpan
    BY <2>2 DEF SpanInv
  <2>4. PICK n \in Int :
          cells' = [i \in 0 .. n |-> IF i \in DOMAIN cells THEN cells[i] ELSE Junk]
    BY <1>0, <1>5, SizesAssumption, SMTT(30) DEF PushGrow, NextCap, TypeOK
  <2>5. \A i \in DOMAIN cells' : cells'[i] \in Spans =>
          i \in DOMAIN cells /\ cells'[i] = cells[i]
    BY <1>0, <2>4
  <2>6. NoSpanTwice'
    BY <1>0, <2>1, <2>3, <2>5 DEF NoSpanTwice
  <2>7. \A p \in Pushers : pc'[p] = "idle" => pc[p] = "idle"
    BY <1>0, <2>1 DEF TypeOK, Threads
  <2>. QED
    BY <1>0, <2>1, <2>3, <2>6, <2>7 DEF SpanInv
<1>6. ASSUME NEW t \in Threads, PushPublish(t) PROVE SpanInv'
  BY <1>6, PushKeepsSpans DEF PushPublish, Goto, PushSteps
<1>7. ASSUME NEW t \in Threads, PushInstall(t) PROVE SpanInv'
  BY <1>7, PushKeepsSpans DEF PushInstall, Goto, PushSteps
<1>8. ASSUME NEW t \in Threads, PushFill(t) \/ PushStore(t) PROVE SpanInv'
  <2>1. /\ pc[t] \in PushSteps /\ pc' = [pc EXCEPT ![t] = "idle"]
        /\ item' = [item EXCEPT ![t] = NoSpan]
        /\ UNCHANGED inside
    BY <1>8 DEF PushFill, PushStore, Return, Goto, PushSteps
  <2>2. t \in Pushers /\ \A q \in Poppers : pc[q] = "idle"
    BY <2>1, PushRole
  <2>3. \A q \in Poppers : item[q] = NoSpan /\ item'[q] = NoSpan
    BY <1>0, <2>1, <2>2 DEF SpanInv, TypeOK, Threads
  <2>4. /\ item'[t] = NoSpan /\ pc'[t] = "idle"
        /\ \A u \in Pushers \ {t} : item'[u] = item[u] /\ pc'[u] = pc[u]
    BY <1>0, <2>1, <2>2 DEF TypeOK, Threads
  <2>5. PICK o \in Nat : \/ cells' = cells
                         \/ o \in DOMAIN cells /\ cells' = [cells EXCEPT ![o] = item[t]]
    <3>1. Offset(cursor[t]) \in Nat
      BY <1>0, OffsetType DEF TypeOK
    <3>. QED
      BY <1>8, <3>1 DEF PushFill, PushStore, InSpine, shared
  <2>6. item[t] \in inside \cup {NoSpan}
    BY <2>2 DEF SpanInv
  <2>7. \A u \in Pushers \ {t} : item[t] \in Spans => item[u] # item[t]
    BY <2>2 DEF SpanInv
  <2>8. NoSpanTwice'
    <3>1. CASE cells' = cells
      BY <1>0, <2>1, <2>3, <2>4, <3>1 DEF NoSpanTwice
    <3>2. CASE o \in DOMAIN cells /\ cells' = [cells EXCEPT ![o] = item[t]]
      <4>1. /\ DOMAIN cells' = DOMAIN cells
            /\ \A i \in DOMAIN cells : cells'[i] = IF i = o THEN item[t] ELSE cells[i]
        BY <1>0, <3>2 DEF TypeOK
      <4>2. \A i \in DOMAIN cells : cells[i] \in Spans => cells[i] # item[t]
        BY <1>0, <2>2 DEF NoSpanTwice
      <4>3. \A i, j \in DOMAIN cells' :
              cells'[i] \in Spans /\ cells'[i] = cells'[j] => i = j
        BY <1>0, <4>1, <4>2 DEF NoSpanTwice
      <4>4. \A i \in DOMAIN cells' : cells'[i] \in Spans =>
              cells'[i] \in inside' /\ \A u \in Pushers : item'[u] # cells'[i]
        BY <1>0, <2>1, <2>4, <2>6, <2>7, <4>1, <4>2 DEF NoSpanTwice
      <4>. QED
        BY <1>0, <2>3, <4>3, <4>4 DEF NoSpanTwice
    <3>. QED
      BY <2>5, <3>1, <3>2
  <2>. QED
    BY <1>0, <2>1, <2>3, <2>4, <2>8 DEF SpanInv
<1>9. ASSUME NEW t \in Threads, PushLocate(t) PROVE SpanInv'
  <2>1. PICK to \in {"panicked", "store"} :
          /\ pc[t] = "locate" /\ pc' = [pc EXCEPT ![t] = to]
          /\ UNCHANGED <<cells, inside, item>>
    BY <1>9 DEF PushLocate, Goto, shared
  <2>. QED
    BY <2>1, PushKeepsSpans DEF PushSteps
<1>10. ASSUME NEW t \in Poppers, PopClaim(t) \/ PopUndo(t) PROVE SpanInv'
  <2>1. /\ pc[t] # "clear" /\ UNCHANGED <<cells, inside>>
        /\ \E to \in {"undo", "read", "idle"} : pc' = [pc EXCEPT ![t] = to]
        /\ item' = item \/ item' = [item EXCEPT ![t] = NoSpan]
    BY <1>10 DEF PopClaim, PopUndo, Return, Goto
  <2>2. t \in Threads /\ Poppers = {t} /\ t \notin Pushers
    BY RegimeAssumption DEF Threads
  <2>3. item[t] = NoSpan /\ item'[t] = NoSpan
    BY <1>0, <2>1, <2>2 DEF SpanInv, TypeOK
  <2>4. \A p \in Pushers : item'[p] = item[p] /\ pc'[p] = pc[p]
    BY <1>0, <2>1, <2>2 DEF TypeOK, Threads
  <2>5. NoSpanTwice'
    BY <1>0, <2>1, <2>2, <2>3, <2>4 DEF NoSpanTwice
  <2>. QED
    BY <1>0, <2>1, <2>2, <2>3, <2>4, <2>5 DEF SpanInv
<1>11. ASSUME NEW t \in Threads, PopRead(t) PROVE SpanInv'
  <2>. DEFINE o == Offset(cursor[t])
  <2>1. /\ pc[t] = "read" /\ pc' = [pc EXCEPT ![t] = "clear"]
        /\ base' = [base EXCEPT ![t] = spine]
        /\ item' = [item EXCEPT ![t] = IF InSpine(spine, o) THEN cells[o] ELSE Junk]
        /\ UNCHANGED <<cells, inside, cursor, live>>
    BY <1>11 DEF PopRead, Goto, shared
  <2>2. t \in Poppers /\ Poppers = {t} /\ t \notin Pushers
    BY <2>1, PopRole, RegimeAssumption DEF PopSteps
  <2>3. /\ item'[t] = IF InSpine(spine, o) THEN cells[o] ELSE Junk
        /\ base'[t] = spine /\ pc'[t] = "clear"
    BY <1>0, <2>1 DEF TypeOK
  <2>4. item'[t] \in Spans => InSpine(spine, o) /\ cells[o] = item'[t] /\ o \in DOMAIN cells
    BY <1>0, <2>3 DEF InSpine
  <2>5. \A p \in Pushers : item'[p] = item[p] /\ pc'[p] = pc[p]
    BY <1>0, <2>1, <2>2 DEF TypeOK, Threads
  <2>6. NoSpanTwice'
    BY <1>0, <2>1, <2>2, <2>4, <2>5 DEF NoSpanTwice
  <2>7. item'[t] \in Spans =>
          InSpine(base[t], Offset(cursor[t]))' /\ cells'[Offset(cursor[t])'] = item'[t]
    BY <2>1, <2>3, <2>4 DEF InSpine, Offset, Top, Bottom
  <2>. QED
    BY <1>0, <2>1, <2>2, <2>3, <2>5, <2>6, <2>7 DEF SpanInv
<1>12. ASSUME NEW t \in Threads, PopClear(t) PROVE SpanInv'
  <2>. DEFINE o == Offset(cursor[t])
  <2>1. /\ pc[t] = "clear" /\ pc' = [pc EXCEPT ![t] = "idle"]
        /\ item' = [item EXCEPT ![t] = NoSpan]
        /\ inside' = inside \ {item[t]}
        /\ cells' = IF InSpine(base[t], o) THEN [cells EXCEPT ![o] = NoSpan] ELSE cells
    BY <1>12 DEF PopClear, Return, Goto
  <2>2. /\ t \in Poppers /\ Poppers = {t} /\ t \notin Pushers
        /\ \A p \in Pushers : pc[p] = "idle"
    BY <2>1, PopRole, RegimeAssumption DEF PopSteps
  <2>3. /\ item'[t] = NoSpan /\ pc'[t] = "idle"
        /\ \A p \in Pushers : item[p] = NoSpan /\ item'[p] = NoSpan
    BY <1>0, <2>1, <2>2 DEF SpanInv, TypeOK, Threads
  <2>4. item[t] \in Spans => InSpine(base[t], o) /\ cells[o] = item[t]
    BY <2>2 DEF SpanInv
  <2>5. \A i \in DOMAIN cells' : cells'[i] \in Spans =>
          i \in DOMAIN cells /\ cells'[i] = cells[i] /\ cells[i] # item[t]
    BY <1>0, <2>1, <2>4 DEF InSpine, NoSpanTwice, TypeOK
  <2>6. NoSpanTwice'
    BY <1>0, <2>1, <2>2, <2>3, <2>5 DEF NoSpanTwice
  <2>. QED
    BY <1>0, <2>2, <2>3, <2>6 DEF SpanInv
<1>13. CASE SwitchPhase \/ UNCHANGED vars
  <2>1. UNCHANGED <<cells, inside, item, pc, base, cursor, live>>
    BY <1>13 DEF SwitchPhase, vars, shared, locals
  <2>. QED
    BY <2>1 DEF SpanInv, NoSpanTwice, InSpine, Offset, Top, Bottom
<1>. QED
  BY <1>1, <1>2, <1>3, <1>4, <1>5, <1>6, <1>7, <1>8, <1>9, <1>10, <1>11, <1>12, <1>13,
     PopRole
     DEF Next, PushStep, PopStep, PopUndo, Goto, Return, PopSteps

(* No span is in two places, so no two pops return the same one.              *)
THEOREM SpansAreUnique == Spec => []NoSpanTwice
<1>1. Init => IInv /\ SpanInv
  BY InvInit, SpanInit
<1>2. (IInv /\ SpanInv) /\ [Next]_vars => (IInv /\ SpanInv)'
  BY InvStep, SpanStep
<1>3. SpanInv => NoSpanTwice
  BY DEF SpanInv
<1>. QED
  BY <1>1, <1>2, <1>3, PTL DEF Spec

-------------------------------------------------------------------------------
(* Spans that the buffer loses.                                               *)

(* Span s was pushed, no pop has returned it, and it is nowhere any more: in  *)
(* no cell of the spine and in the hands of no call.                          *)
Lost(s) ==
  /\ s \in inside
  /\ \A i \in DOMAIN cells : cells[i] # s
  /\ \A t \in Threads : item[t] # s

(* A push under way carries a span.                                           *)
Carrying == \A t \in Pushers : pc[t] \in PushSteps => item[t] \in Spans

(* A step that keeps what each call carries and adds no content to a cell.    *)
LEMMA KeepsLost ==
  ASSUME NEW s \in Spans, Lost(s), UNCHANGED <<inside, item>>,
         \A i \in DOMAIN cells' :
           cells'[i] = Junk \/ (i \in DOMAIN cells /\ cells'[i] = cells[i])
  PROVE  Lost(s)'
BY SentinelAssumption DEF Lost

(* No step finds a lost span again.                                           *)
LEMMA LostStep ==
  ASSUME TypeOK, [Next]_vars, NEW s \in Spans, Lost(s)
  PROVE  Lost(s)'
<1>0. /\ s \in inside /\ (\A i \in DOMAIN cells : cells[i] # s)
      /\ (\A t \in Threads : item[t] # s)
      /\ s # NoSpan /\ s # Junk /\ cells \in [DOMAIN cells -> Cells]
      /\ item \in [Threads -> Cells]
  BY SentinelAssumption DEF Lost, TypeOK
<1>1. ASSUME NEW t \in Pushers, NEW r \in Spans, PushClaim(t, r) PROVE Lost(s)'
  BY <1>0, <1>1 DEF PushClaim, Lost
<1>2. ASSUME NEW t \in Threads, PushGrow(t) PROVE Lost(s)'
  BY <1>2, KeepsLost DEF PushGrow
<1>3. ASSUME NEW t \in Threads, PushFill(t) \/ PopUndo(t) PROVE Lost(s)'
  <2>1. UNCHANGED <<cells, inside>> /\ item' = [item EXCEPT ![t] = NoSpan]
    BY <1>3 DEF PushFill, PopUndo, Return, shared
  <2>. QED
    BY <1>0, <2>1 DEF Lost
<1>4. ASSUME NEW t \in Threads, PushStore(t) PROVE Lost(s)'
  <2>1. /\ item' = [item EXCEPT ![t] = NoSpan] /\ inside' = inside
        /\ \/ cells' = cells
           \/ \E o \in DOMAIN cells : cells' = [cells EXCEPT ![o] = item[t]]
    BY <1>4 DEF PushStore, Return, InSpine
  <2>2. \A i \in DOMAIN cells' : cells'[i] # s
    BY <1>0, <2>1
  <2>. QED
    BY <1>0, <2>1, <2>2 DEF Lost
<1>5. ASSUME NEW t \in Threads, PopRead(t) PROVE Lost(s)'
  <2>. DEFINE o == Offset(cursor[t])
  <2>1. /\ UNCHANGED <<cells, inside>>
        /\ item' = [item EXCEPT ![t] = IF InSpine(spine, o) THEN cells[o] ELSE Junk]
    BY <1>5 DEF PopRead, shared
  <2>2. (IF InSpine(spine, o) THEN cells[o] ELSE Junk) # s
    BY <1>0 DEF InSpine
  <2>. QED
    BY <1>0, <2>1, <2>2 DEF Lost
<1>6. ASSUME NEW t \in Threads, PopClear(t) PROVE Lost(s)'
  <2>1. /\ item' = [item EXCEPT ![t] = NoSpan] /\ inside' = inside \ {item[t]}
        /\ \/ cells' = cells
           \/ \E o \in DOMAIN cells : cells' = [cells EXCEPT ![o] = NoSpan]
    BY <1>6 DEF PopClear, Return, InSpine
  <2>2. \A i \in DOMAIN cells' : cells'[i] # s
    BY <1>0, <2>1
  <2>. QED
    BY <1>0, <2>1, <2>2 DEF Lost
<1>7. CASE UNCHANGED <<cells, inside, item>>
  BY <1>7, KeepsLost
<1>. QED
  BY <1>1, <1>2, <1>3, <1>4, <1>5, <1>6, <1>7
     DEF Next, PushStep, PopStep, PushLoadLength, PushLock, PushRecheck, PushPublish,
         PushInstall, PushLocate, PopClaim, SwitchPhase, shared, locals, vars

LEMMA CarryingInit == Init => Carrying
BY RegimeAssumption DEF Init, Carrying, Threads, PushSteps

LEMMA CarryingStep == TypeOK /\ Carrying /\ [Next]_vars => Carrying'
<1>. SUFFICES ASSUME TypeOK, Carrying, [Next]_vars PROVE Carrying'
  OBVIOUS
<1>0. /\ pc \in [Threads -> {"idle"} \cup PushSteps \cup PopSteps]
      /\ item \in [Threads -> Cells] /\ Pushers \subseteq Threads
      /\ \A p \in Pushers : p \notin Poppers
  BY RegimeAssumption DEF TypeOK, Threads
<1>1. ASSUME NEW t \in Pushers, NEW s \in Spans, PushClaim(t, s) PROVE Carrying'
  BY <1>0, <1>1 DEF PushClaim, Goto, Carrying
<1>2. ASSUME NEW t \in Threads, item' = item, pc[t] \in PushSteps,
             \E to \in PushSteps : pc' = [pc EXCEPT ![t] = to]
      PROVE  Carrying'
  BY <1>0, <1>2 DEF Carrying
<1>3. ASSUME NEW t \in Threads, item' = [item EXCEPT ![t] = NoSpan],
             pc' = [pc EXCEPT ![t] = "idle"]
      PROVE  Carrying'
  BY <1>0, <1>3 DEF Carrying, PushSteps
<1>4. ASSUME NEW t \in Threads, pc' = [pc EXCEPT ![t] = "clear"],
             \A p \in Threads \ {t} : item'[p] = item[p]
      PROVE  Carrying'
  BY <1>0, <1>4 DEF Carrying, PushSteps
<1>5. ASSUME NEW t \in Poppers, PopClaim(t) PROVE Carrying'
  <2>1. item' = item /\ \A p \in Pushers : pc'[p] = pc[p]
    BY <1>0, <1>5 DEF PopClaim, Goto
  <2>. QED
    BY <2>1 DEF Carrying
<1>6. ASSUME NEW t \in Threads, PushStep(t) PROVE Carrying'
  <2>1. CASE PushFill(t) \/ PushStore(t)
    BY <1>3, <2>1 DEF PushFill, PushStore, Return, Goto
  <2>2. CASE ~ (PushFill(t) \/ PushStore(t))
    BY <1>2, <1>6, <2>2
       DEF PushStep, PushLoadLength, PushLock, PushRecheck, PushGrow, PushPublish,
           PushInstall, PushLocate, Goto, PushSteps, shared
  <2>. QED
    BY <2>1, <2>2
<1>7. ASSUME NEW t \in Threads, PopStep(t) PROVE Carrying'
  <2>1. CASE PopUndo(t) \/ PopClear(t)
    BY <1>3, <2>1 DEF PopUndo, PopClear, Return, Goto
  <2>2. CASE PopRead(t)
    BY <1>0, <1>4, <2>2 DEF PopRead, Goto
  <2>. QED
    BY <1>7, <2>1, <2>2 DEF PopStep
<1>8. CASE UNCHANGED <<pc, item>>
  BY <1>8 DEF Carrying
<1>. QED
  BY <1>1, <1>5, <1>6, <1>7, <1>8 DEF Next, SwitchPhase, locals, vars

(* The push that installs a block writes its span to memory that no slot      *)
(* refers to: when it returns, its span is lost.                              *)
LEMMA FillDrops ==
  ASSUME IInv, SpanInv, Carrying, NEW t \in Pushers, PushFill(t)
  PROVE  \E s \in Spans : item[t] = s /\ Lost(s)'
<1>1. /\ pc[t] = "fill" /\ item' = [item EXCEPT ![t] = NoSpan]
      /\ UNCHANGED <<cells, inside>>
  BY DEF PushFill, Return, Goto, shared
<1>2. item[t] \in Spans /\ item[t] \in inside /\ t \in Threads
  BY <1>1, SentinelAssumption DEF Carrying, PushSteps, SpanInv, Threads
<1>3. \A q \in Poppers : item[q] = NoSpan
  BY <1>1, <1>2, PushRole DEF PushSteps, SpanInv
<1>4. \A u \in Threads \ {t} : item[u] # item[t]
  BY <1>2, <1>3, SentinelAssumption DEF SpanInv, Threads
<1>5. \A i \in DOMAIN cells : cells[i] # item[t]
  BY <1>2 DEF SpanInv, NoSpanTwice
<1>6. \A u \in Threads : item'[u] # item[t]
  BY <1>1, <1>2, <1>4, SentinelAssumption DEF IInv, TypeOK
<1>7. \E r \in Spans : /\ item[t] = r /\ r \in inside'
                       /\ \A i \in DOMAIN cells' : cells'[i] # r
                       /\ \A u \in Threads : item'[u] # r
  BY <1>1, <1>2, <1>5, <1>6
<1>. QED
  BY <1>7 DEF Lost

(* What a program can know of the calls and the spans in the buffer.          *)
LEMMA Carried == Spec => [](IInv /\ SpanInv /\ Carrying)
<1>1. Init => IInv /\ SpanInv /\ Carrying
  BY InvInit, SpanInit, CarryingInit
<1>2. (IInv /\ SpanInv /\ Carrying) /\ [Next]_vars => (IInv /\ SpanInv /\ Carrying)'
  BY InvStep, SpanStep, CarryingStep DEF IInv
<1>. QED
  BY <1>1, <1>2, PTL DEF Spec

(* A lost span stays lost: no later call, of any thread, brings it back.      *)
THEOREM LostForGood ==
  ASSUME NEW s \in Spans
  PROVE  Spec => [](Lost(s) => []Lost(s))
<1>1. TypeOK /\ Lost(s) /\ [Next]_vars => Lost(s)'
  BY LostStep
<1>. QED
  BY <1>1, TypeCorrect, PTL DEF Spec

(* Every push that has to install a block loses its span (allocate_block      *)
(* stores the block through a local copy of the slot), so the buffer loses a  *)
(* span with each block, whatever the sizes and the number of threads.        *)
THEOREM InstallLosesTheSpan ==
  Spec => [][\A t \in Pushers : PushFill(t) =>
               \E s \in Spans : item[t] = s /\ Lost(s)']_vars
<1>1. IInv /\ SpanInv /\ Carrying =>
        [\A t \in Pushers : PushFill(t) =>
           \E s \in Spans : item[t] = s /\ Lost(s)']_vars
  BY FillDrops
<1>. QED
  BY <1>1, Carried, PTL

-------------------------------------------------------------------------------
(* A push that panics.                                                        *)

(* There is a spine as soon as there is a block, and get_spine_block is only  *)
(* called for a block that was counted.                                       *)
SpineThere ==
  /\ spine_cap > 0 => spine > 0 /\ live > 0
  /\ \A t \in Threads :
       /\ pc[t] = "publish" => live > 0
       /\ pc[t] \in {"locate", "store", "panicked"} => Top(cursor[t]) < spine_length
       /\ pc[t] = "panicked" => RelaxedMemory /\ Top(cursor[t]) = 0

LEMMA SpineThereInit == Init => SpineThere
BY DEF Init, SpineThere

LEMMA SpineThereStep == IInv /\ SpineThere /\ [Next]_vars => SpineThere'
<1>. SUFFICES ASSUME IInv, SpineThere, [Next]_vars PROVE SpineThere'
  OBVIOUS
<1>. USE DEF SpineThere
<1>0. /\ pc \in [Threads -> {"idle"} \cup PushSteps \cup PopSteps]
      /\ cursor \in [Threads -> Nat] /\ spine_length \in Nat /\ spine_cap \in Nat
      /\ spine \in Nat /\ live \in Nat /\ spine_length <= spine_cap
      /\ Pushers \subseteq Threads /\ Poppers \subseteq Threads
      /\ \A u \in Threads : Top(cursor[u]) \in Nat
  BY TopType DEF IInv, TypeOK, HolderKnows, Threads
<1>1. ASSUME NEW t \in Pushers, NEW s \in Spans, PushClaim(t, s) PROVE SpineThere'
  BY <1>0, <1>1 DEF PushClaim, Goto, Top
<1>2. ASSUME NEW t \in Threads, PushLoadLength(t) PROVE SpineThere'
  BY <1>0, <1>2 DEF PushLoadLength, Goto, shared, Top
<1>3. ASSUME NEW t \in Threads, PushLock(t) PROVE SpineThere'
  BY <1>0, <1>3 DEF PushLock, Goto, Top
<1>4. ASSUME NEW t \in Threads, PushRecheck(t) PROVE SpineThere'
  BY <1>0, <1>4 DEF PushRecheck, Goto, Top
<1>5. ASSUME NEW t \in Threads, PushGrow(t) PROVE SpineThere'
  <2>1. /\ pc' = [pc EXCEPT ![t] = "publish"]
        /\ UNCHANGED <<spine_length, spine_cap, spine, cursor>>
        /\ live' > 0 /\ live' >= live
    BY <1>0, <1>5 DEF PushGrow, Goto
  <2>. QED
    BY <1>0, <2>1 DEF Top
<1>6. ASSUME NEW t \in Threads, PushPublish(t) PROVE SpineThere'
  <2>1. /\ pc[t] = "publish" /\ pc' = [pc EXCEPT ![t] = "install"]
        /\ UNCHANGED <<spine_length, live, cursor>> /\ spine' = live
    BY <1>6 DEF PushPublish, Goto
  <2>. QED
    BY <1>0, <2>1 DEF Top
<1>7. ASSUME NEW t \in Threads, PushInstall(t) PROVE SpineThere'
  BY <1>0, <1>7 DEF PushInstall, Goto, Top
<1>8. ASSUME NEW t \in Threads, NEW from, Return(t, from),
             UNCHANGED <<spine_length, spine_cap, spine, live>>
      PROVE  SpineThere'
  BY <1>0, <1>8 DEF Return, Goto, Top
<1>9. ASSUME NEW t \in Threads, PushLocate(t) PROVE SpineThere'
  <2>1. /\ pc[t] = "locate" /\ UNCHANGED <<spine_length, spine_cap, spine, live, cursor>>
        /\ Top(cursor[t]) < spine_length /\ spine > 0
    BY <1>0, <1>9 DEF PushLocate, Goto, shared
  <2>2. PICK b \in IF RelaxedMemory THEN view[t] .. spine ELSE {spine} :
          pc' = [pc EXCEPT ![t] = IF b = 0 /\ Top(cursor[t]) = 0 THEN "panicked" ELSE "store"]
    BY <1>9 DEF PushLocate, Goto
  <2>3. b = 0 => RelaxedMemory
    BY <1>0, <2>1, <2>2, SizesAssumption
  <2>4. CASE b = 0 /\ Top(cursor[t]) = 0
    <3>1. pc' = [pc EXCEPT ![t] = "panicked"] /\ RelaxedMemory
      BY <2>2, <2>3, <2>4
    <3>. QED
      BY <1>0, <2>1, <2>4, <3>1 DEF Top
  <2>5. CASE ~ (b = 0 /\ Top(cursor[t]) = 0)
    <3>1. pc' = [pc EXCEPT ![t] = "store"]
      BY <2>2, <2>5
    <3>. QED
      BY <1>0, <2>1, <3>1 DEF Top
  <2>. QED
    BY <2>4, <2>5
<1>10. ASSUME NEW t \in Poppers, PopClaim(t) PROVE SpineThere'
  BY <1>0, <1>10 DEF PopClaim, Goto, Top
<1>11. ASSUME NEW t \in Threads, PopRead(t) PROVE SpineThere'
  BY <1>0, <1>11 DEF PopRead, Goto, shared, Top
<1>12. CASE SwitchPhase \/ UNCHANGED vars
  BY <1>12 DEF SwitchPhase, vars, shared, locals, Top
<1>. QED
  BY <1>1, <1>2, <1>3, <1>4, <1>5, <1>6, <1>7, <1>8, <1>9, <1>10, <1>11, <1>12
     DEF Next, PushStep, PopStep, PushFill, PushStore, PopUndo, PopClear, shared

(* A push panics in get_spine_block only when a Relaxed load returns the null *)
(* pointer the spine was before: the spine is there, the block of the push is *)
(* the first one and is counted, and the mutex is free, so that no other push *)
(* is held up.                                                                *)
THEOREM PanicIsStale ==
  Spec => [](\A t \in Threads : pc[t] = "panicked" =>
               /\ RelaxedMemory /\ spine > 0
               /\ Top(cursor[t]) = 0 /\ spine_length > 0
               /\ cap_holder # t)
<1>1. Init => IInv /\ SpineThere
  BY InvInit, SpineThereInit
<1>2. (IInv /\ SpineThere) /\ [Next]_vars => (IInv /\ SpineThere)'
  BY InvStep, SpineThereStep
<1>3. IInv /\ SpineThere =>
        \A t \in Threads : pc[t] = "panicked" =>
          /\ RelaxedMemory /\ spine > 0
          /\ Top(cursor[t]) = 0 /\ spine_length > 0
          /\ cap_holder # t
  <2>. SUFFICES ASSUME IInv, SpineThere, NEW t \in Threads, pc[t] = "panicked"
                PROVE  /\ RelaxedMemory /\ spine > 0
                       /\ Top(cursor[t]) = 0 /\ spine_length > 0
                       /\ cap_holder # t
    OBVIOUS
  <2>1. RelaxedMemory /\ Top(cursor[t]) = 0 /\ 0 < spine_length
    BY DEF SpineThere
  <2>2. spine > 0
    BY <2>1 DEF SpineThere, IInv, TypeOK, HolderKnows
  <2>3. cap_holder # t
    BY DEF IInv, Mutex, Holding
  <2>. QED
    BY <2>1, <2>2, <2>3
<1>. QED
  BY <1>1, <1>2, <1>3, PTL DEF Spec

-------------------------------------------------------------------------------
(* Why the stack of SweepBufferStack needs OneBlock: as get_spine_block takes *)
(* the address of a spine slot for the block, entry b of block k is the cell  *)
(* of entry b - 1 of block k + 1, so all but the first of the entries of a    *)
(* block share their cells with the next block.                               *)
THEOREM BlocksOverlap ==
  ASSUME NEW c \in Nat, Bottom(c) > 0
  PROVE  Offset(c + BlockEntries - 1) = Offset(c)
<1>. DEFINE N == BlockEntries
            k == Top(c)
            b == Bottom(c)
            d == c + N - 1
<1>1. N \in Nat \ {0} /\ k \in Nat /\ b \in 1 .. N - 1 /\ c = N * k + b
  BY TopType, SlotIs, SizesAssumption
<1>2. d \in Nat /\ Top(d) \in Nat
  BY <1>1, TopType
<1>3. d = N * (k + 1) + (b - 1)
  <2>. HIDE DEF k, b, N
  <2>. QED
    BY <1>1
<1>4. Top(d) = k + 1
  <2>1. k + 1 \in Nat /\ b - 1 \in 0 .. N - 1 /\ (k + 1) * N = N * (k + 1)
    BY <1>1
  <2>2. (k + 1) * N <= d /\ d < (k + 1) * N + N
    <3>1. N * (k + 1) \in Nat
      BY <1>1
    <3>. QED
      BY <1>1, <1>3, <2>1, <3>1
  <2>. QED
    BY <1>2, <2>1, <2>2, TopIs
<1>5. d = N * Top(d) + Bottom(d) /\ Bottom(d) \in 0 .. N - 1
  BY <1>2, SlotIs
<1>6. Bottom(d) = b - 1
  <2>1. N * (k + 1) \in Int
    BY <1>1
  <2>. DEFINE m == N * (k + 1)
  <2>2. d = m + (b - 1) /\ d = m + Bottom(d)
    BY <1>3, <1>4, <1>5
  <2>. HIDE DEF m, d, k, b
  <2>. QED
    BY <1>1, <1>5, <2>1, <2>2 DEF m
<1>. QED
  BY <1>1, <1>4, <1>6 DEF Offset
===============================================================================
