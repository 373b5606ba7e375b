--------------------------- MODULE SweepSystemProofs ---------------------------
(******************************************************************************)
(* That SystemIInv of SweepSystemInvariant is inductive, and that the         *)
(* composition implements BackgroundSweep, for any number of callers, spans   *)
(* and collections.                                                           *)
(*                                                                            *)
(* A step of the system is one of GcSweep, whose proofs say what becomes of   *)
(* buffers, spans and threads, or releases a batch of work buffers.           *)
(******************************************************************************)
EXTENDS SweepSystemInvariant, GcSweepProofs

(* The composition is the sweep of a complete release build under &mut self.  *)
LEMMA SystemIsCalm == Calm /\ Exclusive /\ FreshIsZero /\ Sweeper \in Threads
BY SystemAssumption DEF Calm

-------------------------------------------------------------------------------
(* Steps of the system as steps of the sweep.                                 *)

(* Every step but that of FreeWorkBuffers is a step of the sweep or none.     *)
LEMMA SystemSteps ==
  ASSUME [SystemNext]_systemVars
  PROVE  [Next]_vars \/ FreeWorkBuffers
<1>1. CASE SweeperSystemStep
  BY <1>1, SystemIsCalm
  DEF SweeperSystemStep, SweeperTask, SweeperCalls, SweeperSweeps, SweeperReturns, Next,
      SweepOneStep
<1>2. CASE EnableSystem \/ Wake
  BY <1>2 DEF EnableSystem, Wake
<1>3. CASE Collect \/ Mutate
  BY <1>3 DEF Collect, Mutate, Next
<1>4. ASSUME NEW t \in Threads, CallElsewhere(t) \/ StepElsewhere(t)
      PROVE  Next
  BY <1>4 DEF CallElsewhere, StepElsewhere, Next
<1>5. CASE UNCHANGED systemVars
  BY <1>5 DEF systemVars
<1> QED BY <1>1, <1>2, <1>3, <1>4, <1>5 DEF SystemNext

(* A batch of work buffers goes to the heap: what is on the list can be freed, *)
(* and nothing has poisoned the lock.                                         *)
Releases(batch) ==
  /\ batch \in SUBSET work_free /\ \A s \in batch : state[s] = "Manual"
  /\ state' = [s \in Spans |-> IF s \in batch THEN "Free" ELSE state[s]]
  /\ work_free' = work_free \ batch
  /\ BG!FreeWorkBuffers /\ NobodyRuns
  /\ UNCHANGED <<heapVars, bufferVars, lockedVars, span_gen, allocations_count, marked, live,
                 pc, call>>

LEMMA BatchForm ==
  ASSUME SystemIInv, FreeWorkBuffers
  PROVE  \E batch : Releases(batch)
<1>1. ~poisoned /\ \A s \in work_free : state[s] = "Manual" /\ CanFree(s)
  BY SystemIsCalm, SystemAssumption
  DEF SystemIInv, IInv, Alone, CalmSound, HeapNotPoisoned, WorkBuffersManual, CanFree
<1>2. PICK batch \in SUBSET work_free :
        /\ BatchFreed(batch)
        /\ IF Cardinality(batch) = Batch \/ batch = work_free
           THEN work_free' = work_free \ batch /\ UNCHANGED poisoned /\ BG!FreeWorkBuffers
           ELSE \E s \in work_free \ batch : poisoned \/ ~CanFree(s)
  BY DEF FreeWorkBuffers
<1>3. work_free' = work_free \ batch /\ UNCHANGED poisoned /\ BG!FreeWorkBuffers
  BY <1>1, <1>2
<1>4. \A s \in batch : state[s] = "Manual"
  BY <1>1
<1>5. pages_in_use' = pages_in_use
  BY <1>2, <1>4 DEF BatchFreed
<1> QED BY <1>2, <1>3, <1>4, <1>5 DEF Releases, BatchFreed, FreeWorkBuffers, lockedVars

(* The sweep does not notice that spans it has nothing to do with are freed:  *)
(* no call is under way, and a span that is managed by hand is in no buffer.  *)
LEMMA BatchKeepsInvariant ==
  ASSUME SystemIInv, FreeWorkBuffers
  PROVE  IInv'
<1>0. Overlapping /\ Alone /\ Exclusive
  BY SystemIsCalm DEF SystemIInv, IInv
<1>1. PICK batch : Releases(batch)
  BY BatchForm
<1>2. /\ UNCHANGED <<sweep_generation, sweep_done, sweepers, pages_swept>>
      /\ UNCHANGED <<sweep_buffers, has_block, pages_in_use, poisoned>>
      /\ UNCHANGED <<span_gen, allocations_count, marked, live, pc, call>>
  BY <1>1 DEF Releases, heapVars, bufferVars, lockedVars
<1>3. \A t \in Threads : pc'[t] \in {"idle", "panicked"} /\ ~Running(t) /\ ~Running(t)'
  BY <1>1, <1>2 DEF Releases, NobodyRuns, Running
<1>4. \A s \in Spans : \/ state'[s] = state[s]
                       \/ state[s] = "Manual" /\ state'[s] = "Free"
  BY <1>1 DEF Releases
<1>5. TypeOK'
  <2>1. SpanType'
    BY <1>0, <1>1, <1>2, Types DEF Releases, SpanType
  <2>2. CallType' /\ HeapType' /\ BufferType' /\ (sweepers \in Nat)'
    BY <1>0, <1>2, Types DEF CallType, HeapType, BufferType, Typed, Overlapping, TypeOK
  <2> QED BY <2>1, <2>2, TypeParts DEF TypeOK, CallType, HeapType, SpanType, BufferType, Typed,
         Buffers, Places, Calls
<1>6. Overlapping'
  <2>1. Shapes' /\ NothingBefore' /\ NoUnderflow'
    BY <1>0, <1>2 DEF Overlapping, Shapes, NothingBefore, Unswept, NoUnderflow
  <2>2. Counted'
    BY <1>0, <1>2 DEF Overlapping, Counted, Running
  <2>3. ManualEmpty'
    BY <1>0, <1>2, <1>4 DEF Overlapping, ManualEmpty
  <2>4. ClaimsSound' /\ LockSound' /\ PagesSound'
    BY <1>3 DEF ClaimsSound, Claiming, LockSound, PagesSound, PagesReturned, PopSteps, SweepSteps
  <2> QED BY <1>5, <2>1, <2>2, <2>3, <2>4 DEF Overlapping
<1>7. Alone'
  <2>1. \A b \in Buffers : Slots(b)' = Slots(b) /\ InBuffer(b)' = InBuffer(b)
    BY <1>2, BufferSame
  <2>2. OneRuns' /\ SpanSound' /\ LocalsSound' /\ FillSound'
    BY <1>3 DEF OneRuns, SpanSound, LocalsSound, FillSound, SweepSteps
  <2>3. FirstLost'
    BY <1>0, <1>2 DEF Alone, FirstLost, Filling
  <2>4. Drained' /\ Once' /\ CalmSound'
    BY <1>0, <1>2, <2>1 DEF Alone, Drained, Unswept, Once, CalmSound, HeapNotPoisoned, Calm
  <2>5. PushedSound'
    <3>1. Swept' = Swept /\ Swept \subseteq Spans
      BY <1>0, <1>2, <2>1, Types, QueuedSpans DEF Swept
    <3>2. \A s \in Swept : state'[s] = "InUse" /\ span_gen[s] # sweep_generation - 2
      BY <1>0, <1>4, <3>1 DEF Alone, PushedSound, Swept
    <3>3. \A s \in Spans, t \in Threads : ~Has(t, s)'
      BY <1>3 DEF Has, Claiming, SweepSteps
    <3> QED BY <1>2, <3>1, <3>2, <3>3 DEF PushedSound, Swept
  <2>6. WaitingSound'
    <3>1. Waiting' = Waiting /\ Waiting \subseteq Spans
      BY <1>0, <1>2, <2>1, Types, QueuedSpans DEF Waiting
    <3>2. \A s \in Waiting : state'[s] # "InUse" => span_gen[s] = sweep_generation
      BY <1>0, <1>4, <3>1 DEF Alone, WaitingSound, Waiting
    <3>3. \A t \in Threads : pc'[t] \notin {"load", "inspect"}
      BY <1>3
    <3> QED BY <1>2, <3>1, <3>2, <3>3 DEF WaitingSound, Waiting
  <2>7. MarksSound'
    BY <1>0, <1>2, <1>4 DEF Alone, MarksSound
  <2> QED BY <2>2, <2>3, <2>4, <2>5, <2>6, <2>7 DEF Alone
<1> QED BY <1>6, <1>7 DEF IInv

(* The invariant of the sweep holds in the composition.                       *)
LEMMA SweepInvariantStep ==
  ASSUME SystemIInv, [SystemNext]_systemVars
  PROVE  IInv'
BY SystemSteps, NextInvariant, BatchKeepsInvariant DEF SystemIInv

(* What is managed by hand stays so until its batch is released.              *)
LEMMA ManualStays ==
  ASSUME IInv, [SystemNext]_systemVars, ~FreeWorkBuffers,
         NEW s \in Spans, state[s] = "Manual"
  PROVE  state'[s] = "Manual"
<1>0. Overlapping /\ SpanType
  BY Types DEF IInv
<1>1. ASSUME NEW t \in Threads, StepOf(t) PROVE state'[s] = "Manual"
  BY <1>0, <1>1, ThreadChanges DEF ThreadChange, Kept, Claimed, Released, Freed
<1>2. CASE SweeperSystemStep
  <2>1. StepOf(Sweeper) \/ UNCHANGED vars
    BY <1>2 DEF SweeperSystemStep, SweeperTask, SweeperCalls, SweeperSweeps, SweeperReturns,
       StepOf, SweepOneStep
  <2> QED BY <1>1, <2>1, SystemIsCalm DEF vars, spanVars
<1>3. CASE EnableSystem \/ Wake \/ UNCHANGED systemVars
  BY <1>3 DEF EnableSystem, Wake, systemVars, vars, spanVars
<1>4. CASE Collect \/ Mutate
  BY <1>0, <1>4 DEF Collect, StartCycle, Mutate, AllocateSpan, AllocateManual, SpanType
<1>5. ASSUME NEW t \in Threads, CallElsewhere(t) \/ StepElsewhere(t) PROVE state'[s] = "Manual"
  BY <1>1, <1>5 DEF CallElsewhere, StepElsewhere, StepOf
<1> QED BY <1>2, <1>3, <1>4, <1>5 DEF SystemNext

(* Only a collection puts spans on the list, and those are managed by hand.   *)
LEMMA WorkBuffersStep ==
  ASSUME SystemIInv, [SystemNext]_systemVars
  PROVE  work_free' \subseteq Spans /\ WorkBuffersManual'
<1>1. ManualEmpty'
  BY SweepInvariantStep DEF IInv, Overlapping
<1>2. SUFFICES \A s \in work_free' : s \in Spans /\ state'[s] = "Manual"
  BY <1>1 DEF ManualEmpty, WorkBuffersManual
<1>3. CASE FreeWorkBuffers
  <2>1. PICK batch : Releases(batch)
    BY <1>3, BatchForm
  <2> QED BY <2>1 DEF Releases, SystemIInv, WorkBuffersManual
<1>4. CASE ~FreeWorkBuffers
  <2>1. \A s \in work_free : s \in Spans /\ state'[s] = "Manual"
    BY <1>4, ManualStays DEF SystemIInv, WorkBuffersManual
  <2>2. CASE Collect
    <3>1. \A s \in Spans : state'[s] = state[s]
      BY <2>2 DEF Collect, StartCycle
    <3>2. work_free' \subseteq work_free \cup {s \in Spans : state[s] = "Manual"}
      BY <2>2 DEF Collect
    <3> QED BY <2>1, <3>1, <3>2
  <2>3. CASE ~Collect
    <3>1. work_free' = work_free
      BY <1>4, <2>3 DEF SystemNext, SweeperSystemStep, SweeperTask, SweeperCalls, SweeperSweeps,
         SweeperReturns, EnableSystem, Wake, Mutate, CallElsewhere, StepElsewhere, systemVars
    <3> QED BY <2>1, <3>1
  <2> QED BY <2>2, <2>3
<1> QED BY <1>3, <1>4

(* A thread that was idle is busy only after the begin of a call.             *)
LEMMA IdleStays ==
  ASSUME CallType, NEW t \in Threads, SweepOneStep(t) \/ SweepStep(t)
  PROVE  pc[t] # "idle" /\ \A u \in Threads \ {t} : pc'[u] = pc[u] /\ call'[u] = call[u]
<1>1. \A u \in Threads \ {t} : pc'[u] = pc[u] /\ call'[u] = call[u]
  BY OthersKeep DEF StepOf
<1>2. CASE SweepOneEnd(t) \/ FreeLocked(t) \/ PushFill(t)
  BY <1>1, <1>2 DEF SweepOneEnd, FreeLocked, PushFill, Return, Goto
<1>3. CASE SweepOneStep(t) /\ ~SweepOneEnd(t)
  BY <1>1, <1>3, PopWithin DEF PopSteps
<1>4. CASE SweepStep(t) /\ ~FreeLocked(t) /\ ~PushFill(t)
  BY <1>1, <1>4, SweepWithin DEF SweepSteps
<1> QED BY <1>2, <1>3, <1>4

(* The task of the sweeper and its thread are in step.                        *)
LEMMA TaskStep ==
  ASSUME SystemIInv, [SystemNext]_systemVars
  PROVE  TaskSound'
<1>0. CallType /\ TaskSound /\ Sweeper \in Threads
  BY SystemIsCalm, Types DEF SystemIInv, IInv
<1>1. CASE SweeperTask
  BY <1>0, <1>1 DEF SweeperTask, vars, TaskSound, BG!SetupLock, BG!SetupSignal, BG!SetupInstall,
     BG!Await, BG!ParkLock, BG!ParkCheck, BG!AwaitAgain, BG!Goto
<1>2. CASE SweeperCalls
  BY <1>0, <1>2
  DEF SweeperCalls, SweepOneBegin, SweepOneDone, MayCall, vars, restOfTask, TaskSound
<1>3. CASE SweeperSweeps
  BY <1>0, <1>3, IdleStays DEF SweeperSweeps, taskVars, TaskSound
<1>4. CASE SweeperReturns
  BY <1>0, <1>4 DEF SweeperReturns, SweepOneEnd, Goto, restOfTask, TaskSound, CallType
<1>5. CASE FreeWorkBuffers
  <2>1. PICK batch : Releases(batch)
    BY <1>5, BatchForm
  <2> QED BY <1>0, <2>1 DEF Releases, TaskSound, BG!FreeWorkBuffers
<1>6. CASE EnableSystem
  BY <1>0, <1>6 DEF EnableSystem, vars, TaskSound, BG!Enable, BG!EnableReturn
<1>7. CASE Collect \/ Wake
  BY <1>0, <1>7 DEF Collect, Wake, StartCycle, vars, TaskSound, BG!StartCycle, BG!UnparkLock,
     BG!Unpark
<1>8. CASE Mutate
  BY <1>0, <1>8 DEF Mutate, AllocateSpan, AllocateManual, taskVars, TaskSound
<1>9. ASSUME NEW t \in Threads \ {Sweeper}, CallElsewhere(t) PROVE TaskSound'
  <2>1. pc'[Sweeper] = pc[Sweeper]
    BY <1>0, <1>9, OthersKeep DEF CallElsewhere, StepOf
  <2> QED BY <1>0, <1>9, <2>1 DEF CallElsewhere, taskVars, TaskSound
<1>10. ASSUME NEW t \in Threads \ {Sweeper}, StepElsewhere(t) PROVE TaskSound'
  BY <1>0, <1>10, IdleStays DEF StepElsewhere, taskVars, TaskSound
<1>11. CASE UNCHANGED systemVars
  BY <1>0, <1>11 DEF systemVars, vars, taskVars, TaskSound
<1> QED BY <1>1, <1>2, <1>3, <1>4, <1>5, <1>6, <1>7, <1>8, <1>9, <1>10, <1>11
    DEF SystemNext, SweeperSystemStep

-------------------------------------------------------------------------------
(* The invariant of the composition.                                          *)

(* The sweep, the task and the work buffers stay as SystemIInv says, in every *)
(* interleaving of the sweeper with callers, collections and allocations.     *)
THEOREM SystemInvariant == SystemSpec => []SystemIInv
<1>1. SystemInit => SystemIInv
  <2> SUFFICES ASSUME SystemInit PROVE SystemIInv
    OBVIOUS
  <2>1. Init /\ work_free = {} /\ enabling = "idle" /\ sweeper = "none"
    BY DEF SystemInit, BG!Init
  <2>2. TaskSound
    BY <2>1, SystemIsCalm DEF Init, TaskSound
  <2>3. WorkBuffersManual
    BY <2>1 DEF WorkBuffersManual
  <2> QED BY <2>1, <2>2, <2>3, InitInvariant DEF SystemIInv
<1>2. SystemIInv /\ [SystemNext]_systemVars => SystemIInv'
  BY SweepInvariantStep, WorkBuffersStep, TaskStep DEF SystemIInv
<1> QED BY <1>1, <1>2, PTL DEF SystemSpec

(* A span on the list of free work buffers is managed by hand and empty: no   *)
(* panic of free_manual_span is reached and no span is given back twice.      *)
THEOREM WorkBuffersAreManual == SystemSpec => []WorkBuffersManual
<1>1. SystemIInv => WorkBuffersManual
  BY DEF SystemIInv
<1> QED BY <1>1, SystemInvariant, PTL

(* In the composition too the counter of sweepers is exact and buffers hold   *)
(* spans once, the sweeper's calls among those of others.                     *)
THEOREM SystemSweepsSoundly == SystemSpec => [](SweepersExact /\ OnceInBuffer)
<1>1. SystemIInv => SweepersExact /\ OnceInBuffer
  BY SystemIsCalm, CalmCounts, AloneQueues DEF SystemIInv
<1> QED BY <1>1, SystemInvariant, PTL

-------------------------------------------------------------------------------
(* What the sweep promises, and what it loses, in the composition.            *)

(* The release of work buffers is a step of the life of every span too.       *)
LEMMA SystemLifeStep ==
  ASSUME SystemIInv, [SystemNext]_systemVars, NEW s \in Spans
  PROVE  /\ Life(s)!Next \/ UNCHANGED LifeOf(s)
         /\ state[s] = "InUse" /\ state'[s] = "Free" =>
              live[s] = 0 /\ span_gen[s] = sweep_generation
<1>1. CASE [Next]_vars
  BY <1>1, LifeStep, LiveStep, SystemIsCalm DEF SystemIInv
<1>2. CASE FreeWorkBuffers
  <2>1. PICK batch : Releases(batch)
    BY <1>2, BatchForm
  <2>2. UNCHANGED <<sweep_generation, span_gen>>
    BY <2>1 DEF Releases, heapVars
  <2>3. CASE s \in batch
    <3>1. state[s] = "Manual" /\ state'[s] = "Free"
      BY <2>1, <2>3 DEF Releases
    <3>2. LifeOf(s) = "manual" /\ LifeOf(s)' = "free"
      BY <3>1 DEF LifeOf
    <3> QED BY <3>1, <3>2 DEF Life!Next, Life!FreeManual, Life!From
  <2>4. CASE s \notin batch
    <3>1. state'[s] = state[s]
      BY <2>1, <2>4 DEF Releases
    <3>2. LifeOf(s)' = LifeOf(s)
      BY <2>2, <3>1 DEF LifeOf
    <3> QED BY <3>1, <3>2
  <2> QED BY <2>3, <2>4
<1> QED BY <1>1, <1>2, SystemSteps

(* Every span lives as promised, and none is freed with a live object in it,  *)
(* also between the sweeper's task, collections and releases of work buffers. *)
THEOREM SystemLivesAsPromised ==
  SystemSpec => /\ \A s \in Spans : Life(s)!Init
                /\ [][\A s \in Spans : /\ Life(s)!Next \/ UNCHANGED LifeOf(s)
                                       /\ state[s] = "InUse" /\ state'[s] = "Free" =>
                                            live[s] = 0 /\ span_gen[s] = sweep_generation
                     ]_systemVars
<1>1. SystemInit => \A s \in Spans : Life(s)!Init
  BY DEF SystemInit, Init, LifeOf, Life!Init
<1>2. SystemIInv /\ [SystemNext]_systemVars =>
        [\A s \in Spans : /\ Life(s)!Next \/ UNCHANGED LifeOf(s)
                          /\ state[s] = "InUse" /\ state'[s] = "Free" =>
                               live[s] = 0 /\ span_gen[s] = sweep_generation
        ]_systemVars
  BY SystemLifeStep
<1> QED BY <1>1, <1>2, SystemInvariant, PTL DEF SystemSpec

(* The sweeper makes no call of its own to sweep, and only a call made by who *)
(* has claimed the span gets there.                                           *)
LEMMA SweeperStep ==
  ASSUME SystemIInv, [SystemNext]_systemVars, pc[Sweeper] \notin SweepSteps
  PROVE  pc'[Sweeper] \notin SweepSteps
<1>0. CallType /\ Sweeper \in Threads /\ Overlapping
  BY SystemIsCalm, Types DEF SystemIInv, IInv
<1> SUFFICES ASSUME pc'[Sweeper] \in SweepSteps PROVE FALSE
  OBVIOUS
<1>1. call'[Sweeper].direct
  BY <1>0, SweepInvariantStep, SystemIsCalm DEF IInv, Alone, SpanSound
<1>2. CASE SweepOneBegin(Sweeper) \/ SweepOneEnd(Sweeper)
  BY <1>0, <1>2 DEF SweepOneBegin, SweepOneEnd, Goto, CallType, SweepSteps
<1>3. CASE SweepOneStep(Sweeper) /\ ~SweepOneEnd(Sweeper)
  <2>1. pc[Sweeper] \in PopSteps /\ call'[Sweeper].direct = call[Sweeper].direct
    BY <1>0, <1>3, PopWithin
  <2>2. ~call[Sweeper].direct
    BY <1>0, <2>1 DEF Overlapping, Counted
  <2> QED BY <1>1, <2>1, <2>2
<1>4. CASE SweepStep(Sweeper)
  <2>1. FreeLocked(Sweeper) \/ PushFill(Sweeper) => pc[Sweeper] \in SweepSteps
    BY DEF FreeLocked, PushFill, Return, Goto, SweepSteps
  <2> QED BY <1>0, <1>4, <2>1, SweepWithin
<1>5. CASE pc'[Sweeper] = pc[Sweeper]
  BY <1>5
<1>6. CASE SweeperSystemStep
  <2>1. CASE FreeWorkBuffers
    BY <1>5, <2>1 DEF FreeWorkBuffers, BatchFreed
  <2> QED
    BY <1>2, <1>3, <1>4, <1>5, <1>6, <2>1
    DEF SweeperSystemStep, SweeperTask, SweeperCalls, SweepOneDone, SweeperSweeps,
        SweeperReturns, vars
<1>7. CASE EnableSystem \/ Wake \/ Collect \/ Mutate \/ UNCHANGED systemVars
  BY <1>5, <1>7 DEF EnableSystem, Wake, Collect, StartCycle, Mutate, AllocateSpan,
     AllocateManual, systemVars, vars
<1>8. ASSUME NEW t \in Threads \ {Sweeper}, CallElsewhere(t) \/ StepElsewhere(t)
      PROVE  pc'[Sweeper] = pc[Sweeper]
  <2>1. StepOf(t)
    BY <1>8 DEF CallElsewhere, StepElsewhere, StepOf
  <2> QED BY <1>0, <2>1, OthersKeep
<1> QED BY <1>5, <1>6, <1>7, <1>8 DEF SystemNext

(* The background sweeper sweeps nothing, in a complete build and however     *)
(* long the system runs: it pops the spans of the unswept list and drops them,*)
(* and sweep runs only for callers who claim a span themselves.               *)
THEOREM SweeperNeverSweeps == SystemSpec => [](pc[Sweeper] \notin SweepSteps)
<1>1. SystemInit => pc[Sweeper] \notin SweepSteps
  BY SystemIsCalm DEF SystemInit, Init, SweepSteps
<1>2. SystemIInv /\ pc[Sweeper] \notin SweepSteps /\ [SystemNext]_systemVars =>
        (pc[Sweeper] \notin SweepSteps)'
  BY SweeperStep
<1> QED BY <1>1, <1>2, SystemInvariant, PTL DEF SystemSpec

(* A span that is lost stays lost in the composition.                         *)
LEMMA SystemAbandonedStep ==
  ASSUME SystemIInv, [SystemNext]_systemVars, NEW s \in Spans, Abandoned(s)
  PROVE  Abandoned(s)'
<1>1. CASE [Next]_vars
  BY <1>1, AbandonedStep DEF SystemIInv
<1>2. CASE FreeWorkBuffers
  <2>1. PICK batch : Releases(batch)
    BY <1>2, BatchForm
  <2>2. UNCHANGED <<sweep_generation, span_gen, pc, call>>
    BY <2>1 DEF Releases, heapVars
  <2>3. state'[s] = "InUse"
    BY <2>1 DEF Releases, Abandoned
  <2> QED BY <2>2, <2>3 DEF Abandoned, Held, Has
<1> QED BY <1>1, <1>2, SystemSteps

(* Each span that sweep_one claims, for the sweeper or for another caller, is *)
(* lost: from then on it is in use, never swept, freed or allocated from.     *)
THEOREM SystemLosesSpans ==
  SystemSpec =>
    /\ [][\A t \in Threads : Claim(t) => Abandoned(call[t].span)']_systemVars
    /\ \A s \in Spans : [](Abandoned(s) => [](Abandoned(s) /\ state[s] = "InUse"))
<1>1. SystemIInv /\ [SystemNext]_systemVars =>
        [\A t \in Threads : Claim(t) => Abandoned(call[t].span)']_systemVars
  BY ClaimDrops, SystemIsCalm DEF SystemIInv
<1>2. ASSUME NEW s \in Spans
      PROVE  SystemSpec => [](Abandoned(s) => [](Abandoned(s) /\ state[s] = "InUse"))
  <2>1. SystemIInv /\ [SystemNext]_systemVars /\ Abandoned(s) => Abandoned(s)'
    BY SystemAbandonedStep
  <2>2. Abandoned(s) => state[s] = "InUse"
    BY DEF Abandoned
  <2> QED BY <2>1, <2>2, SystemInvariant, PTL DEF SystemSpec
<1>3. SystemSpec => [][\A t \in Threads : Claim(t) => Abandoned(call[t].span)']_systemVars
  BY <1>1, SystemInvariant, PTL DEF SystemSpec
<1> QED BY <1>2, <1>3

-------------------------------------------------------------------------------
(* The composition implements BackgroundSweep.                                *)

(* Counting the slots of a buffer.                                            *)
LEMMA SlotsCounted ==
  ASSUME NEW n \in Nat, NEW S, S \subseteq 1 .. n
  PROVE  IsFiniteSet(S) /\ Cardinality(S) \in Nat
<1>1. IsFiniteSet(1 .. n)
  BY FS_Interval
<1> QED BY <1>1, FS_Subset, FS_CardinalityType

LEMMA OneLess ==
  ASSUME NEW S, IsFiniteSet(S), NEW x \in S
  PROVE  Cardinality(S) > 0 /\ Cardinality(S \ {x}) = Cardinality(S) - 1
<1>1. Cardinality(S) \in Nat /\ Cardinality(S) # 0
  BY FS_CardinalityType, FS_EmptySet
<1>2. Cardinality(S \ {x}) = Cardinality(S) - 1
  BY FS_RemoveElement
<1> QED BY <1>1, <1>2

(* A pop of the unswept buffer takes a span of those that wait, or finds that *)
(* there was none.                                                            *)
LEMMA PopCounts ==
  ASSUME IInv, NEW t \in Threads, Pops(t)
  PROVE  /\ Queued \in Nat
         /\ LastSlot(t) = NoSpan => Queued = 0 /\ Queued' = 0
         /\ LastSlot(t) # NoSpan => Queued > 0 /\ Queued' = Queued - 1
<1>0. Overlapping /\ Alone /\ Exclusive
  BY SystemIsCalm DEF IInv
<1> PICK b, top : b = Popable(sweep_generation) /\ top = Len(sweep_buffers[b])
  OBVIOUS
<1> DEFINE old == sweep_buffers[b]
           new == sweep_buffers'[b]
<1>1. Typed /\ b \in Buffers
  BY <1>0, Types
<1>2. /\ old # <<>> /\ LastSlot(t) = old[top] /\ sweep_generation' = sweep_generation
      /\ sweep_buffers' = [sweep_buffers EXCEPT ![b] = SubSeq(@, 1, Len(@) - 1)]
      /\ pc[t] = "pop"
  BY <1>0, PopForm
<1>3. /\ top \in Nat \ {0} /\ DOMAIN old = 1 .. top
      /\ Len(new) = top - 1
      /\ \A i \in 1 .. top - 1 : new[i] = old[i]
  BY <1>1, <1>2, PopEffect
<1>4. Slots(b) = {i \in 1 .. top : old[i] # NoSpan}
  BY DEF Slots
<1>5. Slots(b)' = {i \in 1 .. top - 1 : old[i] # NoSpan}
  BY <1>3 DEF Slots
<1>6. IsFiniteSet(Slots(b)) /\ Cardinality(Slots(b)) \in Nat
  BY <1>3, <1>4, SlotsCounted
<1>7. Queued = Cardinality(Slots(b)) /\ Queued' = Cardinality(Slots(b)')
  BY <1>2 DEF Queued
<1>8. CASE old[top] = NoSpan
  <2>1. ~Filling(b)
    BY <1>0, Types DEF Filling
  <2>2. top \in DOMAIN old /\ b \in Buffers
    BY <1>0, <1>3, Types
  <2>3. top = 1
    BY <1>0, <1>8, <2>1, <2>2 DEF Alone, FirstLost
  <2>4. Slots(b) = {} /\ Slots(b)' = {}
    BY <1>4, <1>5, <1>8, <2>3
  <2> QED BY <1>2, <1>7, <1>8, <2>4, FS_EmptySet
<1>9. CASE old[top] # NoSpan
  <2>1. Slots(b)' = Slots(b) \ {top} /\ top \in Slots(b)
    BY <1>3, <1>4, <1>5, <1>9
  <2>2. Cardinality(Slots(b)) > 0 /\ Cardinality(Slots(b) \ {top}) = Cardinality(Slots(b)) - 1
    BY <1>6, <2>1, OneLess
  <2>3. Queued \in Nat /\ Queued > 0 /\ Queued' = Queued - 1
    BY <1>6, <1>7, <2>1, <2>2
  <2>4. LastSlot(t) # NoSpan
    BY <1>2, <1>9
  <2> QED BY <2>3, <2>4
<1> QED BY <1>8, <1>9

(* Any other step leaves the unswept buffer alone: a push is to the other.    *)
LEMMA QueueKept ==
  ASSUME IInv, [Next]_vars, UNCHANGED sweep_generation, \A t \in Threads : ~Pops(t)
  PROVE  Queued' = Queued
<1>0. Overlapping
  BY DEF IInv
<1> PICK p, q : p = Pushable(sweep_generation) /\ q = Popable(sweep_generation)
  OBVIOUS
<1>1. Typed /\ p \in Buffers /\ q \in Buffers /\ p # q
  BY <1>0, Types
<1>2. SUFFICES sweep_buffers'[q] = sweep_buffers[q]
  BY DEF Queued, Slots
<1>3. CASE UNCHANGED bufferVars
  BY <1>3 DEF bufferVars
<1>4. ASSUME NEW s \in Spans, AllocateSpan(s) PROVE sweep_buffers'[q] = sweep_buffers[q]
  <2>1. PICK x : Appends(p, x)
    BY <1>0, <1>1, <1>4, AllocateForm DEF Appends
  <2>2. OthersSame(p)
    BY <2>1, AppendEffect DEF Appended
  <2> QED BY <1>1, <2>2, OtherBuffer
<1>5. ASSUME NEW t \in Threads, SweepPush(t) PROVE sweep_buffers'[q] = sweep_buffers[q]
  <2>1. Appends(p, NoSpan)
    BY <1>0, <1>1, <1>5, PushForm DEF Appends
  <2>2. OthersSame(p)
    BY <2>1, AppendEffect DEF Appended
  <2> QED BY <1>1, <2>2, OtherBuffer
<1>6. ASSUME NEW t \in Threads, PushFill(t) PROVE sweep_buffers'[q] = sweep_buffers[q]
  <2> PICK i, s : i = call[t].slot /\ s = call[t].span
    OBVIOUS
  <2>1. sweep_buffers' = sweep_buffers \/ Fills(p, i, s)
    BY <1>0, <1>1, <1>6, FillForm DEF Fills
  <2>2. ASSUME Fills(p, i, s) PROVE sweep_buffers'[q] = sweep_buffers[q]
    <3>1. OthersSame(p)
      BY <2>2, FillEffect DEF Filled
    <3> QED BY <1>1, <3>1, OtherBuffer
  <2> QED BY <2>1, <2>2
<1> QED BY <1>3, <1>4, <1>5, <1>6, BufferStep

(* What BackgroundSweep sees of a step of the sweep: nothing, or that a span  *)
(* was taken from those that wait, or that there was none.                    *)
Still == UNCHANGED <<sweep_done, sweep_generation, Queued>>
Drawn ==
  /\ ~sweep_done /\ UNCHANGED sweep_generation
  /\ IF Queued = 0 THEN sweep_done' = TRUE /\ UNCHANGED Queued
     ELSE Queued' = Queued - 1 /\ UNCHANGED sweep_done

(* A span is drawn by its pop, and the end of the buffer by the step that     *)
(* remembers it; what follows, up to the push on the other buffer, is not     *)
(* seen.                                                                      *)
LEMMA SweepIsSeen ==
  ASSUME IInv, NEW t \in Threads, SweepOneStep(t) \/ SweepStep(t)
  PROVE  Still \/ Drawn
<1>0. Overlapping /\ Alone /\ CallType /\ [Next]_vars /\ StepOf(t)
  BY SystemIsCalm, Types DEF IInv, Next, StepOf
<1>1. sweep_generation' = sweep_generation /\ (SweepingDone(t) \/ sweep_done' = sweep_done)
  BY <1>0, ThreadKeeps
<1>2. Unswept # <<>> => ~sweep_done
  BY <1>0 DEF Alone, Drained
<1>3. Unswept = <<>> => Queued = 0
  <2>1. Unswept = <<>> => Slots(Popable(sweep_generation)) = {}
    BY DEF Unswept, Slots
  <2> QED BY <2>1, FS_EmptySet DEF Queued
<1>4. CASE Pops(t)
  <2>1. Unswept # <<>> /\ sweep_done' = sweep_done
    BY <1>0, <1>1, <1>4, PopForm DEF SweepingDone, Goto
  <2> QED BY <1>1, <1>2, <1>4, <2>1, PopCounts DEF Still, Drawn
<1>5. CASE ~Pops(t)
  <2>1. \A u \in Threads : ~Pops(u)
    <3>1. \A u \in Threads \ {t} : Pops(u) => pc[u] = "pop"
      BY <1>0, PopForm
    <3>2. \A u \in Threads \ {t} : ~Running(u)
      BY <1>0, SystemIsCalm, Actor DEF Alone
    <3> QED BY <1>5, <3>1, <3>2 DEF Running
  <2>2. Queued' = Queued
    BY <1>0, <1>1, <2>1, QueueKept
  <2>3. CASE SweepingDone(t)
    <3>1. Unswept = <<>> /\ sweep_done' = TRUE
      BY <1>0, <2>3 DEF SweepingDone, Goto, Alone, Drained
    <3>2. sweep_done \in BOOLEAN
      BY <1>0, Types DEF HeapType
    <3> QED BY <1>1, <1>3, <2>2, <3>1, <3>2 DEF Still, Drawn
  <2> QED BY <1>1, <2>2, <2>3 DEF Still
<1> QED BY <1>4, <1>5

(* Such a step is one of BackgroundSweep, if the task does nothing.           *)
LEMMA SeenElsewhere ==
  ASSUME Still \/ Drawn, UNCHANGED <<taskVars, work_free>>
  PROVE  [BG!Next]_(BG!vars)
<1>1. UNCHANGED <<enabling, setup, sweeper, parked, guard, park_poisoned, sender, messages,
                  completed, collector, work_free>>
  BY DEF taskVars
<1>2. CASE Still
  BY <1>1, <1>2 DEF Still, BG!vars, BG!mutexVars, BG!channelVars, BG!heapVars
<1>3. CASE Drawn
  <2>1. BG!SweepElsewhere
    BY <1>1, <1>3 DEF Drawn, BG!SweepElsewhere, BG!mutexVars, BG!channelVars
  <2> QED BY <2>1 DEF BG!Next
<1> QED BY <1>2, <1>3

(* A step of the sweep that takes no span is not seen.                        *)
LEMMA Unseen ==
  ASSUME IInv, UNCHANGED <<sweep_generation, sweep_done, sweep_buffers>>
  PROVE  Still
BY DEF Still, Queued, Slots

(* Every step of the system is one of BackgroundSweep or none of it.          *)
LEMMA BackgroundStep ==
  ASSUME SystemIInv, [SystemNext]_systemVars
  PROVE  [BG!Next]_(BG!vars)
<1>0. IInv /\ Overlapping /\ Sweeper \in Threads
  BY SystemIsCalm DEF SystemIInv, IInv
<1>1. CASE SweeperTask
  BY <1>1 DEF SweeperTask, BG!Next, BG!SweeperStep
<1>2. CASE SweeperCalls
  <2>1. UNCHANGED <<enabling, setup, parked, guard, park_poisoned, sender, messages, completed,
                    collector, work_free, sweep_buffers, sweep_generation, sweep_done>>
    BY <1>2 DEF SweeperCalls, restOfTask, SweepOneBegin, SweepOneDone, vars, heapVars, bufferVars
  <2>2. Queued' = Queued
    BY <1>0, <2>1, Unseen DEF Still
  <2>3. CASE SweepOneBegin(Sweeper) /\ UNCHANGED sweeper
    BY <2>1, <2>2, <2>3 DEF BG!vars, BG!mutexVars, BG!channelVars, BG!heapVars
  <2>4. CASE SweepOneDone(Sweeper) /\ sweeper' = "free"
    <3>1. BG!SweepOne
      BY <1>2, <2>1, <2>2, <2>4
      DEF SweeperCalls, SweepOneDone, BG!SweepOne, BG!mutexVars, BG!channelVars, BG!heapVars
    <3> QED BY <3>1 DEF BG!Next, BG!SweeperStep
  <2> QED BY <1>2, <2>3, <2>4 DEF SweeperCalls
<1>3. CASE SweeperSweeps
  BY <1>0, <1>3, SweepIsSeen, SeenElsewhere DEF SweeperSweeps
<1>4. CASE SweeperReturns
  <2>1. UNCHANGED <<enabling, setup, parked, guard, park_poisoned, sender, messages, completed,
                    collector, work_free, sweep_buffers, sweep_generation, sweep_done>>
    BY <1>4 DEF SweeperReturns, restOfTask, SweepOneEnd, bufferVars
  <2>2. Queued' = Queued
    BY <1>0, <2>1, Unseen DEF Still
  <2>3. CASE call[Sweeper].pages = NothingLeft
    <3>1. pc[Sweeper] = "end"
      BY <1>4 DEF SweeperReturns, SweepOneEnd, Goto
    <3>2. Returns(Sweeper)
      BY <1>0, OverlappingParts DEF CallSound
    <3>3. \A s \in Spans : Pages[s] # NothingLeft
      BY PagesType DEF NothingLeft
    <3>4. NothingLeft # 0
      BY ParametersAssumption DEF NothingLeft
    <3>5. sweep_done
      BY <2>3, <3>1, <3>2, <3>3, <3>4 DEF Returns
    <3>6. BG!SweepOne
      BY <1>4, <2>1, <2>2, <2>3, <3>5
      DEF SweeperReturns, BG!SweepOne, BG!mutexVars, BG!channelVars, BG!heapVars
    <3> QED BY <3>6 DEF BG!Next, BG!SweeperStep
  <2>4. CASE call[Sweeper].pages # NothingLeft
    BY <1>4, <2>1, <2>2, <2>4
    DEF SweeperReturns, BG!vars, BG!mutexVars, BG!channelVars, BG!heapVars
  <2> QED BY <2>3, <2>4
<1>5. CASE FreeWorkBuffers
  BY <1>5, BatchForm DEF Releases, BG!Next, BG!SweeperStep
<1>6. CASE EnableSystem \/ Collect \/ Wake
  BY <1>6 DEF EnableSystem, Collect, Wake, BG!Next
<1>7. CASE Mutate
  <2>1. [Next]_vars /\ UNCHANGED <<sweep_generation, sweep_done>> /\ NobodyRuns
    BY <1>7 DEF Mutate, Next, AllocateSpan, AllocateManual, heapVars
  <2>2. \A t \in Threads : ~Pops(t)
    BY <2>1 DEF NobodyRuns, Running, Pops, PopSpan, PopNone, PopWild, Goto
  <2>3. Queued' = Queued
    BY <1>0, <2>1, <2>2, QueueKept
  <2> QED BY <1>7, <2>1, <2>3, SeenElsewhere DEF Mutate, Still
<1>8. ASSUME NEW t \in Threads, CallElsewhere(t) PROVE [BG!Next]_(BG!vars)
  <2>1. UNCHANGED <<sweep_generation, sweep_done, sweep_buffers>>
    BY <1>8 DEF CallElsewhere, SweepOneBegin, SweepOneDone, DirectSweep, vars, heapVars, bufferVars
  <2> QED BY <1>0, <1>8, <2>1, Unseen, SeenElsewhere DEF CallElsewhere
<1>9. ASSUME NEW t \in Threads, StepElsewhere(t) PROVE [BG!Next]_(BG!vars)
  BY <1>0, <1>9, SweepIsSeen, SeenElsewhere DEF StepElsewhere
<1>10. CASE UNCHANGED systemVars
  <2>1. UNCHANGED <<sweep_generation, sweep_done, sweep_buffers>>
    BY <1>10 DEF systemVars, vars, heapVars, bufferVars
  <2> QED BY <1>0, <1>10, <2>1, Unseen, SeenElsewhere DEF systemVars
<1> QED BY <1>1, <1>2, <1>3, <1>4, <1>5, <1>6, <1>7, <1>8, <1>9, <1>10
    DEF SystemNext, SweeperSystemStep

(* The composition implements BackgroundSweep: a call of sweep_one, with all  *)
(* the spans it pops and drops, every step of sweep, and other callers in     *)
(* between, does to the sweeper's task what its single step there does.       *)
THEOREM BackgroundIsImplemented == SystemSpec => ImplementsBackground
<1>1. SystemInit => BG!Init
  BY DEF SystemInit
<1>2. SystemIInv /\ [SystemNext]_systemVars => [BG!Next]_(BG!vars)
  BY BackgroundStep
<1> QED BY <1>1, <1>2, SystemInvariant, PTL DEF SystemSpec, ImplementsBackground, BG!Spec

-------------------------------------------------------------------------------
(* What is proved of BackgroundSweep holds of the composition.                *)

Background == INSTANCE BackgroundSweepProofs WITH
  Unimplemented <- {}, MaxSpans <- Cardinality(Spans), MaxCycles <- MaxGeneration \div 2,
  poisoned <- park_poisoned, unswept <- Queued, free_spans <- Cardinality(work_free),
  cycles <- sweep_generation \div 2

(* The instance that has the proofs is the one that SweepSystem has.          *)
LEMMA SameBackground ==
  /\ BG!Init => Background!Init
  /\ [BG!Next]_(BG!vars) => [Background!Next]_(Background!vars)
<1> USE DEF BG!mutexVars, BG!channelVars, BG!heapVars, BG!Goto,
            Background!mutexVars, Background!channelVars, Background!heapVars, Background!Goto
<1>1. BG!Init => Background!Init
  BY DEF BG!Init, Background!Init
<1>2. UNCHANGED BG!vars => UNCHANGED Background!vars
  BY DEF BG!vars, Background!vars
<1>3. (BG!Enable => Background!Enable) /\ (BG!EnableReturn => Background!EnableReturn)
  BY DEF BG!Enable, BG!EnableReturn, Background!Enable, Background!EnableReturn
<1>4. /\ BG!SetupLock => Background!SetupLock
      /\ BG!SetupSignal => Background!SetupSignal
      /\ BG!SetupInstall => Background!SetupInstall
  BY DEF BG!SetupLock, BG!SetupSignal, BG!SetupInstall,
         Background!SetupLock, Background!SetupSignal, Background!SetupInstall
<1>5. (BG!Await => Background!Await) /\ (BG!SweepOne => Background!SweepOne)
  BY DEF BG!Await, BG!SweepOne, Background!Await, Background!SweepOne
<1>6. BG!FreeWorkBuffers => Background!FreeWorkBuffers
  BY DEF BG!FreeWorkBuffers, Background!FreeWorkBuffers
<1>7. /\ BG!ParkLock => Background!ParkLock
      /\ BG!ParkCheck => Background!ParkCheck
      /\ BG!AwaitAgain => Background!AwaitAgain
  BY DEF BG!ParkLock, BG!ParkCheck, BG!AwaitAgain,
         Background!ParkLock, Background!ParkCheck, Background!AwaitAgain
<1>8. /\ BG!StartCycle => Background!StartCycle
      /\ BG!UnparkLock => Background!UnparkLock
      /\ BG!Unpark => Background!Unpark
      /\ BG!SweepElsewhere => Background!SweepElsewhere
  BY DEF BG!StartCycle, BG!UnparkLock, BG!Unpark, BG!SweepElsewhere,
         Background!StartCycle, Background!UnparkLock, Background!Unpark,
         Background!SweepElsewhere
<1>9. BG!SweeperStep => Background!SweeperStep
  BY <1>4, <1>5, <1>6, <1>7, Zenon DEF BG!SweeperStep, Background!SweeperStep
<1>10. BG!Next => Background!Next
  BY <1>3, <1>8, <1>9, Zenon DEF BG!Next, Background!Next
<1> QED
  BY <1>1, <1>2, <1>10

(* No wake-up of the sweeper is lost between real calls, spans and buffers:   *)
(* whoever finds it parked finds its sender, it waits parked or with a        *)
(* message on its way, and parks on unswept spans only before a wake-up.      *)
THEOREM SystemLosesNoWake ==
  SystemSpec => [](BG!SenderInstalled /\ BG!NoWakeLost /\ BG!ParksWhenSwept)
<1>1. /\ Spawned \in BOOLEAN /\ {} \subseteq {"free_specials", "is_empty"}
      /\ Batch \in Nat \ {0} /\ Cardinality(Spans) \in Nat /\ MaxGeneration \div 2 \in Nat
  BY SystemAssumption, ParametersAssumption, FS_CardinalityType
<1>2. SystemInit => Background!IInv
  <2>1. Background!Init => Background!IInv
    BY <1>1, Background!InitIInv
  <2> QED BY <2>1, SameBackground DEF SystemInit
<1>3. SystemIInv /\ Background!IInv /\ [SystemNext]_systemVars => Background!IInv'
  <2>1. Background!IInv /\ [Background!Next]_(Background!vars) => Background!IInv'
    BY <1>1, Background!NextIInv
  <2> QED BY <2>1, SameBackground, BackgroundStep
<1>4. Background!IInv => BG!SenderInstalled /\ BG!NoWakeLost /\ BG!ParksWhenSwept
  <2> SUFFICES ASSUME Background!IInv
               PROVE  BG!SenderInstalled /\ BG!NoWakeLost /\ BG!ParksWhenSwept
    OBVIOUS
  <2>1. BG!SenderInstalled
    BY DEF BG!SenderInstalled, Background!IInv, Background!Guards, Background!Stages,
       Background!Before
  <2>2. BG!NoWakeLost
    BY DEF BG!NoWakeLost, Background!IInv, Background!Messages
  <2>3. BG!ParksWhenSwept
    BY DEF BG!ParksWhenSwept, Background!IInv, Background!ParksWhenSwept
  <2> QED BY <2>1, <2>2, <2>3
<1> QED BY <1>2, <1>3, <1>4, SystemInvariant, PTL DEF SystemSpec
===============================================================================
