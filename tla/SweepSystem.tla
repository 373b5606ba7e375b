------------------------------ MODULE SweepSystem ------------------------------
(******************************************************************************)
(* The background sweeper at work: BackgroundSweep, whose sweep_one is one    *)
(* step and whose spans are numbers, composed with GcSweep, which has the     *)
(* spans, the buffers and every step of sweep_one and sweep.  One thread of   *)
(* GcSweep is the background sweeper; the others are the callers              *)
(* BackgroundSweep knows as "elsewhere".                                      *)
(*                                                                            *)
(* What the two share: sweep_done, the unswept spans, the spans of work       *)
(* buffers that wait for release, and the collections.                        *)
(******************************************************************************)
EXTENDS GcSweep

CONSTANTS
  Sweeper,        (* the thread that runs background_sweep                     *)
  Spawned,        (* does somebody poll the future that background_sweep() is? *)
  Batch           (* batch_size                                                *)

(* The callees are there and no sweep panics: &mut self keeps calls apart.    *)
ASSUME SystemAssumption ==
  /\ Sweeper \in Threads /\ Spawned \in BOOLEAN /\ Batch \in Nat \ {0}
  /\ Exclusive /\ Unimplemented = {} /\ FreshIsZero /\ ~OverflowChecks

VARIABLES
  enabling, setup, sweeper, parked, guard, park_poisoned,   (* as in            *)
  sender, messages, completed, collector,                   (* BackgroundSweep  *)
  work_free            (* work_buffer_spans.free                               *)

taskVars == <<enabling, setup, sweeper, parked, guard, park_poisoned, sender, messages,
              completed, collector>>
restOfTask == <<enabling, setup, parked, guard, park_poisoned, sender, messages, completed,
                collector>>
systemVars == <<vars, taskVars, work_free>>

(* The entries of the unswept buffer that hold a span.                        *)
Queued == Cardinality(Slots(Popable(sweep_generation)))

BG == INSTANCE BackgroundSweep WITH
  Unimplemented <- {}, MaxSpans <- Cardinality(Spans), MaxCycles <- MaxGeneration \div 2,
  poisoned <- park_poisoned, unswept <- Queued, free_spans <- Cardinality(work_free),
  cycles <- sweep_generation \div 2

SystemInit == Init /\ work_free = {} /\ BG!Init

-------------------------------------------------------------------------------
(* The background sweeper.                                                    *)

(* What touches neither spans nor heap: set-up, waiting and parking.          *)
SweeperTask ==
  /\ UNCHANGED <<vars, work_free>>
  /\ \/ BG!SetupLock \/ BG!SetupSignal \/ BG!SetupInstall \/ BG!Await
     \/ BG!ParkLock \/ BG!ParkCheck \/ BG!AwaitAgain

(* `while self.sweep_one() != !0': a call, its steps, and its return.         *)
SweeperCalls ==
  /\ sweeper = "sweep"
  /\ \/ SweepOneBegin(Sweeper) /\ UNCHANGED sweeper
     \/ SweepOneDone(Sweeper) /\ sweeper' = "free"
  /\ UNCHANGED <<restOfTask, work_free>>

SweeperSweeps ==
  /\ pc[Sweeper] # "end"
  /\ SweepOneStep(Sweeper) \/ SweepStep(Sweeper)
  /\ UNCHANGED <<taskVars, work_free>>

SweeperReturns ==
  /\ sweeper = "sweep"
  /\ sweeper' = IF call[Sweeper].pages = NothingLeft THEN "free" ELSE "sweep"
  /\ SweepOneEnd(Sweeper)
  /\ UNCHANGED <<restOfTask, work_free>>

(* Spans go to the heap, each by free_manual_span.  One that is in use would  *)
(* also be taken off pages_in_use.                                            *)
BatchFreed(batch) ==
  /\ \A s \in batch : ~poisoned /\ CanFree(s)
  /\ state' = [s \in Spans |-> IF s \in batch THEN "Free" ELSE state[s]]
  /\ pages_in_use' \in IF \A s \in batch : state[s] = "Manual" THEN {pages_in_use}
                       ELSE 0 .. CounterMod - 1
  /\ UNCHANGED <<heapVars, bufferVars, span_gen, allocations_count, marked, live, pc, call>>

(* Faulty variants: `while' is `if', one batch and no more; and the spans of  *)
(* a batch stay on the list of the next.                                      *)
FaultyFreeWorkBuffers ==
  /\ NobodyRuns
  /\ sweeper = "free" /\ sweeper' = "park"
  /\ \E batch \in SUBSET work_free :
       /\ Cardinality(batch) = Batch \/ (Cardinality(batch) < Batch /\ batch = work_free)
       /\ BatchFreed(batch) /\ work_free' = work_free \ batch
  /\ UNCHANGED <<restOfTask, poisoned>>
FaultyKeepBatch ==
  /\ NobodyRuns
  /\ sweeper = "free" /\ sweeper' = "park"
  /\ \E batch \in SUBSET work_free : BatchFreed(batch)
  /\ UNCHANGED <<restOfTask, poisoned, work_free>>

(* A batch of spans goes from the list of free work buffers to the heap.  The *)
(* first that free_span does not take ends the sweeper, with a part of the    *)
(* batch freed and the lock of the heap poisoned.                             *)
FreeWorkBuffers ==
  /\ NobodyRuns
  /\ sweeper = "free"
  /\ \E batch \in SUBSET work_free :
       /\ BatchFreed(batch)
       /\ Cardinality(batch) <= Batch
       /\ IF Cardinality(batch) = Batch \/ batch = work_free
          THEN /\ work_free' = work_free \ batch
               /\ UNCHANGED poisoned
               /\ BG!FreeWorkBuffers
          ELSE \E s \in work_free \ batch :
               /\ poisoned \/ ~CanFree(s)
               /\ work_free' = work_free \ (batch \cup {s})
               /\ poisoned' = TRUE
               /\ sweeper' = "panicked"
               /\ UNCHANGED restOfTask

SweeperSystemStep ==
  SweeperTask \/ SweeperCalls \/ SweeperSweeps \/ SweeperReturns \/ FreeWorkBuffers

-------------------------------------------------------------------------------
(* The rest of the system.                                                    *)

EnableSystem ==
  /\ UNCHANGED <<vars, work_free>>
  /\ BG!Enable \/ BG!EnableReturn

(* External: a collection uses spans for its work buffers, and is done with   *)
(* some of them when it ends.                                                 *)
Collect ==
  /\ StartCycle
  /\ \E done \in SUBSET {s \in Spans : state[s] = "Manual"} :
       work_free' = work_free \cup done
  /\ BG!StartCycle

Wake ==
  /\ UNCHANGED <<vars, work_free>>
  /\ BG!UnparkLock \/ BG!Unpark

(* Everybody else who sweeps or allocates.                                    *)
CallElsewhere(t) ==
  /\ SweepOneBegin(t) \/ SweepOneDone(t) \/ \E s \in Spans : DirectSweep(t, s)
  /\ UNCHANGED <<taskVars, work_free>>
StepElsewhere(t) ==
  /\ SweepOneStep(t) \/ SweepStep(t)
  /\ UNCHANGED <<taskVars, work_free>>
Mutate ==
  /\ \E s \in Spans : AllocateSpan(s) \/ AllocateManual(s)
  /\ UNCHANGED <<taskVars, work_free>>

SystemNext ==
  \/ SweeperSystemStep \/ EnableSystem \/ Collect \/ Wake \/ Mutate
  \/ \E t \in Threads \ {Sweeper} : CallElsewhere(t) \/ StepElsewhere(t)

SystemSpec == SystemInit /\ [][SystemNext]_systemVars

(* The executor polls the sweeper, a collection that has begun goes on, and   *)
(* so does a call of sweep or sweep_one.  Nobody else has to make one.        *)
FairSystem ==
  /\ SystemSpec
  /\ WF_systemVars(SweeperSystemStep) /\ WF_systemVars(Wake)
  /\ \A t \in Threads \ {Sweeper} : WF_systemVars(StepElsewhere(t))

-------------------------------------------------------------------------------
(* Properties.                                                                *)

(* The system implements BackgroundSweep: a call of sweep_one, with all the   *)
(* spans it pops and drops and every step of sweep, does to the sweeper what  *)
(* its single step there does, and what is proved there holds here.           *)
ImplementsBackground == BG!Spec

(* The sweeper alone, once it is polled, brings the first collection after    *)
(* enable to its end, through the buffers and every outcome of a sweep.       *)
FirstCycleSwept == BG!FirstCycleSwept

(* And it gives all free work buffers back to the heap.                       *)
WorkBuffersFreed ==
  sweep_generation = 2 /\ collector = "unpark" ~> work_free = {}

(* Every span on the list of free work buffers can go to free_manual_span: it *)
(* is managed by hand and holds no objects, so that "invalid stack free" and  *)
(* "invalid span state" are out of reach and none is given back twice.        *)
WorkBuffersManual ==
  \A s \in work_free : state[s] = "Manual" /\ allocations_count[s] = 0

(* If another caller uses sweep_one again and again, every cycle comes to its *)
(* end, though the background sweeper lives for one only.                     *)
CallsAgain(t) == SweepOneBegin(t) /\ UNCHANGED <<taskVars, work_free>>
EveryCycleSwept ==
  (\E t \in Threads \ {Sweeper} : WF_systemVars(CallsAgain(t))) => (~sweep_done ~> sweep_done)
===============================================================================
