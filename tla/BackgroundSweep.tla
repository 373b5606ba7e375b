---------------------------- MODULE BackgroundSweep ----------------------------
(******************************************************************************)
(* The background sweeper of gc.rs: GC::enable starts it and waits for its    *)
(* set-up, it parks, is unparked by a collection, sweeps until sweep_one has  *)
(* nothing left, gives the spans of work buffers back and parks again.        *)
(*                                                                            *)
(* sweep_one is one step here, see GcSweep.  The collection itself, and who   *)
(* unparks the sweeper, is not in the repository: the External actions.       *)
(* GCPhase has the one value Off, so free_some_work_buffers always runs.      *)
(******************************************************************************)
EXTENDS Integers

CONSTANTS
  Spawned,        (* does somebody poll the future that background_sweep() is? *)
  Unimplemented,  (* the functions on its way that are `unimplemented!()'      *)
  Batch,          (* batch_size, 64                                            *)
  MaxSpans,       (* bound on the spans that wait for sweep or for release     *)
  MaxCycles       (* bound on the cycles that are explored                     *)

ASSUME BackgroundAssumption ==
  /\ Spawned \in BOOLEAN
  /\ Unimplemented \subseteq {"free_specials", "is_empty"}
  /\ Batch \in Nat \ {0} /\ MaxSpans \in Nat /\ MaxCycles \in Nat

VARIABLES
  enabling,         (* the call of enable                                      *)
  setup,            (* the oneshot channel signal_setup_done -> setup_done     *)
  sweeper,          (* where background_sweep is                               *)
  parked, guard, poisoned,  (* Mutex<bool>: its value and holder, and whether  *)
                            (* a panic has poisoned it                         *)
  sender,           (* is unpark_sender Some?                                  *)
  messages,         (* in the channel it sends to                              *)
  completed,        (* has unpark_future been ready once?                      *)
  sweep_done, unswept, free_spans,   (* of the heap and of Work                *)
  collector, cycles (* External: where the collection is                       *)

mutexVars == <<parked, guard, poisoned>>
channelVars == <<sender, messages, completed>>
heapVars == <<sweep_done, unswept, free_spans>>
vars == <<enabling, setup, sweeper, mutexVars, channelVars, heapVars, collector, cycles>>

Goto(from, to) == sweeper = from /\ sweeper' = to

Init ==
  /\ enabling = "idle" /\ setup = "pending" /\ sweeper = "none"
  /\ parked = FALSE /\ guard = "none" /\ poisoned = FALSE
  /\ sender = FALSE /\ messages = 0 /\ completed = FALSE
  /\ sweep_done = FALSE /\ unswept = 0 /\ free_spans = 0
  /\ collector = "off" /\ cycles = 0

-------------------------------------------------------------------------------
(* Faulty variants.  None is part of Next: each is what an operation below    *)
(* would be with one plausible bug, and some property must reject it.         *)

(* The set-up is signalled before the mutex is taken.                         *)
FaultyEnable ==
  /\ enabling = "idle"
  /\ enabling' = "waiting"
  /\ sweeper' = IF Spawned THEN "setup" ELSE "dropped"
  /\ setup' = IF Spawned THEN "sent" ELSE "canceled"
  /\ UNCHANGED <<mutexVars, channelVars, heapVars, collector, cycles>>

(* The guard is gone before the sender is in place.                           *)
FaultySignal ==
  /\ Goto("signal", "install")
  /\ setup' = "sent"
  /\ guard' = "none"
  /\ UNCHANGED <<enabling, parked, poisoned, channelVars, heapVars, collector, cycles>>

(* sweep_done is not looked at again under the lock.                          *)
FaultyPark ==
  /\ Goto("check", "again")
  /\ parked' = TRUE
  /\ UNCHANGED <<enabling, setup, guard, poisoned, channelVars, heapVars, collector, cycles>>

(* The list is taken for empty only after one batch too many.                 *)
FaultyFree ==
  /\ Goto("free", "park")
  /\ free_spans' = free_spans - Batch
  /\ UNCHANGED <<enabling, setup, mutexVars, channelVars, sweep_done, unswept, collector,
                 cycles>>

-------------------------------------------------------------------------------
(* GC::enable                                                                 *)

(* `self.background_sweep(signal_setup_done);' makes a future.  It runs only  *)
(* if it is polled; the statement drops it, and signal_setup_done with it.    *)
Enable ==
  /\ enabling = "idle"
  /\ enabling' = "waiting"
  /\ sweeper' = IF Spawned THEN "setup" ELSE "dropped"
  /\ setup' = IF Spawned THEN "pending" ELSE "canceled"
  /\ UNCHANGED <<mutexVars, channelVars, heapVars, collector, cycles>>

(* A cancelled channel ends the wait as well as a message.                    *)
EnableReturn ==
  /\ enabling = "waiting"
  /\ setup # "pending"
  /\ enabling' = "returned"
  /\ UNCHANGED <<setup, sweeper, mutexVars, channelVars, heapVars, collector, cycles>>

-------------------------------------------------------------------------------
(* background_sweep                                                           *)

SetupLock ==
  /\ guard = "none" /\ ~poisoned
  /\ Goto("setup", "signal")
  /\ guard' = "sweeper" /\ parked' = TRUE
  /\ UNCHANGED <<enabling, setup, poisoned, channelVars, heapVars, collector, cycles>>

SetupSignal ==
  /\ Goto("signal", "install")
  /\ setup' = "sent"
  /\ UNCHANGED <<enabling, mutexVars, channelVars, heapVars, collector, cycles>>

(* wait_for_unpark makes the channel; the block ends and with it the guard.   *)
SetupInstall ==
  /\ Goto("install", "wait")
  /\ sender' = TRUE
  /\ guard' = "none"
  /\ UNCHANGED <<enabling, setup, parked, poisoned, messages, completed, heapVars,
                 collector, cycles>>

Await ==
  /\ messages > 0
  /\ Goto("wait", "sweep")
  /\ messages' = messages - 1
  /\ completed' = TRUE
  /\ UNCHANGED <<enabling, setup, mutexVars, sender, heapVars, collector, cycles>>

(* One sweep_one: a span is swept, or there was none and sweeping is done.    *)
SweepOne ==
  /\ sweeper = "sweep"
  /\ \/ /\ sweep_done
        /\ sweeper' = "free"
        /\ UNCHANGED heapVars
     \/ /\ ~sweep_done /\ unswept = 0
        /\ sweep_done' = TRUE
        /\ sweeper' = "free"
        /\ UNCHANGED <<unswept, free_spans>>
     \/ /\ ~sweep_done /\ unswept > 0
        /\ unswept' = unswept - 1
        /\ sweeper' = IF "free_specials" \in Unimplemented THEN "panicked" ELSE "sweep"
        /\ UNCHANGED <<sweep_done, free_spans>>
  /\ UNCHANGED <<enabling, setup, mutexVars, channelVars, collector, cycles>>

(* free_some_work_buffers: false when the list is empty, before or after.     *)
FreeWorkBuffers ==
  /\ sweeper = "free"
  /\ LET left == IF free_spans > Batch THEN free_spans - Batch ELSE 0 IN
       IF "is_empty" \in Unimplemented
       THEN sweeper' = "panicked" /\ UNCHANGED free_spans
       ELSE /\ free_spans' = left
            /\ sweeper' = IF left > 0 THEN "free" ELSE "park"
  /\ UNCHANGED <<enabling, setup, mutexVars, channelVars, sweep_done, unswept, collector,
                 cycles>>

ParkLock ==
  /\ guard = "none" /\ ~poisoned
  /\ Goto("park", "check")
  /\ guard' = "sweeper"
  /\ UNCHANGED <<enabling, setup, parked, poisoned, channelVars, heapVars, collector, cycles>>

(* "This can happen if a GC runs between sweep_one returning !0 above and the *)
(* lock being acquired": `continue' drops the guard.  It lives on otherwise.  *)
ParkCheck ==
  /\ \/ /\ ~sweep_done
        /\ Goto("check", "sweep")
        /\ guard' = "none"
        /\ UNCHANGED parked
     \/ /\ sweep_done
        /\ Goto("check", "again")
        /\ parked' = TRUE
        /\ UNCHANGED guard
  /\ UNCHANGED <<enabling, setup, poisoned, channelVars, heapVars, collector, cycles>>

(* The second await of unpark_future.  A StreamFuture that has been ready     *)
(* panics when it is polled again, here under the guard.                      *)
AwaitAgain ==
  /\ completed
  /\ Goto("again", "panicked")
  /\ guard' = "none" /\ poisoned' = TRUE
  /\ UNCHANGED <<enabling, setup, parked, channelVars, heapVars, collector, cycles>>

-------------------------------------------------------------------------------
(* External: collections, which begin when the GC is enabled and the last     *)
(* cycle is swept, and the other callers of sweep_one.                        *)

StartCycle ==
  /\ enabling = "returned" /\ collector = "off"
  /\ sweep_done /\ cycles < MaxCycles
  /\ cycles' = cycles + 1
  /\ sweep_done' = FALSE
  /\ unswept' \in 0 .. MaxSpans
  /\ free_spans' \in free_spans .. MaxSpans
  /\ collector' = "unpark"
  /\ UNCHANGED <<enabling, setup, sweeper, mutexVars, channelVars>>

UnparkLock ==
  /\ collector = "unpark" /\ guard = "none"
  /\ IF poisoned THEN collector' = "panicked" /\ UNCHANGED guard
     ELSE collector' = "unparking" /\ guard' = "collector"
  /\ UNCHANGED <<enabling, setup, sweeper, parked, poisoned, channelVars, heapVars, cycles>>

(* A parked sweeper is sent a message.                                        *)
Unpark ==
  /\ collector = "unparking"
  /\ collector' = "off"
  /\ guard' = "none" /\ parked' = FALSE
  /\ messages' = messages + IF parked /\ sender THEN 1 ELSE 0
  /\ UNCHANGED <<enabling, setup, sweeper, poisoned, sender, completed, heapVars, cycles>>

SweepElsewhere ==
  /\ ~sweep_done
  /\ IF unswept = 0 THEN sweep_done' = TRUE /\ UNCHANGED unswept
     ELSE unswept' = unswept - 1 /\ UNCHANGED sweep_done
  /\ UNCHANGED <<enabling, setup, sweeper, mutexVars, channelVars, free_spans, collector,
                 cycles>>

SweeperStep ==
  \/ SetupLock \/ SetupSignal \/ SetupInstall \/ Await \/ SweepOne \/ FreeWorkBuffers
  \/ ParkLock \/ ParkCheck \/ AwaitAgain

Next ==
  \/ Enable \/ EnableReturn \/ SweeperStep
  \/ StartCycle \/ UnparkLock \/ Unpark \/ SweepElsewhere

Spec == Init /\ [][Next]_vars

-------------------------------------------------------------------------------
(* Properties.                                                                *)

(* The variables stay within their types.                                     *)
TypeOK ==
  /\ enabling \in {"idle", "waiting", "returned"}
  /\ setup \in {"pending", "sent", "canceled"}
  /\ sweeper \in {"none", "dropped", "setup", "signal", "install", "wait", "sweep",
                  "free", "park", "check", "again", "panicked"}
  /\ parked \in BOOLEAN /\ guard \in {"none", "sweeper", "collector"} /\ poisoned \in BOOLEAN
  /\ sender \in BOOLEAN /\ messages \in 0 .. 1 /\ completed \in BOOLEAN
  /\ sweep_done \in BOOLEAN /\ unswept \in 0 .. MaxSpans /\ free_spans \in 0 .. MaxSpans
  /\ collector \in {"off", "unpark", "unparking", "panicked"} /\ cycles \in 0 .. MaxCycles

(* enable returns as soon as the sweeper has signalled, before it has stored  *)
(* its sender: the mutex makes sure that whoever sees it parked can reach it. *)
SenderInstalled == collector = "unparking" /\ parked => sender

(* No wake-up is lost: a sweeper that waits is either parked, so that the     *)
(* next collection wakes it, or a message is on its way.                      *)
NoWakeLost == sweeper = "wait" /\ ~parked => messages = 1

(* The sweeper does not park on work: if spans are unswept when it does, the  *)
(* collection that made them so has still to unpark it.                       *)
ParksWhenSwept ==
  sweeper = "again" /\ ~sweep_done => collector = "unpark"

(* What these rest on.  The stages before the sweeper waits, and those of its *)
(* work between a message and the next parking.                               *)
Before == {"none", "dropped", "setup"}
Working == {"sweep", "free", "park", "check"}

(* The mutex is held by whoever is inside it; only the sweeper's end poisons. *)
Guards ==
  /\ guard = "sweeper" <=> sweeper \in {"signal", "install", "check", "again"}
  /\ guard = "collector" <=> collector = "unparking"
  /\ poisoned => sweeper = "panicked" /\ collector # "unparking"

(* The sender and the flag `parked', by the stage the sweeper is in.          *)
Stages ==
  /\ enabling = "idle" => sweeper = "none"
  /\ sender <=> sweeper \notin Before \cup {"signal", "install"}
  /\ sweeper \in {"signal", "install", "again"} => parked
  /\ sweeper \in Before \cup Working => ~parked
  /\ sweeper = "panicked" /\ parked => poisoned
  /\ sweeper \in Working \cup {"again"} => completed

Messages == messages = IF sweeper = "wait" /\ ~parked THEN 1 ELSE 0

(* The inductive invariant behind them: who holds the mutex, what the sweeper *)
(* has set up by each stage, and that a message is under way exactly to a     *)
(* sweeper that waits unparked.                                               *)
IInv == TypeOK /\ Guards /\ Stages /\ Messages /\ ParksWhenSwept

(* The first collection after enable is swept, whenever the set-up is ready.  *)
FirstCycleSwept == cycles = 1 /\ collector = "unpark" ~> sweep_done

-------------------------------------------------------------------------------
(* What a comment of gc.rs says and the code does not keep.                   *)

(* enable "kicks off the background sweeper routine and enables GC".          *)
EnableStarts == enabling = "returned" => sweeper # "dropped"
================================================================================
