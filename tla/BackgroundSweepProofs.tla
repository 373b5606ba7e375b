------------------------- MODULE BackgroundSweepProofs -------------------------
(******************************************************************************)
(* Safety of the background sweeper, for every number of spans and cycles and *)
(* every batch, whether or not its future is polled and its callees exist.    *)
(******************************************************************************)
EXTENDS BackgroundSweep, TLAPS

(* enable and background_sweep begin with nothing set up.                     *)
LEMMA InitIInv == Init => IInv
<1> SUFFICES ASSUME Init PROVE IInv
  OBVIOUS
<1>1. TypeOK
  <2>1. 0 \in 0 .. 1 /\ 0 \in 0 .. MaxSpans /\ 0 \in 0 .. MaxCycles
    BY BackgroundAssumption
  <2> QED
    BY <2>1, Zenon DEF Init, TypeOK
<1>2. Guards /\ Stages /\ Messages /\ ParksWhenSwept
  BY DEF Init, Guards, Stages, Messages, ParksWhenSwept, Before, Working
<1> QED
  BY <1>1, <1>2 DEF IInv

(* Nothing changes when nothing happens.                                      *)
LEMMA StutterIInv == IInv /\ UNCHANGED vars => IInv'
  BY DEF IInv, TypeOK, Guards, Stages, Messages, ParksWhenSwept, Before, Working,
         vars, mutexVars, channelVars, heapVars

(* The steps of enable.                                                       *)
LEMMA EnableIInv == IInv /\ (Enable \/ EnableReturn) => IInv'
<1> SUFFICES ASSUME IInv, Enable \/ EnableReturn PROVE IInv'
  OBVIOUS
<1> USE DEF IInv, mutexVars, channelVars, heapVars
<1>1. CASE Enable
  BY <1>1 DEF Enable, TypeOK, Guards, Stages, Messages, ParksWhenSwept, Before, Working
<1>2. CASE EnableReturn
  BY <1>2 DEF EnableReturn, TypeOK, Guards, Stages, Messages, ParksWhenSwept, Before, Working
<1> QED
  BY <1>1, <1>2

(* The set-up, which is under the mutex from its first step to its last.      *)
LEMMA SetupIInv ==
  ASSUME IInv, SetupLock \/ SetupSignal \/ SetupInstall
  PROVE  IInv'
<1> USE DEF IInv, mutexVars, channelVars, heapVars
<1>1. CASE SetupLock
  BY <1>1
  DEF SetupLock, Goto, TypeOK, Guards, Stages, Messages, ParksWhenSwept, Before, Working
<1>2. CASE SetupSignal
  BY <1>2
  DEF SetupSignal, Goto, TypeOK, Guards, Stages, Messages, ParksWhenSwept, Before, Working
<1>3. CASE SetupInstall
  BY <1>3
  DEF SetupInstall, Goto, TypeOK, Guards, Stages, Messages, ParksWhenSwept, Before, Working
<1> QED
  BY <1>1, <1>2, <1>3

(* A sweep, from the message that starts it to the last work buffer.          *)
LEMMA WorkIInv ==
  ASSUME IInv, Await \/ SweepOne \/ FreeWorkBuffers
  PROVE  IInv'
<1> USE DEF IInv, mutexVars, channelVars, heapVars
<1>1. CASE Await
  BY <1>1
  DEF Await, Goto, TypeOK, Guards, Stages, Messages, ParksWhenSwept, Before, Working
<1>2. CASE SweepOne
  <2> USE <1>2 DEF SweepOne
  <2>1. TypeOK'
    <3>1. unswept' \in 0 .. MaxSpans
      BY BackgroundAssumption DEF TypeOK
    <3>2. sweep_done' \in BOOLEAN
      BY Zenon DEF TypeOK
    <3>3. sweeper' \in {"sweep", "free", "panicked"}
      BY Zenon
    <3>4. UNCHANGED <<enabling, setup, mutexVars, channelVars, free_spans, collector,
                      cycles>>
      BY DEF TypeOK
    <3> HIDE <1>2 DEF SweepOne
    <3> QED
      BY <3>1, <3>2, <3>3, <3>4 DEF TypeOK
  <2>2. Guards'
    BY DEF Guards
  <2>3. Stages'
    BY DEF Guards, Stages, Before, Working
  <2>4. Messages'
    BY DEF TypeOK, Guards, Stages, Messages, Before, Working
  <2>5. ParksWhenSwept'
    BY DEF Guards, Stages, ParksWhenSwept
  <2> QED
    BY <2>1, <2>2, <2>3, <2>4, <2>5
<1>3. CASE FreeWorkBuffers
  BY BackgroundAssumption, <1>3
  DEF FreeWorkBuffers, Goto, TypeOK, Guards, Stages, Messages, ParksWhenSwept, Before, Working
<1> QED
  BY <1>1, <1>2, <1>3

(* Parking, where sweep_done is looked at again under the mutex.              *)
LEMMA ParkIInv ==
  ASSUME IInv, ParkLock \/ ParkCheck \/ AwaitAgain
  PROVE  IInv'
<1> USE DEF IInv, mutexVars, channelVars, heapVars
<1>1. CASE ParkLock
  BY <1>1
  DEF ParkLock, Goto, TypeOK, Guards, Stages, Messages, ParksWhenSwept, Before, Working
<1>2. CASE ParkCheck
  <2> USE <1>2 DEF ParkCheck, Goto
  <2>1. TypeOK'
    BY ZenonT(40) DEF TypeOK
  <2>2. Guards'
    BY DEF Guards
  <2>3. Stages'
    BY DEF Guards, Stages, Before, Working
  <2>4. Messages'
    BY DEF TypeOK, Guards, Stages, Messages, Before, Working
  <2>5. ParksWhenSwept'
    BY DEF Guards, Stages, ParksWhenSwept
  <2> QED
    BY <2>1, <2>2, <2>3, <2>4, <2>5
<1>3. CASE AwaitAgain
  BY <1>3
  DEF AwaitAgain, Goto, TypeOK, Guards, Stages, Messages, ParksWhenSwept, Before, Working
<1> QED
  BY <1>1, <1>2, <1>3

(* The collection, and the sweeping that others do.                           *)
LEMMA ExternalIInv ==
  ASSUME IInv, StartCycle \/ UnparkLock \/ Unpark \/ SweepElsewhere
  PROVE  IInv'
<1> USE DEF IInv, mutexVars, channelVars, heapVars
<1>1. CASE StartCycle
  <2> USE <1>1 DEF StartCycle
  <2>1. TypeOK'
    <3>1. /\ unswept' \in 0 .. MaxSpans
          /\ free_spans' \in 0 .. MaxSpans
          /\ cycles' \in 0 .. MaxCycles
      BY BackgroundAssumption DEF TypeOK
    <3> QED
      BY <3>1, ZenonT(40) DEF TypeOK
  <2>2. Guards'
    BY DEF Guards
  <2>3. Stages'
    BY DEF Guards, Stages, Before, Working
  <2>4. Messages'
    BY DEF TypeOK, Guards, Stages, Messages, Before, Working
  <2>5. ParksWhenSwept'
    BY DEF Guards, Stages, ParksWhenSwept
  <2> QED
    BY <2>1, <2>2, <2>3, <2>4, <2>5
<1>2. CASE UnparkLock
  <2> USE <1>2 DEF UnparkLock
  <2>1. TypeOK'
    BY DEF TypeOK
  <2>2. Guards'
    BY DEF Guards
  <2>3. Stages'
    BY DEF Guards, Stages, Before, Working
  <2>4. Messages'
    BY DEF TypeOK, Guards, Stages, Messages, Before, Working
  <2>5. ParksWhenSwept'
    BY DEF Guards, Stages, ParksWhenSwept
  <2> QED
    BY <2>1, <2>2, <2>3, <2>4, <2>5
<1>3. CASE Unpark
  <2> USE <1>3 DEF Unpark
  <2>1. TypeOK'
    <3>1. messages' \in 0 .. 1
      BY DEF TypeOK, Guards, Stages, Messages, Before
    <3> QED
      BY <3>1, ZenonT(40) DEF TypeOK
  <2>2. Guards'
    BY DEF Guards
  <2>3. Stages'
    BY DEF Guards, Stages, Before, Working
  <2>4. Messages'
    BY DEF TypeOK, Guards, Stages, Messages, Before, Working
  <2>5. ParksWhenSwept'
    BY DEF Guards, Stages, ParksWhenSwept
  <2> QED
    BY <2>1, <2>2, <2>3, <2>4, <2>5
<1>4. CASE SweepElsewhere
  <2> USE <1>4 DEF SweepElsewhere
  <2>1. TypeOK'
    <3>1. unswept' \in 0 .. MaxSpans
      BY BackgroundAssumption DEF TypeOK
    <3>2. sweep_done' \in BOOLEAN
      BY Zenon DEF TypeOK
    <3>3. UNCHANGED <<enabling, setup, sweeper, mutexVars, channelVars, free_spans, collector,
                      cycles>>
      BY DEF TypeOK
    <3> HIDE <1>4 DEF SweepElsewhere
    <3> QED
      BY <3>1, <3>2, <3>3 DEF TypeOK
  <2>2. Guards'
    BY DEF Guards
  <2>3. Stages'
    BY DEF Guards, Stages, Before, Working
  <2>4. Messages'
    BY DEF TypeOK, Guards, Stages, Messages, Before, Working
  <2>5. ParksWhenSwept'
    BY DEF Guards, Stages, ParksWhenSwept
  <2> QED
    BY <2>1, <2>2, <2>3, <2>4, <2>5
<1> QED
  BY <1>1, <1>2, <1>3, <1>4

(* Every step keeps the invariant.                                            *)
LEMMA NextIInv == IInv /\ [Next]_vars => IInv'
  BY StutterIInv, EnableIInv, SetupIInv, WorkIInv, ParkIInv, ExternalIInv
     DEF Next, SweeperStep

-------------------------------------------------------------------------------
(* Who holds the mutex of the sweeper, what has been set up by each of its    *)
(* stages, and where a message is under way.                                  *)
THEOREM SweeperBookkeeping == Spec => []IInv
<1>1. Init => IInv
  BY InitIInv
<1>2. IInv /\ [Next]_vars => IInv'
  BY NextIInv
<1> QED
  BY <1>1, <1>2, PTL DEF Spec

(* The state of enable, of the sweeper and of the collection is well typed;   *)
(* in particular the channel never holds a second message.                    *)
THEOREM SweeperTypes == Spec => []TypeOK
<1>1. IInv => TypeOK
  BY DEF IInv
<1> QED
  BY <1>1, SweeperBookkeeping, PTL

(* A collection that finds the sweeper parked finds its sender: signalling    *)
(* the set-up before wait_for_unpark is safe because of the mutex.            *)
THEOREM SenderIsInstalled == Spec => []SenderInstalled
<1>1. IInv => SenderInstalled
  BY DEF IInv, Guards, Stages, SenderInstalled, Before
<1> QED
  BY <1>1, SweeperBookkeeping, PTL

(* A sweeper that waits is parked, or a message is on its way to it.          *)
THEOREM NoWakeIsLost == Spec => []NoWakeLost
<1>1. IInv => NoWakeLost
  BY DEF IInv, Messages, NoWakeLost
<1> QED
  BY <1>1, SweeperBookkeeping, PTL

(* The sweeper never parks on unswept spans that no collection is about to    *)
(* wake it for: the second look at sweep_done is under the mutex.             *)
THEOREM SweeperParksWhenSwept == Spec => []ParksWhenSwept
<1>1. IInv => ParksWhenSwept
  BY DEF IInv
<1> QED
  BY <1>1, SweeperBookkeeping, PTL

-------------------------------------------------------------------------------
(* The sweeper serves one collection.                                         *)

(* A future that was ready is not polled again until the sweeper parks, and   *)
(* a collection only panics on the mutex that the sweeper has poisoned.       *)
ServesOnce ==
  /\ completed => sweeper \in Working \cup {"again", "panicked"}
  /\ collector = "panicked" => poisoned

LEMMA ServesOnceStep == IInv /\ ServesOnce /\ [Next]_vars => ServesOnce'
<1>. SUFFICES ASSUME IInv, ServesOnce, [Next]_vars PROVE ServesOnce'
  OBVIOUS
<1>. USE DEF ServesOnce, Working
<1>1. CASE UNCHANGED vars
  BY <1>1 DEF vars, mutexVars, channelVars
<1>2. CASE Enable \/ EnableReturn
  BY <1>2 DEF Enable, EnableReturn, IInv, Stages, mutexVars, channelVars
<1>3. CASE SetupLock \/ SetupSignal \/ SetupInstall \/ Await
  BY <1>3 DEF SetupLock, SetupSignal, SetupInstall, Await, Goto, mutexVars, channelVars
<1>4. CASE SweepOne \/ FreeWorkBuffers
  BY <1>4 DEF SweepOne, FreeWorkBuffers, mutexVars, channelVars
<1>5. CASE ParkLock \/ ParkCheck \/ AwaitAgain
  BY <1>5 DEF ParkLock, ParkCheck, AwaitAgain, Goto, channelVars
<1>6. CASE StartCycle \/ UnparkLock \/ Unpark \/ SweepElsewhere
  BY <1>6 DEF StartCycle, UnparkLock, Unpark, SweepElsewhere, mutexVars, channelVars
<1>. QED
  BY <1>1, <1>2, <1>3, <1>4, <1>5, <1>6 DEF Next, SweeperStep

(* background_sweep awaits the same future again when it parks: once it has   *)
(* been woken it waits for no second message and none is sent to it, and a    *)
(* collection panics only because the sweeper panicked under the guard.       *)
THEOREM SweeperServesOneCycle ==
  Spec => []( /\ completed => sweeper # "wait" /\ messages = 0
              /\ collector = "panicked" => sweeper = "panicked" /\ poisoned )
<1>1. Init => IInv /\ ServesOnce
  BY InitIInv DEF Init, ServesOnce
<1>2. (IInv /\ ServesOnce) /\ [Next]_vars => (IInv /\ ServesOnce)'
  BY NextIInv, ServesOnceStep
<1>3. IInv /\ ServesOnce =>
        /\ completed => sweeper # "wait" /\ messages = 0
        /\ collector = "panicked" => sweeper = "panicked" /\ poisoned
  BY DEF IInv, Guards, Messages, ServesOnce, Working
<1>. QED
  BY <1>1, <1>2, <1>3, PTL DEF Spec

(* The poison stays: once the sweeper has panicked at its second await, no    *)
(* collection gets past unpark's lock and no message is sent any more.        *)
THEOREM PoisonStays ==
  Spec => [](poisoned => [](poisoned /\ collector # "unparking" /\ messages = 0))
<1>1. IInv /\ poisoned /\ [Next]_vars => poisoned'
  BY DEF Next, SweeperStep, vars, mutexVars, channelVars, Enable, EnableReturn, SetupLock,
         SetupSignal, SetupInstall, Await, SweepOne, FreeWorkBuffers, ParkLock, ParkCheck,
         AwaitAgain, StartCycle, UnparkLock, Unpark, SweepElsewhere
<1>2. IInv /\ poisoned => collector # "unparking" /\ messages = 0
  BY DEF IInv, Guards, Messages
<1>. QED
  BY <1>1, <1>2, SweeperBookkeeping, PTL DEF Spec
===============================================================================
