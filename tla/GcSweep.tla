-------------------------------- MODULE GcSweep --------------------------------
(******************************************************************************)
(* One sweep cycle after another: GC::sweep_one (gc.rs) pops spans from the   *)
(* unswept buffer and claims them by their sweep generation,                  *)
(* MemorySpanData::sweep (memory_span.rs) counts what is left in a span and   *)
(* gives it to its MemoryCentral, to the heap (memory_heap.rs) or to the      *)
(* swept buffer.                                                              *)
(*                                                                            *)
(* Calls may overlap (Exclusive = FALSE): every load and store of what they   *)
(* share is a step of its own.  Under `&mut self' they do not.                *)
(*                                                                            *)
(* The sweep buffers are stacks of slots here: module SweepBuffer says how a  *)
(* push or pop works and when a buffer behaves as one.  What is left of its   *)
(* faults: the push that installs the block of a buffer leaves its slot       *)
(* unwritten, and a pop of an empty buffer moves the index below zero.        *)
(*                                                                            *)
(* Allocation, marking and the start of a cycle are not in the repository.    *)
(* They are the External actions, made after what src/ says of them.          *)
(******************************************************************************)
EXTENDS Integers, Sequences, FiniteSets

CONSTANTS
  Threads,        (* callers of sweep_one and of sweep                         *)
  Exclusive,      (* one call at a time, as `&mut self' has it?                *)
  Spans, Large,   (* all spans; those of size class 0, which hold one object   *)
  Elements,       (* number_of_elements of any other span                      *)
  Pages,          (* number_of_pages of each span                              *)
  CountMod,       (* 2^16: a count of objects is a u16                         *)
  CounterMod,     (* 2^64: pages_in_use is a u64                               *)
  OverflowChecks, (* a debug build, in which an overflow panics?               *)
  Unimplemented,  (* the functions on sweep's way that are `unimplemented!()'  *)
  FreshIsZero,    (* is memory from alloc zero, so that it reads as None?      *)
  MaxGeneration,  (* bound on the cycles that are explored                     *)
  NoSpan          (* a slot that was never written, or no span                 *)

ASSUME ParametersAssumption ==
  /\ Exclusive \in BOOLEAN /\ OverflowChecks \in BOOLEAN /\ FreshIsZero \in BOOLEAN
  /\ IsFiniteSet(Threads) /\ IsFiniteSet(Spans) /\ Large \subseteq Spans /\ NoSpan \notin Spans
  /\ Elements \in Nat \ {0} /\ Pages \in [Spans -> Nat \ {0}]
  /\ CounterMod \in Nat \ {0, 1} /\ MaxGeneration \in Nat
  /\ Unimplemented \subseteq {"free_specials", "new_mark_bits"}

(* A span has fewer pages than there are addresses: none has !0 of them.      *)
ASSUME PagesAssumption == \A s \in Spans : Pages[s] < CounterMod - 1

(* Objects have 8 bytes or more: a span of at most 32 KiB has 2^12 of them.   *)
ASSUME CountAssumption == CountMod \in Nat /\ Elements < CountMod

VARIABLES
  sweep_generation, sweep_done, sweepers, pages_swept,  (* MemoryHeap          *)
  sweep_buffers,       (* the two buffers, each a stack of slots               *)
  has_block,           (* which of the two have installed their first block    *)
  pages_in_use,        (* ProtectedMemoryHeap                                  *)
  poisoned,            (* the heap's Mutex, after a panic under its guard      *)
  state, span_gen, allocations_count,   (* of each span: its state,            *)
                                        (* sweep_generation and count          *)
  marked,              (* objects marked in the gc_mark_bits of each span      *)
  live,                (* History: the objects of each span that are in use,   *)
                       (* as the mark phase found or as allocated since        *)
  pc, call             (* each thread's place in its call, and its locals      *)

heapVars == <<sweep_generation, sweep_done, sweepers, pages_swept>>
bufferVars == <<sweep_buffers, has_block>>
lockedVars == <<pages_in_use, poisoned>>
spanVars == <<state, span_gen, allocations_count, marked, live>>
vars == <<heapVars, bufferVars, lockedVars, spanVars, pc, call>>

ElementsOf(s) == IF s \in Large THEN 1 ELSE Elements

(* The locals of sweep_one, sweep and push.  seen is the generation loaded    *)
(* from the span, number the objects counted in it; pages is what sweep_one   *)
(* returns, !0 "if there is nothing to sweep".                                *)
NothingLeft == CounterMod - 1
NoCall == [span |-> NoSpan, gen |-> 0, direct |-> FALSE, seen |-> 0, number |-> 0,
           freed |-> 0, to_heap |-> FALSE, slot |-> 0, pages |-> NothingLeft]

PopSteps == {"pop", "undo", "none", "load", "inspect", "claim"}
SweepSteps == {"sweep", "check", "count", "freed", "store", "swap", "state", "owner",
               "release", "dispose", "locked", "push", "fill"}
Running(t) == pc[t] \notin {"idle", "panicked"}
NobodyRuns == \A t \in Threads : ~Running(t)
MayCall(t) == pc[t] = "idle" /\ (Exclusive => NobodyRuns)

Goto(t, from, to) == pc[t] = from /\ pc' = [pc EXCEPT ![t] = to]
(* A step that does nothing to what the calls share.                          *)
Local(t, from, to) ==
  Goto(t, from, to) /\ UNCHANGED <<heapVars, bufferVars, lockedVars, spanVars>>

(* Which buffer is which, MemoryHeap::get_{pushable,popable}_sweep_buffer.    *)
Pushable(gen) == (gen \div 2) % 2
Popable(gen) == 1 - ((gen \div 2) % 2)

(* The buffer that a call pops, and its last slot.                            *)
Popped(t) == sweep_buffers[Popable(call[t].gen)]
LastSlot(t) == Popped(t)[Len(Popped(t))]
Pop(t) ==
  sweep_buffers' = [sweep_buffers EXCEPT
    ![Popable(call[t].gen)] = SubSeq(@, 1, Len(@) - 1)]

(* PushableSweepBuffer::push of a caller alone.                               *)
Push(b, s) ==
  /\ sweep_buffers' = [sweep_buffers EXCEPT
                         ![b] = Append(@, IF has_block[b] THEN s ELSE NoSpan)]
  /\ has_block' = [has_block EXCEPT ![b] = TRUE]

(* The Faulty variants below are no part of Next: each is what a definition   *)
(* would be with one plausible bug, and some property must reject it.         *)

(* LockedMemoryHeap::free_span: what it checks before it frees a span.        *)
CanFree(s) ==
  /\ allocations_count[s] = 0
  /\ \/ state[s] = "Manual"
     \/ /\ state[s] = "InUse"
        /\ span_gen[s] = sweep_generation
        /\ OverflowChecks => pages_in_use >= Pages[s]

Init ==
  /\ sweep_generation = 0 /\ sweep_done = FALSE /\ sweepers = 0 /\ pages_swept = 0
  /\ sweep_buffers = [b \in {0, 1} |-> <<>>]
  /\ has_block = [b \in {0, 1} |-> FALSE]
  /\ pages_in_use = 0 /\ poisoned = FALSE
  /\ state = [s \in Spans |-> "Dead"]
  /\ span_gen = [s \in Spans |-> 0]
  /\ allocations_count = [s \in Spans |-> 0]
  /\ marked = [s \in Spans |-> 0]
  /\ live = [s \in Spans |-> 0]
  /\ pc = [t \in Threads |-> "idle"]
  /\ call = [t \in Threads |-> NoCall]

-------------------------------------------------------------------------------
(* External: what the allocator and the mark phase will do.                   *)

(* A span comes into use.  "allocating an in-use span pushes it on the swept  *)
(* stack"; it is as swept as the cycle.  No function counts its pages.        *)
AllocateSpan(s) ==
  /\ NobodyRuns
  /\ state[s] \in {"Dead", "Free"}
  /\ \E n \in 1 .. ElementsOf(s) :
       /\ allocations_count' = [allocations_count EXCEPT ![s] = n]
       /\ live' = [live EXCEPT ![s] = n]
  /\ state' = [state EXCEPT ![s] = "InUse"]
  /\ span_gen' = [span_gen EXCEPT ![s] = sweep_generation]
  /\ Push(Pushable(sweep_generation), s)
  /\ UNCHANGED <<heapVars, lockedVars, marked, pc, call>>

(* A span is taken for manual management; it holds no objects.                *)
AllocateManual(s) ==
  /\ NobodyRuns
  /\ state[s] \in {"Dead", "Free"}
  /\ state' = [state EXCEPT ![s] = "Manual"]
  /\ allocations_count' = [allocations_count EXCEPT ![s] = 0]
  /\ UNCHANGED <<heapVars, bufferVars, lockedVars, span_gen, marked, live, pc, call>>

(* A collection begins when the last is swept: its mark phase finds some of   *)
(* the objects alive, and the generation is "increased by 2 after every GC".  *)
StartCycle ==
  /\ NobodyRuns
  /\ sweep_done
  /\ sweep_generation + 2 <= MaxGeneration
  /\ sweep_generation' = sweep_generation + 2
  /\ sweep_done' = FALSE
  /\ pages_swept' = 0
  /\ marked' \in {m \in [Spans -> 0 .. Elements] :
                    \A s \in Spans : m[s] <= allocations_count[s]}
  /\ live' = marked'
  /\ UNCHANGED <<sweepers, bufferVars, lockedVars, state, span_gen,
                 allocations_count, pc, call>>

(* Direct sweeping, before allocating from an unswept span: claim it by its   *)
(* generation and call sweep on it.                                           *)
DirectSweep(t, s) ==
  /\ MayCall(t)
  /\ state[s] = "InUse"
  /\ span_gen[s] = sweep_generation - 2
  /\ span_gen' = [span_gen EXCEPT ![s] = sweep_generation - 1]
  /\ Goto(t, "idle", "sweep")
  /\ call' = [call EXCEPT ![t] = [NoCall EXCEPT
       !.span = s, !.gen = sweep_generation, !.direct = TRUE]]
  /\ UNCHANGED <<heapVars, bufferVars, lockedVars, state, allocations_count, marked, live>>

-------------------------------------------------------------------------------
(* GC::sweep_one                                                              *)

(* There is nothing left to sweep: return !0.                                 *)
SweepOneDone(t) ==
  /\ MayCall(t)
  /\ sweep_done
  /\ UNCHANGED vars

(* Load sweep_done, join the sweepers, load the generation.  No call looks at *)
(* `sweepers', and a collection, which changes the generation, waits for all  *)
(* calls: the load of sweep_done is the step the others can tell.             *)
SweepOneBegin(t) ==
  /\ MayCall(t)
  /\ ~sweep_done
  /\ Goto(t, "idle", "pop")
  /\ sweepers' = sweepers + 1
  /\ call' = [call EXCEPT ![t] = [NoCall EXCEPT !.gen = sweep_generation]]
  /\ UNCHANGED <<sweep_generation, sweep_done, pages_swept, bufferVars, lockedVars,
                 spanVars>>

(* A pop takes its slot by a fetch_sub; no other pop has it, and nobody       *)
(* pushes on this buffer, so that the rest of the pop is the same step.       *)
PopSpan(t) ==
  /\ Popped(t) # <<>> /\ LastSlot(t) # NoSpan
  /\ Pop(t)
  /\ Goto(t, "pop", "load")
  /\ call' = [call EXCEPT ![t].span = LastSlot(t)]
  /\ UNCHANGED <<heapVars, has_block, lockedVars, spanVars>>

(* A pop that finds None does not take the slot.                              *)
FaultyPopNone(t) ==
  /\ Popped(t) # <<>> /\ LastSlot(t) = NoSpan
  /\ Local(t, "pop", "none") /\ UNCHANGED call

(* A slot that was never written reads as None, or as the leftovers of other  *)
(* memory: these are taken for a span, and the access to it fails.            *)
PopNone(t) ==
  /\ Popped(t) # <<>> /\ LastSlot(t) = NoSpan
  /\ Pop(t)
  /\ Goto(t, "pop", "none")
  /\ UNCHANGED <<heapVars, has_block, lockedVars, spanVars, call>>
PopWild(t) ==
  /\ ~FreshIsZero
  /\ Popped(t) # <<>> /\ LastSlot(t) = NoSpan
  /\ Pop(t)
  /\ Goto(t, "pop", "panicked")
  /\ UNCHANGED <<heapVars, has_block, lockedVars, spanVars, call>>

(* The fetch_sub of an empty buffer takes its index below zero, up to the     *)
(* fetch_add.  A pop in between takes the index for the number of a slot far  *)
(* outside of memory: a fault, after which nothing runs.  Here t stops and    *)
(* the others go on, which they may at any point: no behaviour is left out.   *)
BelowZero == \E t \in Threads : pc[t] = "undo"
PopEmpty(t) ==
  /\ Popped(t) = <<>> /\ ~BelowZero
  /\ Local(t, "pop", "undo") /\ UNCHANGED call
PopBeyond(t) ==
  /\ BelowZero
  /\ Local(t, "pop", "panicked") /\ UNCHANGED call
PopUndo(t) == Local(t, "undo", "none") /\ UNCHANGED call

(* The end of the buffer is not remembered.                                   *)
FaultyNotDone(t) == Local(t, "none", "end") /\ UNCHANGED call

(* pop returned None: sweeping is done.                                       *)
SweepingDone(t) ==
  /\ Goto(t, "none", "end")
  /\ sweep_done' = TRUE
  /\ UNCHANGED <<sweep_generation, sweepers, pages_swept, bufferVars, lockedVars, spanVars,
                 call>>

LoadGeneration(t) ==
  /\ Local(t, "load", "inspect")
  /\ call' = [call EXCEPT ![t].seen = span_gen[call[t].span]]

(* A span that needs no sweeping is dropped; its generation was loaded before *)
(* its state is.                                                              *)
Inspect(t) ==
  /\ Local(t, "inspect",
           IF state[call[t].span] # "InUse"
           THEN IF call[t].seen # call[t].gen THEN "panicked" ELSE "pop"
           ELSE IF call[t].seen # call[t].gen - 2 THEN "pop" ELSE "claim")
  /\ UNCHANGED call

(* The claim is a store, not a compare_and_swap.                              *)
FaultyClaim(t) ==
  /\ Goto(t, "claim", "sweep")
  /\ span_gen' = [span_gen EXCEPT ![call[t].span] = call[t].gen - 1]
  /\ call' = [call EXCEPT ![t].pages = Pages[call[t].span]]
  /\ UNCHANGED <<heapVars, bufferVars, lockedVars, state, allocations_count, marked, live>>

(* compare_and_swap returns the old value, and the loop goes on when that is  *)
(* the expected one: the span that was just claimed is dropped, and one that  *)
(* somebody else claimed meanwhile is swept.                                  *)
Claim(t) ==
  /\ pc[t] = "claim"
  /\ LET s == call[t].span IN
       \/ /\ span_gen[s] = call[t].gen - 2
          /\ span_gen' = [span_gen EXCEPT ![s] = call[t].gen - 1]
          /\ Goto(t, "claim", "pop")
          /\ UNCHANGED call
       \/ /\ span_gen[s] # call[t].gen - 2
          /\ UNCHANGED span_gen
          /\ Goto(t, "claim", "sweep")
          /\ call' = [call EXCEPT ![t].pages = Pages[s]]
  /\ UNCHANGED <<heapVars, bufferVars, lockedVars, state, allocations_count, marked, live>>

(* The counter of sweepers does not go down.                                  *)
FaultyEndNever(t) ==
  Goto(t, "end", "idle") /\ call' = [call EXCEPT ![t] = NoCall]
  /\ UNCHANGED <<heapVars, bufferVars, lockedVars, spanVars>>

SweepOneEnd(t) ==
  /\ Goto(t, "end", "idle")
  /\ sweepers' = sweepers - 1
  /\ call' = [call EXCEPT ![t] = NoCall]
  /\ UNCHANGED <<sweep_generation, sweep_done, pages_swept, bufferVars, lockedVars,
                 spanVars>>

-------------------------------------------------------------------------------
(* MemorySpanData::sweep                                                      *)

(* sweep_one counts the pages of every span it sweeps.                        *)
FaultyReturn(t, from, result) ==
  IF call[t].direct
  THEN Goto(t, from, "idle") /\ call' = [call EXCEPT ![t] = NoCall]
  ELSE Goto(t, from, "end") /\ UNCHANGED call

(* sweep returns to a direct caller or to sweep_one, which counts no pages    *)
(* for a span that is still in use.                                           *)
Return(t, from, result) ==
  IF call[t].direct
  THEN Goto(t, from, "idle") /\ call' = [call EXCEPT ![t] = NoCall]
  ELSE Goto(t, from, "end") /\ call' = [call EXCEPT ![t].pages = IF result THEN @ ELSE 0]

SweepLoad(t) ==
  /\ Local(t, "sweep", "check")
  /\ call' = [call EXCEPT ![t].seen = span_gen[call[t].span]]

(* The span must be in use and claimed.  Its pages count as swept.            *)
SweepCheck(t) ==
  LET valid == state[call[t].span] = "InUse" /\ call[t].seen = call[t].gen - 1 IN
  /\ Goto(t, "check",
          IF valid /\ "free_specials" \notin Unimplemented THEN "count" ELSE "panicked")
  /\ pages_swept' = pages_swept + IF valid THEN Pages[call[t].span] ELSE 0
  /\ UNCHANGED <<sweep_generation, sweep_done, sweepers, bufferVars, lockedVars,
                 spanVars, call>>

(* The objects that are not marked are counted.                               *)
FaultyCount(t) ==
  LET s == call[t].span
      number == allocations_count[s] - marked[s]
  IN  /\ Local(t, "count", "freed")
      /\ call' = [call EXCEPT ![t].number = number,
                              ![t].to_heap = s \in Large /\ number = 0]

(* Count the marks; a large span without any goes to the heap.                *)
SweepCount(t) ==
  LET number == marked[call[t].span] % CountMod IN
  /\ Local(t, "count", "freed")
  /\ call' = [call EXCEPT ![t].number = number,
                          ![t].to_heap = call[t].span \in Large /\ number = 0]

(* What was allocated and is not marked is freed.                             *)
CountFreed(t) ==
  LET count == allocations_count[call[t].span]
      increased == call[t].number > count
  IN  /\ Local(t, "freed", IF increased THEN "panicked" ELSE "store")
      /\ call' = [call EXCEPT ![t].freed = IF increased THEN @ ELSE count - call[t].number]

(* The new count is not stored.                                               *)
FaultyStoreCount(t) == Local(t, "store", "swap") /\ UNCHANGED call

StoreCount(t) ==
  /\ Goto(t, "store", "swap")
  /\ allocations_count' = [allocations_count EXCEPT ![call[t].span] = call[t].number]
  /\ UNCHANGED <<heapVars, bufferVars, lockedVars, state, span_gen, marked, live, call>>

(* The mark bits become the allocation bits, and fresh ones are zero.  A full *)
(* span, or one that goes to the heap, is now released.                       *)
SwapBits(t) ==
  LET missing == "new_mark_bits" \in Unimplemented IN
  /\ Goto(t, "swap", IF missing THEN "panicked"
                     ELSE IF call[t].to_heap \/ call[t].freed = 0 THEN "state" ELSE "dispose")
  /\ marked' = IF missing THEN marked ELSE [marked EXCEPT ![call[t].span] = 0]
  /\ UNCHANGED <<heapVars, bufferVars, lockedVars, state, span_gen, allocations_count, live,
                 call>>

(* "The span must be in our exclusive ownership until we update sweepgen,     *)
(* check for potential races": its state, then its generation.                *)
ReleaseState(t) ==
  /\ Local(t, "state", IF state[call[t].span] = "InUse" THEN "owner" ELSE "panicked")
  /\ UNCHANGED call
ReleaseOwner(t) ==
  /\ Local(t, "owner",
           IF span_gen[call[t].span] = call[t].gen - 1 THEN "release" ELSE "panicked")
  /\ UNCHANGED call
SweepRelease(t) ==
  /\ Goto(t, "release", "dispose")
  /\ span_gen' = [span_gen EXCEPT ![call[t].span] = call[t].gen]
  /\ UNCHANGED <<heapVars, bufferVars, lockedVars, state, allocations_count, marked, live,
                 call>>

(* MemoryCentral::free_span returns false and does nothing, whatever          *)
(* `preserve' is; nothing else looks at that parameter of sweep.              *)
SweepToCentral(t) ==
  /\ call[t].freed > 0 /\ call[t].span \notin Large
  /\ Local(t, "dispose", "push") /\ UNCHANGED call

(* The span is checked without the lock.                                      *)
FaultyToHeap(t) ==
  /\ call[t].to_heap
  /\ Goto(t, "dispose", IF ~poisoned /\ CanFree(call[t].span) THEN "locked" ELSE "panicked")
  /\ poisoned' = (poisoned \/ ~CanFree(call[t].span))
  /\ UNCHANGED <<heapVars, bufferVars, pages_in_use, spanVars, call>>

(* MemoryHeap::free_span takes the lock of the heap and checks the span; a    *)
(* panic poisons the lock.                                                    *)
SweepToHeap(t) ==
  /\ call[t].to_heap
  /\ \A u \in Threads : pc[u] # "locked"
  /\ Goto(t, "dispose", IF ~poisoned /\ CanFree(call[t].span) THEN "locked" ELSE "panicked")
  /\ poisoned' = (poisoned \/ ~CanFree(call[t].span))
  /\ UNCHANGED <<heapVars, bufferVars, pages_in_use, spanVars, call>>

(* sweep forgets `result = true' and puts the freed span on the swept list.   *)
FaultyFreeLocked(t) ==
  /\ Goto(t, "locked", "push")
  /\ pages_in_use' = (pages_in_use - Pages[call[t].span]) % CounterMod
  /\ state' = [state EXCEPT ![call[t].span] = "Free"]
  /\ UNCHANGED <<heapVars, bufferVars, poisoned, span_gen, allocations_count, marked, live,
                 call>>

(* The span is free; coalesce and the insertion in a treap do nothing yet.    *)
FreeLocked(t) ==
  LET s == call[t].span IN
  /\ Return(t, "locked", TRUE)
  /\ pages_in_use' = (pages_in_use - Pages[s]) % CounterMod
  /\ state' = [state EXCEPT ![s] = "Free"]
  /\ UNCHANGED <<heapVars, bufferVars, poisoned, span_gen, allocations_count, marked, live>>

SweepKeep(t) ==
  /\ ~call[t].to_heap
  /\ call[t].freed = 0 \/ call[t].span \in Large
  /\ Local(t, "dispose", "push") /\ UNCHANGED call

(* The span is still in use and goes on the swept buffer: a push claims its   *)
(* slot, and writes it unless it is the one that installs the block.          *)
SweepPush(t) ==
  LET b == Pushable(call[t].gen) IN
  /\ Goto(t, "push", "fill")
  /\ sweep_buffers' = [sweep_buffers EXCEPT ![b] = Append(@, NoSpan)]
  /\ call' = [call EXCEPT ![t].slot = Len(sweep_buffers[b]) + 1]
  /\ UNCHANGED <<heapVars, has_block, lockedVars, spanVars>>
(* The block that the first push installs is not counted.                     *)
FaultyPushFill(t) ==
  /\ Return(t, "fill", FALSE)
  /\ UNCHANGED <<heapVars, bufferVars, lockedVars, spanVars>>

PushFill(t) ==
  LET b == Pushable(call[t].gen) IN
  /\ Return(t, "fill", FALSE)
  /\ IF has_block[b]
     THEN sweep_buffers' = [sweep_buffers EXCEPT ![b][call[t].slot] = call[t].span]
     ELSE UNCHANGED sweep_buffers
  /\ has_block' = [has_block EXCEPT ![b] = TRUE]
  /\ UNCHANGED <<heapVars, lockedVars, spanVars>>

(* free_manual_span takes a span that is in use.                              *)
FaultyFreeManual(s) ==
  /\ NobodyRuns
  /\ state[s] \in {"Manual", "InUse"} /\ allocations_count[s] = 0 /\ ~poisoned
  /\ state' = [state EXCEPT ![s] = "Free"]
  /\ UNCHANGED <<heapVars, bufferVars, lockedVars, span_gen, allocations_count, marked,
                 live, pc, call>>

(* MemoryHeap::free_manual_span, under the same lock and checks.              *)
FreeManualSpan(s) ==
  /\ NobodyRuns
  /\ state[s] = "Manual"
  /\ IF ~poisoned /\ CanFree(s)
     THEN state' = [state EXCEPT ![s] = "Free"] /\ UNCHANGED poisoned
     ELSE poisoned' = TRUE /\ UNCHANGED state
  /\ UNCHANGED <<heapVars, bufferVars, pages_in_use, span_gen, allocations_count, marked,
                 live, pc, call>>

SweepOneStep(t) ==
  \/ PopSpan(t) \/ PopNone(t) \/ PopWild(t) \/ PopEmpty(t) \/ PopBeyond(t) \/ PopUndo(t)
  \/ SweepingDone(t) \/ LoadGeneration(t) \/ Inspect(t) \/ Claim(t) \/ SweepOneEnd(t)
SweepStep(t) ==
  \/ SweepLoad(t) \/ SweepCheck(t) \/ SweepCount(t) \/ CountFreed(t) \/ StoreCount(t)
  \/ SwapBits(t) \/ ReleaseState(t) \/ ReleaseOwner(t) \/ SweepRelease(t)
  \/ SweepToCentral(t) \/ SweepToHeap(t) \/ FreeLocked(t) \/ SweepKeep(t)
  \/ SweepPush(t) \/ PushFill(t)

Next ==
  \/ \E s \in Spans : AllocateSpan(s) \/ AllocateManual(s) \/ FreeManualSpan(s)
  \/ StartCycle
  \/ \E t \in Threads :
       \/ SweepOneBegin(t) \/ SweepOneDone(t) \/ SweepOneStep(t) \/ SweepStep(t)
       \/ \E s \in Spans : DirectSweep(t, s)

Spec == Init /\ [][Next]_vars

-------------------------------------------------------------------------------
(* Properties.                                                                *)

(* The variables stay within their types.                                     *)
TypeOK ==
  /\ sweep_generation \in 0 .. MaxGeneration /\ sweep_done \in BOOLEAN
  /\ sweepers \in Nat /\ pages_swept \in Nat
  /\ sweep_buffers \in [{0, 1} -> Seq(Spans \cup {NoSpan})]
  /\ has_block \in [{0, 1} -> BOOLEAN]
  /\ pages_in_use \in 0 .. CounterMod - 1 /\ poisoned \in BOOLEAN
  /\ state \in [Spans -> {"Dead", "InUse", "Manual", "Free"}]
  /\ span_gen \in [Spans -> 0 .. MaxGeneration]
  /\ allocations_count \in [Spans -> 0 .. Elements]
  /\ marked \in [Spans -> 0 .. Elements] /\ live \in [Spans -> 0 .. Elements]
  /\ pc \in [Threads -> {"idle", "panicked", "end"} \cup PopSteps \cup SweepSteps]
  /\ call \in [Threads -> [span : Spans \cup {NoSpan}, gen : 0 .. MaxGeneration,
                           direct : BOOLEAN, seen : 0 .. MaxGeneration,
                           number : 0 .. Elements, freed : 0 .. Elements,
                           to_heap : BOOLEAN, slot : Nat, pages : 0 .. NothingLeft]]

Slots(b) == {i \in 1 .. Len(sweep_buffers[b]) : sweep_buffers[b][i] # NoSpan}
Unswept == sweep_buffers[Popable(sweep_generation)]

(* sweep_done says that the unswept buffer is drained: nothing of this cycle  *)
(* is left in the buffer that takes the pushes of the next one.               *)
DoneMeansDrained == sweep_done => Unswept = <<>>

(* sweep_one's "non in-use span in unswept list" never happens: a span that   *)
(* left use while it waited was swept in this cycle.                          *)
UnsweptSound ==
  /\ \A i \in Slots(Popable(sweep_generation)) :
       state[Unswept[i]] # "InUse" => span_gen[Unswept[i]] = sweep_generation
  /\ \A t \in Threads : pc[t] = "inspect" =>
       state[call[t].span] = "InUse" \/ call[t].seen = call[t].gen

(* A buffer holds a span once, and both do only when the waiting entry is out *)
(* of date: sweep_one would otherwise sweep a span that is on the swept list. *)
OnceInBuffer ==
  /\ \A b \in {0, 1} : \A i, j \in Slots(b) :
       sweep_buffers[b][i] = sweep_buffers[b][j] => i = j
  /\ \A i \in Slots(0), j \in Slots(1) :
       sweep_buffers[0][i] = sweep_buffers[1][j] =>
         span_gen[sweep_buffers[0][i]] # sweep_generation - 2

(* `sweep_generation - 2' does not underflow: no span is popped before the    *)
(* first cycle.                                                               *)
NoUnderflow == \A t \in Threads : pc[t] \in {"load", "inspect", "claim"} => call[t].gen >= 2

(* A span goes back to the heap only if none of its objects is in use, and in *)
(* the cycle that swept it: the marks are read before they are cleared.       *)
NoLiveObjectFreed ==
  [][\A s \in Spans : state[s] = "InUse" /\ state'[s] = "Free" =>
       live[s] = 0 /\ span_gen[s] = sweep_generation]_vars

(* sweep_one "returns number of pages returned to heap, or !0 if there is     *)
(* nothing to sweep": none that the heap did not get, also when another call  *)
(* sweeps the span at once, keeps it or frees it first.                       *)
PagesReturned ==
  \A t \in Threads : pc[t] = "end" =>
    \/ call[t].pages = NothingLeft /\ sweep_done
    \/ call[t].pages = 0
    \/ state[call[t].span] = "Free" /\ call[t].pages = Pages[call[t].span]

(* The lock of the heap is not poisoned, but by an overflow of pages_in_use:  *)
(* "invalid stack free", "invalid free" and "invalid span state" never happen.*)
HeapNotPoisoned == poisoned => OverflowChecks

(* The life of each span, as SpanLife promises it.                            *)
LifeOf(s) ==
  CASE state[s] = "Dead" -> "dead"
    [] state[s] = "Free" -> "free"
    [] state[s] = "Manual" -> "manual"
    [] state[s] = "InUse" /\ span_gen[s] = sweep_generation -> "ready"
    [] state[s] = "InUse" /\ span_gen[s] = sweep_generation - 1 -> "claimed"
    [] state[s] = "InUse" /\ span_gen[s] = sweep_generation - 2 -> "unswept"
    [] OTHER -> "stale"

Life(s) == INSTANCE SpanLife WITH life <- LifeOf(s)

(* The sweep implements SpanLife for every span: calls that overlap, entries  *)
(* that are out of date and a claim that is dropped never free a span that    *)
(* was not swept, claim one twice in a cycle, or touch one not in use.        *)
ImplementsLife ==
  /\ \A s \in Spans : Life(s)!Init
  /\ [][\A s \in Spans : Life(s)!Next \/ UNCHANGED LifeOf(s)]_vars

(* `sweepers' is the "number of active sweepone calls".                       *)
SweepersExact == sweepers = Cardinality({t \in Threads : Running(t) /\ ~call[t].direct})

-------------------------------------------------------------------------------
(* What a comment says and the code does not keep.                            *)

(* "if sweepgen == h->sweepgen - 1, the span is currently being swept".       *)
GenerationMeans ==
  \A s \in Spans : state[s] = "InUse" /\ span_gen[s] = sweep_generation - 1 =>
    \E t \in Threads : pc[t] \in SweepSteps /\ call[t].span = s
===============================================================================
