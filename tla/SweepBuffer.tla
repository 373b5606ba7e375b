------------------------------ MODULE SweepBuffer ------------------------------
(******************************************************************************)
(* The sweep buffer of sweep_buffer.rs: a stack of spans kept in a "spine" of *)
(* blocks.  Pushes claim a slot with an atomic increment and install missing  *)
(* blocks under the spine_cap mutex; pops claim a slot with an atomic         *)
(* decrement.  Several pushes may overlap, or several pops, but the caller    *)
(* keeps pushes and pops apart (variable phase).                              *)
(*                                                                            *)
(* Memory is modelled as the build produces it.  get_spine_block transmutes   *)
(* the address of a spine slot into an AtomicPtr *value*, so loading it       *)
(* yields the address of the slot and not the block the slot should hold:     *)
(* entry `bottom' of block `top' is the spine cell top + bottom.              *)
(* allocate_block stores the fresh block into such a local AtomicPtr, so no   *)
(* slot ever refers to the block and what is written to it is unreachable.    *)
(******************************************************************************)
EXTENDS Integers, FiniteSets

CONSTANTS
  Pushers,       (* threads that call push                                    *)
  Poppers,       (* threads that call pop                                     *)
  Spans,         (* the spans the caller owns                                 *)
  BlockEntries,  (* GC_SWEEP_BLOCK_ENTRIES, 512                               *)
  InitSpineCap,  (* GC_SWEEP_BUF_INIT_SPINE_CAP, 256                          *)
  PointerBytes,  (* size_of::<SweepBlock>(), 8                                *)
  IndexMod,      (* 2^64: the index is a wrapping usize                       *)
  RelaxedMemory, (* may a Relaxed load of the spine return an older pointer?  *)
  NoSpan,        (* the None of Option<MemorySpan>                            *)
  Junk,          (* content of memory that was allocated and never written    *)
  NoThread       (* nobody holds the spine_cap mutex                          *)

Threads == Pushers \cup Poppers

ASSUME SizesAssumption ==
  /\ BlockEntries \in Nat \ {0}
  /\ InitSpineCap \in Nat \ {0}
  /\ PointerBytes \in Nat \ {0}
  /\ RelaxedMemory \in BOOLEAN
ASSUME SentinelAssumption ==
  /\ NoSpan \notin Spans
  /\ Junk \notin Spans \cup {NoSpan}
  /\ NoThread \notin Threads
ASSUME IndexAssumption ==       \* fewer than 2^64 spans, and no more threads
  /\ IsFiniteSet(Spans)
  /\ IndexMod \in Nat
  /\ Cardinality(Spans) + 1 < IndexMod

VARIABLES
  phase,        (* which of the two operations the caller uses at present     *)
  index,        (* first unused slot, AtomicUsize                             *)
  spine_length, (* number of blocks, AtomicUsize                              *)
  spine_cap,    (* value guarded by the Mutex                                 *)
  cap_holder,   (* thread that holds the MutexGuard                           *)
  spine,        (* the AtomicPtr: id of an allocation, 0 is the null pointer  *)
  live,         (* id of the allocation that is not freed                     *)
  cells,        (* content of that allocation, one cell per entry             *)
  pc, cursor, item, base,  (* each thread's place in the call and its locals  *)
  view,         (* newest spine pointer each thread is known to have seen     *)
  inside        (* spans handed to push and not returned by a pop since       *)

shared == <<index, spine_length, spine_cap, cap_holder, spine, live, cells>>
locals == <<pc, cursor, item, base>>
vars == <<phase, shared, locals, view, inside>>

Cells == Spans \cup {NoSpan, Junk}
PushSteps == {"load", "lock", "recheck", "grow", "publish", "install", "locate",
              "store", "fill", "panicked"}
PopSteps == {"undo", "read", "clear"}
Holding == {"recheck", "grow", "publish", "install"}

Top(c) == c \div BlockEntries

(* A faulty variant of Bottom, with every entry the first; see below.         *)
FaultyBottom(c) == 0
Bottom(c) == c % BlockEntries

(* The spine cell that get_spine_block(top).spans[bottom] designates.         *)
Offset(c) == Top(c) + Bottom(c)

(* An access through pointer b lands in memory of the spine.                  *)
InSpine(b, i) == b = live /\ i \in DOMAIN cells

Goto(t, from, to) == pc[t] = from /\ pc' = [pc EXCEPT ![t] = to]

(* The call ends and its locals go out of scope.                              *)
Return(t, from) ==
  /\ Goto(t, from, "idle")
  /\ cursor' = [cursor EXCEPT ![t] = 0]
  /\ item' = [item EXCEPT ![t] = NoSpan]
  /\ base' = [base EXCEPT ![t] = 0]

Init ==
  /\ phase = "push"
  /\ index = 0
  /\ spine_length = 0
  /\ spine_cap = 0
  /\ cap_holder = NoThread
  /\ spine = 0
  /\ live = 0
  /\ cells = [i \in {} |-> NoSpan]
  /\ pc = [t \in Threads |-> "idle"]
  /\ cursor = [t \in Threads |-> 0]
  /\ item = [t \in Threads |-> NoSpan]
  /\ base = [t \in Threads |-> 0]
  /\ view = [t \in Threads |-> 0]
  /\ inside = {}

-------------------------------------------------------------------------------
(* Faulty variants.  None is part of Next: each is what an operation below    *)
(* would be with one plausible bug, and some property must reject it.         *)

(* The fast path with `<=' for `<'.                                           *)
FaultyLoadLength(t) ==
  /\ Goto(t, "load", IF Top(cursor[t]) <= spine_length THEN "locate" ELSE "lock")
  /\ UNCHANGED <<phase, shared, cursor, item, base, view, inside>>

(* The spine is grown without the mutex.                                      *)
FaultyLock(t) ==
  /\ Goto(t, "lock", "recheck")
  /\ cap_holder' = t
  /\ view' = [view EXCEPT ![t] = spine]
  /\ UNCHANGED <<phase, index, spine_length, spine_cap, spine, live, cells,
                 cursor, item, base, inside>>

(* The length is not read again under the lock.                               *)
FaultyNoRecheck(t) ==
  /\ Goto(t, "recheck", IF spine_length = spine_cap THEN "grow" ELSE "install")
  /\ UNCHANGED <<phase, index, spine_length, spine_cap, cap_holder, spine, live, cells,
                 cursor, item, base, view, inside>>

(* The guard outlives `continue'.                                             *)
FaultyKeepGuard(t) ==
  /\ Goto(t, "recheck", IF Top(cursor[t]) < spine_length THEN "locate"
                        ELSE IF spine_length = spine_cap THEN "grow" ELSE "install")
  /\ UNCHANGED <<phase, index, spine_length, spine_cap, cap_holder, spine, live, cells,
                 cursor, item, base, view, inside>>

(* allocate_block does not assign the new capacity.                           *)
FaultyPublish(t) ==
  /\ Goto(t, "publish", "install")
  /\ spine' = live
  /\ view' = [view EXCEPT ![t] = live]
  /\ UNCHANGED <<phase, index, spine_length, spine_cap, cap_holder, live, cells,
                 cursor, item, base, inside>>

(* pop takes the cursor that fetch_sub returned for its own.                  *)
FaultyPopCursor(t) ==
  /\ phase = "pop"
  /\ Goto(t, "idle", IF index = 0 THEN "undo" ELSE "read")
  /\ cursor' = [cursor EXCEPT ![t] = index]
  /\ index' = (index + IndexMod - 1) % IndexMod
  /\ UNCHANGED <<phase, spine_length, spine_cap, cap_holder, spine, live, cells,
                 item, base, view, inside>>

(* pop leaves the span in its slot.                                           *)
FaultyPopClear(t) ==
  /\ Goto(t, "clear", "idle")
  /\ cursor' = [cursor EXCEPT ![t] = 0]
  /\ item' = [item EXCEPT ![t] = NoSpan]
  /\ base' = [base EXCEPT ![t] = 0]
  /\ inside' = inside \ {item[t]}
  /\ UNCHANGED <<phase, index, spine_length, spine_cap, cap_holder, spine, live,
                 cells, view>>

-------------------------------------------------------------------------------
(* PushableSweepBuffer::push                                                  *)

(* fetch_add on the index claims a slot for s.                                *)
PushClaim(t, s) ==
  /\ phase = "push"
  /\ s \notin inside
  /\ Goto(t, "idle", "load")
  /\ cursor' = [cursor EXCEPT ![t] = index]
  /\ item' = [item EXCEPT ![t] = s]
  /\ index' = (index + 1) % IndexMod
  /\ inside' = inside \cup {s}
  /\ UNCHANGED <<phase, spine_length, spine_cap, cap_holder, spine, live, cells,
                 base, view>>

(* The block exists already: no lock is needed.                               *)
PushLoadLength(t) ==
  /\ Goto(t, "load", IF Top(cursor[t]) < spine_length THEN "locate" ELSE "lock")
  /\ UNCHANGED <<phase, shared, cursor, item, base, view, inside>>

(* Taking the mutex also makes the writes of its last holder visible.         *)
PushLock(t) ==
  /\ cap_holder = NoThread
  /\ Goto(t, "lock", "recheck")
  /\ cap_holder' = t
  /\ view' = [view EXCEPT ![t] = spine]
  /\ UNCHANGED <<phase, index, spine_length, spine_cap, spine, live, cells,
                 cursor, item, base, inside>>

(* Read the length again under the lock; the guard is dropped by `continue'   *)
(* when another push has installed the block meanwhile.                       *)
PushRecheck(t) ==
  /\ \/ /\ Top(cursor[t]) < spine_length
        /\ Goto(t, "recheck", "locate")
        /\ cap_holder' = NoThread
     \/ /\ Top(cursor[t]) >= spine_length
        /\ Goto(t, "recheck", IF spine_length = spine_cap THEN "grow" ELSE "install")
        /\ UNCHANGED cap_holder
  /\ UNCHANGED <<phase, index, spine_length, spine_cap, spine, live, cells,
                 cursor, item, base, view, inside>>

(* grow_spine's new_cap.                                                      *)
NextCap == IF spine_cap = 0 THEN InitSpineCap ELSE 2 * spine_cap

(* grow_spine up to the allocation.  The first spine is `alloc'ed for NextCap *)
(* entries; a later one is `realloc'ed, which frees the old allocation unless *)
(* it is resized in place, to a size of NextCap BYTES.                        *)
PushGrow(t) ==
  /\ Goto(t, "grow", "publish")
  /\ LET entries == IF spine_cap = 0 THEN NextCap ELSE NextCap \div PointerBytes
     IN  cells' = [i \in 0 .. entries - 1 |->
                     IF i \in DOMAIN cells THEN cells[i] ELSE Junk]
  /\ live' \in IF spine_cap = 0 THEN {live + 1} ELSE {live, live + 1}
  /\ UNCHANGED <<phase, index, spine_length, spine_cap, cap_holder, spine,
                 cursor, item, base, view, inside>>

(* The rest of grow_spine: the new pointer is stored, the capacity assigned.  *)
PushPublish(t) ==
  /\ Goto(t, "publish", "install")
  /\ spine' = live
  /\ spine_cap' = NextCap
  /\ view' = [view EXCEPT ![t] = live]
  /\ UNCHANGED <<phase, index, spine_length, cap_holder, live, cells,
                 cursor, item, base, inside>>

(* The rest of allocate_block: the store of the block reaches only a local,   *)
(* the length goes up, and the guard is dropped.                              *)
PushInstall(t) ==
  /\ Goto(t, "install", "fill")
  /\ spine_length' = spine_length + 1
  /\ cap_holder' = NoThread
  /\ UNCHANGED <<phase, index, spine_cap, spine, live, cells,
                 cursor, item, base, view, inside>>

(* The installing push writes its span to the fresh block.                    *)
PushFill(t) ==
  /\ Return(t, "fill")
  /\ UNCHANGED <<phase, shared, view, inside>>

(* get_spine_block: a Relaxed load of the spine.  Nothing orders it after the *)
(* load of spine_length, so it may yield a pointer older than the current     *)
(* one, but never older than one the thread has seen.  A null address panics. *)
PushLocate(t) ==
  /\ \E b \in IF RelaxedMemory THEN view[t] .. spine ELSE {spine} :
       /\ Goto(t, "locate", IF b = 0 /\ Top(cursor[t]) = 0 THEN "panicked" ELSE "store")
       /\ base' = [base EXCEPT ![t] = b]
       /\ view' = [view EXCEPT ![t] = b]
  /\ UNCHANGED <<phase, shared, cursor, item, inside>>

(* spans[bottom] = Some(span).  A store outside of the spine lands in memory  *)
(* that belongs to something else.                                            *)
PushStore(t) ==
  /\ Return(t, "store")
  /\ cells' = IF InSpine(base[t], Offset(cursor[t]))
              THEN [cells EXCEPT ![Offset(cursor[t])] = item[t]]
              ELSE cells
  /\ UNCHANGED <<phase, index, spine_length, spine_cap, cap_holder, spine, live,
                 view, inside>>

-------------------------------------------------------------------------------
(* PopableSweepBuffer::pop                                                    *)

(* fetch_sub on the index; it wraps when the buffer is empty.                 *)
PopClaim(t) ==
  /\ phase = "pop"
  /\ Goto(t, "idle", IF index = 0 THEN "undo" ELSE "read")
  /\ cursor' = [cursor EXCEPT ![t] = IF index = 0 THEN 0 ELSE index - 1]
  /\ index' = (index + IndexMod - 1) % IndexMod
  /\ UNCHANGED <<phase, spine_length, spine_cap, cap_holder, spine, live, cells,
                 item, base, view, inside>>

(* The buffer was empty: restore the index and return None.                   *)
PopUndo(t) ==
  /\ Return(t, "undo")
  /\ index' = (index + 1) % IndexMod
  /\ UNCHANGED <<phase, spine_length, spine_cap, cap_holder, spine, live, cells,
                 view, inside>>

PopRead(t) ==
  /\ Goto(t, "read", "clear")
  /\ base' = [base EXCEPT ![t] = spine]
  /\ item' = [item EXCEPT ![t] = IF InSpine(spine, Offset(cursor[t]))
                                 THEN cells[Offset(cursor[t])] ELSE Junk]
  /\ UNCHANGED <<phase, shared, cursor, view, inside>>

(* The slot is set to None and the span read before is returned.              *)
PopClear(t) ==
  /\ Return(t, "clear")
  /\ cells' = IF InSpine(base[t], Offset(cursor[t]))
              THEN [cells EXCEPT ![Offset(cursor[t])] = NoSpan]
              ELSE cells
  /\ inside' = inside \ {item[t]}
  /\ UNCHANGED <<phase, index, spine_length, spine_cap, cap_holder, spine, live,
                 view>>

-------------------------------------------------------------------------------
(* The two buffers of the heap trade roles when no operation is under way;    *)
(* the change of cycle synchronises all threads.                              *)
SwitchPhase ==
  /\ \A t \in Threads : pc[t] = "idle"
  /\ phase' = IF phase = "push" THEN "pop" ELSE "push"
  /\ view' = [t \in Threads |-> spine]
  /\ UNCHANGED <<shared, locals, inside>>

PushStep(t) ==
  \/ PushLoadLength(t) \/ PushLock(t) \/ PushRecheck(t) \/ PushGrow(t)
  \/ PushPublish(t) \/ PushInstall(t) \/ PushFill(t) \/ PushLocate(t)
  \/ PushStore(t)
PopStep(t) == PopUndo(t) \/ PopRead(t) \/ PopClear(t)

Next ==
  \/ \E t \in Pushers, s \in Spans : PushClaim(t, s)
  \/ \E t \in Poppers : PopClaim(t)
  \/ \E t \in Threads : PushStep(t) \/ PopStep(t)
  \/ SwitchPhase

Spec == Init /\ [][Next]_vars

(* A call that has begun is scheduled until it returns; nobody has to call.   *)
FairSpec == Spec /\ \A t \in Threads : WF_vars(PushStep(t) \/ PopStep(t))

-------------------------------------------------------------------------------
(* Properties.                                                                *)

(* Steps of a push that does not yet know that its block is installed.        *)
Early == {"load", "lock", "recheck", "grow", "publish", "install"}
Claimed(t) == pc[t] \in PushSteps \cup {"read", "clear"}

(* Slots in use; a pop that found nothing has borrowed one below zero.        *)
Used == IF \E t \in Poppers : pc[t] = "undo" THEN 0 ELSE index

(* The variables stay within their types; the id of an allocation and the     *)
(* capacity only grow.                                                        *)
TypeOK ==
  /\ phase \in {"push", "pop"}
  /\ index \in 0 .. IndexMod - 1
  /\ spine_length \in Nat
  /\ spine_cap \in Nat
  /\ cap_holder \in Threads \cup {NoThread}
  /\ spine \in Nat
  /\ live \in Nat
  /\ DOMAIN cells \subseteq Nat
  /\ cells \in [DOMAIN cells -> Cells]
  /\ pc \in [Threads -> {"idle"} \cup PushSteps \cup PopSteps]
  /\ cursor \in [Threads -> Nat]
  /\ item \in [Threads -> Cells]
  /\ base \in [Threads -> Nat]
  /\ view \in [Threads -> Nat]
  /\ inside \subseteq Spans

(* push installs blocks in order and within the spine: allocate_block writes  *)
(* slot `top' but only counts blocks (fetch_add on spine_length), so the two  *)
(* must agree, and the slot must exist after grow_spine.                      *)
GapFree ==
  \A t \in Pushers : pc[t] = "install" =>
    Top(cursor[t]) = spine_length /\ spine_length < spine_cap

(* The lock-free fast path of push and all of pop rely on it: the block of a  *)
(* slot in use exists, or the push that claimed the slot is still to make it. *)
SpineCovers ==
  \A c \in 0 .. Used - 1 : Top(c) >= spine_length =>
    \E t \in Pushers : pc[t] \in Early /\ cursor[t] = c

(* No two calls under way work on the same slot, and none on a slot that the  *)
(* index calls unused (a pop owns the slot just above the index).             *)
SlotsExclusive ==
  \A t \in Threads : Claimed(t) =>
    /\ cursor[t] < IF t \in Poppers THEN Used + 1 ELSE Used
    /\ \A u \in Threads \ {t} : Claimed(u) => cursor[u] # cursor[t]

(* A span is in one place: one cell of the spine, or the hands of one call,   *)
(* or with the caller; so no two pops return the same span.                   *)
NoSpanTwice ==
  /\ \A i, j \in DOMAIN cells : cells[i] \in Spans /\ cells[i] = cells[j] => i = j
  /\ \A i \in DOMAIN cells : cells[i] \in Spans =>
       /\ cells[i] \in inside
       /\ \A t \in Pushers : item[t] # cells[i]
  /\ \A t \in Poppers : item[t] \in Spans => item[t] \in inside

(* push's comment: "spine_length cannot change until we release the lock".    *)
LengthStableUnderLock ==
  [][\A t \in Threads : pc[t] \in Holding /\ pc'[t] \in Holding =>
       spine_length' = spine_length]_vars

(* No push is left waiting: the mutex is always released again, and the loop  *)
(* of push goes round at most twice.                                          *)
PushReturns == \A t \in Pushers : pc[t] = "load" ~> pc[t] = "idle"
===============================================================================
