# Verification of go_gc

`go_gc` (crate in `src/`) ports the sweep phase of Go's garbage collector to
Rust. This directory holds TLA+ modules that model it, TLC configurations that
check them on small instances, and proofs for TLAPS. Every definition is taken
from the Rust source; where a comment promises something the code does not keep,
a run shows it (section "What the code does not keep").

## 1. The system

Spans of pages carry objects. After a mark phase every span in use must be swept
once: what was not marked is freed, a large span without marked objects goes
back to the heap, all others go on the list of swept spans.

| Component | State | Operations | Interacts with |
|---|---|---|---|
| sweep buffer, `sweep_buffer.rs` | `index`, `spine_length`, `spine_cap` (mutex), `spine`, blocks | `push`, `pop`, `allocate_block`, `grow_spine`, `get_spine_block` | two of them in the heap, which trade roles in each cycle |
| `GC::sweep_one`, `gc.rs` | `sweep_done`, `sweepers`, `sweep_generation` of the heap | pop a span, claim it, sweep it | sweep buffers, spans, background sweeper |
| background sweeper, `gc.rs` | `parked` (mutex), `unpark_sender`, a oneshot and an mpsc channel | `enable`, `background_sweep`, `wait_for_unpark`, `free_some_work_buffers` | `sweep_one`, heap, `work.rs` |
| span, `memory_span.rs` | state, generation, bitmaps, cache, counts | `sweep`, `next_free_index`, `count_allocations`, `refill_allocations_cache`, `released` | heap, central, pushable buffer |
| heap, `memory_heap.rs` | `pages_in_use`, arenas, mutex | `free_span`, `free_manual_span`, `arena_index`, `lock`; `coalesce` does nothing yet (section 3) | spans |
| central, `memory_central.rs` | none | `free_span`, a stub | `sweep` |
| span list, treap, work, static vec | none or placeholder | mostly `unimplemented!()` | heap, background sweeper |
| allocator constants, size classes | constants | none | heap, span |

What is hard here: pushes race for missing blocks and for the growth of the
spine with relaxed atomics; spans change state while an entry waits in a buffer;
a span is claimed by generation from two sides, with its state and generation
loaded one after the other; a panic under the heap's mutex poisons it; the sweeper
parks against collections that begin at any moment; bitmaps are searched a word
at a time; and the translation from Go to Rust lost some of the original's
guarantees.
`PROJECT.json` lists each hazard at its line with the properties that cover it.

What makes each part correct: a buffer loses and doubles no span and its blocks
exist before they are used; no live object is freed, each span is swept once per
cycle and every cycle ends; the search finds the first free object; no wake-up
of the sweeper is lost.

## 2. Modules

| Module | What it is |
|---|---|
| `SweepBuffer` | the buffer, one action per atomic step of push and pop |
| `SweepBufferRegime` | the use under which its bookkeeping is sound, and the inductive invariant |
| `SpanStack`, `SweepBufferStack` | the abstract stack of places, and the refinement mapping from the buffer |
| `GcSweep` | `sweep_one`, `sweep`, `free_span`, `free_manual_span` over whole cycles |
| `SpanLife` | the life of one span as the comments promise it; `GcSweep` implements it for each span |
| `BackgroundSweep` | `enable` and the background sweeper, with `sweep_one` as one step |
| `SweepSystem` | `GcSweep` and `BackgroundSweep` composed; implements `BackgroundSweep` |
| `SpanBits`, `FreeObjects` | the bitmaps of a span, and the abstract search for a free object |
| `Arenas` | constants and index functions of arenas and pages, `physical_page_bounds`, `released` |
| `SweepBufferStackInvariant`, `GcSweepInvariant`, `SweepSystemInvariant`, `SpanBitsInvariant` | the inductive invariants, in named parts; TLC checks each one, the proofs use it |
| `SweepBufferProofs`, `SweepBufferStackProofs` | theorems about the buffer, and that it is a stack of places |
| `GcSweepProofs`, `SweepSystemProofs` | theorems about the sweep, and about its composition with the sweeper |
| `BackgroundSweepProofs`, `SpanBitsProofs`, `ArenaProofs` | theorems about the module each is named after |
| `MC*` | constants of the instances TLC checks |

Modules that model code have a section of *faulty variants*: what an operation
would be with one plausible bug. They are not part of `Next`; each shows that a
property depends on the code it is about.

### SweepBuffer

`pc[t]` is where thread `t` is in `push` or `pop`; `cursor`, `item` and `base`
are its locals. A step is one atomic operation, one lock or unlock, or one
access to a slot. The memory is the one the build produces:
`get_spine_block` transmutes the *address* of a spine slot to an `AtomicPtr`
value, so the slot itself is taken for the block: entry `bottom` of block `top`
is cell `top + bottom` of the spine, and what `allocate_block` stores is
unreachable. `live` and `spine` are allocations, so that a `realloc` that moves
the spine (or not: both outcomes are explored) is visible to a push that still
has the old pointer. Relaxed loads of the spine return any pointer between the
newest the thread has seen (`view`) and the current one if `RelaxedMemory`.
`phase` is the caller's side of the contract: push and pop do not overlap;
`inside` is what has been pushed and not popped.

### GcSweep

The variables are those of the heap, the spans and the two buffers; `call[t]`
holds the locals of `sweep_one`, `sweep` and `push`. Each action is one load,
store, lock or panic of the code: the generation of a span is loaded
(`LoadGeneration`) before its state is (`Inspect`), the compare_and_swap is
`Claim`; in `sweep`, the marks are counted (`SweepCount`), compared with the old
count (`CountFreed`), stored (`StoreCount`), and then become the allocation bits
while fresh, zeroed mark bits take their place (`SwapBits`); the ownership check
is two loads (`ReleaseState`, `ReleaseOwner`) before the store (`SweepRelease`);
a push claims its slot and fills it later. `free_span` checks the span under the
lock of the heap, and a panic there poisons the lock (`SweepToHeap`,
`FreeManualSpan`, variable `poisoned`). `live` is a history variable: the
objects of a span that are in use, which the code does not record, so that
"frees no live object" is not said in terms of the bitmap the code reads.

There are two regimes:

* **Overlapping calls** (`Exclusive = FALSE`). The atomics and comments of
  `sweep_one` prepare for them ("check for potential races"). A second sweep of a
  span then counts zeroed mark bits; a span may be freed between the loads of its
  generation and its state, and `sweep_one` panics; two sweeps may both pass the
  ownership check; a pop may find the index below zero (`PopBeyond`, a fault).
  The model has all of it, and `NoLiveObjectFreed`, `UnsweptSound`,
  `HeapNotPoisoned`, `DoneMeansDrained` and `OnceInBuffer` are *false* there.
  What does hold is `SpanLife` and `PagesReturned`.
* **Calls one at a time** (`Exclusive = TRUE`), which is what `&mut self` of
  `sweep_one` and `sweep` enforces in safe Rust. There those five hold.

The buffers are stacks of slots and keep three flaws of the real ones: the push
that installs the block leaves its slot unwritten, a slot that was never written
reads as `None` or as garbage (`FreshIsZero`), and a pop of an empty buffer
moves the index below zero until it adds the 1 back. `sb_stack` shows that the
real buffer implements `SpanStack`, with one popper, and `BufferIsStack` proves
the safety part of it. Two pops that overlap on a buffer that is *not* empty take
different slots (each by its `fetch_sub`), and nobody pushes on a buffer that is
popped, so `PopSpan` is one step; on an empty buffer it is two.

`Unimplemented` names the functions that are `unimplemented!()`; as built,
`sweep` always panics in `free_specials`, so the runs suppose `free_specials` and
`new_mark_bits` are there, and `UnfinishedSweepFreesNothing` is about the program
without them. External, since the repository has no code for it: allocation of
spans, the mark phase with the start of a cycle, direct sweeping. A collection
or an allocation happens between calls.

Because `compare_and_swap` is tested the wrong way round, a call of `sweep_one`
that runs alone never sweeps a span: it claims and drops every span it pops
until the buffer is empty. Only direct sweeping sweeps then. With calls that
overlap, a `sweep_one` that loses the race for a span against another claim
sweeps it as well. What survives is `SpanLife`: the span is claimed once in a
cycle, goes back to the heap only after it was swept, and is not touched after
that; `gs_overlap` shows it.

### SpanBits

A bitmap is the set of its 1 bits. `next_free_index` is split at its loop:
`Enter`, `SkipWord` once round the loop, `FoundBeyond` or `FoundObject`. It is
called by an allocation (external) and by `sweep`, whose part about the bits is
`SweepCount`, with the conversion of the count to a `u16` (`CountMod`), and
`SweepReset`. External: span set-up and marking, and `new_mark_bits`, which is
`unimplemented!()`: fresh mark bits are zero for every object, and anything
beyond the last one.

### BackgroundSweep

`sweeper` is where the async function is. `guard`, `parked` and `poisoned` are
its `Mutex<bool>`. `Spawned` says whether somebody polls the future; `enable`
itself drops it. External: collections, which begin after `enable` has returned
and when the last cycle is swept, and unpark the sweeper under the mutex if it
is parked.

### SweepSystem

One thread of `GcSweep` is the background sweeper, the others are the callers
that `BackgroundSweep` knows as "elsewhere". `BackgroundSweep` is instantiated
with the spans that wait in the unswept buffer for its number `unswept`, with
the list `work_free` for its number of free work buffers, and with the
generation for its cycles. A call of `sweep_one` becomes its steps:
`SweeperCalls`, `SweeperSweeps`, `SweeperReturns`; a batch of work buffers goes
to `free_manual_span` span by span, under one step of the sweeper since
`&mut self` keeps everybody else out; the first span that `free_span` refuses
panics the sweeper with a part of the batch freed and the lock poisoned.

### SpanLife

`ready`, `unswept` and `claimed` are what the comment on `sweep_generation`
(`memory_span.rs:75-79`) makes of a span's generation; `stale` is what it does
not mention. The steps are those the comment on `State` allows.

### Arenas

`Arenas` takes the constants of `memory_allocator.rs` as parameters; shifts are
products and quotients, additions wrap at `AddressMod`. Only 64-bit platforms
other than Windows and AIX compile (on those two `LOG_HEAP_ARENA_BYTES` is
defined twice, on 32-bit ones it is 0), so the first level of the arena map is
void. It is a module of functions without state: the map itself is not modelled,
since `set_span` is called from the uncalled `merge` only and the arenas are null.

## 3. Runs

All bounds are in the `.cfg` files and the `MC` modules.

| Run | Shows |
|---|---|
| `sb_push` | 2 pushers, 1 popper, 5 spans, blocks of 2, first spine of 1: missing blocks, races for them, growth of the spine; all safety properties and the inductive invariant, relaxed loads included |
| `sb_stack` | 3 pushers, 1 popper, 3 spans: `SweepBuffer` implements `SpanStack` with one lost span while all spans fit in one block, and every push returns; the inductive invariant of that refinement |
| `gs_overlap` | 2 spans (one large, both of one object), two callers that overlap at every load and store, memory of `alloc` not zero, generations to 4: each span keeps to `SpanLife`, and `sweep_one` returns no pages the heap did not get; the inductive invariant |
| `gs_alone` | 3 spans (one large, the small ones of two objects), two callers one at a time, memory of `alloc` not zero, generations to 4: `sweep_done` means drained, the panic "non in-use span in unswept list" is unreachable, no panic poisons the heap's lock, no live object is freed; the inductive invariant |
| `sys_cycle` | background sweeper and one caller, 2 spans (one large, one of two objects), generations to 4: the composition implements `BackgroundSweep`; no buffer holds a span twice, the counter of sweepers, work buffers freed once each, the inductive invariant of the composition; the first cycle ends by the sweeper alone, and every cycle if a caller goes on |
| `bits_alloc` | 5 objects, words of 4 bits, bytes of 2: cache, counts and objects in use agree, `next_free_index` implements `FreeObjects`, and ends; the inductive invariant. It also evaluates the assumption of `Arenas` |
| `bg_park` | up to 3 spans and 3 cycles: no lost wake-up, no parking on work, the inductive invariant |

Why the bounds suffice: a block of two entries and three blocks give every
relation of a slot to its block (first, last, next block missing, spine full);
two pushers are all a race for one block needs, and more are covered by the
proofs. Generation 4 is the second collection, the first in which both buffers
have been pushed to and drained and a span can be stale by a whole cycle. The
bitmaps have a partial last byte and a partial last word, and the search goes
round its loop once, twice or not at all. `CounterMod = 16` stands for 2^64 and
is above every sum of pages, `CountMod` for 2^16 and above every count of
objects. Two calls and two spans give every race for a span, one step of one call
between any two of the other; the third span of `gs_alone` makes a buffer keep
one span, lose one and have one that is out of date at once. Small spans hold one
object in `gs_overlap` and two in `gs_alone` and `sys_cycle`, where a span can be
partly freed.

Deadlock is checked but where the system may stop: after a panic of a push
(`sb_push`), of every caller (`gs_overlap`, `gs_alone`), and when the background sweeper is
dead and the bound on cycles is reached (`bg_*`).

Fairness. In `sb_stack` a call that has begun is scheduled (weak fairness of each
thread's steps), which threads of a preemptive system justify; nobody is obliged
to call. Weak fairness is enough for the mutex: a waiting push can be overtaken
only by pushes that find or install a block, and spans are finite. In
`sys_cycle` (`FairSystem`) the executor polls the sweeper, a collection that has
begun goes on to unpark it, and a call of `sweep` or `sweep_one` that has begun
goes on. Nobody is obliged to call `sweep_one` or to start a collection:
`FirstCycleSwept` and `WorkBuffersFreed` need only the sweeper, and
`EveryCycleSwept` says of itself that it supposes a caller that calls again and
again, since the background sweeper panics after its first cycle
(`AwaitAgain`).

### What the code does not keep

Each of these runs ends in a counterexample; `findings` in `PROJECT.json` quotes
the comment.

| Run | What happens |
|---|---|
| `sb_lost` | the push that installs a block loses its span (theorem `InstallLosesTheSpan`: every such push) |
| `sb_wrap` | a second pop of an empty buffer reads at index 2^64 - 1 |
| `sb_freed` | `realloc` frees the spine under another push |
| `gs_skip` | one call of `sweep_one` pops a span that waits for its sweep, claims it, and goes on to the next, since the test of `compare_and_swap` is inverted: the span has the generation of one being swept and nobody sweeps it (theorem `ClaimLosesTheSpan`: each span that `sweep_one` claims is lost so) |
| `bg_start` | `enable` drops the future of the sweeper |

The models have these too, and no run is needed to see them:

* entries of the second block of a buffer share the cells of the first or lie
  beyond its spine (`Offset`, `InSpine`, theorem `BlocksOverlap`; `sweep_buffer.rs:9` calls that spine "Enough for 1GB heap");
* with relaxed loads a push can see the length of the spine before its address
  and panic (`PushLocate`; theorem `PanicIsStale`);
* a partly freed small span keeps generation - 1, since `MemoryCentral::free_span`
  is a stub (`SweepToCentral`; `memory_span.rs:268` says "MCentral_FreeSpan
  updates sweepgen"), and is never swept again (theorem `PartFreedIsLost`);
* `alloc_cache >>= bit_index + 1` (`memory_span.rs:460`) shifts by 64 when the
  free object is the last of its word: a debug build panics (`FoundObject` with
  `ShiftChecks`), a release build leaves the cache as it is, and the refill that
  follows covers for it (`CacheCoherent`);
* `physical_page_bounds` shifts the sum of start and length
  (`memory_span.rs:501`; theorem `ReleasedTooMuch`), and
  `1 << ARENA_LEVEL_2_BITS - 1` is a bit and no mask (`memory_heap.rs:569`;
  theorem `SecondLevelOfTwo`); neither result is used in a build that compiles;
* `arena_index` overflows for addresses above 2^64 - 2^47 and, on machines with
  user addresses above 2^47, returns an index beyond the map;
* `pages_in_use` is subtracted from and never added to (`FreeLocked`): it wraps,
  or panics in a debug build and poisons the lock, with the first large span freed
  (theorem `CheckedBuildFreesNothing`);
* a large span goes back to the heap whatever `preserve` is
  (`memory_span.rs:165`: "If preserve=true, don't return it to heap"); no caller
  in the crate passes true;
* the second `futures_await!` of `background_sweep` is under the guard of
  `parked`, and polls a future that has completed, which panics (`AwaitAgain`):
  the sweeper lives for one cycle (theorem `SweeperServesOneCycle`);
* as built, `sweep` panics in `free_specials` and the sweeper in `is_empty`
  (constant `Unimplemented`), and before either `MemoryHeap::new` may: `StaticVec`
  asks for an anonymous mapping of no bytes (`static_vec.rs:49`), which systems
  refuse. All models begin with a heap that was made;
* `coalesce` changes nothing: it defines a closure, `merge`, that nothing calls
  (`memory_heap.rs:412-441`), the search for the neighbours is a comment
  (`484-500`), and the `needs_scavenge` it sets is a shadow of the one it would
  read (`429`). What is left is a call of `released`, whose result is not used;
  nothing makes a span scavenged. So are the insertion into a treap (`397-402`)
  a comment and `remove_span` unimplemented: a freed span is in no treap and is
  merged with none, and the map of pages is never written. The heap's pages are
  therefore not modelled.

## 4. Proofs

A theorem holds for every value of the constants that its module's assumptions
(`ASSUME`, by name below) and its own hypotheses allow. TLC evaluates the
assumptions in the runs and checks every inductive invariant in one of them.

| Theorem | Property | Holds for |
|---|---|---|
| `SweepBufferProofs!TypeCorrect`, `Bookkeeping`, `BlocksInOrder`, `BlocksCoverSlots`, `SlotsAreExclusive`, `LengthIsStable`, `SpansAreUnique` | `TypeOK`, `IInv`, `GapFree`, `SpineCovers`, `SlotsExclusive`, `LengthStableUnderLock`, `NoSpanTwice` | the regime of `RegimeAssumption` |
| `SweepBufferProofs!LostForGood`, `InstallLosesTheSpan`, `PanicIsStale` | | the same |
| `SweepBufferProofs!BlocksOverlap` | | every block size |
| `SweepBufferStackProofs!MemoryIsSound`, `BufferIsStack` | `StackIInv`, `StepsLikeAStack` (safety of `ImplementsStack`) | the same, and `OneBlock` |
| `GcSweepProofs!InvariantHolds`, `TypeCorrect`, `PagesAreReturned`, `GenerationsDoNotUnderflow`, `LivesAreAsPromised` | `IInv`, `TypeOK`, `PagesReturned`, `NoUnderflow`, `ImplementsLife` | calls that overlap at every load and store, or do not; any build |
| `GcSweepProofs!AbandonedForGood`, `LastSweeperUnnoticed` | | the same |
| `GcSweepProofs!DrainedWhenDone`, `UnsweptListIsSound`, `LiveObjectsStay`, `HeapStaysSound` | `DoneMeansDrained`, `UnsweptSound`, `NoLiveObjectFreed`, `HeapNotPoisoned` | `Exclusive`, any build |
| `GcSweepProofs!CheckedBuildFreesNothing`, `UnfinishedSweepFreesNothing` | | `OverflowChecks`, a callee in `Unimplemented` |
| `GcSweepProofs!SpansAreQueuedOnce`, `SweepOneNeverSweeps`, `ClaimLosesTheSpan`, `PartFreedIsLost` | `OnceInBuffer` | `Exclusive` |
| `GcSweepProofs!SweepersAreExact` | `SweepersExact` | `Calm` |
| `SweepSystemProofs!SystemInvariant`, `WorkBuffersAreManual`, `SystemSweepsSoundly`, `BackgroundIsImplemented`, `SystemLosesNoWake` | `SystemIInv`, `WorkBuffersManual`, `SweepersExact` and `OnceInBuffer`, `ImplementsBackground`, and those of `BackgroundSweep` | `SystemAssumption` |
| `SweepSystemProofs!SystemLivesAsPromised`, `SweeperNeverSweeps`, `SystemLosesSpans` | | the same |
| `BackgroundSweepProofs!SweeperBookkeeping`, `SweeperTypes`, `SenderIsInstalled`, `NoWakeIsLost`, `SweeperParksWhenSwept` | `IInv`, `TypeOK`, `SenderInstalled`, `NoWakeLost`, `ParksWhenSwept` | everything |
| `BackgroundSweepProofs!SweeperServesOneCycle`, `PoisonStays` | | everything |
| `SpanBitsProofs!InvariantHolds`, `TypeCorrect`, `CacheStaysCoherent`, `UseIsCounted`, `CountStaysExact`, `FirstFreeIsFound` | `IInv`, `TypeOK`, `CacheCoherent`, `InUseCounted`, `CountExact`, `FindsFirstFree` | everything |
| `SpanBitsProofs!ReleaseNeverPanics` | | no `ShiftChecks` |
| `ArenaProofs!PlaceIsPage`, `ReleasedTooMuch`, `SecondLevelOfTwo` | | as each says |

### The sweep buffer

Assumed: `SizesAssumption`, `SentinelAssumption`, `IndexAssumption` of
`SweepBuffer` (positive sizes, distinct sentinels, fewer than 2^64 spans) and
`RegimeAssumption` of `SweepBufferRegime`: at most one thread pops, no more
threads push than a block has entries, and no thread does both.

`IInv` is inductive. `IndexBounded` ties the index to the number
of spans inside, so that it cannot wrap; with it, `SlotsExclusive` says that the
cursors under way are distinct slots in use. `SpineCovers` says of every slot in
use beyond the installed blocks that its push is still early. Two slots of
different blocks are at least one block apart, and there are at most
`BlockEntries` early pushes, so the first missing block always has an early push
of its own, and a push that is about to install block `top` cannot be ahead of
one that is to install a block before it: that is `GapFree`, and the reason for
the bound on the pushers. `HolderKnows` and `Mutex` carry what was read under
the lock to the step that uses it. `SpanInv` strengthens `NoSpanTwice` by what
each call holds.

What the runs `sb_lost` and the panic under relaxed loads show in one instance
is proved in general. `Lost(s)` says that a pushed span is in no cell and with no
call; no step ends that (`LostStep`, from the types alone), and `PushFill` begins
it, since a push under way carries a span (`Carrying`) that by `SpanInv` is
nowhere else. `SpineThere` says that there is a spine once there is a block, so
that a null spine is always a stale one. `BlocksOverlap` is arithmetic: the block
number counts as much in `Offset` as the entry does.

### The buffer as a stack

The hypothesis `OneBlock` says that all spans fit in one block and in the cells
of the first spine (512 entries, 256 cells in the code), the range in which the
misplaced block pointer does no harm. Every cursor is then below the number of
spans, so a slot is a cell of the spine of its own and the spine is never grown
(`MemorySound`): whoever is in "publish" has made the only allocation. One block
means one push that installs it (`GapFree`), and that push is the one that loses
its span (`PushesSound`). The refinement needs `PlacesSound` besides: no cell
above the places in use keeps a span, so a place just claimed is empty. Then
`PushClaim` is the stack's `Claim`, `PushStore` its `Settle`, `PushFill` its
`Lose`, `PopClaim` its `Take`, `PopClear` its `Hand`, and every other step
leaves the stack alone. Relaxed loads are included: a push that saw the new
length and the old null pointer panics, and is to the stack a push that does not
return.

### The sweep

`ParametersAssumption` types the constants; `PagesAssumption` says that a span
has fewer pages than a `usize` counts, so that a page count is never the `!0`
that stands for "nothing left"; `CountAssumption` that a span has fewer objects
than a `u16` counts. `IInv` has two halves, and each is proved part by part.

`Overlapping` is about each call by itself, with any other step between two of
its own. What makes it inductive is that a generation only grows while calls run
(`SpanChanges`): a generation loaded earlier is no newer than the span's, one
that was claimed stays claimed or becomes that of the heap, and only a span with
the heap's generation leaves use (`ClaimsSound`). Under the lock of the heap the
checks of `free_span` and the store of `Free` see the same span (`LockSound`).
`PagesSound` follows the result of `sweep_one` to its return. A call keeps its
part by its own steps (`OwnPopStep`, `OwnSweepStep`) and under those of others
(`OtherStep`). From this half come `PagesReturned`, and the refinement of
`SpanLife`: a claim takes a span from unswept to claimed, the store of the
generation from claimed to ready, and only `FreeLocked` leads from there to the
heap.

`Alone` is what holds besides if calls do not overlap. Its argument is the
cycle: `Drained` says that the unswept buffer is empty when a new collection may
begin, so that the exchange of the buffers makes the old swept list the new
unswept one and the new swept list empty: `PushedSound`, about a list that no one
can claim from, turns into `WaitingSound` (`QueuesStep` is what a step does to
the two buffers, `FirstLost` which slots are unwritten). `SpanSound` and
`LocalsSound` say step by step what a call knows of its span: the claim of
`sweep_one` always succeeds, so it drops the span (`SweepOneNeverSweeps`); a
direct sweep counts the objects in use, since the marks are those of the mark
phase until its own `SwapBits` (`MarksSound`), so that a span it frees has none
(`LiveStep`), and every check of `free_span` succeeds (`HeapAccepts`). `CalmSound`
adds that nothing panics at all if, besides, the missing functions are there,
fresh memory is zero and overflow wraps.

Four results say how little the sweep gives back. A span is `Abandoned` if it is
in use, its generation is neither that of the heap nor that of a span to be swept
in this cycle, and no call has it. Both claims look for the generation of a span
to be swept, later collections only move that away, and only a call that has a
span sweeps it (`SpanChanges`), so nothing ends that (`AbandonedStep`); and when
calls do not overlap the inverted test of `sweep_one` abandons each span it
claims (`ClaimDrops`), and a sweep each small span of which it frees a part
(`PartFreedDrops`). In a build with overflow checks `pages_in_use` is 0 for ever,
because `free_span` panics on its first subtraction; and in the code as it stands
the missing callees end each sweep before it releases anything.

### The composition

`SystemAssumption` is `Calm`, with one thread as the sweeper. Every step of
`SweepSystem` is a step of `GcSweep`, or frees a batch of work buffers, or
leaves the sweep's variables alone; the batch is the one case in which `IInv` of
`GcSweep` has to be proved again (`BatchKeepsInvariant`). `TaskSound` ties the
sweeper's thread to its task, and `WorkBuffersManual`, with `poisoned` false,
makes the panic in the middle of a batch unreachable: `free_manual_span` takes
every span of it (`BatchForm`). For the refinement, every step of the sweep
leaves the spans that wait alone (`Still`) or draws one (`Drawn`), which is a
step of `BackgroundSweep` or a stutter. `BackgroundSweepProofs` is then
instantiated under the refinement mapping, and its theorems hold of the
composition (`SystemLosesNoWake`). From the sweep come its refinement of
`SpanLife` and that no object in use is freed, with batches of work buffers as
steps that do not touch a span in use (`SystemLivesAsPromised`), and the end of
every span that `sweep_one` claims (`SystemLosesSpans`). The sweeper's thread only
calls `sweep_one`, so it never sweeps (`SweeperNeverSweeps`), whatever the runs
bound.

### The background sweeper

Assumed: `BackgroundAssumption` alone (a positive batch, natural bounds; the
future polled or not, its callees there or not). None of the properties is
inductive: that a waiting, unparked sweeper has a message needs the sender to be
in place whenever a collection finds the sweeper parked, which needs the mutex
to be held from `parked = true` to the store of the sender (`Guards`, `Stages`);
and that there is never more than one message needs that one is under way only
to a sweeper that waits unparked (`Messages`).

With `IInv`, `ServesOnce` gives the other side: the future of `unpark` is ready
once, so a sweeper that was woken never waits again but panics when it parks,
and only that makes a collection panic (`SweeperServesOneCycle`); the mutex stays
poisoned (`PoisonStays`).

### The bitmaps of a span

`SpanAssumption`: a span has objects, a word has at least two bits and whole
bytes. `CacheCoherent` is what a call of `next_free_index` may rely on: as long as
there are objects from `free_index` on, the cache shows the complemented rest of
its word, shifted down. `ScanSound` is the same inside the loop, with every
object that was passed over in use. `CacheMovesOn` has the two ways on from an
object that was found: the shift, which is then by less than a word, or the
refill, which makes good whatever a shift by a whole word left in the cache.
`Counted` and `SweepCounted` tie the counts to the bits between the two halves
of `sweep`. `count_allocations` is a fold over bytes; `CountIsExact` shows it is
the number of marked objects without induction over data: the number of marked
bits below a position satisfies the fold's recursion, and two functions that
satisfy it cannot differ, by the smallest place at which they would.

### Arenas

`GeometryAssumption` says of `Arenas` that sizes are positive,
arenas are whole pages, and the offset is whole arenas. These are facts about
powers of two that the prover has no theory for; TLC evaluates them in
`bits_alloc`. `PlaceIsPage` says that the two indices `set_span` would use,
together, are as good as the page number: `arena_index` is the page number
divided by the pages of an arena plus a constant (`ArenaIndexOf`, from two lemmas
on quotients), and `span_index` is the remainder of the same division.
`ReleasedTooMuch` and `SecondLevelOfTwo` state what the two misplaced shifts
compute. All three are about functions whose callers are not written yet.

### Only model-checked

* Liveness, and the fairness in a refinement: `PushReturns`, the fair part of
  `ImplementsStack`, `SearchEnds`, `FirstCycleSwept`, `WorkBuffersFreed`,
  `EveryCycleSwept`. The prover has no `ENABLED`, and so no rule for fairness.
* `ImplementsStack` and `MemorySound` are about one block, and checked for no
  more, since the code does not keep them beyond.
* The five runs that end in a counterexample.

Nothing is assumed about the data but what the `ASSUME`s say: in particular no
theorem rests on the sizes TLC uses, but for those that name a hypothesis.

## 5. Not modelled

`static_vec.rs` (a constructor that maps no memory; nothing reads the vector),
`lib.rs`, `memory_span_treap.rs` (its algorithm is a comment, its one method is
`unimplemented!()` and called from nothing that is called), `coalesce` and
`set_span` with the map of pages (section 3), the tables of
`size_classes.rs` (comments), and the constants of `memory_allocator.rs` that
nothing uses. `realign` is a comment that returns at once where heap pages are
no smaller than physical ones. Timestamps, `need_zero` and the bookkeeping
counter `number` are read nowhere. Memory allocation failure is not modelled.
`SweepSystem` has buffers of slots, and no spine; what justifies that is
`sb_stack` and `BufferIsStack`, for the first block of a buffer. Beyond it the
code writes outside its spine (section 3), and a stack is not what it is.

## 6. Plan

1. done: `SweepBuffer`, its regime and its stack; `GcSweep` and `SpanLife`, with
   calls that overlap and calls that do not; `BackgroundSweep`; `SweepSystem`;
   `SpanBits`; `Arenas`.
2. done: for each of them the type invariant, every safety invariant a run
   checks, and the safety part of every refinement, by an inductive invariant;
   and for every parameter what the code fails to do: the spans that the buffer
   and `sweep_one` lose, the builds that free nothing, the one cycle of the
   sweeper.
3. open: a stack with more than one lost span would let `SweepBuffer` be related
   to `SpanStack` for a code that keeps its blocks (with the transmuted address
   mended); a lower bound of `pages_in_use` once something adds to it; `coalesce`,
   the treap, the map of pages and `MemoryCentral::free_span` when they are
   written.
