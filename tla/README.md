# toccata: TLA+ models, model checking and proofs

toccata is a memory allocator that reserves, populates and locks its memory at
start-up and never asks the kernel for memory afterwards. This directory models
its allocator core: what it keeps per thread, per CPU, per shard and per arena,
how objects, spans and frames move between these, and what must never happen to
them. File references without a directory are to `src/toccata-core/src/`.

## The system

| part | state | operations | works with |
|---|---|---|---|
| `SpanPool` (`spanpool.rs`) | free runs of spans: bucket stack per length, boundary tags, two-level bitmap of non-empty buckets | `alloc` (best fit, splits), `free` (merges both neighbours), `find_first_set_ge` | called under the large mutex |
| large allocator, bump arena, span table (`subheap.rs`, `meta.rs`) | `run_spans`, bump cursor, class and home of each span, live counters | `alloc_large`, `dealloc_large`, `carve_run`, `carve_spans`, `carve_or_reuse_spans`, filing of reclaimed spans | pool, arena; drops the mutex between the two |
| central lists and bitmaps (`subheap.rs`, `meta.rs`) | per (shard, class) cell: spin lock, active list, reuse hint; per span: `alloc_words` (under the lock), `free_words` (lock-free) | `central_take`, `central_carve`, `central_deposit`, `refill`, `refill_batch`, `drain`, `dealloc_class(_batch)` | arena for spans, slabs, magazines |
| magazines (`magazine.rs`) | per thread and class: up to `MAG_CAP` objects | `alloc`, `try_push`, `drain_then_push`, `flush_all` | `refill_batch`, `dealloc_class_batch` |
| per-CPU slab (`rseq/slab.rs`, `rseq/asm.rs`) | per CPU and class: `current`, `capacity`, slots, spin lock; per CPU: stop flag | `pop`, `push` as restartable sequences, with a locked path | kernel (rseq, membarrier), supervisor |
| supervisor (`supervisor.rs`) | stop flag, nap length | `reclaim_empty_spans` in a loop, final sweep, drop (join); `seize_cpu`, `rebalance_capacity` | slabs, cells, arena |
| frame pool (`frame.rs`) | central stack under a spin lock, per-CPU slabs, magazine per `FrameCache`, a `RefCount` per frame | `alloc`, `free`, `recycle`, `refill`, `drain`, `FrameCache` refill, spill and drop; of `frame_pool!`: `with`, `on_exit`, `configure_sized`, `install` | slabs, reservation |
| frame handles (`frame.rs`) | `Owned`, `Shared`, `FrameMut`, `FrameBuf` | clone, `into_shared`, `freeze`, `split_to`, `truncate`, `advance`, drop | frame pool |
| global allocator (`src/toccata/src/lib.rs`) | `MAIN`, `POOL_BASE`, `POOL_END`; per thread `TLS_PTR` and its `Tls` (heap, magazines) | `configure`, `alloc`, `dealloc`, `on_thread_exit` | magazines, sub-heap, system allocator |
| registry (`registry.rs`) | `CONFIGURED`: the named sub-heaps | `configure`, `subheap` | reservation, sub-heaps |
| reservation (`sys/reserve.rs`) | the mapping, its effective page size and lock | `reserve_with`, drop | kernel: mmap, mlock2, madvise, `RLIMIT_MEMLOCK` |
| size classes, block geometry (`sizeclass.rs`, `subheap.rs`, `lib.rs`) | none | `class_of`, `aligned_class`, layout of slab and spans, `locate` | |

What makes it hard: threads are preempted and migrated at any instruction of a
restartable sequence; a free from another shard takes no lock; the supervisor
takes spans away from a class while frees to them may still be under way; the
large mutex is dropped in the middle of an allocation; locks and rseq guard the
same stack; one step of a drop, refill or flush can meet a full or empty stack;
start-up calls race, fail half way and are made again.
`PROJECT.json` lists these hazards line by line.

## Modules

| module | models | composed with |
|---|---|---|
| `SpanPool` | `spanpool.rs`: the pool as one record, each method an operator. Links, tags and both bitmap levels are kept as the code keeps them; words have `WordBits` bits | extended by `SpanArena` |
| `SpanArena` | `alloc_large`, `dealloc_large`, carves and reclaims of two or more threads. One action per stretch between two mutex operations | uses `SpanPool`; implements `RunAllocator` |
| `RunAllocator` | abstract: best-fit allocation of runs of whole spans, with no tags, stacks or bitmaps | refined by `SpanArena`; used by `SubHeap` for its spans |
| `SubHeap` | magazines, cells, bitmaps, hints, thread exit, rebalancing; the supervisor's thread: sweeps over every cell in bounded batches, naps, stop, final sweep, join. A slab push or pop is one step (that is what `RseqSlab` is about) | uses `RunAllocator` |
| `RseqSlab` | `asm.rs` and the locked path, one action per instruction that reads or writes shared memory; preemption, migration, abort, retry bound, seizure | |
| `FramePool` | central stack, slabs and magazines of `FramePool`/`FrameCache`; the TLS cell of `frame_pool!` (`tls`: null, live, a transient cache after a failed `calloc`, freed) | implements `FrameSource` |
| `FrameHandles` | the four handle types and the reference count; a drop is several steps | uses `FrameSource` |
| `FrameSource` | abstract: a frame that is handed out is nobody else's, and comes back once | |
| `GlobalAlloc` | `configure`, routing, the per-thread `Tls` from `init` to `on_thread_exit`; one action per access to a static. The sub-heap and the system allocator are sets of free addresses | |
| `Reservation` | `reserve_with` and drop, with the kernel's side: what is mapped, locked and populated, under one `RLIMIT_MEMLOCK`; every system call may be refused | extended by `Startup` |
| `Startup` | `configure` of the registry, `configure_sized`/`install` of a frame pool and an application's own reservations, by racing callers | uses `Reservation` |
| `SizeClass` | the class table and its searches, with the code's numbers | extended by `Blocks` |
| `Blocks` | layout of the slab, route of a layout to a class or run, tiling of a span, the way back from a pointer to its bit, with the code's numbers | uses `SizeClass` |
| `SpanArenaProofs` (with the lemmas on `SpanPool`), `SubHeapProofs`, `RseqSlabProofs`, `FramePoolProofs`, `FrameHandlesProofs`, `GlobalAllocProofs`, `StartupProofs`, `BlocksProofs` | the theorems below | each extends the module it is about |

`MC*` modules give constants values. In a step's name the source's name is kept
where there is one. A thread that is in the middle of a call has a record of
where it is (`job`, `call` or `pc`) with the locals it still needs.

Correspondence of state, where names differ: `SubHeap!list` stands for
`head`/`next_active`/`on_list`; `free_words` and `alloc_words` are sets of slots,
split into words of `WordSlots` bits wherever the code works word by word;
`SubHeap!free`, `cursor` are `RunAllocator`'s. `RseqSlab` keeps the per-thread
register values (`cpu`, `current`, the object) because they go stale.
`FramePool!out` counts how often the program holds a frame, so that a frame that
is handed out twice shows. Integers whose width matters keep it: the home of a
span is `% HomeMod` (2^16), a window's offset is `% (U16Max + 1)`.

## What is checked

| run | question | result |
|---|---|---|
| `SpanArena` | pool well formed, nothing handed out twice or lost, everything coalesced, span table and, up to the updates that are still due, live counter agree; refinement of `RunAllocator`: best fit | holds |
| `SubHeapSlab` | two shards through magazines and slabs: cross-shard frees, drain, flush of a thread that exits, seizure, rebalancing, and reclaim of a span of two bitmap words with deposits between the folds of the emptiness test | holds |
| `SubHeapReclaim` | the supervisor moves spans between two classes on two shards while the threads free across shards, until it is dropped: lists, homes and hints agree; every call past its lock returns; the final sweep strands nothing; the join returns | holds |
| `RseqOnly` | restartable sequences of two threads on two CPUs, preempted anywhere but in an operation's last attempt | holds |
| `RseqSeize` | one of two CPUs is seized and released again and again, under storms of aborts and migrations: the membarrier keeps every sequence out of the seized stack; no race of sequences, lock holders and supervisor makes a stack leave its array or hold a slot that was never written | holds |
| `RseqRetries` | an operation leaves its retry loop, through the locked path if need be | holds |
| `FramePool` | frames conserved through refill, spill, a failed `calloc` and a thread's exit; `FrameSource` implemented; central lock released | holds |
| `FrameHandles` | counts, values, windows, one recycle per hand-out; frames come back | holds |
| `GlobalAlloc` | memory from before `configure()` and from the pool goes back where it came from; nothing handed out twice; a thread's exit loses nothing | holds |
| `Startup` | two callers race through start-up, with failures anywhere: every mapping has one owner, every `Reservation` is truthful, what is published is complete and stays | holds |
| `Blocks` | every class boundary with every alignment: the slab fits its stride, blocks honour their layouts with the least class, a free finds its bit | holds |
| `SubHeapStaleHint` | the same class on both shards: is the class check on a hint enough? | **violated** |

The violated run checks a sentence of the repository's comments, which
`PROJECT.json` quotes under "findings": a free that is preempted between reading
a span's home and storing the hint (`subheap.rs:1044-1051`) can make two shards
hand out the same object, if the span has gone to the same class of another
shard meanwhile. `SubHeapReclaim` shows that the check does suffice when the
class differs, which is the case it was written for.

Further configurations, each for one sentence of a comment, are kept beside these:

| configuration | module | shows |
|---|---|---|
| `RseqSeizeMigrate.cfg` | `MCRseqSlab` | a thread that finds its CPU seized falls back to the locked path of the CPU it was bound to or is on by then; if it was migrated, that CPU is not seized and its threads' sequences do not see the lock, so an object is popped twice: `supervisor.rs:191-193` "sees the stop flag, and routes to the central list" (violated) |
| `RseqMixed.cfg` | `MCRseqSlab` | one thread's rseq registration failed: it takes the lock of a stack whose other users run sequences, and a push is lost: `slab.rs:207-208` "Correctness holds because the lock guards the stack" (violated) |
| `SpanArenaGroup.cfg` | `MCSpanArena` | at the end of an arena that is no multiple of the group size, a class larger than a span gets an object that reaches past its spans: `subheap.rs:823-824` (violated) |
| `StartupBudget.cfg` | `MCStartup` | sub-heaps that a failed or losing `configure()` leaked stay reserved and locked beside those of the next one: `registry.rs:72-73` "the max toccata will reserve+lock across all sub-heaps"; the pages of the slabs are not in the sum either (violated) |
| `StartupPopulate.cfg` | `MCStartup` | best-effort huge pages that fall back to base pages with the lock off are never populated, since `thp` was decided before (`reserve.rs:310`): `reserve.rs:303` "no first-touch faults later" (violated) |
| `BlocksMisaligned.cfg` | `MCBlocks` | an alignment above a page is honoured only if the kernel happens to map the reservation that far aligned: the arena begins at the mapping plus the slab (`subheap.rs:1614`), while `lib.rs:460-462` accepts alignments up to a span (violated) |
| `FramePoolExit.cfg` | `MCFramePool` | `on_exit` frees the cache and leaves `PTR`, so a destructor that runs later uses it: `frame.rs:1290` "this thread's live, initialized cache" (violated) |
| `RseqStorm.cfg` | `MCRseqSlab` | after several aborts in a row an operation holds the lock while another thread of the CPU is in a sequence: `slab.rs:270` "lock held; single owner" (violated) |
| `RseqOutOfRange.cfg` | `MCRseqSlab` | with `num_cpus` below the machine's CPU ids a push is lost: `slab.rs:207-208` "Correctness holds because the lock guards the stack" (violated) |
| `RseqSeizeAgain.cfg` | `MCRseqSlab` | the locked path reads the stop flag before it takes the lock, and is in the stack during a second seizure: `supervisor.rs:189-191` (violated) |
| `SubHeapHomeWidth.cfg` | `MCSubHeap` | a thread id of 2^16 or more is cut in the span table, and frees go to a cell that does not list the span: `subheap.rs:919`, `:935-937` (violated) |
| `SpanArenaDrained.cfg` | `MCSpanArena` | a contended mutex counts as an empty pool: `subheap.rs:790`, `:1398` "truly drained" (violated) |
| `GlobalPublish.cfg` | `MCGlobalAlloc` | `configure` publishes `MAIN` before the range, so a thread that runs meanwhile has a pool object that its free would take to the system allocator: `lib.rs:67-68` "published once at configure before any in-pool pointer can exist" (violated) |
| `GlobalRange.cfg` | `MCGlobalAlloc` | `in_pool` reads `POOL_BASE` first, so it can test against the new end and the old base, and a system pointer below the pool counts as inside: `lib.rs:142-143` "a thread that observes a non-zero END ... has also observed BASE" (violated) |
| `GlobalExit.cfg` | `MCGlobalAlloc` | `on_thread_exit` frees the `Tls` and leaves `TLS_PTR`, so a destructor that runs later uses it: `lib.rs:362` "this thread's live, initialized `Tls`" (violated) |
| `FramePoolPinned.cfg` | `MCFramePool` | a single consumer on one CPU gets every frame before `None` (holds) |
| `FramePoolExhausted.cfg` | `MCFramePool` | with a second magazine `None` comes while frames are free: `frame.rs:668` "only if the whole pool is exhausted"; `frame/tests.rs:27-41` calls this intentional (violated) |

The three `Global*.cfg` need a thread beside `configure()`, or another pthread
destructor that allocates after ours; `install!` configures in a constructor,
before there is one, and that is what the `GlobalAlloc` run assumes. In the same
way the `FramePool` run has no destructors after `on_exit`.

In words only: `lib.rs:261-263` says that allocations before `configure()` never
create the TLS; `alloc` enters `with_tls` first, so they do (`AllocSystem` comes
after `TlsInit`). The comment of `central_deposit` (`subheap.rs:585-589`) rests on
spans being "never unlinked", which holds only without reclaim; `ClassPinned` and
`NoLostObject` show why it still works with one producer shard per class.
`reserve.rs:295` says that a best-effort lock above the limit is skipped; the
notice is written and `mlock2` is tried all the same. The limit is compared with
the length rounded up for huge pages, so a required lock can fail that the
fallback to base pages would have met. `supervisor.rs:89` gives a default
interval of 50 ms, the code has 10. `cap_for_class` never goes below 8, whatever
capacity the builder was given.

### Bounds

* `SpanArena`: 2 threads, an arena of 4 spans in a pool of 5 (so that the clamp
  of a table is not hit), runs of 1 and 2 spans, words of 2 bits. Four spans are
  the least that give a free run with a free and a used neighbour; words of 2
  bits make a count of 2 cross a word and use the second level.
* `SubHeap`: 2 threads, 2 shards, 1 or 2 classes, 1 or 2 spans, spans of 1 to 3
  slots with words of 2 slots, magazines of 1 or 2, slabs of 1, sweeps in batches
  of 1. Small capacities make full and empty stacks, and so every slow path,
  happen at once. Two spans let one be reclaimed while the other is used.
* `RseqSlab`: 2 threads, 2 CPUs, 1 or 2 objects, stacks of 1, 3 or 5 attempts
  (5 in the code). A stale register needs two threads; a third only repeats them.
  In `RseqSeize` one object is enough: the races multiply it. The two threads are
  interchangeable there (symmetry).
* `FramePool`: 2 threads, 2 CPUs, 5 frames, slabs of 1, batches and magazines of
  4, so a batch overfills a slab, half a magazine spills into a full one, and a
  frame is left over. `FrameHandles`: 2
  frames, 3 handles, frames of 4 bytes with a "u16" up to 3, so the cap of
  `FrameMut::new` bites.
* `GlobalAlloc`: 2 threads, a pool of 3 objects with a magazine of 2, so that a
  refill leaves objects behind and a free overfills; the system address is the
  one where the pool ends. `GlobalRange.cfg` has one below the pool as well.
* `Startup`: 2 callers, 2 registrations, 4 places to map at, one reservation of the
  application's own at a time, huge pages of 4 base pages, a lock limit of 12 pages.
  Two sub-heaps are the least with one built when the next fails; 4 places and 12
  pages are enough for two callers to build everything and race for the static, and
  not for that and a locked frame pool with huge pages. The theorems hold for any
  limit, none included.
* `Blocks`: the numbers of the code; every class size and its neighbours, every
  alignment up to 2^18, slots at the ends of words and spans, two spans, a base that is and
  one that is not aligned to a span, a slab capacity below and above the floor.
* `Storms = FALSE` in `RseqSlab` lets an operation's last attempt run through, so
  that no operation reaches the locked path by aborts alone; `RseqSeize`,
  `RseqRetries` and `RseqStorm.cfg` set it.

### Fairness

* `SubHeap!FairSpec`: weak fairness of each thread's steps inside a call, once it
  has the central lock, and of the supervisor's thread, which only tries locks. No
  such step waits for another thread. Nothing is assumed about who wins a spin lock, so waiting for the lock
  is not claimed to end.
* `RseqSlab!FairSpec`: strong fairness of running and of being scheduled again:
  the kernel gives every thread time now and then.
* `FramePool!FairSpec`: weak fairness of the holder of the central lock.
* `FrameHandles!FairSpec`: a drop that began runs to its end.

## What is proved

The `*Proofs` modules prove, with TLAPS, for every number of threads, CPUs, spans,
frames and objects, every word width, capacity and set of requests that satisfies
the assumptions the modules name. Where a theorem needs more than these, it says
so in its `ASSUME`, and the condition is listed here.

| module | theorems | inductive invariant |
|---|---|---|
| `SpanArenaProofs`, on the pool | `FindFirstSetCorrect`, `PoolAllocCorrect`, `PoolFreeCorrect`, `PoolAllocBestFit` | `PoolOK`, `Acyclic` (of the operators) |
| `SpanArenaProofs` | `TypeCorrect`, `PoolStaysWellFormed`, `NoSpanHandedOutTwice`, `NoSpanLost`, `EverythingCoalesces`, `TableAlwaysAgrees`, `ImplementsRunAllocator` | `ArenaInv` with `Sized`, `Tagged`, `Counted` |
| `SubHeapProofs` | `HeapInvariant`, `TypeCorrect`, `HandOutOnce`, `NothingLost`, `PinnedClass`, `TableAndLists`, `ScansOwnSpan`, `NoneStranded` | `HeapInv`, with `SweepInv` for the last |
| `RseqSlabProofs` | `NeverDoubleHandOut`, `NeverLostObject`; `SequencesAlwaysFenced`, `StacksAlwaysFilled` | `SlabInv`; `WideInv` |
| `FramePoolProofs` | `StacksAlwaysFit`, `NeverLostFrame`, `ImplementsFrameSource` | `PoolInv` |
| `FrameHandlesProofs` | `CountAlwaysRight`, `ValuesAlwaysAlive`, `WindowsAlwaysDisjoint`, `HandlesUseFrameSource` | `HandlesInv` |
| `GlobalAllocProofs` | `FreesAlwaysGoHome`, `NeverDoubleHandOut`, `NeverLostObject` | `AllocInv` |
| `StartupProofs` | `AlwaysOneOwner`, `AlwaysEffective`, `AlwaysComplete`, `AlwaysStays` | `StartupInv` |
| `BlocksProofs` | `SlabAlwaysFits`, `LayoutAlwaysHonoured`, `FreeAlwaysFindsSlot` | `Placed`, `BlockShape` |

**Span pool.** The masked two-level search finds the least non-empty bucket at or
above its argument, or none. `alloc` and `free` keep the pool well formed and
change the set of free spans by exactly the run in question; `free` leaves no two
free runs that touch; `alloc` misses only if no free run is long enough, and takes
a shortest one that is. Well-formedness is local (each link, tag and bit agrees
with its neighbours) and admits a bucket whose stack is a ring without a bottom.
`Acyclic` rules this out: some rank grows along every stack. A push gives the new
top a rank above all others, an unlink keeps the ranks, and that a non-empty
bucket holds a run of its length follows.

**Span arena.** "No span handed out twice" is not inductive: a call that has taken
a run from the pool and not recorded it yet owns it as well. The invariant is a
partition of the spans below the cursor between the table, the calls and the pool
(`Part`; a recorded run is its call's until it is counted and returned), with the pool well formed and each call's locals in range (`Good`). Each
action moves spans from one part to another (the Move lemmas), and what it moves
into or out of the pool is given by `PoolAllocCorrect` and `PoolFreeCorrect`. For
the table, `Tagged` says which tags a run in the table and one in a call may have.
The code changes the live counter after it has dropped the mutex
(`subheap.rs:1335-1339`, `:1359-1363`), so a run may be in the table before it is
added, and its spans may be allocated and added again before its free is
subtracted. `Counted` therefore says that the counter is the number of spans of the
runs that were added and not filed again (`LiveSpans`) plus those of the frees that
are late with their decrement (`Uncounted`): once no call is under way it is exact,
and it is never below what is live. For the refinement, the free runs of the abstract
allocator are the maximal free intervals; these are the runs of the pool because
everything coalesces, and a pool hit is an abstract reuse because of best fit.
Everything is conditional on no carve having been clamped (`overrun`), which is
what `SpanArenaGroup.cfg` reaches.

**Sub-heap.** `HeapInv` says where every object is. An object exists while its span
has its class and is not being tiled; it is then in exactly one place, a bit of one
of the two bitmaps, the program, or one position of one magazine, slab or local of a
call, and otherwise in none (`Partition`, `Stacks`). Every step of a thread moves a
set of objects from one kind of place to another (the Moved lemmas); a fold moves a
word's objects, a scan's clear the taken slots', `Tile` and the supervisor's retire
bring a span's objects to life and end them. For a scan to hand out a slot that is
still its own, spans must be scanned under one lock: a thread past its lock holds
the lock of its cell and scans spans of its list (`Refilling`), the span table names
the cell that lists a span (`Lists`), and the supervisor's count never exceeds the
free slots up to its word (`Sweeps`), so that a full count means that each slot is
free even if deposits landed meanwhile, and no object exists outside the bitmaps when
the span is retired. The theorems assume `Regime`: `HomesFit`, that the home of a
span keeps its shard in 16 bits (what `SubHeapHomeWidth.cfg` breaks); and either no
reclaim, where a hint is always of a span on its cell's list (`Hints`), or
`OneShard`, that a class whose spans have one bitmap word, and so use hints, is
allocated on one shard only (what `SubHeapStaleHint` breaks). With reclaim and
`OneShard` a hint may be of any span; the class check then suffices, since the shard
of a span with the class can only be the right one.

`NoneStranded` needs `SweepInv` beside `HeapInv`. A held lock has a holder that works
in the cell (`Locked`), so that in a calm final sweep, when no thread is in a call,
no `try_lock` fails and no cell is skipped. The count of the walk is then exact and
nothing is left in the folded words (`Walked`), which the count's bound in `Sweeps`
does not say: a short count means that an object of the span is out. A cell that gave
fewer spans than a batch is clean when it is left, one that gave a full batch is
walked again, and cells that were left stay clean (`SweptClean`). That the loop's
cell numbers reach every cell (`AllCells`) and the words of a span every slot
(`WordsCover`) are facts about the arithmetic of the two loops.

**Per-CPU slab.** `SlabInv` says what each register of a thread in a sequence still
means: between a load and the commit the values are those of memory unless the
sequence was interrupted, and then it will abort before it stores. It holds in two
regimes: every thread has a registration, no CPU is beyond the slab, no operation
aborts on its last attempt, and CPUs are seized only where there is but one, once
(`RseqRegime`); or no thread has a registration, every operation takes the lock and
nothing is seized (`LockedRegime`). Outside of these lie the violated configurations
above. `WideInv` needs no regime. A sequence past its check runs on the CPU it
checked, so the membarrier, which comes after the flag is set, aborts it there, and
whoever checks later finds the flag; that is all of `supervisor.rs:189-193` that
holds in general, since lock holders are not fenced (`RseqSeizeAgain.cfg`,
`RseqSeizeMigrate.cfg`). And whatever a register has become, the slots below the
value it was loaded with had been written when it was loaded and are never
unwritten, so a stale store of `current` cannot uncover an unwritten slot:
`slab.rs:281` "a null in a live slot is a bug" is never met.

**Frame pool.** Each frame is at exactly one place: the program, the central
stack, one position of one slab or one magazine, or one local of one call.
The theorems assume that no destructor uses the cache after `on_exit` has freed it
(`~LateCalls`): the model would go on with it as the thread's own, intact memory,
while libc may hand the block to another thread.

**Frame handles.** The count of a frame is the number of handles that have not
released their reference. It is inductive only together with what handles of one
frame may coexist (`Sharing`: all `Shared` or all `FrameBuf`), with the steps of a
drop that belong to each kind (`Shapes`) and with where the value is (`Values`);
that a count of 1 means "the last one" decides who destroys and recycles.

**Global allocator.** The theorems assume that no other thread runs before
`configure()` is done (`~EarlyThreads`, which `install!` guarantees by configuring
in a constructor), and that no pthread destructor allocates or frees after ours
(`~LateDestructors`): it would use a `Tls` that is freed, and that may be another
thread's by then.

**Start-up.** Every mapping is owned by one `Reservation` or by the `reserve_with`
that is making it. The published value is complete since it is stored only after
its last part, by whoever wins the compare-exchange, and never replaced; for this
the invariant says what each caller has built so far (`Jobs`).

**Block geometry.** The class table and the span size are the code's; bases,
capacities, sizes, alignments, spans and slots are arbitrary. The offset of a class in
a CPU's block is the running sum of the loop over the classes, a recursive function.
That such a function exists (`RunningSum`), that the sums ascend (`OffsetsAscend`) and
that the class sizes do (`TableMonotone`) go by the least counterexample (`UpTo`,
`LeastNat`). The sums put the regions in order, and a power of two at or above the last sum
is the stride. `ClassOf`, one look-up with the size rounded up to 8, finds the
least class because every class size is a multiple of 8. `BlockShape` keeps what a
block was served for: its class from its layout, and its address from its span and
slot. A slot starts in the first span of its group (`TileFits`), so the division
of `locate` gives the span and then the slot (`LocateSlot`), and its word is below the
number of words a refill scans (`WordOfSlot`). Alignment is divisibility: of the
arena's base by a page, of a span by a page, of the class size by the alignment. The
theorems assume that a capacity is at most 2^21 (`CapsFit`: above that a block passes
the 2^30 bytes up to which `Stride` is written out; its offsets are `u32`).
`LayoutAlwaysHonoured` also assumes pages of 4096 bytes (`FourKPages`; with larger
ones a small slab need not end at a page) and that alignments are powers of two
(`AlignsArePowers`, which `Layout` guarantees).

Only model-checked: liveness (`CallsReturn`, `SupervisorJoins`, `RetriesEnd`,
`FramesComeBack`, `LockReleased`), which the prover does not handle.

## Not modelled

The start of the supervisor from the environment; frame metadata other than
`RefCount`; a destructor that panics in a drop (it leaks the frame); a
`pthread_key_create` of `frame_pool!` that fails (nothing is flushed then); the
lookup of glibc's rseq area and the unregistration at a thread's exit (whether a
registration succeeded is a constant); two overlapping `SeizeGuard`s of one CPU,
of which the first to drop releases it; the stubs for other systems than Linux;
live-byte counters of small objects
(whose skew the code accepts). Memory orderings are not modelled: atomics are
sequentially consistent. The instructions of a sequence and of the locked path of a
slab are single steps; the fold of a bitmap word (`meta.rs:197-202`) is one step
from its peek to its plain store, because `alloc_words` is touched under the lock
only and the swap of `free_words` is atomic. What libc does with a freed `Tls` or
frame cache is not modelled, so nothing is claimed of calls after a thread's
`on_thread_exit` or `on_exit`. That `MADV_WILLNEED` populates anonymous memory is
taken from `reserve.rs`; `NoFirstTouch` alone depends on it. Metrics, diagnostics, thin libc wrappers and the benchmarks have no logic to model.

## Plan

Left to do, the most useful first:

1. `GlobalAlloc` over `SubHeap`'s promises as an abstract specification.
2. Registration and unregistration of rseq areas as steps of `RseqSlab`.
