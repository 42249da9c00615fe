------------------------------ MODULE SubHeap ------------------------------
(***************************************************************************)
(* The small-object side of a sub-heap: the per-thread magazines           *)
(* (magazine.rs), the per-CPU slabs as seen from above (each push or pop   *)
(* one atomic step: the promise RseqSlab is about), the sharded central    *)
(* lists with their span bitmaps (subheap.rs, meta.rs), and the            *)
(* supervisor's reclaim of fully free spans.                               *)
(*                                                                         *)
(* A refill holds the central spin lock of its (shard, class) cell while   *)
(* it scans bitmaps; a cross-shard free takes no lock: it sets bits in     *)
(* free_words and then, in two more steps, publishes a reuse hint.  The    *)
(* reclaimer takes the cell's lock, but the next carve of the span may be  *)
(* made under the lock of another cell.                                    *)
(*                                                                         *)
(* An object is <<class, span, slot>>.  Large mutex and span pool are the  *)
(* abstract allocator of RunAllocator, asked for one span at a time.       *)
(***************************************************************************)
EXTENDS Integers, Sequences, SequencesExt, FiniteSetsExt

CONSTANTS
  Threads,      \* threads of the program
  Sweeper,      \* the supervisor thread
  NoThread,
  ShardId,      \* thread_shard_id() of each thread
  NumShards,    \* rows of the central lists
  HomeMod,      \* 2^16: the span table keeps the home as a u16
  Classes,
  Slots,        \* objects per span of each class
  WordSlots,    \* slots per bitmap word, 64 in the code
  Cpus,
  MagCap,       \* MAG_CAP, 32 in the code
  DropN,        \* objects a full magazine flushes, MAG_CAP * 3 / 4 in the code
  Batch,        \* batch_for(class)
  L2Cap,        \* cap_for_class(class)
  NumSpans,     \* spans of the arena
  Producers,    \* <<thread, class>>: who allocates what, through a magazine
  SlabUsers,    \* <<thread, class>>: who allocates what, straight from the slab
  Exiting,      \* threads that may exit
  Reclaiming,   \* the supervisor runs
  Stopping,     \* the Supervisor may be dropped
  ReclaimCap,   \* RECLAIM_CAP_PER_CELL, 32 in the code
  Seizing       \* CPUs may be seized for a rebalance

\* The classes of the span table that are no size classes.
Large   == "large"
Unassigned == "none"

ASSUME SubHeapAssumption ==
  /\ Sweeper \notin Threads /\ NoThread \notin Threads \cup {Sweeper}
  /\ ShardId \in [Threads -> Nat] /\ NumShards \in Nat \ {0} /\ HomeMod \in Nat \ {0}
  /\ IsFiniteSet(Classes) /\ Classes # {} /\ Large \notin Classes /\ Unassigned \notin Classes
  /\ Slots \in [Classes -> Nat \ {0}] /\ WordSlots \in Nat \ {0}
  /\ MagCap \in Nat \ {0} /\ DropN \in 1 .. MagCap
  /\ Batch \in Nat \ {0} /\ L2Cap \in Nat \ {0} /\ NumSpans \in Nat \ {0}
  /\ Producers \subseteq Threads \X Classes /\ SlabUsers \subseteq Threads \X Classes
  /\ Exiting \subseteq Threads /\ Reclaiming \in BOOLEAN /\ Stopping \in BOOLEAN
  /\ ReclaimCap \in Nat \ {0} /\ Seizing \in BOOLEAN

Spans   == 0 .. NumSpans - 1
NO_SPAN == -1
Cells   == (0 .. NumShards - 1) \X Classes

VARIABLES
  mag,          \* ThreadCache: mag[t][c], top of the stack last
  l2,           \* per-CPU slab: l2[cpu][c]
  alloc_words,  \* producer-private free slots of each span
  free_words,   \* slots freed across shards, not folded yet
  list,         \* active list of each cell, head first (next_active, on_list)
  hint,         \* reuse_hint of each cell
  lock,         \* holder of each cell's spin lock
  class,        \* span table: class of each span
  home,         \* span table: home of each span
  free,         \* spans in the span pool
  cursor,       \* bump cursor
  stopped,      \* CPUs whose stop flag is set
  live,         \* objects the program holds
  job,          \* the call each thread is in
  sup,          \* the supervisor's loop: phase, next cell and stop flag
  calm          \* no other thread took a step since the final sweep began

bitmaps == <<alloc_words, free_words>>
table   == <<class, home>>
arena   == <<free, cursor, stopped>>
vars == <<mag, l2, alloc_words, free_words, list, hint, lock, class, home,
          free, cursor, stopped, live, job, sup, calm>>

Idle ==
  [at |-> "idle", via |-> "mag", class |-> Unassigned, out |-> <<>>, start |-> 0,
   again |-> FALSE, todo |-> <<>>, word |-> 0, taken |-> {}, batch |-> <<>>,
   pend |-> <<>>, shard |-> 0, k |-> 0]

Init ==
  /\ mag = [t \in Threads |-> [c \in Classes |-> <<>>]]
  /\ l2 = [p \in Cpus |-> [c \in Classes |-> <<>>]]
  /\ alloc_words = [s \in Spans |-> {}]
  /\ free_words = [s \in Spans |-> {}]
  /\ list = [x \in Cells |-> <<>>]
  /\ hint = [x \in Cells |-> NO_SPAN]
  /\ lock = [x \in Cells |-> NoThread]
  /\ class = [s \in Spans |-> Unassigned]
  /\ home = [s \in Spans |-> 0]
  /\ free = {}
  /\ cursor = 0
  /\ stopped = {}
  /\ live = {}
  /\ job = [t \in Threads \cup {Sweeper} |-> Idle]
  /\ sup = [phase |-> "nap", cell |-> 0, stop |-> FALSE]
  /\ calm = FALSE

-----------------------------------------------------------------------------
At(t, place) == job[t].at = place
Goto(t, j)   == job' = [job EXCEPT ![t] = j]

Shard(t)       == ShardId[t] % NumShards
HomeShard(s)   == home[s] % NumShards
Cell(t)        == <<Shard(t), job[t].class>>
NumWords(c)    == (Slots[c] + WordSlots - 1) \div WordSlots
WordOf(i)      == i \div WordSlots
WordMask(c, w) == {i \in 0 .. Slots[c] - 1 : WordOf(i) = w}
OnList(s)      == \E x \in Cells : s \in Range(list[x])
Push(st, o)    == Append(st, o)
Top(st)        == Last(st)

\* What a slab operation answers: a stopped CPU's slab is neither popped nor
\* pushed, whatever it holds.
CanPop(p, c)  == p \notin stopped /\ l2[p][c] # <<>>
CanPushAlways(p, c) == p \notin stopped    \* mutant: no limit
CanPush(p, c) == p \notin stopped /\ Len(l2[p][c]) < L2Cap

\* Mutant: a plain store instead of a fetch_or.
DepositStore(o) == free_words' = [free_words EXCEPT ![o[2]] = {o[3]}]

\* SpanBitmaps::set: the free bit of one object, by a lock-free fetch_or.
Deposit(o) == free_words' = [free_words EXCEPT ![o[2]] = @ \cup {o[3]}]

-----------------------------------------------------------------------------
(* Allocation: ThreadCache::alloc and SubHeap::alloc_class. *)

TryPop(t, c) ==
  /\ At(t, "idle") /\ mag[t][c] # <<>>
  /\ live' = live \cup {Top(mag[t][c])}
  /\ mag' = [mag EXCEPT ![t][c] = Front(@)]
  /\ UNCHANGED <<l2, bitmaps, list, hint, lock, table, arena, job>>

\* A magazine miss: refill_batch takes the cell's lock.
RefillBatch(t, c) ==
  /\ At(t, "idle") /\ mag[t][c] = <<>>
  /\ lock[<<Shard(t), c>>] = NoThread
  /\ lock' = [lock EXCEPT ![<<Shard(t), c>>] = t]
  /\ Goto(t, [Idle EXCEPT !.at = "take", !.class = c])
  /\ UNCHANGED <<mag, l2, bitmaps, list, hint, table, arena, live>>

PopL2(t, c, p) ==
  /\ At(t, "idle") /\ CanPop(p, c)
  /\ live' = live \cup {Top(l2[p][c])}
  /\ l2' = [l2 EXCEPT ![p][c] = Front(@)]
  /\ UNCHANGED <<mag, bitmaps, list, hint, lock, table, arena, job>>

\* A slab miss: refill takes the same lock, whatever has become of the slab
\* by the time it gets it.
MissL2(t, c, p) ==
  /\ At(t, "idle") /\ ~CanPop(p, c)
  /\ Goto(t, [Idle EXCEPT !.at = "miss", !.class = c, !.via = "slab"])
  /\ UNCHANGED <<mag, l2, bitmaps, list, hint, lock, table, arena, live>>

RefillL2(t) ==
  /\ At(t, "miss")
  /\ lock[Cell(t)] = NoThread
  /\ lock' = [lock EXCEPT ![Cell(t)] = t]
  /\ Goto(t, [job[t] EXCEPT !.at = "take"])
  /\ UNCHANGED <<mag, l2, bitmaps, list, hint, table, arena, live>>

Want(t) == IF job[t].via = "mag" THEN MagCap ELSE Batch

\* Mutant: the hint is trusted without its class (the code's
\* toccata_reclaim_negative_control build).
HintTrusted(c, h) == Slots[c] <= WordSlots /\ h # NO_SPAN

\* The hint is used for classes of at most one word, if the span still has
\* this class.
HintUsable(c, h) ==
  /\ Slots[c] <= WordSlots
  /\ h # NO_SPAN
  /\ class[h] = c

\* central_take: the order in which spans are scanned, the hint first.
CentralTake(t) ==
  /\ At(t, "take")
  /\ LET x == Cell(t)
         h == hint[x]
         order == IF HintUsable(job[t].class, h)
                  THEN <<h>> \o RemoveFirst(list[x], h)
                  ELSE list[x]
     IN  Goto(t, [job[t] EXCEPT !.at = "scan", !.todo = order, !.word = 0,
                                !.start = Len(job[t].out)])
  /\ UNCHANGED <<mag, l2, bitmaps, list, hint, lock, table, arena, live>>

ScanOver(t) == job[t].todo = <<>> \/ Len(job[t].out) = Want(t)

\* Mutant: the scan does not advance past a span's last word.
StuckWord(j) ==
  [j EXCEPT !.at = "scan", !.taken = {},
            !.word = IF @ + 1 < NumWords(j.class) THEN @ + 1 ELSE @]

\* The cursor of a scan moves to the next word, then to the next span.
NextWord(j) ==
  IF j.word + 1 < NumWords(j.class)
  THEN [j EXCEPT !.at = "scan", !.word = @ + 1, !.taken = {}]
  ELSE [j EXCEPT !.at = "scan", !.word = 0, !.taken = {}, !.todo = Tail(@)]

\* How many elements of S are below i, the n lowest elements of S, and the n-th.
Below(S, i)  == Cardinality({k \in S : k < i})
Lowest(S, n) == {i \in S : Below(S, i) < n}
Nth(S, n)    == CHOOSE i \in S : Below(S, i) = n - 1

\* The word of free_words a fold merges is swapped out.
SwappedWord(s, m) == free_words[s] \ m

\* fold_free_word: the word of free_words is swapped out and merged into
\* alloc_words, whose value the scan goes on with.  The peek, the swap and the
\* store are one step: a deposit between them lands before or after the swap,
\* which is atomic, and alloc_words is touched by holders of the lock only.
ScanFold(t) ==
  /\ At(t, "scan") /\ ~ScanOver(t)
  /\ LET j == job[t]
         s == Head(j.todo)
         m == WordMask(j.class, j.word)
         merged == (alloc_words[s] \cup free_words[s]) \cap m
     IN  /\ alloc_words' = [alloc_words EXCEPT ![s] = (@ \ m) \cup merged]
         /\ free_words' = [free_words EXCEPT ![s] = SwappedWord(s, m)]
         /\ Goto(t, IF merged = {} THEN NextWord(j)
                    ELSE [j EXCEPT !.at = "clear",
                                   !.taken = Lowest(merged, Want(t) - Len(j.out))])
  /\ UNCHANGED <<mag, l2, list, hint, lock, table, arena, live>>

\* The taken slots are handed out and cleared, by a plain store.
ScanClear(t) ==
  /\ At(t, "clear")
  /\ LET j == job[t]
         s == Head(j.todo)
         objs == [i \in 1 .. Cardinality(j.taken) |-> <<j.class, s, Nth(j.taken, i)>>]
     IN  /\ alloc_words' = [alloc_words EXCEPT ![s] = @ \ j.taken]
         /\ Goto(t, NextWord([j EXCEPT !.out = @ \o objs]))
  /\ UNCHANGED <<mag, l2, free_words, list, hint, lock, table, arena, live>>

\* refill carves only when the take found nothing; refill_batch as long as
\* the magazine is not full.  A take that finds nothing after a carve ends it.
ScanEnd(t) ==
  /\ At(t, "scan") /\ ScanOver(t)
  /\ LET j == job[t]
         enough == \/ Len(j.out) = Want(t)
                   \/ j.via = "slab" /\ j.out # <<>>
                   \/ j.again /\ (j.via = "slab" \/ Len(j.out) = j.start)
     IN  Goto(t, [j EXCEPT !.at = IF enough THEN "done" ELSE "carve", !.todo = <<>>,
                           !.word = 0])
  /\ UNCHANGED <<mag, l2, bitmaps, list, hint, lock, table, arena, live>>

-----------------------------------------------------------------------------
(* central_carve, one span *)

Pool == INSTANCE RunAllocator WITH ArenaSpans <- NumSpans, LargeCounts <- {},
                                   ClassCarves <- {<<1, 1>>}, broken <- FALSE

\* Mutant: the home is not stamped.
HomeUnset(t) == 0

\* The home a carve stamps: refill passes the raw thread id, refill_batch the
\* shard; the span table keeps 16 bits of it.
HomeStamp(t) == (IF job[t].via = "slab" THEN ShardId[t] ELSE Shard(t)) % HomeMod

Claim(t, s) ==
  /\ class' = [class EXCEPT ![s] = job[t].class]
  /\ home' = [home EXCEPT ![s] = HomeStamp(t)]
  /\ Goto(t, [job[t] EXCEPT !.at = "tile", !.todo = <<s>>])

\* try_pool_alloc hits.
CarveReuse(t) ==
  /\ At(t, "carve")
  /\ \E s \in free : Pool!BestFit(s, 1) /\ free' = free \ {s} /\ Claim(t, s)
  /\ UNCHANGED <<mag, l2, bitmaps, list, hint, lock, cursor, stopped, live>>

\* The pool is empty or its mutex is taken: the bump cursor advances.
CarveFresh(t) ==
  /\ At(t, "carve")
  /\ cursor < NumSpans
  /\ cursor' = cursor + 1
  /\ Claim(t, cursor)
  /\ UNCHANGED <<mag, l2, bitmaps, list, hint, lock, free, stopped, live>>

\* Neither the pool (as far as try_lock can tell) nor the cursor has a span.
CarveFail(t) ==
  /\ At(t, "carve")
  /\ cursor = NumSpans
  /\ Goto(t, [job[t] EXCEPT !.at = "done"])
  /\ UNCHANGED <<mag, l2, bitmaps, list, hint, lock, table, arena, live>>

\* All slots of the span are free and it goes on the cell's list; then
\* central_take runs again.
Tile(t) ==
  /\ At(t, "tile")
  /\ LET s == Head(job[t].todo)
         c == job[t].class
     IN  /\ alloc_words' = [alloc_words EXCEPT ![s] = @ \cup 0 .. Slots[c] - 1]
         /\ list' = IF OnList(s) THEN list ELSE [list EXCEPT ![Cell(t)] = <<s>> \o @]
  /\ Goto(t, [job[t] EXCEPT !.at = "take", !.todo = <<>>, !.again = TRUE])
  /\ UNCHANGED <<mag, l2, free_words, hint, lock, table, arena, live>>

\* The lock is dropped.  refill_batch fills the magazine, lowest address on
\* top, and pops one; refill returns the first and pushes the rest.
RefillDone(t) ==
  /\ At(t, "done")
  /\ LET j == job[t]
         out == j.out
     IN  /\ lock' = [lock EXCEPT ![Cell(t)] = NoThread]
         /\ live' = IF out = <<>> THEN live ELSE live \cup {Head(out)}
         /\ mag' = IF j.via = "mag" /\ out # <<>>
                   THEN [mag EXCEPT ![t][j.class] = Reverse(Tail(out))] ELSE mag
         /\ Goto(t, IF j.via = "slab" /\ Len(out) > 1
                    THEN [Idle EXCEPT !.at = "push", !.class = j.class, !.out = Tail(out)]
                    ELSE Idle)
  /\ UNCHANGED <<l2, bitmaps, list, hint, table, arena>>

\* One leftover of a refill: onto the slab, or back to the bitmap if it is full.
PushRest(t, p) ==
  /\ At(t, "push")
  /\ LET j == job[t]
         o == Head(j.out)
     IN  /\ \/ /\ CanPush(p, j.class)
               /\ l2' = [l2 EXCEPT ![p][j.class] = Push(@, o)]
               /\ UNCHANGED free_words
            \/ /\ ~CanPush(p, j.class)
               /\ Deposit(o)
               /\ UNCHANGED l2
         /\ Goto(t, IF Len(j.out) > 1 THEN [j EXCEPT !.out = Tail(@)] ELSE Idle)
  /\ UNCHANGED <<mag, alloc_words, list, hint, lock, table, arena, live>>

-----------------------------------------------------------------------------
(* Deallocation: ThreadCache::free, dealloc_class_batch, dealloc_class. *)

TryPush(t, o) ==
  /\ At(t, "idle") /\ Len(mag[t][o[1]]) < MagCap
  /\ live' = live \ {o}
  /\ mag' = [mag EXCEPT ![t][o[1]] = Push(@, o)]
  /\ UNCHANGED <<l2, bitmaps, list, hint, lock, table, arena, job>>

\* A full magazine flushes its bottom DropN objects, then takes o.
DrainThenPush(t, o) ==
  /\ At(t, "idle") /\ Len(mag[t][o[1]]) = MagCap
  /\ live' = live \ {o}
  /\ LET m == mag[t][o[1]]
     IN  /\ mag' = [mag EXCEPT ![t][o[1]] = Push(SubSeq(m, DropN + 1, MagCap), o)]
         /\ Goto(t, [Idle EXCEPT !.at = "batch", !.class = o[1],
                                 !.batch = SubSeq(m, 1, DropN)])
  /\ UNCHANGED <<l2, bitmaps, list, hint, lock, table, arena>>

\* A home of u16::MAX counts as local too.
IsLocal(t, o) == home[o[2]] = HomeMod - 1 \/ HomeShard(o[2]) = Shard(t)

\* A free of an object of this shard: onto the slab, or drain the slab first.
FreeLocal(t, p, back) ==
  /\ job[t].batch # <<>>
  /\ LET j == job[t]
         o == Head(j.batch)
     IN  /\ IsLocal(t, o)
         /\ \/ /\ CanPush(p, o[1])
               /\ l2' = [l2 EXCEPT ![p][o[1]] = Push(@, o)]
               /\ Goto(t, [j EXCEPT !.batch = Tail(@)])
            \/ /\ ~CanPush(p, o[1])
               /\ Goto(t, [j EXCEPT !.at = "drain", !.via = back,
                                    !.k = IF Batch \div 2 > 1 THEN Batch \div 2 ELSE 1])
               /\ UNCHANGED l2
  /\ UNCHANGED <<mag, bitmaps, list, hint, lock, table, arena, live>>

BatchLocal(t, p) == At(t, "batch") /\ FreeLocal(t, p, "batch")

\* free_words once the pending word is deposited, unless it goes on.
Flushed(j, same) ==
  IF same THEN free_words
  ELSE [free_words EXCEPT ![j.pend[1][2]] = @ \cup {q[3] : q \in Range(j.pend)}]

\* An object of another shard joins the pending word, which is deposited
\* first if it is another word.
BatchRemote(t) ==
  /\ At(t, "batch") /\ job[t].batch # <<>>
  /\ LET j == job[t]
         o == Head(j.batch)
         same == j.pend = <<>> \/ (/\ j.pend[1][2] = o[2]
                                   /\ WordOf(j.pend[1][3]) = WordOf(o[3]))
     IN  /\ ~IsLocal(t, o)
         /\ free_words' = Flushed(j, same)
         /\ Goto(t, [j EXCEPT !.batch = Tail(@),
                              !.pend = IF same THEN Append(@, o) ELSE <<o>>])
  /\ UNCHANGED <<mag, l2, alloc_words, list, hint, lock, table, arena, live>>

\* The last pending word is deposited; a batch with no remote object is over.
BatchFlush(t) ==
  /\ At(t, "batch") /\ job[t].batch = <<>>
  /\ LET j == job[t]
     IN  IF j.pend = <<>>
         THEN Goto(t, Idle) /\ UNCHANGED free_words
         ELSE /\ free_words' = Flushed(j, FALSE)
              /\ Goto(t, [Idle EXCEPT !.at = "home", !.class = j.class,
                                      !.todo = <<j.pend[1][2]>>])
  /\ UNCHANGED <<mag, l2, alloc_words, list, hint, lock, table, arena, live>>

\* The home of the last span is read, and used in the next step.
ReadHome(t) ==
  /\ At(t, "home")
  /\ Goto(t, [job[t] EXCEPT !.at = "publish", !.shard = HomeShard(Head(job[t].todo))])
  /\ UNCHANGED <<mag, l2, bitmaps, list, hint, lock, table, arena, live>>

PublishHint(t) ==
  /\ At(t, "publish")
  /\ hint' = [hint EXCEPT ![<<job[t].shard, job[t].class>>] = Head(job[t].todo)]
  /\ Goto(t, Idle)
  /\ UNCHANGED <<mag, l2, bitmaps, list, lock, table, arena, live>>

\* Mutant: the pop of a drain leaves the object on the slab.
SlabKept(q) == q
SlabPopped(q) == Front(q)

\* drain: up to half a batch goes from the slab to the bitmaps.
DrainPop(t, p) ==
  /\ At(t, "drain") /\ job[t].k > 0
  /\ LET j == job[t]
         c == Head(j.batch)[1]
     IN  \/ /\ CanPop(p, c)
            /\ Deposit(Top(l2[p][c]))
            /\ l2' = [l2 EXCEPT ![p][c] = SlabPopped(@)]
            /\ Goto(t, [j EXCEPT !.k = @ - 1])
         \/ /\ ~CanPop(p, c)
            /\ Goto(t, [j EXCEPT !.k = 0])
            /\ UNCHANGED <<l2, free_words>>
  /\ UNCHANGED <<mag, alloc_words, list, hint, lock, table, arena, live>>

\* The freed object follows: onto the slab, or to its bitmap if still full.
DrainEnd(t, p) ==
  /\ At(t, "drain") /\ job[t].k = 0
  /\ LET j == job[t]
         o == Head(j.batch)
     IN  /\ \/ /\ CanPush(p, o[1])
               /\ l2' = [l2 EXCEPT ![p][o[1]] = Push(@, o)]
               /\ UNCHANGED free_words
            \/ /\ ~CanPush(p, o[1])
               /\ Deposit(o)
               /\ UNCHANGED l2
         /\ Goto(t, [j EXCEPT !.at = j.via, !.via = "mag", !.batch = Tail(@)])
  /\ UNCHANGED <<mag, alloc_words, list, hint, lock, table, arena, live>>

\* dealloc_class of one object, from the program or, at thread exit, from
\* flush_all for every cached object.
DeallocClass(t, o) ==
  /\ At(t, "idle")
  /\ live' = live \ {o}
  /\ Goto(t, [Idle EXCEPT !.at = "one", !.batch = <<o>>])
  /\ UNCHANGED <<mag, l2, bitmaps, list, hint, lock, table, arena>>

FlushAll(t) ==
  /\ At(t, "idle")
  /\ Goto(t, [Idle EXCEPT !.at = "flush"])
  /\ UNCHANGED <<mag, l2, bitmaps, list, hint, lock, table, arena, live>>

FlushNext(t) ==
  /\ At(t, "flush") /\ job[t].batch = <<>>
  /\ \/ \E c \in Classes :
          /\ mag[t][c] # <<>>
          /\ mag' = [mag EXCEPT ![t][c] = Front(@)]
          /\ Goto(t, [job[t] EXCEPT !.batch = <<Top(mag[t][c])>>])
     \/ /\ \A c \in Classes : mag[t][c] = <<>>
        /\ UNCHANGED mag
        /\ Goto(t, [Idle EXCEPT !.at = "exited"])
  /\ UNCHANGED <<l2, bitmaps, list, hint, lock, table, arena, live>>

OneLocal(t, p) ==
  /\ job[t].at \in {"one", "flush"}
  /\ FreeLocal(t, p, job[t].at)

OneRemote(t) ==
  /\ job[t].at \in {"one", "flush"} /\ job[t].batch # <<>>
  /\ ~IsLocal(t, Head(job[t].batch))
  /\ Deposit(Head(job[t].batch))
  /\ Goto(t, [job[t] EXCEPT !.batch = <<>>])
  /\ UNCHANGED <<mag, l2, alloc_words, list, hint, lock, table, arena, live>>

OneEnd(t) ==
  /\ At(t, "one") /\ job[t].batch = <<>>
  /\ Goto(t, Idle)
  /\ UNCHANGED <<mag, l2, bitmaps, list, hint, lock, table, arena, live>>

-----------------------------------------------------------------------------
(* The supervisor: its loop, reclaim_empty_spans and reclaim_cell. *)

\* Cells in the order of a sweep: by shard, then by class.
NumCells == NumShards * Cardinality(Classes)
ClassSeq == SetToSeq(Classes)
CellAt(i) == <<i \div Len(ClassSeq), ClassSeq[(i % Len(ClassSeq)) + 1]>>

Sweeping == sup.phase \in {"sweep", "final"}

\* On to the next cell.  After the last one the loop naps, and the thread ends
\* after the final sweep.
NextCell ==
  sup' = IF sup.cell + 1 < NumCells THEN [sup EXCEPT !.cell = @ + 1]
         ELSE [sup EXCEPT !.cell = 0, !.phase = IF @ = "final" THEN "gone" ELSE "nap"]

\* Mutant: the loop ends without the sweep that follows it.
WakeAndLeave == sup' = [sup EXCEPT !.phase = IF sup.stop THEN "gone" ELSE "sweep"]

\* Mutant: the loop does not look at stop.
WakeDeaf == sup' = [sup EXCEPT !.phase = "sweep"]

\* The loop head: one more sweep, or the final one when stop is set.
Wake == sup' = [sup EXCEPT !.phase = IF sup.stop THEN "final" ELSE "sweep"]

SweepBegin ==
  /\ sup.phase = "nap"
  /\ Wake
  /\ UNCHANGED <<mag, l2, bitmaps, list, hint, lock, table, arena, live, job>>

\* Drop for Supervisor; its join waits for phase "gone".
DropSupervisor ==
  /\ ~sup.stop
  /\ sup' = [sup EXCEPT !.stop = TRUE]
  /\ UNCHANGED <<mag, l2, bitmaps, list, hint, lock, table, arena, live, job>>

SweepCell ==
  /\ Sweeping /\ At(Sweeper, "idle")
  /\ LET x == CellAt(sup.cell)
     IN  /\ lock[x] = NoThread
         /\ lock' = [lock EXCEPT ![x] = Sweeper]
         /\ Goto(Sweeper, [Idle EXCEPT !.at = "walk", !.class = x[2], !.shard = x[1],
                                       !.todo = list[x]])
  /\ UNCHANGED <<mag, l2, bitmaps, list, hint, table, arena, live, sup>>

\* try_lock: a busy cell is skipped.
SweepSkip ==
  /\ Sweeping /\ At(Sweeper, "idle")
  /\ lock[CellAt(sup.cell)] # NoThread
  /\ NextCell
  /\ UNCHANGED <<mag, l2, bitmaps, list, hint, lock, table, arena, live, job>>

SweepOver == job[Sweeper].todo = <<>> \/ Cardinality(job[Sweeper].taken) = ReclaimCap

\* A2: the count of free slots is the full one (mutant: one is enough).
SomeFree(count, slots) == count > 0
AllFree(count, slots)  == count = slots

\* is_fully_free, A1 and A2: one word is folded and its free slots counted (k);
\* deposits may land between two words.  After the last word the count decides.
SweepFold ==
  /\ At(Sweeper, "walk") /\ ~SweepOver
  /\ LET j == job[Sweeper]
         s == Head(j.todo)
         m == WordMask(j.class, j.word)
         merged == (alloc_words[s] \cup free_words[s]) \cap m
         count == j.k + Cardinality(merged)
     IN  /\ alloc_words' = [alloc_words EXCEPT ![s] = (@ \ m) \cup merged]
         /\ free_words' = [free_words EXCEPT ![s] = SwappedWord(s, m)]
         /\ Goto(Sweeper, IF j.word + 1 < NumWords(j.class)
                          THEN [j EXCEPT !.word = @ + 1, !.k = count]
                          ELSE IF AllFree(count, Slots[j.class])
                               THEN [j EXCEPT !.at = "retire", !.word = 0, !.k = 0]
                               ELSE [j EXCEPT !.todo = Tail(@), !.word = 0, !.k = 0])
  /\ UNCHANGED <<mag, l2, list, hint, lock, table, arena, live, sup>>

\* A3, then: unlink, clear the cell's hint, tag the span large, empty its
\* bitmaps.
SweepRetire ==
  /\ At(Sweeper, "retire")
  /\ LET j == job[Sweeper]
         s == Head(j.todo)
         x == <<j.shard, j.class>>
         next == [j EXCEPT !.at = "walk", !.todo = Tail(@)]
     IN  IF free_words[s] # {}
         THEN Goto(Sweeper, next) /\ UNCHANGED <<bitmaps, list, hint, table>>
         ELSE /\ list' = [list EXCEPT ![x] = RemoveFirst(@, s)]
              /\ hint' = [hint EXCEPT ![x] = IF @ = s THEN NO_SPAN ELSE @]
              /\ class' = [class EXCEPT ![s] = Large]
              /\ home' = [home EXCEPT ![s] = 0]
              /\ alloc_words' = [alloc_words EXCEPT ![s] = {}]
              /\ free_words' = [free_words EXCEPT ![s] = {}]
              /\ Goto(Sweeper, [next EXCEPT !.taken = @ \cup {s}])
  /\ UNCHANGED <<mag, l2, lock, arena, live, sup>>

\* The central lock is dropped before the spans are filed in the pool.
SweepUnlock ==
  /\ At(Sweeper, "walk") /\ SweepOver
  /\ LET j == job[Sweeper]
     IN  /\ lock' = [lock EXCEPT ![<<j.shard, j.class>>] = NoThread]
         /\ IF j.taken = {} THEN Goto(Sweeper, Idle) /\ NextCell
            ELSE Goto(Sweeper, [Idle EXCEPT !.at = "file", !.taken = j.taken]) /\ UNCHANGED sup
  /\ UNCHANGED <<mag, l2, bitmaps, list, hint, table, arena, live>>

\* A cell that gave a full batch is swept again.
Again(got) == got = ReclaimCap

SweepFile ==
  /\ At(Sweeper, "file")
  /\ free' = free \cup job[Sweeper].taken
  /\ Goto(Sweeper, Idle)
  /\ IF Again(Cardinality(job[Sweeper].taken)) THEN UNCHANGED sup ELSE NextCell
  /\ UNCHANGED <<mag, l2, bitmaps, list, hint, lock, table, cursor, stopped, live>>

-----------------------------------------------------------------------------
(* The supervisor's seizure of a CPU: seize_cpu and rebalance_capacity. *)

\* seize_cpu and the drop of its guard.  That no writer is in the slab once
\* the seize returns is RseqSlab's business.
SeizeCpu(p) ==
  /\ p \notin stopped
  /\ stopped' = stopped \cup {p}
  /\ UNCHANGED <<mag, l2, bitmaps, list, hint, lock, table, free, cursor, live, job>>

ReleaseCpu(p) ==
  /\ p \in stopped
  /\ stopped' = stopped \ {p}
  /\ UNCHANGED <<mag, l2, bitmaps, list, hint, lock, table, free, cursor, live, job>>

\* rebalance_capacity: an object of a seized slab goes back to its bitmap.
RebalanceCapacity(p, c) ==
  /\ p \in stopped /\ l2[p][c] # <<>>
  /\ Deposit(Top(l2[p][c]))
  /\ l2' = [l2 EXCEPT ![p][c] = Front(@)]
  /\ UNCHANGED <<mag, alloc_words, list, hint, lock, table, arena, live, job>>

-----------------------------------------------------------------------------
InCall(t) == job[t].at \notin {"idle", "miss", "exited"}
Quiet == \A t \in Threads : ~InCall(t)

Supervise ==
  /\ Reclaiming
  /\ \/ SweepBegin \/ SweepCell \/ SweepSkip
     \/ SweepFold \/ SweepRetire \/ SweepUnlock \/ SweepFile
  /\ calm' = (calm \/ (sup.phase = "nap" /\ sup.stop /\ Quiet))

Seize ==
  /\ Seizing
  /\ \E p \in Cpus : \/ SeizeCpu(p)
                     \/ ReleaseCpu(p)
                     \/ \E c \in Classes : RebalanceCapacity(p, c)

Alloc(t) ==
  \/ \E c \in Classes : <<t, c>> \in Producers /\ (TryPop(t, c) \/ RefillBatch(t, c))
  \/ \E c \in Classes, p \in Cpus :
        <<t, c>> \in SlabUsers /\ (PopL2(t, c, p) \/ MissL2(t, c, p))
  \/ RefillL2(t) \/ CentralTake(t) \/ ScanFold(t) \/ ScanClear(t) \/ ScanEnd(t)
  \/ CarveReuse(t) \/ CarveFresh(t) \/ CarveFail(t) \/ Tile(t)
  \/ RefillDone(t)
  \/ \E p \in Cpus : PushRest(t, p)

Dealloc(t) ==
  \/ \E o \in live : TryPush(t, o) \/ DrainThenPush(t, o)
  \/ \E o \in live : <<t, o[1]>> \in SlabUsers /\ DeallocClass(t, o)
  \/ \E p \in Cpus : BatchLocal(t, p) \/ OneLocal(t, p) \/ DrainPop(t, p) \/ DrainEnd(t, p)
  \/ OneRemote(t) \/ OneEnd(t)
  \/ BatchRemote(t) \/ BatchFlush(t) \/ ReadHome(t) \/ PublishHint(t)

Exit(t) ==
  \/ t \in Exiting /\ FlushAll(t)
  \/ FlushNext(t)

\* What the threads of the program do.
Work(t) == (Alloc(t) \/ Dealloc(t) \/ Exit(t)) /\ UNCHANGED sup /\ calm' = FALSE

Next ==
  \/ Supervise
  \/ Stopping /\ DropSupervisor /\ calm' = FALSE
  \/ Seize /\ UNCHANGED sup /\ calm' = FALSE
  \/ \E t \in Threads : Work(t)

Spec == Init /\ [][Next]_vars

\* A thread in a call, and the supervisor, keep running: past the lock, which a
\* refill takes first, no step of a call waits for another thread, and the
\* supervisor only tries locks.
FairSpec ==
  /\ Spec
  /\ \A t \in Threads : WF_vars(InCall(t) /\ Work(t))
  /\ WF_vars(Supervise)

-----------------------------------------------------------------------------
(* Properties *)

\* The objects thread t has in its magazines or in the call it is in.
Cached(t) == {mag[t][c] : c \in Classes} \cup {job[t].out, job[t].batch, job[t].pend}

HeldObjects ==
  live \cup (UNION {Range(q) : q \in UNION {Cached(t) : t \in Threads}})
       \cup (UNION {Range(l2[p][c]) : p \in Cpus, c \in Classes})

\* Who owns slot i of span s: bitmap bits, the program, places in magazines,
\* slabs and calls.
Owners(s, i) ==
  LET At1(q) == {k \in DOMAIN q : q[k][2] = s /\ q[k][3] = i}
  IN  {<<"alloc">> : x \in {i} \cap alloc_words[s]}
      \cup {<<"free">> : x \in {i} \cap free_words[s]}
      \cup {<<"live", o[1]>> : o \in {y \in live : y[2] = s /\ y[3] = i}}
      \cup (UNION {{<<"mag", t, c, k>> : k \in At1(mag[t][c])} : t \in Threads, c \in Classes})
      \cup (UNION {{<<"l2", p, c, k>> : k \in At1(l2[p][c])} : p \in Cpus, c \in Classes})
      \cup (UNION {{<<"out", t, k>> : k \in At1(job[t].out)} : t \in Threads})
      \cup (UNION {{<<"batch", t, k>> : k \in At1(job[t].batch)} : t \in Threads})
      \cup (UNION {{<<"pend", t, k>> : k \in At1(job[t].pend)} : t \in Threads})

MaxSlots == Max({Slots[c] : c \in Classes})

\* The slots a span has as its class divides it.
SlotsOf(s) == IF class[s] \in Classes THEN 0 .. Slots[class[s]] - 1 ELSE {}

\* The shared state stays in its type, a bit is set only for a slot of its span's
\* class, no magazine outgrows MAG_CAP and no slab
\* its class's limit (magazine.rs:217-225, subheap.rs:438-447).
TypeOK ==
  /\ \A s \in Spans : alloc_words[s] \cup free_words[s] \subseteq SlotsOf(s)
  /\ hint \in [Cells -> Spans \cup {NO_SPAN}]
  /\ lock \in [Cells -> Threads \cup {Sweeper, NoThread}]
  /\ class \in [Spans -> Classes \cup {Large, Unassigned}]
  /\ home \in [Spans -> 0 .. HomeMod - 1]
  /\ free \subseteq Spans /\ cursor \in 0 .. NumSpans
  /\ \A t \in Threads, c \in Classes : Len(mag[t][c]) <= MagCap
  /\ \A p \in Cpus, c \in Classes : Len(l2[p][c]) <= L2Cap

\* A slot never has two owners: no object is handed out twice, by whatever
\* interleaving of refills, lock-free deposits, flushes and reclaims.
NoDoubleHandOut == \A s \in Spans, i \in 0 .. MaxSlots - 1 : \A a, b \in Owners(s, i) : a = b

\* No free is lost (meta.rs:148-153): every slot of a span on an active list
\* is owned by somebody, in particular when a deposit lands while the word is
\* being folded or reclaimed.
NoLostObject ==
  \A x \in Cells : \A s \in Range(list[x]) :
     \A i \in 0 .. Slots[x[2]] - 1 : Owners(s, i) # {}

\* An object that anybody holds or caches pins the class of its span, so that
\* a free computes its slot with the object size it was carved with.
ClassPinned == \A o \in HeldObjects : class[o[2]] = o[1]

\* The span table agrees with the lists: a span on the list of a cell has the
\* cell's class and home, is on no other list, and is not in the pool; so a
\* cross-shard free and its hint reach the cell that owns the span.
ListsAgree ==
  \A x \in Cells :
     /\ IsInjective(list[x])
     /\ \A s \in Range(list[x]) :
          /\ class[s] = x[2]
          /\ HomeShard(s) = x[1]
          /\ s \notin free
          /\ \A y \in Cells : y # x => s \notin Range(list[y])

\* "a span's bitmap/link is only touched by that lock's holder" (meta.rs:73-74):
\* a thread that scans a span holds the lock of the cell that owns it.
OwnerScans ==
  \A t \in Threads :
     At(t, "clear") => Head(job[t].todo) \in Range(list[Cell(t)])

\* Never stall: a refill, flush or sweep that is past the lock returns, however
\* the others deposit, reclaim and carve meanwhile.
CallsReturn == \A t \in Threads \cup {Sweeper} : InCall(t) ~> ~InCall(t)

\* Dropping the Supervisor ends: after stop the thread is joined, unless a
\* producer carves spans again and again (a cell that keeps giving full batches
\* is swept without end).
SupervisorJoins ==
  sup.stop ~> (sup.phase = "gone" \/ \E t \in Threads : At(t, "tile"))

\* "Final sweep on shutdown so nothing is left stranded" (supervisor.rs:144):
\* unless somebody works meanwhile, no wholly free span stays with a class.
NothingStranded ==
  sup.phase = "gone" /\ calm =>
    \A x \in Cells : \A s \in Range(list[x]) :
      alloc_words[s] \cup free_words[s] # 0 .. Slots[x[2]] - 1
=============================================================================
