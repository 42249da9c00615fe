----------------------------- MODULE SpanArena -----------------------------
(***************************************************************************)
(* Who owns which span of a sub-heap's arena (toccata-core/src/subheap.rs).*)
(*                                                                         *)
(* Threads claim whole spans in three ways: alloc_large (the coalescing    *)
(* pool under the large mutex, else the bump cursor by CAS), the carve of  *)
(* a size class (the pool under try_lock, else the bump cursor, clamped to *)
(* what is left), and they give them back by dealloc_large and by          *)
(* reclaim_cell.  The large mutex is dropped between the pool miss and the *)
(* carve, and between retiring a span from its class and filing it, and    *)
(* the live counter is updated only after the mutex is dropped: those      *)
(* windows are steps of their own.                                         *)
(*                                                                         *)
(* job[t] is the call thread t is in: where it stands (at), the run it has *)
(* claimed (head, n), the spans per object of the class (g) and the        *)
(* retired groups it has still to file (rest).                             *)
(***************************************************************************)
EXTENDS SpanPool, FiniteSets

CONSTANTS
  Threads, NoThread,
  ArenaSpans,    \* whole spans the bump cursor may hand out
  LargeCounts,   \* spans an alloc_large may ask for
  ClassCarves,   \* <<spans wanted, spans per object>> of a class's carve
  ReclaimCap     \* groups one reclaim_cell may retire (32 in the code)

ASSUME ArenaAssumption ==
  /\ ArenaSpans \in 1 .. NumSpans
  /\ LargeCounts \subseteq Counts
  \* a class of at most one span per object asks for any number of spans, a
  \* larger one for exactly one group
  /\ ClassCarves \subseteq {kg \in Counts \X Counts : kg[2] = 1 \/ kg[1] = kg[2]}
  /\ ReclaimCap \in Nat \ {0}
  /\ NoThread \notin Threads

VARIABLES
  pool,         \* LargeInner::pool
  large_lock,   \* holder of the large mutex
  cursor,       \* BumpArena::cursor, in spans
  run_spans,    \* LargeAllocator::run_spans
  table,        \* class field of the span table: "none", "large" or "class"
  live_spans,   \* sum over the CPUs of the remote live counters, in spans
  job,          \* the call each thread is in
  held,         \* large runs the program holds
  cells,        \* groups that belong to some (shard, class) cell
  overrun       \* a group carve was clamped to fewer spans than its object

vars == <<pool, large_lock, cursor, run_spans, table, live_spans,
          job, held, cells, overrun>>

Runs == Spans \X Counts
Places == {"idle", "al_pool", "al_carve", "al_record", "al_count",
           "dl_file", "dl_count", "cs_pool", "cs_bump", "cs_tag",
           "rc_lock", "rc_file"}
Job == [at : Places, head : Spans, n : 0 .. NumSpans, g : Counts, rest : SUBSET Runs]
Idle == [at |-> "idle", head |-> 0, n |-> 0, g |-> 1, rest |-> {}]

Init ==
  /\ pool = PoolNew
  /\ large_lock = NoThread
  /\ cursor = 0
  /\ run_spans = [s \in Spans |-> 0]
  /\ table = [s \in Spans |-> "none"]
  /\ live_spans = 0
  /\ job = [t \in Threads |-> Idle]
  /\ held = {}
  /\ cells = {}
  /\ overrun = FALSE

-----------------------------------------------------------------------------
At(t, place) == job[t].at = place
Goto(t, j)   == job' = [job EXCEPT ![t] = j]
Lock(t)      == large_lock = NoThread /\ large_lock' = t
Unlock(t)    == large_lock' = NoThread

\* SpanTable::assign_range over the spans S.
AssignRange(S, class) ==
  table' = [s \in Spans |-> IF s \in S THEN class ELSE table[s]]

\* The bump cursor by CAS: carve_run takes all of n or nothing, carve_spans
\* what is left of n.
CarveRunPast(n) == IF cursor + n <= ArenaSpans + 1 THEN n ELSE 0    \* mutant
CarveRun(n) == IF cursor + n <= ArenaSpans THEN n ELSE 0
CarveSpans(n) == IF n <= ArenaSpans - cursor THEN n ELSE ArenaSpans - cursor

-----------------------------------------------------------------------------
(* alloc_large *)

\* Under the mutex, which is then dropped: the run is recorded and tagged.
Record(t, h, n) ==
  /\ run_spans' = [run_spans EXCEPT ![h] = n]
  /\ AssignRange(Run(h, n), "large")
  /\ Goto(t, [Idle EXCEPT !.at = "al_count", !.head = h, !.n = n])

AllocLarge(t, n) ==
  /\ At(t, "idle")
  /\ Lock(t)
  /\ Goto(t, [Idle EXCEPT !.at = "al_pool", !.n = n])
  /\ UNCHANGED <<pool, cursor, run_spans, table, live_spans, held, cells, overrun>>

\* Under the mutex: a pool hit is recorded at once; a miss drops the mutex.
AllocLargePool(t) ==
  /\ At(t, "al_pool")
  /\ LET n == job[t].n
         r == PoolAlloc(pool, n)
     IN  /\ pool' = r.pool
         /\ Unlock(t)
         /\ \/ /\ r.head # NO_SPAN
               /\ Record(t, r.head, n)
            \/ /\ r.head = NO_SPAN
               /\ Goto(t, [job[t] EXCEPT !.at = "al_carve"])
               /\ UNCHANGED <<run_spans, table>>
  /\ UNCHANGED <<cursor, live_spans, held, cells, overrun>>

\* carve_run, without the mutex; a drained arena ends the call with None.
AllocLargeCarve(t) ==
  /\ At(t, "al_carve")
  /\ cursor' = cursor + CarveRun(job[t].n)
  /\ Goto(t, IF CarveRun(job[t].n) = 0 THEN Idle
             ELSE [job[t] EXCEPT !.at = "al_record", !.head = cursor])
  /\ UNCHANGED <<pool, large_lock, run_spans, table, live_spans, held, cells, overrun>>

\* The mutex is taken again, and released, around the recording of the run.
AllocLargeRecord(t) ==
  /\ At(t, "al_record")
  /\ large_lock = NoThread
  /\ Record(t, job[t].head, job[t].n)
  /\ UNCHANGED <<pool, large_lock, cursor, live_spans, held, cells, overrun>>

\* Without the mutex: add_remote, one fetch_add, and the run is returned.
AllocLargeCount(t) ==
  /\ At(t, "al_count")
  /\ live_spans' = live_spans + job[t].n
  /\ held' = held \cup {<<job[t].head, job[t].n>>}
  /\ Goto(t, Idle)
  /\ UNCHANGED <<pool, large_lock, cursor, run_spans, table, cells, overrun>>

-----------------------------------------------------------------------------
(* dealloc_large *)

\* Mutant: the count is read and not swapped out.
DeallocLargeRead(t, r) ==
  /\ At(t, "idle")
  /\ r \in held
  /\ held' = held \ {r}
  /\ Goto(t, [Idle EXCEPT !.at = "dl_file", !.head = r[1], !.n = run_spans[r[1]]])
  /\ UNCHANGED <<pool, large_lock, cursor, run_spans, table, live_spans, cells, overrun>>

\* The run's span count is swapped out before the mutex is taken.
DeallocLarge(t, r) ==
  /\ At(t, "idle")
  /\ r \in held
  /\ held' = held \ {r}
  /\ run_spans' = [run_spans EXCEPT ![r[1]] = 0]
  /\ Goto(t, IF run_spans[r[1]] = 0 THEN Idle
             ELSE [Idle EXCEPT !.at = "dl_file", !.head = r[1], !.n = run_spans[r[1]]])
  /\ UNCHANGED <<pool, large_lock, cursor, table, live_spans, cells, overrun>>

DeallocLargeFile(t) ==
  /\ At(t, "dl_file")
  /\ large_lock = NoThread
  /\ pool' = PoolFree(pool, job[t].head, job[t].n)
  /\ Goto(t, [job[t] EXCEPT !.at = "dl_count"])
  /\ UNCHANGED <<large_lock, cursor, run_spans, table, live_spans, held, cells, overrun>>

\* Without the mutex, when the run may already be somebody else's: add_remote.
DeallocLargeCount(t) ==
  /\ At(t, "dl_count")
  /\ live_spans' = live_spans - job[t].n
  /\ Goto(t, Idle)
  /\ UNCHANGED <<pool, large_lock, cursor, run_spans, table, held, cells, overrun>>

-----------------------------------------------------------------------------
(* carve_or_reuse_spans, for central_carve of a class with g spans per object *)

\* try_pool_alloc: try_lock, so a contended mutex is a pool miss.
CarveOrReuse(t, k, g) ==
  /\ At(t, "idle")
  /\ \/ /\ Lock(t)
        /\ Goto(t, [Idle EXCEPT !.at = "cs_pool", !.n = k, !.g = g])
     \/ /\ large_lock # NoThread
        /\ UNCHANGED large_lock
        /\ Goto(t, [Idle EXCEPT !.at = "cs_bump", !.n = k, !.g = g])
  /\ UNCHANGED <<pool, cursor, run_spans, table, live_spans, held, cells, overrun>>

TryPoolAlloc(t) ==
  /\ At(t, "cs_pool")
  /\ LET r == PoolAlloc(pool, job[t].n)
     IN  /\ pool' = r.pool
         /\ Goto(t, IF r.head = NO_SPAN THEN [job[t] EXCEPT !.at = "cs_bump"]
                    ELSE [job[t] EXCEPT !.at = "cs_tag", !.head = r.head])
  /\ Unlock(t)
  /\ UNCHANGED <<cursor, run_spans, table, live_spans, held, cells, overrun>>

\* carve_spans; with no whole span left the carve fails.
CarveBump(t) ==
  /\ At(t, "cs_bump")
  /\ LET take == CarveSpans(job[t].n)
     IN  /\ cursor' = cursor + take
         /\ Goto(t, IF take = 0 THEN Idle
                    ELSE [job[t] EXCEPT !.at = "cs_tag", !.head = cursor, !.n = take])
  /\ UNCHANGED <<pool, large_lock, run_spans, table, live_spans, held, cells, overrun>>

\* The groups a carve of n spans at h adds to its cell: one object of g spans
\* for a class larger than a span, else one group per span.
Groups(h, n, g) == IF g > 1 THEN {<<h, g>>} ELSE {<<s, 1>> : s \in Run(h, n)}

\* The claimed spans are tagged with the class and linked onto the cell's list.
CarveTag(t) ==
  /\ At(t, "cs_tag")
  /\ LET j == job[t]
     IN  /\ AssignRange(Run(j.head, j.n), "class")
         /\ cells' = cells \cup Groups(j.head, j.n, j.g)
         /\ overrun' = (overrun \/ (j.g > 1 /\ j.n < j.g))
  /\ Goto(t, Idle)
  /\ UNCHANGED <<pool, large_lock, cursor, run_spans, live_spans, held>>

-----------------------------------------------------------------------------
(* reclaim_cell.  Which groups are fully free is decided on the bitmaps by   *)
(* the module SubHeap; here any groups of one class may be.                  *)

ReclaimCell(t, S) ==
  /\ At(t, "idle")
  /\ S \subseteq cells /\ S # {}
  /\ Cardinality(S) <= ReclaimCap
  /\ \A r, s \in S : r[2] = s[2]
  /\ AssignRange(UNION {Run(r[1], r[2]) : r \in S}, "large")
  /\ cells' = cells \ S
  /\ Goto(t, [Idle EXCEPT !.at = "rc_lock", !.rest = S])
  /\ UNCHANGED <<pool, large_lock, cursor, run_spans, live_spans, held, overrun>>

ReclaimLock(t) ==
  /\ At(t, "rc_lock")
  /\ Lock(t)
  /\ Goto(t, [job[t] EXCEPT !.at = "rc_file"])
  /\ UNCHANGED <<pool, cursor, run_spans, table, live_spans, held, cells, overrun>>

\* One pool.free per retired group, all under one hold of the mutex.  A group
\* that reaches past the grid stops here: link panics on it.
ReclaimFile(t, r) ==
  /\ At(t, "rc_file")
  /\ r \in job[t].rest
  /\ r[1] + r[2] <= NumSpans
  /\ pool' = PoolFree(pool, r[1], r[2])
  /\ LET rest == job[t].rest \ {r}
     IN  IF rest = {}
         THEN Unlock(t) /\ Goto(t, Idle)
         ELSE Goto(t, [job[t] EXCEPT !.rest = rest]) /\ UNCHANGED large_lock
  /\ UNCHANGED <<cursor, run_spans, table, live_spans, held, cells, overrun>>

-----------------------------------------------------------------------------
Step(t) ==
  \/ \E n \in LargeCounts : AllocLarge(t, n)
  \/ AllocLargePool(t)
  \/ AllocLargeCarve(t)
  \/ AllocLargeRecord(t)
  \/ AllocLargeCount(t)
  \/ \E r \in held : DeallocLarge(t, r)
  \/ DeallocLargeFile(t)
  \/ DeallocLargeCount(t)
  \/ \E kg \in ClassCarves : CarveOrReuse(t, kg[1], kg[2])
  \/ TryPoolAlloc(t)
  \/ CarveBump(t)
  \/ CarveTag(t)
  \/ \E S \in SUBSET cells : ReclaimCell(t, S)
  \/ ReclaimLock(t)
  \/ \E r \in job[t].rest : ReclaimFile(t, r)

Next == \E t \in Threads : Step(t)

Spec == Init /\ [][Next]_vars
-----------------------------------------------------------------------------
(* Properties *)

RunOf(r) == Run(r[1], r[2])
Disjoint(A, B) == A \cap B = {}

\* The spans a call has claimed and neither handed out nor filed yet.
SpansOf(j) ==
  IF j.at \in {"al_record", "al_count", "dl_file", "cs_tag"} THEN Run(j.head, j.n)
  ELSE IF j.at \in {"rc_lock", "rc_file"} THEN UNION {RunOf(r) : r \in j.rest}
  ELSE {}
JobSpans(t) == SpansOf(job[t])

Types ==
  /\ pool \in PoolType
  /\ large_lock \in Threads \cup {NoThread}
  /\ cursor \in 0 .. ArenaSpans
  /\ run_spans \in [Spans -> 0 .. NumSpans]
  /\ table \in [Spans -> {"none", "large", "class"}]
  /\ live_spans \in Int
  /\ job \in [Threads -> Job]
  /\ held \subseteq Runs
  /\ cells \subseteq Runs

\* The variables and every call's local state stay in their types; nothing is
\* promised once a group carve was clamped.
TypeOK == overrun \in BOOLEAN /\ (~overrun => Types)

\* The pool's boundary tags, stacks and bitmap stay consistent, and no two of
\* its runs overlap or touch (spanpool.rs:37-45), whatever the order in which
\* threads allocate, free and reclaim.
PoolWellFormed == ~overrun => PoolOK(pool)

\* "every span index is in exactly one of {free, live}" (spanpool.rs:307-309):
\* the large runs the program holds, the groups of the class cells, the runs
\* calls in progress have claimed, the pool and the uncarved tail of the arena
\* are pairwise disjoint.
NoDoubleHandOut ==
  ~overrun =>
    /\ \A r, s \in held : r # s => Disjoint(RunOf(r), RunOf(s))
    /\ \A r, s \in cells : r # s => Disjoint(RunOf(r), RunOf(s))
    /\ \A r \in held, s \in cells : Disjoint(RunOf(r), RunOf(s))
    /\ \A t, u \in Threads : t # u => Disjoint(JobSpans(t), JobSpans(u))
    /\ \A t \in Threads, r \in held \cup cells : Disjoint(JobSpans(t), RunOf(r))
    /\ \A r \in held \cup cells : Disjoint(RunOf(r), FreeSpans(pool))
    /\ \A t \in Threads : Disjoint(JobSpans(t), FreeSpans(pool))
    /\ \A s \in FreeSpans(pool) : s < cursor
    /\ \A r \in held \cup cells : \A s \in RunOf(r) : s < cursor
    /\ \A t \in Threads : \A s \in JobSpans(t) : s < cursor

\* No span is lost: each carved span is in the pool, in a held run, in a cell
\* or in the hands of a call in progress (the "no lost span" of
\* spanpool.rs:308).
NoLostSpan ==
  ~overrun =>
    \A s \in 0 .. cursor - 1 :
       \/ s \in FreeSpans(pool)
       \/ \E r \in held \cup cells : s \in RunOf(r)
       \/ \E t \in Threads : s \in JobSpans(t)

\* Once everything carved has come back the pool is one run again, whatever
\* the order of the frees ("full coalesce back to one run",
\* spanpool.rs:358-363).
FullCoalesce ==
  ~overrun /\ held = {} /\ cells = {} /\ cursor > 0
  /\ (\A t \in Threads : JobSpans(t) = {})
    => pool.head_count[0] = cursor

\* The large runs that run_spans and the table know: those that the program
\* holds and those whose alloc_large has yet to count and return them.
Returning == {<<job[t].head, job[t].n>> : t \in {u \in Threads : At(u, "al_count")}}
Recorded == held \cup Returning

\* The spans of the large runs that the program holds or that are on their way
\* back to the pool.
LiveSpans ==
  (UNION {RunOf(r) : r \in held})
  \cup (UNION {JobSpans(t) : t \in {u \in Threads : At(u, "dl_file")}})

\* The spans that are back in the pool, or with another owner already, and not
\* yet taken off the counter, one entry for each free that is late with it.
Uncounted ==
  UNION {{t} \X Run(job[t].head, job[t].n) : t \in {u \in Threads : At(u, "dl_count")}}

\* dealloc_by_ptr routes by the span table and dealloc_large trusts run_spans:
\* every span of a recorded run is tagged large with the run's count at its
\* head, every span of a cell's group is tagged with its class, and no other
\* span carries a live count.  The live counter, which alloc_large and
\* dealloc_large update after they drop the mutex, is the number of spans held
\* or being freed plus those of the frees that are late with their decrement:
\* it never falls below what the program holds, however allocations of a freed
\* run overtake the free, and is exact when no free is in progress.
TableAgrees ==
  ~overrun =>
    /\ live_spans = Cardinality(LiveSpans) + Cardinality(Uncounted)
    /\ \A r \in Recorded : /\ run_spans[r[1]] = r[2]
                           /\ \A s \in RunOf(r) : table[s] = "large"
    /\ \A r \in cells : \A s \in RunOf(r) : table[s] = "class"
    /\ \A s \in Spans : run_spans[s] # 0 => <<s, run_spans[s]>> \in Recorded

\* "A single carve claims exactly one group (we ask for `group_spans`)"
\* (subheap.rs:823-824): an object of a class larger than a span owns all the
\* spans it covers.
GroupCarveExact == ~overrun

\* The pool holds n consecutive spans.
PoolFits(n) ==
  \E h \in Spans : h + n <= NumSpans /\ Run(h, n) \subseteq FreeSpans(pool)

\* "arena (and thus budget) truly drained" (subheap.rs:1398, 1443): a carve
\* that gives up leaves no run behind that would have served it.
DrainedMeansNoFit ==
  [][\A t \in Threads :
       ~overrun /\ At(t, "cs_bump") /\ job'[t].at = "idle" => ~PoolFits(job[t].n)]_vars

-----------------------------------------------------------------------------
\* The arena implements the abstract best-fit allocator of whole spans.
Abstract == INSTANCE RunAllocator
              WITH free <- FreeSpans(pool),
                   broken <- overrun
RefinesRunAllocator == Abstract!Spec
=============================================================================
