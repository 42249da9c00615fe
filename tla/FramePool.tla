----------------------------- MODULE FramePool -----------------------------
(***************************************************************************)
(* FramePool (frame.rs): frames of one size move between a central stack   *)
(* under a spin lock, the per-CPU slabs and the magazines of FrameCache.   *)
(* A push to or a pop from a slab is one step, on whatever CPU the thread  *)
(* is on at that moment: the promise RseqSlab is about.  The lock of the   *)
(* central stack is held across the slab operations of a refill or drain.  *)
(*                                                                         *)
(* The threads that have a FrameCache reach it through the cell of         *)
(* frame_pool!: a pointer that the first call sets and the destructor of a *)
(* pthread key leaves behind.                                              *)
(*                                                                         *)
(* Reference counts and typed handles are FrameHandles' part: here a frame *)
(* that is freed is dead already.                                          *)
(***************************************************************************)
EXTENDS Integers, Sequences, SequencesExt

CONSTANTS
  Threads,
  NoThread,
  Cpus,
  NumFrames,    \* n_frames
  CapPerCpu,    \* CAP_PER_CPU, 256 in the code
  Batch,        \* BATCH, 32 in the code
  MagCap,       \* FRAME_MAG_CAP, 32 in the code
  CacheUsers,   \* threads that go through the FrameCache of frame_pool!
  PoolUsers,    \* threads that call the pool
  CallocFails,  \* calloc of a FrameCache may fail
  LateCalls     \* destructors that run after on_exit use the pool

ASSUME FramePoolAssumption ==
  /\ NoThread \notin Threads
  /\ CapPerCpu \in Nat \ {0} /\ Batch \in Nat \ {0} /\ MagCap \in Nat \ {0, 1}
  /\ NumFrames \in Nat \ {0}
  /\ CacheUsers \subseteq Threads /\ PoolUsers \subseteq Threads
  /\ CallocFails \in BOOLEAN /\ LateCalls \in BOOLEAN

Frames  == 0 .. NumFrames - 1
NoFrame == NumFrames
Half    == MagCap \div 2
DrainN  == IF Batch \div 2 > 1 THEN Batch \div 2 ELSE 1

VARIABLES
  central,   \* stack of free frames, top last
  lock,      \* holder of the central spin lock
  slab,      \* stack of each CPU
  tls,       \* PTR of each thread: null, live or freed; temp: a call has a
             \* FrameCache of its own
  mag,       \* magazine of each thread's FrameCache
  out,       \* how often the program holds each frame
  job        \* the call each thread is in

vars == <<central, lock, slab, tls, mag, out, job>>

\* frame: the frame that is being pushed, or the one a refill hands out;
\* stash: the frame FrameCache::recycle keeps until its magazine has room;
\* k, n: iterations left of the loop of the cache and of the loop of the pool;
\* back: where the call goes on when the pool is done.
Idle == [at |-> "idle", back |-> "idle", frame |-> NoFrame, stash |-> NoFrame,
         k |-> 0, n |-> 0]

\* build: every frame is pushed on the central stack.
Init ==
  /\ central = [i \in 1 .. NumFrames |-> i - 1]
  /\ lock = NoThread
  /\ slab = [c \in Cpus |-> <<>>]
  /\ tls = [t \in Threads |-> "null"]
  /\ mag = [t \in Threads |-> <<>>]
  /\ out = [f \in Frames |-> 0]
  /\ job = [t \in Threads |-> Idle]

-----------------------------------------------------------------------------
At(t, place) == job[t].at = place
Goto(t, j)   == job' = [job EXCEPT ![t] = j]

Held       == {f \in Frames : out[f] > 0}
HandOut(S) == [f \in Frames |-> out[f] + (IF f \in S THEN 1 ELSE 0)]

\* Mutants: one frame too many; a pop that leaves the frame on the stack.
HasRoomOver(c) == Len(slab[c]) <= CapPerCpu
Peeked(c)      == slab

HasRoom(c)   == Len(slab[c]) < CapPerCpu
Popped(c)    == [slab EXCEPT ![c] = Front(@)]
Pushed(c, f) == [slab EXCEPT ![c] = Append(@, f)]

-----------------------------------------------------------------------------
(* tls of frame_pool! *)

\* What with() runs a call on: the cache of the thread, made by the first call,
\* or one for this call when calloc fails.
With(t) ==
  IF tls[t] # "null" THEN {tls[t]}
  ELSE {"live"} \cup {x \in {"temp"} : CallocFails}

\* A call may be made: on_exit has not run, or a later destructor makes it.  The
\* freed cache then goes on as if it were intact and still the thread's, while
\* libc may give the block to another thread's calloc: that is enough to show
\* that such calls happen, and nothing is claimed or proved with LateCalls.
MayCall(t) == tls[t] # "freed" \/ LateCalls

\* The end of a call on cache x, whose magazine then holds left frames: a cache
\* of the call's own is dropped, which flushes it.
Return(x, left) ==
  IF x = "temp" THEN [Idle EXCEPT !.at = "spill", !.back = "spill", !.k = left] ELSE Idle

-----------------------------------------------------------------------------
(* Allocation *)

\* FramePool::alloc, and an iteration of alloc_n: pop_l2 hits.
PoolAlloc(t, c) ==
  /\ At(t, "idle") /\ slab[c] # <<>>
  /\ out' = HandOut({Last(slab[c])})
  /\ slab' = Popped(c)
  /\ UNCHANGED <<central, lock, tls, mag, job>>

\* pop_l2 misses: refill, once it gets the lock.
PoolMiss(t, c) ==
  /\ At(t, "idle") /\ slab[c] = <<>>
  /\ Goto(t, [Idle EXCEPT !.at = "refill"])
  /\ UNCHANGED <<central, lock, slab, tls, mag, out>>

\* FrameCache::alloc
CacheAlloc(t) ==
  /\ At(t, "idle") /\ MayCall(t) /\ mag[t] # <<>>
  /\ out' = HandOut({Last(mag[t])})
  /\ mag' = [mag EXCEPT ![t] = Front(@)]
  /\ UNCHANGED <<central, lock, slab, tls, job>>

CacheMiss(t) ==
  /\ At(t, "idle") /\ MayCall(t) /\ mag[t] = <<>>
  /\ \E x \in With(t) : tls' = [tls EXCEPT ![t] = x]
  /\ Goto(t, [Idle EXCEPT !.at = "pull", !.back = "pull"])
  /\ UNCHANGED <<central, lock, slab, mag, out>>

\* FrameCache::refill: half a magazine, through pop_l2.
Pull(t, c) ==
  /\ At(t, "pull") /\ Len(mag[t]) < Half
  /\ \/ /\ slab[c] # <<>>
        /\ mag' = [mag EXCEPT ![t] = Append(@, Last(slab[c]))]
        /\ slab' = Popped(c)
        /\ UNCHANGED job
     \/ /\ slab[c] = <<>>
        /\ Goto(t, [job[t] EXCEPT !.at = "refill"])
        /\ UNCHANGED <<slab, mag>>
  /\ UNCHANGED <<central, lock, tls, out>>

\* The last frame pulled is handed out; with none the allocation fails.
Pulled(t) ==
  /\ \/ At(t, "pull") /\ Len(mag[t]) = Half
     \/ At(t, "dry")
  /\ out' = HandOut({mag[t][i] : i \in {Len(mag[t])} \ {0}})
  /\ mag' = [mag EXCEPT ![t] = IF @ = <<>> THEN @ ELSE Front(@)]
  /\ Goto(t, Return(tls[t], Len(mag'[t])))
  /\ UNCHANGED <<central, lock, slab, tls>>

\* FramePool::refill returns None when the central stack is empty.
RefillNone(t) ==
  /\ At(t, "refill") /\ lock = NoThread /\ central = <<>>
  /\ Goto(t, IF job[t].back = "pull" THEN [job[t] EXCEPT !.at = "dry"] ELSE Idle)
  /\ UNCHANGED <<central, lock, slab, tls, mag, out>>

RefillLock(t) ==
  /\ At(t, "refill") /\ lock = NoThread /\ central # <<>>
  /\ lock' = t
  /\ central' = Front(central)
  /\ Goto(t, [job[t] EXCEPT !.at = "fill", !.frame = Last(central), !.n = Batch - 1])
  /\ UNCHANGED <<slab, tls, mag, out>>

FillOver(t) == job[t].n = 0 \/ central = <<>>

\* One frame of the batch; a full slab ends the batch and the frame stays
\* central.
Fill(t, c) ==
  /\ At(t, "fill") /\ ~FillOver(t)
  /\ IF HasRoom(c)
     THEN /\ slab' = Pushed(c, Last(central))
          /\ central' = Front(central)
          /\ Goto(t, [job[t] EXCEPT !.n = @ - 1])
     ELSE /\ Goto(t, [job[t] EXCEPT !.n = 0])
          /\ UNCHANGED <<slab, central>>
  /\ UNCHANGED <<lock, tls, mag, out>>

\* The lock is released; the frame goes to the program or to the magazine.
Refilled(t) ==
  /\ At(t, "fill") /\ FillOver(t)
  /\ lock' = NoThread
  /\ LET f == job[t].frame
     IN  IF job[t].back = "pull"
         THEN /\ mag' = [mag EXCEPT ![t] = Append(@, f)]
              /\ Goto(t, [job[t] EXCEPT !.at = "pull", !.frame = NoFrame])
              /\ UNCHANGED out
         ELSE /\ out' = HandOut({f})
              /\ Goto(t, Idle)
              /\ UNCHANGED mag
  /\ UNCHANGED <<central, slab, tls>>

-----------------------------------------------------------------------------
(* Free *)

\* FramePool::recycle, the end of free, and an iteration of free_n: push_l2
\* hits.
PoolFree(t, f, c) ==
  /\ At(t, "idle") /\ HasRoom(c)
  /\ out' = [out EXCEPT ![f] = @ - 1]
  /\ slab' = Pushed(c, f)
  /\ UNCHANGED <<central, lock, tls, mag, job>>

\* push_l2 misses: drain, once it gets the lock.
PoolFull(t, f, c) ==
  /\ At(t, "idle") /\ ~HasRoom(c)
  /\ out' = [out EXCEPT ![f] = @ - 1]
  /\ Goto(t, [Idle EXCEPT !.at = "drain", !.frame = f])
  /\ UNCHANGED <<central, lock, slab, tls, mag>>

\* FrameCache::recycle
CacheFree(t, f) ==
  /\ At(t, "idle") /\ MayCall(t) /\ Len(mag[t]) < MagCap
  /\ out' = [out EXCEPT ![f] = @ - 1]
  /\ mag' = [mag EXCEPT ![t] = Append(@, f)]
  /\ \E x \in With(t) : tls' = [tls EXCEPT ![t] = x] /\ Goto(t, Return(x, Len(mag'[t])))
  /\ UNCHANGED <<central, lock, slab>>

\* A full magazine: drain_then_push.
CacheFull(t, f) ==
  /\ At(t, "idle") /\ MayCall(t) /\ Len(mag[t]) = MagCap
  /\ out' = [out EXCEPT ![f] = @ - 1]
  /\ Goto(t, [Idle EXCEPT !.at = "spill", !.back = "spill", !.stash = f, !.k = Half])
  /\ UNCHANGED <<central, lock, slab, tls, mag>>

\* Thread exit, on_exit: the drop of the FrameCache flushes it.
OnExit(t) ==
  /\ At(t, "idle") /\ tls[t] = "live"
  /\ Goto(t, [Idle EXCEPT !.at = "spill", !.back = "exit", !.k = Len(mag[t])])
  /\ UNCHANGED <<central, lock, slab, tls, mag, out>>

\* One frame of the magazine goes back through push_l2.
Spill(t, c) ==
  /\ At(t, "spill") /\ job[t].k > 0
  /\ mag' = [mag EXCEPT ![t] = Front(@)]
  /\ LET f == Last(mag[t])
         j == [job[t] EXCEPT !.k = @ - 1]
     IN  IF HasRoom(c)
         THEN /\ slab' = Pushed(c, f)
              /\ Goto(t, j)
         ELSE /\ Goto(t, [j EXCEPT !.at = "drain", !.frame = f])
              /\ UNCHANGED slab
  /\ UNCHANGED <<central, lock, tls, out>>

\* The loop is over.  A cache that is being dropped is gone then: the pointer
\* keeps the address that on_exit freed, and was never set for a call's own.
Spilled(t) ==
  /\ At(t, "spill") /\ job[t].k = 0
  /\ mag' = [mag EXCEPT ![t] = IF job[t].stash = NoFrame THEN @ ELSE Append(@, job[t].stash)]
  /\ tls' = [tls EXCEPT ![t] = IF job[t].back = "exit" THEN "freed"
                               ELSE IF @ = "temp" THEN "null" ELSE @]
  /\ Goto(t, Idle)
  /\ UNCHANGED <<central, lock, slab, out>>

\* Another thread takes the place of one that is gone.
Spawn(t) ==
  /\ At(t, "idle") /\ tls[t] = "freed"
  /\ tls' = [tls EXCEPT ![t] = "null"]
  /\ UNCHANGED <<central, lock, slab, mag, out, job>>

\* FramePool::drain
DrainLock(t) ==
  /\ At(t, "drain") /\ lock = NoThread
  /\ lock' = t
  /\ Goto(t, [job[t] EXCEPT !.at = "draining", !.n = DrainN])
  /\ UNCHANGED <<central, slab, tls, mag, out>>

\* Mutant: the loop waits for a full batch.
DrainStays(j) == j

\* An empty slab ends the loop.
DrainBreak(j) == [j EXCEPT !.n = 0]

DrainPop(t, c) ==
  /\ At(t, "draining") /\ job[t].n > 0
  /\ IF slab[c] # <<>>
     THEN /\ central' = Append(central, Last(slab[c]))
          /\ slab' = Popped(c)
          /\ Goto(t, [job[t] EXCEPT !.n = @ - 1])
     ELSE /\ Goto(t, DrainBreak(job[t]))
          /\ UNCHANGED <<central, slab>>
  /\ UNCHANGED <<lock, tls, mag, out>>

\* Where the frame that caused the drain goes when the slab is full again
\* (mutant: nowhere).
DrainDropped(f) == central
DrainStashed(f) == Append(central, f)

Drained(t, c) ==
  /\ At(t, "draining") /\ job[t].n = 0
  /\ LET f == job[t].frame
     IN  IF HasRoom(c)
         THEN slab' = Pushed(c, f) /\ UNCHANGED central
         ELSE central' = DrainStashed(f) /\ UNCHANGED slab
  /\ lock' = NoThread
  /\ Goto(t, IF job[t].back # "idle"
             THEN [job[t] EXCEPT !.at = "spill", !.frame = NoFrame]
             ELSE Idle)
  /\ UNCHANGED <<tls, mag, out>>

-----------------------------------------------------------------------------
Alloc(t) ==
  \/ t \in CacheUsers /\ (CacheAlloc(t) \/ CacheMiss(t))
  \/ \E c \in Cpus : t \in PoolUsers /\ (PoolAlloc(t, c) \/ PoolMiss(t, c))
  \/ RefillNone(t) \/ RefillLock(t) \/ Refilled(t) \/ Pulled(t)
  \/ \E c \in Cpus : Pull(t, c) \/ Fill(t, c)

Free(t) ==
  \/ \E f \in Held : t \in CacheUsers /\ (CacheFree(t, f) \/ CacheFull(t, f))
  \/ t \in CacheUsers /\ (OnExit(t) \/ Spawn(t))
  \/ \E f \in Held, c \in Cpus : t \in PoolUsers /\ (PoolFree(t, f, c) \/ PoolFull(t, f, c))
  \/ Spilled(t) \/ DrainLock(t)
  \/ \E c \in Cpus : Spill(t, c) \/ DrainPop(t, c) \/ Drained(t, c)

Next == \E t \in Threads : Alloc(t) \/ Free(t)

Spec == Init /\ [][Next]_vars

\* A thread that holds the lock keeps running: no step of it waits.
FairSpec == Spec /\ \A t \in Threads : WF_vars(lock = t /\ (Alloc(t) \/ Free(t)))

-----------------------------------------------------------------------------
(* Properties *)

\* The frames the pool and the program know of: in a stack, in a call, or held.  A
\* magazine counts as long as a thread reaches it.
Known ==
  ToSet(central) \cup Held
  \cup (UNION {ToSet(slab[c]) : c \in Cpus})
  \cup (UNION {ToSet(mag[t]) : t \in {u \in Threads : tls[u] \in {"live", "temp"}}})
  \cup {job[t].frame : t \in Threads} \cup {job[t].stash : t \in Threads}

\* The stacks stay within their storage: the central one within n_frames (the
\* debug_assert of CentralGuard::push), a slab within CAP_PER_CPU, a magazine
\* within FRAME_MAG_CAP.
TypeOK ==
  /\ central \in Seq(Frames) /\ Len(central) <= NumFrames
  /\ lock \in Threads \cup {NoThread}
  /\ \A c \in Cpus : slab[c] \in Seq(Frames) /\ Len(slab[c]) <= CapPerCpu
  /\ \A t \in Threads : mag[t] \in Seq(Frames) /\ Len(mag[t]) <= MagCap
  /\ out \in [Frames -> 0 .. 1]

\* No frame falls out of the pool: a free, a flush or a full slab in the middle
\* of a refill strands none, and neither does a failed calloc or a thread exit.
NoLostFrame == Frames \subseteq Known

Source == INSTANCE FrameSource

\* The pool implements the FrameSource the handles are written over.
RefinesFrameSource == Source!Spec

\* Never stall: the central lock is released, whatever the others do to the
\* slab its holder drains or fills.
LockReleased == \A t \in Threads : lock = t ~> lock # t

\* "c is this thread's live, initialized cache" (frame.rs:1290): no call runs on
\* the cache that on_exit has freed.
CacheIsLive ==
  \A t \in Threads : job[t].back \in {"pull", "spill"} => tls[t] # "freed"

\* An allocation of t returns None in this step.
ReturnsNone(t) ==
  /\ job[t].at \in {"refill", "dry"}
  /\ job'[t].at \in {"idle", "spill"}
  /\ out' = out

\* "Returns None only if the whole pool is exhausted" (frame.rs:668): no stack
\* of the pool holds a frame when an allocation fails.
NoneMeansExhausted ==
  [][\A t \in Threads : ReturnsNone(t) =>
        /\ central = <<>>
        /\ \A c \in Cpus : slab[c] = <<>>
        /\ \A u \in Threads : mag[u] = <<>>]_vars
=============================================================================
