------------------------------ MODULE RseqSlab ------------------------------
(***************************************************************************)
(* One class of the per-CPU slab (toccata-core/src/rseq): a stack of free  *)
(* objects per CPU, popped and pushed by restartable sequences (asm.rs)    *)
(* that give up after a few aborts and fall back to a spin lock (slab.rs), *)
(* and seized by the supervisor (supervisor.rs).                           *)
(*                                                                         *)
(* The kernel is part of the model: it runs at most one thread per CPU,    *)
(* takes a thread off its CPU at any instruction, and a thread taken off   *)
(* inside a critical section resumes at the abort handler.  The lock does  *)
(* not know of the sequences, nor they of the lock.                        *)
(*                                                                         *)
(* Central stands for what the callers do on NeedsSlow (module SubHeap).   *)
(***************************************************************************)
EXTENDS Integers

CONSTANTS
  Threads, Objs,
  Cpus,          \* CPUs the kernel schedules on
  SlabCpus,      \* those below SlabLayout::num_cpus, which have a block
  NoCpu, NoObj, NoThread,
  Capacity,      \* Header::capacity
  Loops,         \* the retry counter of the assembly, 5 in the code
  Registered,    \* threads whose rseq registration succeeded
  FallbackShard, \* the block a thread without a CPU id uses
  Storms,        \* an operation may be aborted until it falls back
  Seizing,       \* CPUs that may be seized
  Releasing      \* a stop flag may be cleared again

ASSUME RseqAssumption ==
  /\ Capacity \in Nat \ {0} /\ Loops \in Nat \ {0, 1}
  /\ Registered \subseteq Threads /\ FallbackShard \in [Threads -> SlabCpus]
  /\ SlabCpus \subseteq Cpus
  /\ Storms \in BOOLEAN /\ Seizing \subseteq SlabCpus /\ Releasing \in BOOLEAN
  /\ NoCpu \notin Cpus /\ NoObj \notin Objs /\ NoThread \notin Threads

VARIABLES
  run,       \* CPU each thread runs on, NoCpu while it is preempted
  current,   \* Header::current of each CPU
  slots,     \* the pointer array of each CPU, index 0 first
  lock,      \* holder of each CPU's spin lock
  stopped,   \* CPUs whose stop flag is set
  live,      \* how many holders each object has in the program, up to 2
  central,   \* objects the slow paths hold
  op,        \* the operation each thread is in
  sup        \* the supervisor: the CPU it seizes and where it stands

vars == <<run, current, slots, lock, stopped, live, central, op, sup>>
slab == <<current, slots>>
objects == <<live, central>>

InSection == {"check", "load", "slot", "commit"}   \* labels 2 to 6 of the assembly
Looping   == {"start", "arm"} \cup InSection

Idle == [at |-> "idle", push |-> FALSE, obj |-> NoObj, snap |-> NoCpu, loops |-> 0,
         cpu |-> NoCpu, cur |-> 0]
SupIdle == [at |-> "idle", cpu |-> NoCpu, cur |-> 0]

Init ==
  /\ run = [t \in Threads |-> NoCpu]
  /\ current = [p \in SlabCpus |-> 0]
  /\ slots = [p \in SlabCpus |-> [i \in 0 .. Capacity - 1 |-> NoObj]]
  /\ lock = [p \in SlabCpus |-> NoThread]
  /\ stopped = {}
  /\ live = [o \in Objs |-> 1]
  /\ central = {}
  /\ op = [t \in Threads |-> Idle]
  /\ sup = SupIdle

At(t, place)  == op[t].at = place
Runs(t)       == run[t] # NoCpu
Goto(t, x)    == op' = [op EXCEPT ![t] = x]
\* The program is handed o.
Hand(o) == live' = [live EXCEPT ![o] = IF @ < 2 THEN @ + 1 ELSE 2]
Move(t, place) == Goto(t, [op[t] EXCEPT !.at = place])

-----------------------------------------------------------------------------
(* The kernel *)

\* What happens to a section that is interrupted: the thread resumes at the
\* abort handler, the head of the loop.
AbortMissed(x) == x    \* mutant: the section resumes where it was
Abort(x) == IF x.at \in InSection THEN [x EXCEPT !.at = "start"] ELSE x

Resume(t, p) ==
  /\ ~Runs(t)
  /\ \A u \in Threads : run[u] # p
  /\ run' = [run EXCEPT ![t] = p]
  /\ UNCHANGED <<slab, lock, stopped, objects, op, sup>>

\* Without Storms an operation's last attempt is not interrupted.
Preempt(t) ==
  /\ Runs(t)
  /\ Storms \/ op[t].at \notin Looping \/ op[t].loops > 1
  /\ run' = [run EXCEPT ![t] = NoCpu]
  /\ Goto(t, Abort(op[t]))
  /\ UNCHANGED <<slab, lock, stopped, objects, sup>>

-----------------------------------------------------------------------------
\* cpu_id_start of the thread's area: kept by the kernel, or the sentinel if the
\* registration failed.
CpuIdStart(t) == IF t \in Registered THEN run[t] ELSE NoCpu

\* The CPU, or a block of its own choice for a thread without a CPU id or on a
\* CPU without a block.
HasBlock(t) == CpuIdStart(t) \in SlabCpus
CurrentCpu(t) == IF HasBlock(t) THEN CpuIdStart(t) ELSE FallbackShard[t]

(* Operations: CpuStack::pop, pop_on, push, push_on *)

\* current_fast defers the CPU of a pop; current takes that of a push now.
StartPop(t) ==
  /\ At(t, "idle") /\ Runs(t)
  /\ Goto(t, [Idle EXCEPT !.at = "start", !.loops = Loops])
  /\ UNCHANGED <<run, slab, lock, stopped, objects, sup>>

StartPush(t, o) ==
  /\ At(t, "idle") /\ Runs(t) /\ live[o] > 0
  /\ live' = [live EXCEPT ![o] = @ - 1]
  /\ Goto(t, [Idle EXCEPT !.at = "start", !.loops = Loops, !.push = TRUE, !.obj = o,
                          !.snap = CurrentCpu(t)])
  /\ UNCHANGED <<run, slab, lock, stopped, central, sup>>

\* Mutant: the retries are not counted.
RetryUncounted(x) == x.loops
Retry(x) == x.loops - 1

\* Label 7: the CPU hint is read; a thread without a block, or one that has
\* used up its retries, falls back.
RseqStart(t) ==
  /\ At(t, "start") /\ Runs(t)
  /\ LET left == Retry(op[t])
     IN  IF ~HasBlock(t) \/ left = 0
         THEN Move(t, "fallback")
         ELSE Goto(t, [op[t] EXCEPT !.at = "arm", !.cpu = CpuIdStart(t), !.loops = left])
  /\ UNCHANGED <<run, slab, lock, stopped, objects, sup>>

\* The store that arms the section.
RseqArm(t) ==
  /\ At(t, "arm") /\ Runs(t)
  /\ Move(t, "check")
  /\ UNCHANGED <<run, slab, lock, stopped, objects, sup>>

\* Mutant: the CPU hint is not checked again.
RseqCheckStop(t) ==
  /\ At(t, "check") /\ Runs(t)
  /\ Move(t, IF op[t].cpu \in stopped THEN "fallback" ELSE "load")
  /\ UNCHANGED <<run, slab, lock, stopped, objects, sup>>

\* Label 2: on another CPU than the hint, retry; on a stopped one, fall back.
RseqCheck(t) ==
  /\ At(t, "check") /\ Runs(t)
  /\ Move(t, IF op[t].cpu # run[t] THEN "start"
             ELSE IF op[t].cpu \in stopped THEN "fallback" ELSE "load")
  /\ UNCHANGED <<run, slab, lock, stopped, objects, sup>>

\* An empty (pop) or full (push) stack needs the slow path, which for a push
\* keeps the object and for a pop finds one if there is any.
\* Mutant: a push takes a full stack for one with room.
NoRoomOver(x, n) == IF x.push THEN n > Capacity ELSE n = 0
NoRoom(x, n) == IF x.push THEN n = Capacity ELSE n = 0

NeedsSlow(t) ==
  /\ Goto(t, Idle)
  /\ IF op[t].push
     THEN central' = central \cup {op[t].obj} /\ UNCHANGED live
     ELSE \/ \E o \in central : /\ central' = central \ {o}
                                /\ Hand(o)
          \/ central = {} /\ UNCHANGED objects

RseqLoad(t) ==
  /\ At(t, "load") /\ Runs(t)
  /\ LET n == current[op[t].cpu]
     IN  IF NoRoom(op[t], n)
         THEN NeedsSlow(t)
         ELSE Goto(t, [op[t] EXCEPT !.at = "slot", !.cur = n]) /\ UNCHANGED objects
  /\ UNCHANGED <<run, slab, lock, stopped, sup>>

\* The slot above the top is written, or the top slot is read.
Slot(t, place) ==
  LET x == op[t]
  IN  IF x.push
      THEN slots' = [slots EXCEPT ![x.cpu][x.cur] = x.obj] /\ Move(t, place)
      ELSE /\ Goto(t, [x EXCEPT !.at = place, !.obj = slots[x.cpu][x.cur - 1]])
           /\ UNCHANGED slots

RseqSlot(t) ==
  /\ At(t, "slot") /\ Runs(t)
  /\ Slot(t, "commit")
  /\ UNCHANGED <<run, current, lock, stopped, objects, sup>>

\* The single store of current; the operation is over.
Store(t) ==
  LET x == op[t]
  IN  /\ current' = [current EXCEPT ![x.cpu] = IF x.push THEN x.cur + 1 ELSE x.cur - 1]
      /\ IF x.push THEN UNCHANGED live ELSE Hand(x.obj)
      /\ Goto(t, Idle)

RseqCommit(t) ==
  /\ At(t, "commit") /\ Runs(t)
  /\ Store(t)
  /\ UNCHANGED <<run, slots, lock, stopped, central, sup>>

-----------------------------------------------------------------------------
(* The locked path: pop_locked, push_locked *)

ResolvedCpu(t) == IF op[t].snap # NoCpu THEN op[t].snap ELSE CurrentCpu(t)

\* The stop flag is read before the lock is taken.
LockedCheck(t) ==
  /\ At(t, "fallback") /\ Runs(t)
  /\ LET p == ResolvedCpu(t)
     IN  IF p \in stopped THEN NeedsSlow(t)
         ELSE Goto(t, [op[t] EXCEPT !.at = "lk_wait", !.cpu = p]) /\ UNCHANGED objects
  /\ UNCHANGED <<run, slab, lock, stopped, sup>>

LockFree(p) == lock[p] = NoThread

LockedAcquire(t) ==
  /\ At(t, "lk_wait") /\ Runs(t)
  /\ LockFree(op[t].cpu)
  /\ lock' = [lock EXCEPT ![op[t].cpu] = t]
  /\ Move(t, "lk_load")
  /\ UNCHANGED <<run, slab, stopped, objects, sup>>

Release(t) == lock' = [lock EXCEPT ![op[t].cpu] = NoThread]

LockedLoad(t) ==
  /\ At(t, "lk_load") /\ Runs(t)
  /\ LET n == current[op[t].cpu]
     IN  IF NoRoom(op[t], n)
         THEN NeedsSlow(t) /\ Release(t)
         ELSE /\ Goto(t, [op[t] EXCEPT !.at = "lk_slot", !.cur = n])
              /\ UNCHANGED <<objects, lock>>
  /\ UNCHANGED <<run, slab, stopped, sup>>

LockedSlot(t) ==
  /\ At(t, "lk_slot") /\ Runs(t)
  /\ Slot(t, "lk_store")
  /\ UNCHANGED <<run, current, lock, stopped, objects, sup>>

LockedStore(t) ==
  /\ At(t, "lk_store") /\ Runs(t)
  /\ Store(t)
  /\ Release(t)
  /\ UNCHANGED <<run, slots, stopped, central, sup>>

-----------------------------------------------------------------------------
(* The supervisor: seize_cpu, rebalance_capacity, drop of the SeizeGuard *)

SetStopped(p) ==
  /\ sup.at = "idle"
  /\ stopped' = stopped \cup {p}
  /\ sup' = [SupIdle EXCEPT !.at = "barrier", !.cpu = p]
  /\ UNCHANGED <<run, slab, lock, objects, op>>

\* Mutant: no barrier, a section in progress goes on.
Unfenced(t) == op[t]
\* MEMBARRIER_CMD_PRIVATE_EXPEDITED_RSEQ: a section on the CPU is aborted.
Fenced(t) == IF run[t] = sup.cpu THEN Abort(op[t]) ELSE op[t]

Membarrier ==
  /\ sup.at = "barrier"
  /\ op' = [t \in Threads |-> Fenced(t)]
  /\ sup' = [sup EXCEPT !.at = "seized"]
  /\ UNCHANGED <<run, slab, lock, stopped, objects>>

\* The membarrier fails: the flag is cleared again and nothing is seized.
MembarrierFailed ==
  /\ sup.at = "barrier" /\ Releasing
  /\ stopped' = stopped \ {sup.cpu}
  /\ sup' = SupIdle
  /\ UNCHANGED <<run, slab, lock, objects, op>>

RebalanceLoad ==
  /\ sup.at = "seized" /\ current[sup.cpu] > 0
  /\ sup' = [sup EXCEPT !.at = "pop", !.cur = current[sup.cpu]]
  /\ UNCHANGED <<run, slab, lock, stopped, objects, op>>

RebalancePop ==
  /\ sup.at = "pop"
  /\ current' = [current EXCEPT ![sup.cpu] = sup.cur - 1]
  /\ central' = central \cup {slots[sup.cpu][sup.cur - 1]}
  /\ sup' = [sup EXCEPT !.at = "seized", !.cur = 0]
  /\ UNCHANGED <<run, slots, lock, stopped, live, op>>

DropGuard ==
  /\ sup.at = "seized" /\ Releasing
  /\ stopped' = stopped \ {sup.cpu}
  /\ sup' = SupIdle
  /\ UNCHANGED <<run, slab, lock, objects, op>>

-----------------------------------------------------------------------------
RseqStep(t) == \/ RseqStart(t) \/ RseqArm(t) \/ RseqCheck(t)
               \/ RseqLoad(t) \/ RseqSlot(t) \/ RseqCommit(t)

LockedStep(t) == \/ LockedCheck(t) \/ LockedAcquire(t) \/ LockedLoad(t)
                 \/ LockedSlot(t) \/ LockedStore(t)

Kernel == \E t \in Threads : Preempt(t) \/ \E p \in Cpus : Resume(t, p)

Seize == \/ \E p \in Seizing : SetStopped(p)
         \/ Membarrier \/ MembarrierFailed \/ RebalanceLoad \/ RebalancePop \/ DropGuard

Next == \/ Kernel
        \/ Seize
        \/ \E t \in Threads : \/ StartPop(t)
                              \/ \E o \in Objs : StartPush(t, o)
                              \/ RseqStep(t)
                              \/ LockedStep(t)

Spec == Init /\ [][Next]_vars

\* The scheduler gives every thread time: a thread that is on a CPU again and
\* again executes an instruction again and again.
FairSpec == /\ Spec
            /\ \A t \in Threads : /\ SF_vars(RseqStep(t))
                                  /\ SF_vars(\E p \in Cpus : Resume(t, p))

-----------------------------------------------------------------------------
(* Properties *)

\* Where an object is: with the program, with the slow paths, in a push under
\* way, or in a slot of a stack.
Places(o) ==
  {<<"live", i, 0>> : i \in 1 .. live[o]}
  \cup {<<"central", 0, 0>> : x \in central \cap {o}}
  \cup {<<"push", t, 0>> : t \in {u \in Threads : op[u].push /\ op[u].obj = o}}
  \cup UNION {{<<"slab", p, i>> : i \in {j \in 0 .. current[p] - 1 : slots[p][j] = o}}
                : p \in SlabCpus}

\* No object is popped twice, or popped while a stack still holds it, wherever
\* the kernel preempts, migrates and aborts a sequence that is not in its last
\* attempt (Storms lets it abort that one too, and the lock is then not enough).
NoDoubleHandOut == \A o \in Objs : \A x, y \in Places(o) : x = y

\* No push is overwritten or undone by another operation's commit.
NoLostObject == \A o \in Objs : Places(o) # {}

\* "lock held; single owner of this (cpu,class) stack" (slab.rs:270): a thread
\* that holds the lock of a stack is alone between its load and its store.
SoleOwner ==
  \A t, u \in Threads :
     t # u /\ op[t].at \in {"lk_slot", "lk_store"} /\ op[u].at \in {"slot", "commit"}
       => op[t].cpu # op[u].cpu

\* What the membarrier of seize_cpu gives in every case (supervisor.rs:189-191):
\* from its return until the guard is dropped no restartable sequence is past its
\* check of the stop flag on the seized CPU, however threads migrate, are aborted,
\* fall back to the lock or come from an earlier seizure.
SequencesFenced ==
  sup.at \in {"seized", "pop"} =>
    \A t \in Threads : op[t].at \in {"load", "slot", "commit"} => op[t].cpu # sup.cpu

\* "A null in a live slot is a bug" (slab.rs:281): no race of sequences, locked
\* paths and supervisor for a stack (slab.rs:268, supervisor.rs:191) makes it leave
\* its array, or lets a pop or a rebalance read a slot that no push has written.
StacksFilled ==
  /\ \A p \in SlabCpus : /\ current[p] \in 0 .. Capacity
                         /\ \A i \in 0 .. current[p] - 1 : slots[p][i] \in Objs
  /\ \A t \in Threads : op[t].at \in {"commit", "lk_store"} => op[t].obj \in Objs
  /\ central \subseteq Objs

\* "after it returns no writer is mid-commit on that slab" (supervisor.rs:190):
\* while a CPU is seized nobody is between the load and the store of its stack.
SeizeExclusive ==
  sup.at \in {"seized", "pop"} =>
    \A t \in Threads : op[t].at \in {"slot", "commit", "lk_slot", "lk_store"} => op[t].cpu # sup.cpu

\* However often the kernel aborts it, an operation leaves the retry loop.
RetriesEnd == \A t \in Threads : op[t].at \in Looping ~> op[t].at \notin Looping
=============================================================================
