--------------------------- MODULE RseqSlabProofs ---------------------------
(***************************************************************************)
(* Proofs about RseqSlab, for any number of threads, CPUs and objects and  *)
(* any capacity.  In the two regimes in which all operations on a stack    *)
(* take the same path, every object is in exactly one place (SlabInv).  In *)
(* every regime, those included in which the paths race, a seizure keeps   *)
(* the sequences out of its stack, and a stack holds written slots within  *)
(* its array only (WideInv).                                               *)
(***************************************************************************)
EXTENDS RseqSlab, TLAPS

\* Every thread has registered and every CPU has a block, an operation's last
\* attempt is not interrupted, and no CPU is seized, or the only one for good.
RseqRegime ==
  /\ Registered = Threads /\ SlabCpus = Cpus
  /\ ~Storms /\ ~Releasing
  /\ Seizing = {} \/ \A p, q \in Cpus : p = q

\* No thread has registered, and no CPU is seized.
LockedRegime == Registered = {} /\ Seizing = {}

Section == {"load", "slot", "commit"}
Holding == {"lk_load", "lk_slot", "lk_store"}
Touching == {"slot", "commit", "lk_slot", "lk_store"}
OpPlaces == {"idle", "start", "arm", "check", "fallback", "lk_wait"} \cup Section \cup Holding

Op == [at : OpPlaces, push : BOOLEAN, obj : Objs \cup {NoObj}, snap : SlabCpus \cup {NoCpu},
       loops : Nat, cpu : SlabCpus \cup {NoCpu}, cur : 0 .. Capacity]

Sup == [at : {"idle", "barrier", "seized", "pop"},
        cpu : SlabCpus \cup {NoCpu}, cur : 0 .. Capacity]

Memory ==
  /\ current \in [SlabCpus -> 0 .. Capacity]
  /\ slots \in [SlabCpus -> [0 .. Capacity - 1 -> Objs \cup {NoObj}]]
  /\ lock \in [SlabCpus -> Threads \cup {NoThread}]
  /\ live \in [Objs -> 0 .. 2]
  /\ central \subseteq Objs

Types ==
  /\ Memory
  /\ run \in [Threads -> Cpus \cup {NoCpu}]
  /\ stopped \subseteq SlabCpus
  /\ op \in [Threads -> Op]
  /\ sup \in Sup

\* The kernel runs one thread per CPU.
OnePerCpu == \A t, u \in Threads : t # u /\ run[t] # NoCpu => run[t] # run[u]

\* What a thread knows of the stack it works on.
Knows(t) ==
  /\ op[t].at = "idle" => ~op[t].push
  /\ op[t].push => op[t].obj \in Objs /\ op[t].snap \in SlabCpus
  /\ op[t].at \notin {"idle", "start", "fallback"} => op[t].cpu \in SlabCpus
  /\ op[t].at \in Section => run[t] = op[t].cpu
  /\ op[t].at \in Holding => lock[op[t].cpu] = t
  /\ op[t].at \in Touching =>
       /\ op[t].cur = current[op[t].cpu]
       /\ IF op[t].push THEN op[t].cur < Capacity ELSE op[t].cur > 0
  /\ op[t].at \in {"commit", "lk_store"} =>
       op[t].obj = slots[op[t].cpu][IF op[t].push THEN op[t].cur ELSE op[t].cur - 1]

\* With rseq only, the lock is never taken, a retry is left whenever a section
\* may be interrupted, and nobody works on a stack that is seized.
RseqThread(t) ==
  /\ op[t].at \notin {"lk_wait"} \cup Holding
  /\ op[t].at = "fallback" => Cpus \subseteq stopped
  /\ op[t].at \in Looping => op[t].loops > 0
  /\ op[t].at = "start" => op[t].loops > 1 \/ Cpus \subseteq stopped
  /\ op[t].at \in {"arm", "check"} => op[t].loops > 1 \/ run[t] = op[t].cpu
  /\ sup.at \in {"seized", "pop"} /\ op[t].at \in Section => op[t].cpu # sup.cpu

Seized ==
  /\ Seizing = {} => stopped = {}
  /\ sup.at # "idle" => Seizing # {} /\ sup.cpu \in stopped
  /\ sup.at = "pop" => sup.cur = current[sup.cpu] /\ sup.cur > 0

RseqPart == Seized /\ \A t \in Threads : RseqThread(t)

\* Without rseq, every operation goes through the lock.
LockedThread(t) == op[t].at \notin {"arm", "check"} \cup Section

LockedPart == sup.at = "idle" /\ \A t \in Threads : LockedThread(t)

Pushing(t, o)    == op[t].push /\ op[t].obj = o
InSlot(p, i, o) == i < current[p] /\ slots[p][i] = o

\* The slots of a stack hold objects.
Filled == \A p \in SlabCpus : \A i \in 0 .. Capacity - 1 : i < current[p] => slots[p][i] \in Objs

Once(o) ==
  /\ live[o] <= 1
  /\ live[o] = 1 => o \notin central
  /\ live[o] = 1 \/ o \in central =>
       /\ \A t \in Threads : ~Pushing(t, o)
       /\ \A p \in SlabCpus : \A i \in 0 .. Capacity - 1 : ~InSlot(p, i, o)
  /\ \A t \in Threads : Pushing(t, o) =>
       /\ \A u \in Threads : Pushing(u, o) => u = t
       /\ \A p \in SlabCpus : \A i \in 0 .. Capacity - 1 : ~InSlot(p, i, o)
  /\ \A p, q \in SlabCpus : \A i, j \in 0 .. Capacity - 1 :
       InSlot(p, i, o) /\ InSlot(q, j, o) => p = q /\ i = j

Somewhere(o) ==
  \/ live[o] = 1
  \/ o \in central
  \/ \E t \in Threads : Pushing(t, o)
  \/ \E p \in SlabCpus : \E i \in 0 .. Capacity - 1 : InSlot(p, i, o)

\* Every object is in exactly one place.
DataInv ==
  /\ Filled
  /\ \A o \in Objs : Once(o)
  /\ \A o \in Objs : Somewhere(o)

SlabInv ==
  /\ Types
  /\ OnePerCpu
  /\ \A t \in Threads : Knows(t)
  /\ RseqRegime => RseqPart
  /\ LockedRegime => LockedPart
  /\ DataInv

-----------------------------------------------------------------------------
(* Lemmas *)

\* Two threads between load and store work on different stacks.
LEMMA Alone ==
  ASSUME SlabInv, RseqRegime \/ LockedRegime,
         NEW t \in Threads, NEW u \in Threads, t # u,
         op[t].at \in Touching, op[u].at \in Touching
  PROVE  op[t].cpu # op[u].cpu
<1>1. op[t] \in Op /\ op[u] \in Op /\ Knows(t) /\ Knows(u)
  BY DEF SlabInv, Types
<1>2. op[t].cpu \in SlabCpus /\ op[u].cpu \in SlabCpus
  BY <1>1 DEF Knows, Touching
<1>3. CASE RseqRegime
  <2>1. RseqThread(t) /\ RseqThread(u)
    BY <1>3 DEF SlabInv, RseqPart
  <2>2. op[t].at \in Section /\ op[u].at \in Section
    BY <2>1 DEF RseqThread, Touching, Holding, Section
  <2>3. run[t] = op[t].cpu /\ run[u] = op[u].cpu
    BY <1>1, <2>2 DEF Knows
  <2>4. run[t] # NoCpu
    BY <2>3, <1>2, RseqAssumption
  <2> QED BY <2>3, <2>4 DEF SlabInv, OnePerCpu
<1>4. CASE LockedRegime
  <2>1. LockedThread(t) /\ LockedThread(u)
    BY <1>4 DEF SlabInv, LockedPart
  <2>2. op[t].at \in Holding /\ op[u].at \in Holding
    BY <2>1 DEF LockedThread, Touching, Holding, Section
  <2> QED BY <1>1, <2>2 DEF Knows
<1> QED BY <1>3, <1>4

\* Nobody is between load and store of a seized stack.
LEMMA SeizedAlone ==
  ASSUME SlabInv, RseqRegime, sup.at \in {"seized", "pop"},
         NEW t \in Threads, op[t].at \in Touching
  PROVE  op[t].cpu # sup.cpu
<1>1. RseqThread(t)
  BY DEF SlabInv, RseqPart
<1> QED BY <1>1 DEF RseqThread, Touching, Holding, Section

\* What t knows stays true while nobody else touches its stack or its lock.
LEMMA KnowsSame ==
  ASSUME NEW t \in Threads, Knows(t), op'[t] = op[t],
         op[t].at \in Section => run'[t] = run[t],
         op[t].at \in Holding => lock'[op[t].cpu] = lock[op[t].cpu],
         op[t].at \in Touching => /\ current'[op[t].cpu] = current[op[t].cpu]
                                  /\ slots'[op[t].cpu] = slots[op[t].cpu]
  PROVE  Knows(t)'
<1>1. op[t].at \in {"commit", "lk_store"} => op[t].at \in Touching
  BY DEF Touching
<1> QED BY <1>1 DEF Knows

\* A step of t that changes its CPU and its operation, and memory only where it
\* may.
LEMMA AnyStep ==
  ASSUME SlabInv, RseqRegime \/ LockedRegime,
         NEW t \in Threads, NEW x \in Op, op' = [op EXCEPT ![t] = x],
         run' \in [Threads -> Cpus \cup {NoCpu}], OnePerCpu',
         \A u \in Threads : u # t => run'[u] = run[u],
         UNCHANGED <<stopped, sup>>, Memory',
         \A p \in SlabCpus : lock'[p] = lock[p] \/ lock[p] \in {NoThread, t},
         \A p \in SlabCpus : \/ current'[p] = current[p] /\ slots'[p] = slots[p]
                             \/ p = op[t].cpu /\ op[t].at \in Touching,
         Knows(t)', RseqRegime => RseqThread(t)', LockedRegime => LockedThread(t)',
         DataInv'
  PROVE  SlabInv'
<1>1. Types'
  BY DEF SlabInv, Types
<1>3. ASSUME NEW u \in Threads PROVE Knows(u)'
  <2>1. CASE u = t
    BY <2>1
  <2>2. CASE u # t
    <3>1. op'[u] = op[u] /\ Knows(u) /\ op[u] \in Op
      BY <2>2 DEF SlabInv, Types
    <3>2. op[u].at \in Holding \cup Touching => op[u].cpu \in SlabCpus
      BY <3>1 DEF Knows, Holding, Touching
    <3>3. op[u].at \in Holding => lock'[op[u].cpu] = lock[op[u].cpu]
      <4>1. op[u].at \in Holding => lock[op[u].cpu] = u
        BY <3>1 DEF Knows
      <4> QED BY <4>1, <3>2, <2>2, RseqAssumption
    <3>4. op[u].at \in Touching => /\ current'[op[u].cpu] = current[op[u].cpu]
                                   /\ slots'[op[u].cpu] = slots[op[u].cpu]
      BY <3>2, <2>2, Alone
    <3> QED BY <2>2, <3>1, <3>3, <3>4, KnowsSame
  <2> QED BY <2>1, <2>2
<1>4. ASSUME RseqRegime PROVE RseqPart'
  <2>1. RseqPart
    BY <1>4 DEF SlabInv
  <2>2. Seized'
    <3>1. ASSUME sup.at = "pop" PROVE current'[sup.cpu] = current[sup.cpu]
      <4>1. sup.cpu \in SlabCpus
        BY <3>1, <2>1 DEF RseqPart, Seized, SlabInv, Types
      <4> QED BY <3>1, <4>1, <1>4, SeizedAlone
    <3> QED BY <2>1, <3>1 DEF RseqPart, Seized
  <2>3. ASSUME NEW u \in Threads PROVE RseqThread(u)'
    <3>1. CASE u = t
      BY <3>1, <1>4
    <3>2. CASE u # t
      <4>1. op'[u] = op[u] /\ RseqThread(u)
        BY <3>2, <2>1 DEF RseqPart, SlabInv, Types
      <4> QED BY <3>2, <4>1 DEF RseqThread
    <3> QED BY <3>1, <3>2
  <2> QED BY <2>2, <2>3 DEF RseqPart
<1>5. ASSUME LockedRegime PROVE LockedPart'
  <2>1. LockedPart
    BY <1>5 DEF SlabInv
  <2>2. ASSUME NEW u \in Threads PROVE LockedThread(u)'
    <3>1. CASE u = t
      BY <3>1, <1>5
    <3>2. CASE u # t
      <4>1. op'[u] = op[u] /\ LockedThread(u)
        BY <3>2, <2>1 DEF LockedPart, SlabInv, Types
      <4> QED BY <4>1 DEF LockedThread
    <3> QED BY <3>1, <3>2
  <2> QED BY <2>1, <2>2 DEF LockedPart
<1> QED BY <1>1, <1>3, <1>4, <1>5 DEF SlabInv

\* The same on the CPU it runs on.
LEMMA ThreadStep ==
  ASSUME SlabInv, RseqRegime \/ LockedRegime,
         NEW t \in Threads, NEW x \in Op, op' = [op EXCEPT ![t] = x],
         UNCHANGED <<run, stopped, sup>>, Memory',
         \A p \in SlabCpus : lock'[p] = lock[p] \/ lock[p] \in {NoThread, t},
         \A p \in SlabCpus : \/ current'[p] = current[p] /\ slots'[p] = slots[p]
                             \/ p = op[t].cpu /\ op[t].at \in Touching,
         Knows(t)', RseqRegime => RseqThread(t)', LockedRegime => LockedThread(t)',
         DataInv'
  PROVE  SlabInv'
<1>1. run' \in [Threads -> Cpus \cup {NoCpu}] /\ OnePerCpu'
  BY DEF SlabInv, Types, OnePerCpu
<1> QED BY <1>1, AnyStep

\* Objects stay where they are while memory and the pushes under way do.
LEMMA DataSame ==
  ASSUME DataInv, UNCHANGED <<current, slots, live, central>>,
         \A u \in Threads : /\ op'[u].push = op[u].push
                            /\ op[u].push => op'[u].obj = op[u].obj
  PROVE  DataInv'
<1>1. \A u \in Threads, o \in Objs : Pushing(u, o)' <=> Pushing(u, o)
  BY DEF Pushing
<1>2. \A p \in SlabCpus, i \in 0 .. Capacity - 1, o \in Objs :
        InSlot(p, i, o)' <=> InSlot(p, i, o)
  BY DEF InSlot
<1>3. Filled'
  BY DEF DataInv, Filled
<1>4. ASSUME NEW o \in Objs PROVE Once(o)' /\ Somewhere(o)'
  <2>1. Once(o) /\ Somewhere(o)
    BY DEF DataInv
  <2>2. Once(o)'
    BY <2>1, <1>1, <1>2 DEF Once
  <2>3. Somewhere(o)'
    BY <2>1, <1>1, <1>2 DEF Somewhere
  <2> QED BY <2>2, <2>3
<1> QED BY <1>3, <1>4 DEF DataInv

\* StartPush: the program gives an object up.
LEMMA DataPush ==
  ASSUME Types, DataInv, NEW t \in Threads, NEW o \in Objs, NEW x \in Op,
         live[o] > 0, live' = [live EXCEPT ![o] = @ - 1], UNCHANGED <<current, slots, central>>,
         op' = [op EXCEPT ![t] = x], ~op[t].push, x.push, x.obj = o
  PROVE  DataInv'
<1>p. \A u \in Threads, k \in Objs : Pushing(u, k)' <=> Pushing(u, k) \/ (u = t /\ k = o)
  BY DEF Pushing, Types, Op
<1>s. \A q \in SlabCpus, i \in 0 .. Capacity - 1, k \in Objs :
        InSlot(q, i, k)' <=> InSlot(q, i, k)
  BY DEF InSlot
<1>f. Filled'
  BY DEF DataInv, Filled
<1>o. ASSUME NEW k \in Objs PROVE Once(k)' /\ Somewhere(k)'
  <2>1. Once(k) /\ Somewhere(k) /\ live[k] \in 0 .. 2
    BY DEF DataInv, Types, Memory
  <2>m. live'[k] = IF k = o THEN live[k] - 1 ELSE live[k]
    BY DEF Types, Memory
  <2>2. CASE k = o
    <3>1. /\ live[k] = 1 /\ k \notin central
          /\ \A u \in Threads : ~Pushing(u, k)
          /\ \A q \in SlabCpus : \A i \in 0 .. Capacity - 1 : ~InSlot(q, i, k)
      BY <2>1, <2>2 DEF Once, Pushing, InSlot
    <3>2. Once(k)'
      BY <2>2, <2>m, <3>1, <1>p, <1>s DEF Once
    <3>3. Somewhere(k)'
      BY <2>2, <2>m, <3>1, <1>p, <1>s DEF Somewhere
    <3> QED BY <3>2, <3>3
  <2>3. CASE k # o
    <3>1. Once(k)'
      BY <2>1, <2>3, <2>m, <1>p, <1>s DEF Once
    <3>2. Somewhere(k)'
      BY <2>1, <2>3, <2>m, <1>p, <1>s DEF Somewhere
    <3> QED BY <3>1, <3>2
  <2> QED BY <2>2, <2>3
<1> QED BY <1>f, <1>o DEF DataInv

\* NeedsSlow of a push: the slow path keeps the object.
LEMMA DataSlowPush ==
  ASSUME Types, DataInv, NEW t \in Threads,
         NEW x \in Op, op[t].push, op[t].obj \in Objs, ~x.push,
         op' = [op EXCEPT ![t] = x], UNCHANGED <<current, slots, live>>,
         central' = central \cup {op[t].obj}
  PROVE  DataInv'
<1>p. \A u \in Threads, k \in Objs : Pushing(u, k)' <=> u # t /\ Pushing(u, k)
  BY DEF Pushing, Types, Op
<1>s. \A q \in SlabCpus, i \in 0 .. Capacity - 1, k \in Objs :
        InSlot(q, i, k)' <=> InSlot(q, i, k)
  BY DEF InSlot
<1>f. Filled'
  BY DEF DataInv, Filled
<1>o. ASSUME NEW k \in Objs PROVE Once(k)' /\ Somewhere(k)'
  <2>1. Once(k) /\ Somewhere(k) /\ live[k] \in 0 .. 2
    BY DEF DataInv, Types, Memory
  <2>m. live'[k] = live[k]
    BY DEF Types, Memory
  <2>2. CASE k = op[t].obj
    <3>1. /\ live[k] = 0
          /\ \A u \in Threads : u # t => ~Pushing(u, k)
          /\ \A q \in SlabCpus : \A i \in 0 .. Capacity - 1 : ~InSlot(q, i, k)
      BY <2>1, <2>2 DEF Once, Pushing, InSlot
    <3>2. Once(k)'
      BY <2>2, <2>m, <3>1, <1>p, <1>s DEF Once
    <3>3. Somewhere(k)'
      BY <2>2, <2>m, <3>1, <1>p, <1>s DEF Somewhere
    <3> QED BY <3>2, <3>3
  <2>3. CASE k # op[t].obj
    <3>1. Once(k)'
      BY <2>1, <2>3, <2>m, <1>p, <1>s DEF Once
    <3>2. Somewhere(k)'
      <4>1. ~Pushing(t, k)
        BY <2>3 DEF Pushing, InSlot
      <4> QED BY <4>1, <2>1, <2>3, <2>m, <1>p, <1>s DEF Somewhere
    <3> QED BY <3>1, <3>2
  <2> QED BY <2>2, <2>3
<1> QED BY <1>f, <1>o DEF DataInv

\* NeedsSlow of a pop: the slow path hands an object out.
LEMMA DataSlowPop ==
  ASSUME Types, DataInv, NEW t \in Threads, NEW o \in central,
         NEW x \in Op, ~op[t].push, ~x.push,
         op' = [op EXCEPT ![t] = x], UNCHANGED <<current, slots>>,
         central' = central \ {o}, Hand(o)
  PROVE  DataInv'
<1>p. \A u \in Threads, k \in Objs : Pushing(u, k)' <=> Pushing(u, k)
  BY DEF Pushing, Types, Op
<1>s. \A q \in SlabCpus, i \in 0 .. Capacity - 1, k \in Objs :
        InSlot(q, i, k)' <=> InSlot(q, i, k)
  BY DEF InSlot
<1>f. Filled'
  BY DEF DataInv, Filled
<1>o. ASSUME NEW k \in Objs PROVE Once(k)' /\ Somewhere(k)'
  <2>1. Once(k) /\ Somewhere(k) /\ live[k] \in 0 .. 2
    BY DEF DataInv, Types, Memory
  <2>m. live'[k] = IF k = o THEN (IF live[k] < 2 THEN live[k] + 1 ELSE 2) ELSE live[k]
    BY DEF Types, Memory, Hand
  <2>2. CASE k = o
    <3>1. /\ live[k] = 0
          /\ \A u \in Threads : ~Pushing(u, k)
          /\ \A q \in SlabCpus : \A i \in 0 .. Capacity - 1 : ~InSlot(q, i, k)
      BY <2>1, <2>2 DEF Once, Pushing, InSlot
    <3>2. Once(k)'
      BY <2>2, <2>m, <3>1, <1>p, <1>s DEF Once
    <3>3. Somewhere(k)'
      BY <2>2, <2>m, <3>1, <1>p, <1>s DEF Somewhere
    <3> QED BY <3>2, <3>3
  <2>3. CASE k # o
    <3>1. Once(k)'
      BY <2>1, <2>3, <2>m, <1>p, <1>s DEF Once
    <3>2. Somewhere(k)'
      BY <2>1, <2>3, <2>m, <1>p, <1>s DEF Somewhere
    <3> QED BY <3>1, <3>2
  <2> QED BY <2>2, <2>3
<1> QED BY <1>f, <1>o DEF DataInv

\* Store of a push: the object is in the stack.
LEMMA DataStorePush ==
  ASSUME Types, DataInv, NEW t \in Threads, NEW p \in SlabCpus, NEW n \in 0 .. Capacity - 1,
         NEW x \in Op,
         op[t].push, op[t].obj \in Objs, ~x.push, op' = [op EXCEPT ![t] = x],
         current[p] = n, slots[p][n] = op[t].obj, UNCHANGED <<slots, live, central>>,
         current' = [current EXCEPT ![p] = n + 1]
  PROVE  DataInv'
<1>p. \A u \in Threads, k \in Objs : Pushing(u, k)' <=> u # t /\ Pushing(u, k)
  BY DEF Pushing, Types, Op
<1>s. \A q \in SlabCpus, i \in 0 .. Capacity - 1, k \in Objs :
        InSlot(q, i, k)' <=> InSlot(q, i, k) \/ (q = p /\ i = n /\ k = op[t].obj)
  BY RseqAssumption DEF InSlot, Types, Memory
<1>f. Filled'
  BY RseqAssumption DEF DataInv, Filled, Types, Memory
<1>o. ASSUME NEW k \in Objs PROVE Once(k)' /\ Somewhere(k)'
  <2>1. Once(k) /\ Somewhere(k) /\ live[k] \in 0 .. 2
    BY DEF DataInv, Types, Memory
  <2>m. live'[k] = live[k]
    BY DEF Types, Memory
  <2>2. CASE k = op[t].obj
    <3>1. /\ live[k] = 0 /\ k \notin central
          /\ \A u \in Threads : u # t => ~Pushing(u, k)
          /\ \A q \in SlabCpus : \A i \in 0 .. Capacity - 1 : ~InSlot(q, i, k)
      BY <2>1, <2>2 DEF Once, Pushing, InSlot
    <3>2. Once(k)'
      BY <2>2, <2>m, <3>1, <1>p, <1>s DEF Once
    <3>3. Somewhere(k)'
      BY <2>2, <2>m, <3>1, <1>p, <1>s DEF Somewhere
    <3> QED BY <3>2, <3>3
  <2>3. CASE k # op[t].obj
    <3>1. Once(k)'
      BY <2>1, <2>3, <2>m, <1>p, <1>s DEF Once
    <3>2. Somewhere(k)'
      <4>1. ~Pushing(t, k)
        BY <2>3 DEF Pushing, InSlot
      <4> QED BY <4>1, <2>1, <2>3, <2>m, <1>p, <1>s DEF Somewhere
    <3> QED BY <3>1, <3>2
  <2> QED BY <2>2, <2>3
<1> QED BY <1>f, <1>o DEF DataInv

\* Store of a pop: the object is the program's.
LEMMA DataStorePop ==
  ASSUME Types, DataInv, NEW t \in Threads, NEW p \in SlabCpus, NEW n \in 0 .. Capacity - 1,
         NEW x \in Op,
         ~op[t].push, ~x.push, op' = [op EXCEPT ![t] = x],
         current[p] = n + 1, UNCHANGED <<slots, central>>, Hand(slots[p][n]),
         current' = [current EXCEPT ![p] = n]
  PROVE  DataInv'
<1>p. \A u \in Threads, k \in Objs : Pushing(u, k)' <=> Pushing(u, k)
  BY DEF Pushing, Types, Op
<1>s. \A q \in SlabCpus, i \in 0 .. Capacity - 1, k \in Objs :
        InSlot(q, i, k)' <=> InSlot(q, i, k) /\ ~(q = p /\ i = n)
  BY RseqAssumption DEF InSlot, Types, Memory
<1>f. Filled'
  BY RseqAssumption DEF DataInv, Filled, Types, Memory
<1>o. ASSUME NEW k \in Objs PROVE Once(k)' /\ Somewhere(k)'
  <2>1. Once(k) /\ Somewhere(k) /\ live[k] \in 0 .. 2
    BY DEF DataInv, Types, Memory
  <2>m. live'[k] = IF k = slots[p][n] THEN (IF live[k] < 2 THEN live[k] + 1 ELSE 2) ELSE live[k]
    BY DEF Types, Memory, Hand
  <2>2. CASE k = slots[p][n]
    <3>1. /\ live[k] = 0 /\ k \notin central
          /\ \A u \in Threads : ~Pushing(u, k)
          /\ \A q \in SlabCpus : \A i \in 0 .. Capacity - 1 : InSlot(q, i, k) => q = p /\ i = n
      BY <2>1, <2>2, RseqAssumption DEF Once, Pushing, InSlot
    <3>2. Once(k)'
      BY <2>2, <2>m, <3>1, <1>p, <1>s DEF Once
    <3>3. Somewhere(k)'
      BY <2>2, <2>m, <3>1, <1>p, <1>s DEF Somewhere
    <3> QED BY <3>2, <3>3
  <2>3. CASE k # slots[p][n]
    <3>1. Once(k)'
      BY <2>1, <2>3, <2>m, <1>p, <1>s DEF Once
    <3>2. Somewhere(k)'
      <4>1. ~InSlot(p, n, k)
        BY <2>3 DEF Pushing, InSlot
      <4> QED BY <4>1, <2>1, <2>3, <2>m, <1>p, <1>s DEF Somewhere
    <3> QED BY <3>1, <3>2
  <2> QED BY <2>2, <2>3
<1> QED BY <1>f, <1>o DEF DataInv

\* RebalancePop: the object goes to the slow path.
LEMMA DataRebalance ==
  ASSUME Types, DataInv, NEW p \in SlabCpus, NEW n \in 0 .. Capacity - 1,
         UNCHANGED <<op, slots, live>>, current[p] = n + 1,
         central' = central \cup {slots[p][n]}, current' = [current EXCEPT ![p] = n]
  PROVE  DataInv'
<1>p. \A u \in Threads, k \in Objs : Pushing(u, k)' <=> Pushing(u, k)
  BY DEF Pushing, Types, Op
<1>s. \A q \in SlabCpus, i \in 0 .. Capacity - 1, k \in Objs :
        InSlot(q, i, k)' <=> InSlot(q, i, k) /\ ~(q = p /\ i = n)
  BY RseqAssumption DEF InSlot, Types, Memory
<1>f. Filled'
  BY RseqAssumption DEF DataInv, Filled, Types, Memory
<1>o. ASSUME NEW k \in Objs PROVE Once(k)' /\ Somewhere(k)'
  <2>1. Once(k) /\ Somewhere(k) /\ live[k] \in 0 .. 2
    BY DEF DataInv, Types, Memory
  <2>m. live'[k] = live[k]
    BY DEF Types, Memory
  <2>2. CASE k = slots[p][n]
    <3>1. /\ live[k] = 0
          /\ \A u \in Threads : ~Pushing(u, k)
          /\ \A q \in SlabCpus : \A i \in 0 .. Capacity - 1 : InSlot(q, i, k) => q = p /\ i = n
      BY <2>1, <2>2, RseqAssumption DEF Once, Pushing, InSlot
    <3>2. Once(k)'
      BY <2>2, <2>m, <3>1, <1>p, <1>s DEF Once
    <3>3. Somewhere(k)'
      BY <2>2, <2>m, <3>1, <1>p, <1>s DEF Somewhere
    <3> QED BY <3>2, <3>3
  <2>3. CASE k # slots[p][n]
    <3>1. Once(k)'
      BY <2>1, <2>3, <2>m, <1>p, <1>s DEF Once
    <3>2. Somewhere(k)'
      <4>1. ~InSlot(p, n, k)
        BY <2>3 DEF Pushing, InSlot
      <4> QED BY <4>1, <2>1, <2>3, <2>m, <1>p, <1>s DEF Somewhere
    <3> QED BY <3>1, <3>2
  <2> QED BY <2>2, <2>3
<1> QED BY <1>f, <1>o DEF DataInv

\* Slot of a push: the slot above the top is nobody's.
LEMMA DataSlotPush ==
  ASSUME Types, DataInv, NEW t \in Threads, NEW p \in SlabCpus, NEW n \in 0 .. Capacity - 1,
         NEW x \in Op, x.push = op[t].push, x.obj = op[t].obj, op' = [op EXCEPT ![t] = x],
         current[p] = n, NEW o \in Objs,
         slots' = [slots EXCEPT ![p][n] = o], UNCHANGED <<current, live, central>>
  PROVE  DataInv'
<1>1. \A u \in Threads, k \in Objs : Pushing(u, k)' <=> Pushing(u, k)
  BY DEF Pushing, Types, Op
<1>2. \A q \in SlabCpus, i \in 0 .. Capacity - 1, k \in Objs :
        InSlot(q, i, k)' <=> InSlot(q, i, k)
  BY RseqAssumption DEF InSlot, Types, Memory
<1>3. Filled'
  BY RseqAssumption DEF DataInv, Filled, Types, Memory
<1>4. ASSUME NEW k \in Objs PROVE Once(k)' /\ Somewhere(k)'
  <2>1. Once(k) /\ Somewhere(k)
    BY DEF DataInv
  <2>2. Once(k)'
    BY <2>1, <1>1, <1>2 DEF Once
  <2>3. Somewhere(k)'
    BY <2>1, <1>1, <1>2 DEF Somewhere
  <2> QED BY <2>2, <2>3
<1> QED BY <1>3, <1>4 DEF DataInv

\* What SlabInv says of one thread.
LEMMA OfThread ==
  ASSUME SlabInv, NEW t \in Threads
  PROVE  /\ op[t] \in Op /\ Knows(t)
         /\ RseqRegime => RseqThread(t)
         /\ LockedRegime => LockedThread(t)
BY DEF SlabInv, Types, RseqPart, LockedPart

\* A step of t that changes nothing but its operation, and not what it pushes.
LEMMA LocalStep ==
  ASSUME SlabInv, RseqRegime \/ LockedRegime,
         NEW t \in Threads, NEW x \in Op, op' = [op EXCEPT ![t] = x],
         UNCHANGED <<run, current, slots, lock, stopped, live, central, sup>>,
         x.push = op[t].push, x.push => x.obj = op[t].obj,
         Knows(t)', RseqRegime => RseqThread(t)', LockedRegime => LockedThread(t)'
  PROVE  SlabInv'
<1>1. Memory'
  BY DEF SlabInv, Types, Memory
<1>2. \A u \in Threads : /\ op'[u].push = op[u].push
                         /\ op[u].push => op'[u].obj = op[u].obj
  BY DEF SlabInv, Types
<1>3. DataInv'
  BY <1>2, DataSame DEF SlabInv
<1> QED BY <1>1, <1>3, ThreadStep

\* An operation that is over.
LEMMA IdleOp ==
  ASSUME NEW t \in Threads, op'[t] = Idle
  PROVE  /\ Idle \in Op /\ ~Idle.push
         /\ Knows(t)' /\ RseqThread(t)' /\ LockedThread(t)'
<1>1. Idle \in Op /\ ~Idle.push /\ Idle.at = "idle"
  BY RseqAssumption DEF Idle, Op, OpPlaces
<1>2. Knows(t)'
  BY <1>1 DEF Knows, Section, Holding, Touching
<1>3. RseqThread(t)'
  BY <1>1 DEF RseqThread, Looping, InSection, Section, Holding
<1>4. LockedThread(t)'
  BY <1>1 DEF LockedThread, Section
<1> QED BY <1>1, <1>2, <1>3, <1>4

\* The slow path of t's operation, with the lock released or never held.
LEMMA SlowStep ==
  ASSUME SlabInv, RseqRegime \/ LockedRegime, NEW t \in Threads, NeedsSlow(t),
         UNCHANGED <<run, current, slots, stopped, sup>>,
         lock' \in [SlabCpus -> Threads \cup {NoThread}],
         \A p \in SlabCpus : lock'[p] = lock[p] \/ lock[p] \in {NoThread, t}
  PROVE  SlabInv'
<1>1. op[t] \in Op /\ Knows(t) /\ Types /\ DataInv
  BY OfThread DEF SlabInv
<1>2. op' = [op EXCEPT ![t] = Idle] /\ op'[t] = Idle
  BY <1>1 DEF NeedsSlow, Goto, Types
<1>3. /\ Idle \in Op /\ ~Idle.push
      /\ Knows(t)' /\ RseqThread(t)' /\ LockedThread(t)'
  BY <1>2, IdleOp
<1>4. Memory' /\ DataInv'
  <2>1. CASE op[t].push
    <3>1. central' = central \cup {op[t].obj} /\ UNCHANGED live /\ op[t].obj \in Objs
      BY <2>1, <1>1 DEF NeedsSlow, Knows
    <3>2. DataInv'
      BY <3>1, <2>1, <1>1, <1>2, <1>3, DataSlowPush
    <3> QED BY <3>1, <3>2, <1>1 DEF Types, Memory
  <2>2. CASE ~op[t].push /\ central = {} /\ UNCHANGED objects
    <3>1. \A u \in Threads : /\ op'[u].push = op[u].push
                             /\ op[u].push => op'[u].obj = op[u].obj
      BY <1>1, <1>2, <1>3, <2>2 DEF Types, Op
    <3>2. DataInv'
      BY <3>1, <2>2, <1>1, DataSame DEF objects
    <3> QED BY <3>2, <2>2, <1>1 DEF Types, Memory, objects
  <2>3. CASE ~op[t].push /\ \E o \in central : central' = central \ {o} /\ Hand(o)
    <3>1. PICK o \in central : central' = central \ {o} /\ Hand(o)
      BY <2>3
    <3>2. DataInv'
      BY <3>1, <2>3, <1>1, <1>2, <1>3, DataSlowPop
    <3>3. live' \in [Objs -> 0 .. 2]
      <4>1. live[o] \in 0 .. 2 /\ live \in [Objs -> 0 .. 2]
        BY <1>1 DEF Types, Memory
      <4>2. (IF live[o] < 2 THEN live[o] + 1 ELSE 2) \in 0 .. 2
        BY <4>1
      <4> QED BY <3>1, <4>1, <4>2 DEF Hand
    <3> QED BY <3>1, <3>2, <3>3, <1>1 DEF Types, Memory
  <2> QED BY <2>1, <2>2, <2>3 DEF NeedsSlow
<1> QED BY <1>2, <1>3, <1>4, ThreadStep

-----------------------------------------------------------------------------
(* Operations *)

\* StartPop preserves the invariant.
LEMMA StartPopStep ==
  ASSUME SlabInv, RseqRegime \/ LockedRegime, NEW t \in Threads, StartPop(t)
  PROVE  SlabInv'
<1>1. op[t] \in Op /\ Knows(t) /\ op[t].at = "idle" /\ ~op[t].push
  BY OfThread DEF StartPop, At, Knows
<1>2. PICK x \in Op : /\ x = [Idle EXCEPT !.at = "start", !.loops = Loops]
                      /\ ~x.push /\ x.at = "start" /\ x.loops = Loops
  <2> DEFINE v == [Idle EXCEPT !.at = "start", !.loops = Loops]
  <2>1. Idle \in Op /\ Loops \in Nat /\ {"start"} \subseteq OpPlaces
    BY RseqAssumption DEF Idle, Op, OpPlaces
  <2>v. v \in Op  /\ ~v.push /\ v.at = "start" /\ v.loops = Loops
    BY <2>1 DEF Op, Idle
  <2> QED BY <2>v
<1>3. op' = [op EXCEPT ![t] = x] /\ op'[t] = x
  BY <1>2 DEF StartPop, Goto, SlabInv, Types
<1>4. Knows(t)'
  BY <1>2, <1>3 DEF Knows, Section, Holding, Touching
<1>5. RseqThread(t)' /\ LockedThread(t)'
  <2>1. Loops > 1 /\ Loops > 0
    BY RseqAssumption
  <2>2. RseqThread(t)'
    BY <1>2, <1>3, <2>1 DEF RseqThread, Holding, Section
  <2>3. LockedThread(t)'
    BY <1>2, <1>3 DEF LockedThread, Section
  <2> QED BY <2>2, <2>3
<1>6. x.push = op[t].push
  BY <1>1, <1>2 DEF Op
<1> QED BY <1>2, <1>3, <1>4, <1>5, <1>6, LocalStep DEF StartPop, slab, objects

\* StartPush preserves the invariant.
LEMMA StartPushStep ==
  ASSUME SlabInv, RseqRegime \/ LockedRegime, NEW t \in Threads, NEW o \in Objs, StartPush(t, o)
  PROVE  SlabInv'
<1>1. op[t] \in Op /\ Knows(t) /\ op[t].at = "idle" /\ ~op[t].push /\ Types /\ DataInv
  BY OfThread DEF StartPush, At, Knows, SlabInv
<1>2. CurrentCpu(t) \in SlabCpus
  BY RseqAssumption DEF CurrentCpu, HasBlock
<1>3. PICK x \in Op :
                      /\ x = [Idle EXCEPT !.at = "start", !.loops = Loops, !.push = TRUE, !.obj = o, !.snap = CurrentCpu(t)]
                      /\ x.push /\ x.obj = o /\ x.snap \in SlabCpus
                      /\ x.at = "start" /\ x.loops = Loops
  <2> DEFINE v == [Idle EXCEPT !.at = "start", !.loops = Loops, !.push = TRUE, !.obj = o, !.snap = CurrentCpu(t)]
  <2>1. Idle \in Op /\ Loops \in Nat /\ {"start"} \subseteq OpPlaces
    BY RseqAssumption DEF Idle, Op, OpPlaces
  <2>v. /\ v \in Op /\ v.push /\ v.obj = o /\ v.snap \in SlabCpus /\ v.at = "start"
        /\ v.loops = Loops
    BY <2>1, <1>2 DEF Op, Idle
  <2> QED BY <2>v
<1>4. op' = [op EXCEPT ![t] = x] /\ op'[t] = x
  BY <1>3, <1>1 DEF StartPush, Goto, Types
<1>5. Knows(t)'
  BY <1>3, <1>4 DEF Knows, Section, Holding, Touching
<1>6. RseqThread(t)' /\ LockedThread(t)'
  <2>1. Loops > 1 /\ Loops > 0
    BY RseqAssumption
  <2>2. RseqThread(t)'
    BY <1>3, <1>4, <2>1 DEF RseqThread, Holding, Section
  <2>3. LockedThread(t)'
    BY <1>3, <1>4 DEF LockedThread, Section
  <2> QED BY <2>2, <2>3
<1>7. Memory'
  BY <1>1 DEF StartPush, Types, Memory, slab
<1>8. DataInv'
  BY <1>1, <1>3, <1>4, DataPush DEF StartPush, slab
<1> QED BY <1>3, <1>4, <1>5, <1>6, <1>7, <1>8, ThreadStep DEF StartPush, slab

\* RseqStart preserves the invariant.
LEMMA RseqStartStep ==
  ASSUME SlabInv, RseqRegime \/ LockedRegime, NEW t \in Threads, RseqStart(t)
  PROVE  SlabInv'
<1>1. op[t] \in Op /\ Knows(t) /\ op[t].at = "start" /\ run[t] \in Cpus
  BY OfThread DEF RseqStart, At, Runs, SlabInv, Types
<1>2. RseqRegime => op[t].loops > 0 /\ HasBlock(t) /\ (op[t].loops > 1 \/ Cpus \subseteq stopped)
  BY <1>1, OfThread DEF RseqThread, Looping, RseqRegime, HasBlock, CpuIdStart
<1>3. LockedRegime => ~HasBlock(t)
  BY <1>1, RseqAssumption DEF LockedRegime, HasBlock, CpuIdStart
<1>4. CASE ~HasBlock(t) \/ op[t].loops - 1 = 0
  <2>1. PICK x \in Op : /\ x = [op[t] EXCEPT !.at = "fallback"]
                        /\ x.at = "fallback" /\ x.push = op[t].push /\ x.obj = op[t].obj
                        /\ x.snap = op[t].snap
    <3> DEFINE v == [op[t] EXCEPT !.at = "fallback"]
    <3>v. /\ v \in Op /\ v.at = "fallback" /\ v.push = op[t].push /\ v.obj = op[t].obj
          /\ v.snap = op[t].snap
      BY <1>1 DEF Op, OpPlaces
    <3> QED BY <3>v
  <2>2. op' = [op EXCEPT ![t] = x] /\ op'[t] = x
    BY <2>1, <1>4 DEF RseqStart, Retry, Move, Goto, SlabInv, Types
  <2>3. Knows(t)'
    BY <2>1, <2>2, <1>1 DEF Knows, Section, Holding, Touching
  <2>4. LockedThread(t)'
    BY <2>1, <2>2 DEF LockedThread, Section
  <2>5. ASSUME RseqRegime PROVE RseqThread(t)'
    <3>1. Cpus \subseteq stopped
      BY <2>5, <1>1, <1>2, <1>4 DEF Op
    <3> QED BY <2>1, <2>2, <3>1 DEF RseqThread, Looping, InSection, Section, Holding, RseqStart
  <2> QED BY <2>1, <2>2, <2>3, <2>4, <2>5, LocalStep DEF RseqStart, slab, objects
<1>5. CASE ~(~HasBlock(t) \/ op[t].loops - 1 = 0)
  <2>1. PICK x \in Op :
                      /\ x = [op[t] EXCEPT !.at = "arm", !.cpu = CpuIdStart(t), !.loops = op[t].loops - 1]
                        /\ x.at = "arm" /\ x.cpu = CpuIdStart(t) /\ x.loops = op[t].loops - 1
                        /\ x.push = op[t].push /\ x.obj = op[t].obj /\ x.snap = op[t].snap
    <3>1. CpuIdStart(t) \in SlabCpus /\ op[t].loops - 1 \in Nat
      <4>1. RseqRegime
        BY <1>3, <1>5
      <4> QED BY <4>1, <1>1, <1>2, <1>5 DEF HasBlock, Op
    <3> DEFINE v == [op[t] EXCEPT !.at = "arm", !.cpu = CpuIdStart(t), !.loops = op[t].loops - 1]
    <3>v. /\ v \in Op /\ v.at = "arm" /\ v.cpu = CpuIdStart(t) /\ v.loops = op[t].loops - 1
          /\ v.push = op[t].push /\ v.obj = op[t].obj /\ v.snap = op[t].snap
      BY <1>1, <3>1 DEF Op, OpPlaces
    <3> QED BY <3>v
  <2>2. op' = [op EXCEPT ![t] = x] /\ op'[t] = x
    BY <2>1, <1>5 DEF RseqStart, Retry, Goto, SlabInv, Types
  <2>3. x.cpu \in SlabCpus /\ RseqRegime /\ x.cpu = run[t]
    BY <2>1, <1>3, <1>5 DEF HasBlock, CpuIdStart, RseqRegime
  <2>4. Knows(t)'
    BY <2>1, <2>2, <2>3, <1>1 DEF Knows, Section, Holding, Touching
  <2>5. RseqThread(t)'
    BY <2>1, <2>2, <2>3, <1>1, <1>2, <1>5 DEF RseqThread, Looping, InSection, Section,
        Holding, RseqStart, Op
  <2>6. LockedRegime => LockedThread(t)'
    BY <1>3, <1>5
  <2> QED BY <2>1, <2>2, <2>4, <2>5, <2>6, LocalStep DEF RseqStart, slab, objects
<1> QED BY <1>4, <1>5

\* RseqArm preserves the invariant.
LEMMA RseqArmStep ==
  ASSUME SlabInv, RseqRegime \/ LockedRegime, NEW t \in Threads, RseqArm(t)
  PROVE  SlabInv'
<1>1. op[t] \in Op /\ Knows(t) /\ op[t].at = "arm" /\ RseqThread(t) /\ ~LockedRegime
  BY OfThread DEF RseqArm, At, LockedThread
<1>2. PICK x \in Op : /\ x = [op[t] EXCEPT !.at = "check"]
                      /\ x.at = "check" /\ x.push = op[t].push /\ x.obj = op[t].obj
                      /\ x.snap = op[t].snap /\ x.cpu = op[t].cpu /\ x.loops = op[t].loops
  <2> DEFINE v == [op[t] EXCEPT !.at = "check"]
  <2>v. /\ v \in Op /\ v.at = "check" /\ v.push = op[t].push /\ v.obj = op[t].obj
        /\ v.snap = op[t].snap /\ v.cpu = op[t].cpu /\ v.loops = op[t].loops
    BY <1>1 DEF Op, OpPlaces
  <2> QED BY <2>v
<1>3. op' = [op EXCEPT ![t] = x] /\ op'[t] = x
  BY <1>2 DEF RseqArm, Move, Goto, SlabInv, Types
<1>4. Knows(t)'
  BY <1>1, <1>2, <1>3 DEF Knows, Section, Holding, Touching
<1>5. RseqThread(t)'
  BY <1>1, <1>2, <1>3 DEF RseqThread, Looping, InSection, Section, Holding, RseqArm
<1> QED BY <1>1, <1>2, <1>3, <1>4, <1>5, LocalStep DEF RseqArm, slab, objects

\* RseqCheck preserves the invariant.
LEMMA RseqCheckStep ==
  ASSUME SlabInv, RseqRegime \/ LockedRegime, NEW t \in Threads, RseqCheck(t)
  PROVE  SlabInv'
<1>1. /\ op[t] \in Op /\ Knows(t) /\ op[t].at = "check" /\ RseqThread(t) /\ ~LockedRegime
      /\ RseqRegime
  BY OfThread DEF RseqCheck, At, LockedThread
<1>2. PICK w \in {"start", "fallback", "load"} :
        /\ w = IF op[t].cpu # run[t] THEN "start"
               ELSE IF op[t].cpu \in stopped THEN "fallback" ELSE "load"
        /\ w = "start" => op[t].cpu # run[t]
        /\ w = "fallback" => op[t].cpu \in stopped
        /\ w = "load" => op[t].cpu = run[t] /\ op[t].cpu \notin stopped
  OBVIOUS
<1>3. PICK x \in Op : /\ x = [op[t] EXCEPT !.at = w]
                      /\ x.at = w /\ x.push = op[t].push /\ x.obj = op[t].obj
                      /\ x.snap = op[t].snap /\ x.cpu = op[t].cpu /\ x.loops = op[t].loops
  <2> DEFINE v == [op[t] EXCEPT !.at = w]
  <2>v. /\ v \in Op /\ v.at = w /\ v.push = op[t].push /\ v.obj = op[t].obj
        /\ v.snap = op[t].snap /\ v.cpu = op[t].cpu /\ v.loops = op[t].loops
    BY <1>1 DEF Op, OpPlaces, Section
  <2> QED BY <2>v
<1>4. op' = [op EXCEPT ![t] = x] /\ op'[t] = x
  BY <1>2, <1>3 DEF RseqCheck, Move, Goto, SlabInv, Types
<1>5. Knows(t)'
  BY <1>1, <1>2, <1>3, <1>4 DEF Knows, Section, Holding, Touching, RseqCheck
<1>6. Seized /\ op[t].cpu \in Cpus /\ stopped \subseteq Cpus
  BY <1>1 DEF SlabInv, RseqPart, Knows, RseqRegime, Types
<1>7. op[t].cpu \in stopped => Cpus \subseteq stopped
  <2>1. Seizing = {} => stopped = {}
    BY <1>6 DEF Seized
  <2> QED BY <1>6, <2>1, <1>1 DEF RseqRegime
<1>8. RseqThread(t)'
  <2>1. w = "load" => (sup.at # "idle" => op[t].cpu # sup.cpu)
    BY <1>2, <1>6 DEF Seized
  <2> QED BY <2>1, <1>1, <1>2, <1>3, <1>4, <1>7 DEF RseqThread, Looping, InSection,
      Section, Holding, RseqCheck
<1> QED BY <1>1, <1>3, <1>4, <1>5, <1>8, LocalStep DEF RseqCheck, slab, objects

\* Between load and store, on either path.
LEMMA LoadStep ==
  ASSUME SlabInv, RseqRegime \/ LockedRegime, NEW t \in Threads, NEW b \in {"slot", "lk_slot"},
         \/ op[t].at = "load" /\ b = "slot"
         \/ op[t].at = "lk_load" /\ b = "lk_slot",
         ~NoRoom(op[t], current[op[t].cpu]),
         Goto(t, [op[t] EXCEPT !.at = b, !.cur = current[op[t].cpu]]),
         UNCHANGED <<run, current, slots, lock, stopped, live, central, sup>>
  PROVE  SlabInv'
<1>1. /\ op[t] \in Op /\ Knows(t)
      /\ RseqRegime => RseqThread(t)
      /\ LockedRegime => LockedThread(t)
  BY OfThread
<1>2. op[t].cpu \in SlabCpus /\ current[op[t].cpu] \in 0 .. Capacity
  BY <1>1 DEF Knows, SlabInv, Types, Memory
<1>3. PICK x \in Op : /\ x = [op[t] EXCEPT !.at = b, !.cur = current[op[t].cpu]]
                      /\ x.at = b /\ x.cur = current[op[t].cpu] /\ x.cpu = op[t].cpu
                      /\ x.push = op[t].push /\ x.obj = op[t].obj /\ x.snap = op[t].snap
                      /\ x.loops = op[t].loops
  <2> DEFINE v == [op[t] EXCEPT !.at = b, !.cur = current[op[t].cpu]]
  <2>v. v \in Op /\ v.at = b /\ v.cur = current[op[t].cpu] /\ v.cpu = op[t].cpu
        /\ v.push = op[t].push /\ v.obj = op[t].obj /\ v.snap = op[t].snap /\ v.loops = op[t].loops
    BY <1>1, <1>2 DEF Op, OpPlaces, Section, Holding
  <2> QED BY <2>v
<1>4. op' = [op EXCEPT ![t] = x] /\ op'[t] = x
  BY <1>3 DEF Goto, SlabInv, Types
<1>5. x.push \in BOOLEAN /\ (x.push => x.cur < Capacity) /\ (~x.push => x.cur > 0)
  BY <1>1, <1>2, <1>3, RseqAssumption DEF NoRoom, Op
<1>6. Knows(t)'
  BY <1>1, <1>3, <1>4, <1>5, <1>2 DEF Knows, Section, Holding, Touching
<1>7. RseqRegime => RseqThread(t)'
  BY <1>1, <1>3, <1>4 DEF RseqThread, Looping, InSection, Section, Holding
<1>8. LockedRegime => LockedThread(t)'
  BY <1>1, <1>3, <1>4 DEF LockedThread, Section
<1> QED BY <1>3, <1>4, <1>6, <1>7, <1>8, LocalStep

\* Slot preserves the invariant.
LEMMA SlotStep ==
  ASSUME SlabInv, RseqRegime \/ LockedRegime, NEW t \in Threads, NEW b \in {"commit", "lk_store"},
         \/ op[t].at = "slot" /\ b = "commit"
         \/ op[t].at = "lk_slot" /\ b = "lk_store",
         Slot(t, b), UNCHANGED <<run, current, lock, stopped, live, central, sup>>
  PROVE  SlabInv'
<1>1. /\ op[t] \in Op /\ Knows(t) /\ Types /\ DataInv
      /\ RseqRegime => RseqThread(t)
      /\ LockedRegime => LockedThread(t)
  BY OfThread DEF SlabInv
<1> DEFINE p == op[t].cpu
           n == op[t].cur
<1>2. p \in SlabCpus /\ n = current[p] /\ current[p] \in 0 .. Capacity /\ Capacity \in Nat
  BY <1>1, RseqAssumption DEF Knows, Touching, Types, Memory
<1>3. op[t].at \in Touching
  BY DEF Touching
<1>4. CASE op[t].push
  <2>1. n \in 0 .. Capacity - 1 /\ op[t].obj \in Objs
    BY <1>1, <1>2, <1>3, <1>4 DEF Knows
  <2>2. PICK x \in Op : /\ x = [op[t] EXCEPT !.at = b]
                        /\ x.at = b /\ x.cur = n /\ x.cpu = p
                        /\ x.push = op[t].push /\ x.obj = op[t].obj /\ x.snap = op[t].snap
                        /\ x.loops = op[t].loops
    <3> DEFINE v == [op[t] EXCEPT !.at = b]
    <3>v. v \in Op /\ v.at = b /\ v.cur = n /\ v.cpu = p
          /\ v.push = op[t].push /\ v.obj = op[t].obj /\ v.snap = op[t].snap /\ v.loops = op[t].loops
      BY <1>1 DEF Op, OpPlaces, Section, Holding
    <3> QED BY <3>v
  <2>3. /\ op' = [op EXCEPT ![t] = x] /\ op'[t] = x
        /\ slots' = [slots EXCEPT ![p][n] = op[t].obj]
    BY <1>1, <1>4, <2>2 DEF Slot, Move, Goto, Types
  <2>4. /\ slots'[p][n] = op[t].obj
        /\ slots' \in [SlabCpus -> [0 .. Capacity - 1 -> Objs \cup {NoObj}]]
    BY <1>1, <1>2, <2>1, <2>3 DEF Types, Memory
  <2>5. Knows(t)'
    BY <1>1, <1>2, <1>3, <1>4, <2>1, <2>2, <2>3, <2>4 DEF Knows, Section, Holding, Touching
  <2>6. RseqRegime => RseqThread(t)'
    BY <1>1, <2>2, <2>3 DEF RseqThread, Looping, InSection, Section, Holding
  <2>7. LockedRegime => LockedThread(t)'
    BY <1>1, <2>2, <2>3 DEF LockedThread, Section
  <2>8. Memory'
    BY <1>1, <2>4 DEF Types, Memory
  <2>9. DataInv'
    BY <1>1, <1>2, <2>1, <2>2, <2>3, DataSlotPush
  <2>10. \A q \in SlabCpus : \/ current'[q] = current[q] /\ slots'[q] = slots[q]
                             \/ q = op[t].cpu /\ op[t].at \in Touching
    BY <1>1, <1>3, <2>3 DEF Types, Memory
  <2> QED BY <2>2, <2>3, <2>5, <2>6, <2>7, <2>8, <2>9, <2>10, ThreadStep
<1>5. CASE ~op[t].push
  <2>1. n - 1 \in 0 .. Capacity - 1
    BY <1>1, <1>2, <1>3, <1>5 DEF Knows
  <2>2. slots[p][n - 1] \in Objs \cup {NoObj}
    BY <1>1, <1>2, <2>1 DEF Types, Memory
  <2>3. PICK x \in Op : /\ x = [op[t] EXCEPT !.at = b, !.obj = slots[p][n - 1]]
                        /\ x.at = b /\ x.cur = n /\ x.cpu = p
                        /\ x.push = op[t].push /\ x.obj = slots[p][n - 1] /\ x.snap = op[t].snap
                        /\ x.loops = op[t].loops
    <3> DEFINE v == [op[t] EXCEPT !.at = b, !.obj = slots[p][n - 1]]
    <3>v. v \in Op /\ v.at = b /\ v.cur = n /\ v.cpu = p
          /\ v.push = op[t].push /\ v.obj = slots[p][n - 1] /\ v.snap = op[t].snap /\ v.loops = op[t].loops
      BY <1>1, <2>2 DEF Op, OpPlaces, Section, Holding
    <3> QED BY <3>v
  <2>4. op' = [op EXCEPT ![t] = x] /\ op'[t] = x /\ UNCHANGED slots
    BY <1>1, <1>5, <2>3 DEF Slot, Goto, Types
  <2>5. Knows(t)'
    BY <1>1, <1>2, <1>3, <1>5, <2>3, <2>4 DEF Knows, Section, Holding, Touching
  <2>6. RseqRegime => RseqThread(t)'
    BY <1>1, <2>3, <2>4 DEF RseqThread, Looping, InSection, Section, Holding
  <2>7. LockedRegime => LockedThread(t)'
    BY <1>1, <2>3, <2>4 DEF LockedThread, Section
  <2> QED BY <1>5, <2>3, <2>4, <2>5, <2>6, <2>7, LocalStep
<1> QED BY <1>4, <1>5

\* Store preserves the invariant.
LEMMA StoreStep ==
  ASSUME SlabInv, RseqRegime \/ LockedRegime, NEW t \in Threads,
         op[t].at \in {"commit", "lk_store"}, Store(t),
         UNCHANGED <<run, slots, stopped, central, sup>>,
         lock' \in [SlabCpus -> Threads \cup {NoThread}],
         \A q \in SlabCpus : lock'[q] = lock[q] \/ lock[q] \in {NoThread, t}
  PROVE  SlabInv'
<1>1. op[t] \in Op /\ Knows(t) /\ Types /\ DataInv /\ op[t].at \in Touching
  BY OfThread DEF SlabInv, Touching
<1> DEFINE p == op[t].cpu
           n == op[t].cur
<1>2. p \in SlabCpus /\ n = current[p] /\ current[p] \in 0 .. Capacity /\ Capacity \in Nat
  BY <1>1, RseqAssumption DEF Knows, Touching, Types, Memory
<1>3. op' = [op EXCEPT ![t] = Idle] /\ op'[t] = Idle
  BY <1>1 DEF Store, Goto, Types
<1>4. /\ Idle \in Op /\ ~Idle.push
      /\ Knows(t)' /\ RseqThread(t)' /\ LockedThread(t)'
  BY <1>3, IdleOp
<1>5. \A q \in SlabCpus : \/ current'[q] = current[q] /\ slots'[q] = slots[q]
                          \/ q = op[t].cpu /\ op[t].at \in Touching
  BY <1>1 DEF Store, Types, Memory
<1>6. Memory' /\ DataInv'
  <2>1. CASE op[t].push
    <3>1. n \in 0 .. Capacity - 1 /\ op[t].obj \in Objs /\ slots[p][n] = op[t].obj
      BY <1>1, <1>2, <2>1 DEF Knows
    <3>2. current' = [current EXCEPT ![p] = n + 1] /\ UNCHANGED live
      BY <2>1 DEF Store
    <3>3. DataInv'
      BY <1>1, <1>2, <1>3, <1>4, <2>1, <3>1, <3>2, DataStorePush
    <3> QED BY <1>1, <1>2, <3>1, <3>2, <3>3 DEF Types, Memory
  <2>2. CASE ~op[t].push
    <3>1. n - 1 \in 0 .. Capacity - 1 /\ slots[p][n - 1] = op[t].obj /\ current[p] = (n - 1) + 1
      BY <1>1, <1>2, <2>2 DEF Knows
    <3>2. current' = [current EXCEPT ![p] = n - 1] /\ Hand(slots[p][n - 1])
      BY <2>2, <3>1 DEF Store
    <3>3. DataInv'
      BY <1>1, <1>2, <1>3, <1>4, <2>2, <3>1, <3>2, DataStorePop
    <3>4. slots[p][n - 1] \in Objs
      <4>1. n - 1 < current[p]
        BY <1>2
      <4> QED BY <1>1, <1>2, <3>1, <4>1 DEF DataInv, Filled
    <3>5. live' \in [Objs -> 0 .. 2]
      <4>1. live[slots[p][n - 1]] \in 0 .. 2 /\ live \in [Objs -> 0 .. 2]
        BY <1>1, <3>4 DEF Types, Memory
      <4>2. (IF live[slots[p][n - 1]] < 2 THEN live[slots[p][n - 1]] + 1 ELSE 2) \in 0 .. 2
        BY <4>1
      <4> QED BY <3>2, <4>1, <4>2 DEF Hand
    <3>6. current' \in [SlabCpus -> 0 .. Capacity]
      BY <1>1, <1>2, <3>1, <3>2 DEF Types, Memory
    <3> QED BY <1>1, <3>3, <3>5, <3>6 DEF Types, Memory
  <2> QED BY <2>1, <2>2, <1>1 DEF Op
<1> QED BY <1>3, <1>4, <1>5, <1>6, ThreadStep

\* RseqLoad preserves the invariant.
LEMMA RseqLoadStep ==
  ASSUME SlabInv, RseqRegime \/ LockedRegime, NEW t \in Threads, RseqLoad(t)
  PROVE  SlabInv'
<1>1. op[t].at = "load" /\ UNCHANGED <<run, current, slots, lock, stopped, sup>>
  BY DEF RseqLoad, At, slab
<1>2. CASE NoRoom(op[t], current[op[t].cpu])
  <2>1. NeedsSlow(t) /\ lock \in [SlabCpus -> Threads \cup {NoThread}]
    BY <1>2 DEF RseqLoad, SlabInv, Types, Memory
  <2> QED BY <1>1, <2>1, SlowStep
<1>3. CASE ~NoRoom(op[t], current[op[t].cpu])
  <2>1. /\ Goto(t, [op[t] EXCEPT !.at = "slot", !.cur = current[op[t].cpu]])
        /\ UNCHANGED <<live, central>>
    BY <1>3 DEF RseqLoad, objects
  <2> QED BY <1>1, <1>3, <2>1, LoadStep
<1> QED BY <1>2, <1>3

\* RseqSlot preserves the invariant.
LEMMA RseqSlotStep ==
  ASSUME SlabInv, RseqRegime \/ LockedRegime, NEW t \in Threads, RseqSlot(t)
  PROVE  SlabInv'
BY SlotStep DEF RseqSlot, At, objects

\* RseqCommit preserves the invariant.
LEMMA RseqCommitStep ==
  ASSUME SlabInv, RseqRegime \/ LockedRegime, NEW t \in Threads, RseqCommit(t)
  PROVE  SlabInv'
<1>1. lock' \in [SlabCpus -> Threads \cup {NoThread}] /\ lock' = lock
  BY DEF RseqCommit, SlabInv, Types, Memory
<1> QED BY <1>1, StoreStep DEF RseqCommit, At

\* LockedCheck preserves the invariant.
LEMMA LockedCheckStep ==
  ASSUME SlabInv, RseqRegime \/ LockedRegime, NEW t \in Threads, LockedCheck(t)
  PROVE  SlabInv'
<1>1. /\ op[t] \in Op /\ Knows(t) /\ op[t].at = "fallback"
      /\ RseqRegime => RseqThread(t)
      /\ LockedRegime => LockedThread(t)
  BY OfThread DEF LockedCheck, At
<1>2. UNCHANGED <<run, current, slots, lock, stopped, sup>>
  BY DEF LockedCheck, slab
<1>3. ResolvedCpu(t) \in SlabCpus
  BY <1>1, RseqAssumption DEF ResolvedCpu, CurrentCpu, HasBlock, Op
<1>4. CASE ResolvedCpu(t) \in stopped
  <2>1. NeedsSlow(t) /\ lock \in [SlabCpus -> Threads \cup {NoThread}]
    BY <1>4 DEF LockedCheck, SlabInv, Types, Memory
  <2> QED BY <1>2, <2>1, SlowStep
<1>5. CASE ResolvedCpu(t) \notin stopped
  <2>1. ~RseqRegime /\ LockedRegime
    BY <1>1, <1>3, <1>5 DEF RseqThread, RseqRegime
  <2>2. PICK x \in Op : /\ x = [op[t] EXCEPT !.at = "lk_wait", !.cpu = ResolvedCpu(t)]
                        /\ x.at = "lk_wait" /\ x.cpu = ResolvedCpu(t)
                        /\ x.push = op[t].push /\ x.obj = op[t].obj /\ x.snap = op[t].snap
    <3> DEFINE v == [op[t] EXCEPT !.at = "lk_wait", !.cpu = ResolvedCpu(t)]
    <3>v. v \in Op /\ v.at = "lk_wait" /\ v.cpu = ResolvedCpu(t)
          /\ v.push = op[t].push /\ v.obj = op[t].obj /\ v.snap = op[t].snap
      BY <1>1, <1>3 DEF Op, OpPlaces
    <3> QED BY <3>v
  <2>3. op' = [op EXCEPT ![t] = x] /\ op'[t] = x /\ UNCHANGED <<live, central>>
    BY <1>5, <2>2 DEF LockedCheck, Goto, objects, SlabInv, Types
  <2>4. Knows(t)'
    BY <1>1, <1>3, <2>2, <2>3 DEF Knows, Section, Holding, Touching
  <2>5. LockedThread(t)'
    BY <2>2, <2>3 DEF LockedThread, Section
  <2> QED BY <1>2, <2>1, <2>2, <2>3, <2>4, <2>5, LocalStep
<1> QED BY <1>4, <1>5

\* LockedAcquire preserves the invariant.
LEMMA LockedAcquireStep ==
  ASSUME SlabInv, RseqRegime \/ LockedRegime, NEW t \in Threads, LockedAcquire(t)
  PROVE  SlabInv'
<1>1. /\ op[t] \in Op /\ Knows(t) /\ op[t].at = "lk_wait" /\ Types /\ DataInv /\ ~RseqRegime
  BY OfThread DEF LockedAcquire, At, SlabInv, RseqThread
<1>2. op[t].cpu \in SlabCpus /\ lock[op[t].cpu] = NoThread
  BY <1>1 DEF Knows, LockedAcquire, LockFree
<1>3. PICK x \in Op : /\ x = [op[t] EXCEPT !.at = "lk_load"]
                      /\ x.at = "lk_load" /\ x.cpu = op[t].cpu
                      /\ x.push = op[t].push /\ x.obj = op[t].obj /\ x.snap = op[t].snap
  <2> DEFINE v == [op[t] EXCEPT !.at = "lk_load"]
  <2>v. v \in Op /\ v.at = "lk_load" /\ v.cpu = op[t].cpu
        /\ v.push = op[t].push /\ v.obj = op[t].obj /\ v.snap = op[t].snap
    BY <1>1 DEF Op, OpPlaces, Holding
  <2> QED BY <2>v
<1>4. op' = [op EXCEPT ![t] = x] /\ op'[t] = x
  BY <1>1, <1>3 DEF LockedAcquire, Move, Goto, Types
<1>5. lock' = [lock EXCEPT ![op[t].cpu] = t] /\ lock'[op[t].cpu] = t
  BY <1>1, <1>2 DEF LockedAcquire, Types, Memory
<1>6. Knows(t)'
  BY <1>1, <1>2, <1>3, <1>4, <1>5 DEF Knows, Section, Holding, Touching
<1>7. LockedThread(t)'
  BY <1>3, <1>4 DEF LockedThread, Section
<1>8. Memory'
  BY <1>1, <1>5 DEF LockedAcquire, Types, Memory, slab, objects
<1>9. DataInv'
  <2>1. \A u \in Threads : /\ op'[u].push = op[u].push
                           /\ op[u].push => op'[u].obj = op[u].obj
    BY <1>1, <1>3, <1>4 DEF Types
  <2> QED BY <2>1, <1>1, DataSame DEF LockedAcquire, slab, objects
<1>10. \A q \in SlabCpus : lock'[q] = lock[q] \/ lock[q] \in {NoThread, t}
  BY <1>1, <1>2, <1>5 DEF Types, Memory
<1> QED BY <1>1, <1>3, <1>4, <1>6, <1>7, <1>8, <1>9, <1>10, ThreadStep DEF LockedAcquire, slab

\* The holder releases the lock.
LEMMA ReleaseLock ==
  ASSUME SlabInv, NEW t \in Threads, op[t].at \in Holding, Release(t)
  PROVE  /\ lock' \in [SlabCpus -> Threads \cup {NoThread}]
         /\ \A q \in SlabCpus : lock'[q] = lock[q] \/ lock[q] \in {NoThread, t}
<1>1. lock[op[t].cpu] = t /\ lock \in [SlabCpus -> Threads \cup {NoThread}]
  BY OfThread DEF Knows, SlabInv, Types, Memory
<1> QED BY <1>1 DEF Release

\* LockedLoad preserves the invariant.
LEMMA LockedLoadStep ==
  ASSUME SlabInv, RseqRegime \/ LockedRegime, NEW t \in Threads, LockedLoad(t)
  PROVE  SlabInv'
<1>1. /\ op[t].at = "lk_load" /\ op[t].at \in Holding
      /\ UNCHANGED <<run, current, slots, stopped, sup>>
  BY DEF LockedLoad, At, slab, Holding
<1>2. CASE NoRoom(op[t], current[op[t].cpu])
  <2>1. NeedsSlow(t) /\ Release(t)
    BY <1>2 DEF LockedLoad
  <2> QED BY <1>1, <2>1, ReleaseLock, SlowStep
<1>3. CASE ~NoRoom(op[t], current[op[t].cpu])
  <2>1. /\ Goto(t, [op[t] EXCEPT !.at = "lk_slot", !.cur = current[op[t].cpu]])
        /\ UNCHANGED <<live, central, lock>>
    BY <1>3 DEF LockedLoad, objects
  <2> QED BY <1>1, <1>3, <2>1, LoadStep
<1> QED BY <1>2, <1>3

\* LockedSlot preserves the invariant.
LEMMA LockedSlotStep ==
  ASSUME SlabInv, RseqRegime \/ LockedRegime, NEW t \in Threads, LockedSlot(t)
  PROVE  SlabInv'
BY SlotStep DEF LockedSlot, At, objects

\* LockedStore preserves the invariant.
LEMMA LockedStoreStep ==
  ASSUME SlabInv, RseqRegime \/ LockedRegime, NEW t \in Threads, LockedStore(t)
  PROVE  SlabInv'
<1>1. op[t].at = "lk_store" /\ op[t].at \in Holding /\ Release(t)
  BY DEF LockedStore, At, Holding
<1> QED BY <1>1, ReleaseLock, StoreStep DEF LockedStore

-----------------------------------------------------------------------------
(* The kernel and the supervisor *)

\* Resume preserves the invariant.
LEMMA ResumeStep ==
  ASSUME SlabInv, RseqRegime \/ LockedRegime, NEW t \in Threads, NEW p \in Cpus, Resume(t, p)
  PROVE  SlabInv'
<1>1. /\ op[t] \in Op /\ Knows(t) /\ Types /\ DataInv
      /\ RseqRegime => RseqThread(t)
      /\ LockedRegime => LockedThread(t)
  BY OfThread DEF SlabInv
<1>2. /\ run[t] = NoCpu /\ run' = [run EXCEPT ![t] = p] /\ op' = op
      /\ op' = [op EXCEPT ![t] = op[t]]
  BY <1>1 DEF Resume, Runs, Types
<1>3. UNCHANGED <<current, slots, lock, stopped, live, central, sup>>
  BY DEF Resume, slab, objects
<1>4. run' \in [Threads -> Cpus \cup {NoCpu}] /\ \A u \in Threads : u # t => run'[u] = run[u]
  BY <1>1, <1>2 DEF Types
<1>5. OnePerCpu'
  BY <1>1, <1>2 DEF Resume, OnePerCpu, SlabInv, Types
<1>6. op[t].at \notin Section
  BY <1>1, <1>2, RseqAssumption DEF Knows, Section
<1>7. Knows(t)'
  BY <1>1, <1>2, <1>3, <1>6, KnowsSame
<1>8. RseqRegime => RseqThread(t)'
  <2>1. ASSUME RseqRegime, op[t].at \in {"arm", "check"} PROVE op[t].loops > 1
    BY <2>1, <1>1, <1>2, RseqAssumption DEF RseqThread, Knows
  <2> QED BY <1>1, <1>2, <1>3, <2>1 DEF RseqThread
<1>9. LockedRegime => LockedThread(t)'
  BY <1>1, <1>2 DEF LockedThread
<1>10. Memory' /\ DataInv'
  BY <1>1, <1>2, <1>3, DataSame DEF Types, Memory
<1> QED BY <1>1, <1>2, <1>3, <1>4, <1>5, <1>7, <1>8, <1>9, <1>10, AnyStep

\* The operation of an interrupted section.
LEMMA AbortOp ==
  ASSUME NEW y \in Op
  PROVE  /\ Abort(y) \in Op
         /\ Abort(y).push = y.push /\ Abort(y).obj = y.obj /\ Abort(y).snap = y.snap
         /\ Abort(y).cpu = y.cpu /\ Abort(y).cur = y.cur /\ Abort(y).loops = y.loops
         /\ Abort(y).at = IF y.at \in {"check"} \cup Section THEN "start" ELSE y.at
BY DEF Abort, Op, OpPlaces, InSection, Section

\* Preempt preserves the invariant.
LEMMA PreemptStep ==
  ASSUME SlabInv, RseqRegime \/ LockedRegime, NEW t \in Threads, Preempt(t)
  PROVE  SlabInv'
<1>1. /\ op[t] \in Op /\ Knows(t) /\ Types /\ DataInv
      /\ RseqRegime => RseqThread(t)
      /\ LockedRegime => LockedThread(t)
  BY OfThread DEF SlabInv
<1>2. PICK x \in Op : /\ x = Abort(op[t])
                      /\ x.push = op[t].push /\ x.obj = op[t].obj /\ x.snap = op[t].snap
                      /\ x.cpu = op[t].cpu /\ x.cur = op[t].cur /\ x.loops = op[t].loops
                      /\ x.at = IF op[t].at \in {"check"} \cup Section THEN "start" ELSE op[t].at
  BY <1>1, AbortOp
<1>3. /\ op' = [op EXCEPT ![t] = x] /\ op'[t] = x
      /\ run' = [run EXCEPT ![t] = NoCpu] /\ run'[t] = NoCpu
  BY <1>1, <1>2 DEF Preempt, Goto, Types
<1>4. UNCHANGED <<current, slots, lock, stopped, live, central, sup>>
  BY DEF Preempt, slab, objects
<1>5. run' \in [Threads -> Cpus \cup {NoCpu}] /\ \A u \in Threads : u # t => run'[u] = run[u]
  BY <1>1, <1>3 DEF Types
<1>6. OnePerCpu'
  BY <1>1, <1>3 DEF OnePerCpu, SlabInv, Types
<1>7. Knows(t)'
  BY <1>1, <1>2, <1>3, <1>4 DEF Knows, Section, Holding, Touching
<1>8. ASSUME RseqRegime PROVE RseqThread(t)'
  <2>1. op[t].at \in Looping => op[t].loops > 1
    BY <1>8 DEF Preempt, RseqRegime
  <2> QED BY <1>1, <1>2, <1>3, <1>4, <1>8, <2>1 DEF RseqThread, Looping, InSection,
      Section, Holding
<1>9. LockedRegime => LockedThread(t)'
  BY <1>1, <1>2, <1>3 DEF LockedThread, Section
<1>10. \A u \in Threads : /\ op'[u].push = op[u].push
                          /\ op[u].push => op'[u].obj = op[u].obj
  BY <1>1, <1>2, <1>3 DEF Types
<1>11. Memory' /\ DataInv'
  BY <1>1, <1>4, <1>10, DataSame DEF Types, Memory
<1> QED BY <1>3, <1>4, <1>5, <1>6, <1>7, <1>8, <1>9, <1>11, AnyStep

\* What the supervisor does happens in the rseq regime only.
LEMMA SupervisorStep ==
  ASSUME SlabInv, RseqRegime \/ LockedRegime, Seize
  PROVE  SlabInv'
<1>1. RseqRegime
  <2>1. ASSUME LockedRegime PROVE FALSE
    <3>1. sup.at = "idle" /\ Seizing = {}
      BY <2>1 DEF SlabInv, LockedPart, LockedRegime
    <3> QED BY <3>1 DEF Seize, Membarrier, MembarrierFailed, RebalanceLoad, RebalancePop,
        DropGuard
  <2> QED BY <2>1
<1>2. Types /\ OnePerCpu /\ DataInv /\ RseqPart /\ Seized /\ SlabCpus = Cpus
  BY <1>1 DEF SlabInv, RseqPart, RseqRegime
<1>3. LockedRegime => LockedPart'
  <2>1. ASSUME LockedRegime PROVE FALSE
    <3>1. sup.at = "idle" /\ Seizing = {}
      BY <2>1 DEF SlabInv, LockedPart, LockedRegime
    <3> QED BY <3>1 DEF Seize, Membarrier, MembarrierFailed, RebalanceLoad, RebalancePop,
        DropGuard
  <2> QED BY <2>1
<1>4. CASE \E p \in Seizing : SetStopped(p)
  <2>1. PICK p \in Seizing : SetStopped(p)
    BY <1>4
  <2>2. /\ sup.at = "idle" /\ stopped' = stopped \cup {p} /\ p \in SlabCpus
        /\ sup' = [SupIdle EXCEPT !.at = "barrier", !.cpu = p]
        /\ UNCHANGED <<run, current, slots, lock, live, central, op>>
    BY <2>1, RseqAssumption DEF SetStopped, slab, objects
  <2>3. sup'.at = "barrier" /\ sup'.cpu = p /\ sup'.cur = 0 /\ sup'.cur \in 0 .. Capacity
    BY <2>2, RseqAssumption DEF SupIdle
  <2>4. sup' \in Sup
    <3>1. 0 \in 0 .. Capacity
      BY RseqAssumption
    <3> QED BY <2>2, <3>1 DEF SupIdle, Sup
  <2>5. Types'
    BY <1>2, <2>2, <2>4 DEF Types, Memory
  <2>6. \A t \in Threads : Knows(t)'
    BY <2>2, KnowsSame DEF SlabInv
  <2>7. OnePerCpu' /\ DataInv'
    <3>1. DataInv'
      BY <1>2, <2>2, DataSame
    <3> QED BY <3>1, <1>2, <2>2 DEF OnePerCpu
  <2>8. RseqPart'
    <3>1. Seized'
      BY <2>1, <2>2, <2>3 DEF Seized
    <3>2. ASSUME NEW t \in Threads PROVE RseqThread(t)'
      <4>1. RseqThread(t) /\ op'[t] = op[t] /\ stopped \subseteq stopped'
        BY <1>2, <2>2 DEF RseqPart
      <4> QED BY <4>1, <2>2, <2>3 DEF RseqThread
    <3> QED BY <3>1, <3>2 DEF RseqPart
  <2> QED BY <1>3, <2>5, <2>6, <2>7, <2>8 DEF SlabInv
<1>5. CASE Membarrier
  <2>1. /\ sup.at = "barrier" /\ sup' = [sup EXCEPT !.at = "seized"]
        /\ op' = [t \in Threads |-> Fenced(t)]
        /\ UNCHANGED <<run, current, slots, lock, stopped, live, central>>
    BY <1>5 DEF Membarrier, slab, objects
  <2>2. sup'.at = "seized" /\ sup'.cpu = sup.cpu /\ sup'.cur = sup.cur
    BY <1>2, <2>1 DEF Types, Sup
  <2>3. Seizing # {} /\ sup.cpu \in stopped /\ Cpus \subseteq stopped
    BY <1>1, <1>2, <2>1 DEF Seized, RseqRegime, Types
  <2>4. ASSUME NEW t \in Threads
        PROVE  /\ op'[t] \in Op /\ op'[t].push = op[t].push /\ op'[t].obj = op[t].obj
               /\ op'[t].snap = op[t].snap /\ op'[t].cpu = op[t].cpu /\ op'[t].cur = op[t].cur
               /\ op'[t].loops = op[t].loops
               /\ op'[t].at = IF run[t] = sup.cpu /\ op[t].at \in {"check"} \cup Section
                              THEN "start" ELSE op[t].at
    <3>1. op[t] \in Op /\ op'[t] = Fenced(t)
      BY <2>1, OfThread
    <3>2. CASE run[t] = sup.cpu
      BY <3>1, <3>2, AbortOp DEF Fenced
    <3>3. CASE run[t] # sup.cpu
      BY <3>1, <3>3 DEF Fenced
    <3> QED BY <3>2, <3>3
  <2>5. Types'
    <3>1. op' \in [Threads -> Op]
      BY <2>1, <2>4
    <3>2. sup' \in Sup
      BY <1>2, <2>1 DEF Types, Sup
    <3> QED BY <3>1, <3>2, <1>2, <2>1 DEF Types, Memory
  <2>6. ASSUME NEW t \in Threads PROVE Knows(t)'
    <3>1. Knows(t)
      BY DEF SlabInv
    <3> QED BY <3>1, <2>1, <2>4 DEF Knows, Section, Holding, Touching
  <2>7. OnePerCpu' /\ DataInv'
    <3>1. DataInv'
      BY <1>2, <2>1, <2>4, DataSame
    <3> QED BY <3>1, <1>2, <2>1 DEF OnePerCpu
  <2>8. RseqPart'
    <3>1. Seized'
      BY <1>2, <2>1, <2>2, <2>3 DEF Seized
    <3>2. ASSUME NEW t \in Threads PROVE RseqThread(t)'
      <4>1. RseqThread(t) /\ Knows(t)
        BY <1>2 DEF RseqPart, SlabInv
      <4>2. op[t].at \in Section => run[t] = op[t].cpu
        BY <4>1 DEF Knows
      <4> QED BY <4>1, <4>2, <2>1, <2>2, <2>3, <2>4 DEF RseqThread, Looping, InSection,
          Section, Holding
    <3> QED BY <3>1, <3>2 DEF RseqPart
  <2> QED BY <1>3, <2>5, <2>6, <2>7, <2>8 DEF SlabInv
<1>6. CASE MembarrierFailed \/ DropGuard
  BY <1>1, <1>6 DEF MembarrierFailed, DropGuard, RseqRegime
<1>7. CASE RebalanceLoad
  <2>1. /\ sup.at = "seized" /\ current[sup.cpu] > 0
        /\ sup' = [sup EXCEPT !.at = "pop", !.cur = current[sup.cpu]]
        /\ UNCHANGED <<run, current, slots, lock, stopped, live, central, op>>
    BY <1>7 DEF RebalanceLoad, slab, objects
  <2>2. sup.cpu \in SlabCpus /\ current[sup.cpu] \in 0 .. Capacity
    BY <1>2, <2>1 DEF Seized, Types, Memory
  <2>3. /\ sup'.at = "pop" /\ sup'.cpu = sup.cpu /\ sup'.cur = current[sup.cpu]
        /\ sup' \in Sup
    BY <1>2, <2>1, <2>2 DEF Types, Sup
  <2>4. Types'
    BY <1>2, <2>1, <2>3 DEF Types, Memory
  <2>5. \A t \in Threads : Knows(t)'
    BY <2>1, KnowsSame DEF SlabInv
  <2>6. OnePerCpu' /\ DataInv'
    <3>1. DataInv'
      BY <1>2, <2>1, DataSame
    <3> QED BY <3>1, <1>2, <2>1 DEF OnePerCpu
  <2>7. RseqPart'
    <3>1. Seized'
      BY <1>2, <2>1, <2>3 DEF Seized
    <3>2. ASSUME NEW t \in Threads PROVE RseqThread(t)'
      <4>1. RseqThread(t)
        BY <1>2 DEF RseqPart
      <4> QED BY <4>1, <2>1, <2>3 DEF RseqThread
    <3> QED BY <3>1, <3>2 DEF RseqPart
  <2> QED BY <1>3, <2>4, <2>5, <2>6, <2>7 DEF SlabInv
<1>8. CASE RebalancePop
  <2> DEFINE p == sup.cpu
             n == sup.cur - 1
  <2>1. /\ sup.at = "pop"
        /\ current' = [current EXCEPT ![p] = n]
        /\ central' = central \cup {slots[p][n]}
        /\ sup' = [sup EXCEPT !.at = "seized", !.cur = 0]
        /\ UNCHANGED <<run, slots, lock, stopped, live, op>>
    BY <1>8 DEF RebalancePop
  <2>2. p \in SlabCpus /\ sup.cur = current[p] /\ sup.cur > 0 /\ current[p] \in 0 .. Capacity
    BY <1>2, <2>1 DEF Seized, Types, Memory
  <2>3. n \in 0 .. Capacity - 1 /\ current[p] = n + 1 /\ n < current[p] /\ n \in 0 .. Capacity
    BY <2>2, RseqAssumption
  <2>4. slots[p][n] \in Objs
    BY <1>2, <2>2, <2>3 DEF DataInv, Filled
  <2>5. /\ sup'.at = "seized" /\ sup'.cpu = sup.cpu
        /\ sup' \in Sup
    <3>1. 0 \in 0 .. Capacity /\ sup \in Sup
      BY <1>2, RseqAssumption DEF Types
    <3> QED BY <2>1, <3>1 DEF Sup
  <2>6. Types'
    BY <1>2, <2>1, <2>3, <2>4, <2>5 DEF Types, Memory
  <2>7. ASSUME NEW t \in Threads PROVE Knows(t)'
    <3>1. Knows(t)
      BY DEF SlabInv
    <3>2. op[t].at \in Touching => op[t].cpu # p /\ op[t].cpu \in SlabCpus
      BY <1>1, <2>1, <3>1, SeizedAlone DEF Knows, Touching
    <3>3. op[t].at \in Touching => current'[op[t].cpu] = current[op[t].cpu]
      BY <3>2, <2>1, <1>2 DEF Types, Memory
    <3> QED BY <3>1, <3>3, <2>1, KnowsSame
  <2>8. OnePerCpu' /\ DataInv'
    <3>1. DataInv'
      BY <1>2, <2>1, <2>2, <2>3, DataRebalance
    <3> QED BY <3>1, <1>2, <2>1 DEF OnePerCpu
  <2>9. RseqPart'
    <3>1. Seized'
      BY <1>2, <2>1, <2>5 DEF Seized
    <3>2. ASSUME NEW t \in Threads PROVE RseqThread(t)'
      <4>1. RseqThread(t)
        BY <1>2 DEF RseqPart
      <4> QED BY <4>1, <2>1, <2>5 DEF RseqThread
    <3> QED BY <3>1, <3>2 DEF RseqPart
  <2> QED BY <1>3, <2>6, <2>7, <2>8, <2>9 DEF SlabInv
<1> QED BY <1>4, <1>5, <1>6, <1>7, <1>8 DEF Seize

-----------------------------------------------------------------------------
(* The invariant *)

\* The invariant holds initially.
LEMMA SlabInit ==
  ASSUME RseqRegime \/ LockedRegime, Init
  PROVE  SlabInv
<1>1. Idle \in Op /\ ~Idle.push /\ Idle.at = "idle"
  BY RseqAssumption DEF Idle, Op, OpPlaces
<1>2. SupIdle \in Sup
      /\ SupIdle.at = "idle"
  BY RseqAssumption DEF SupIdle, Sup
<1>3. Memory
  BY RseqAssumption DEF Init, Memory
<1>4. Types
  BY <1>1, <1>2, <1>3 DEF Init, Types
<1>5. OnePerCpu
  BY DEF Init, OnePerCpu
<1>6. \A t \in Threads : Knows(t)
  BY <1>1 DEF Init, Knows, Section, Holding, Touching
<1>7. RseqPart
  BY <1>1, <1>2 DEF Init, RseqPart, Seized, RseqThread, Looping, InSection, Section, Holding
<1>8. LockedPart
  BY <1>1, <1>2 DEF Init, LockedPart, LockedThread, Section
<1>9. DataInv
  <2>1. \A t \in Threads, o \in Objs : ~Pushing(t, o)
    BY <1>1 DEF Init, Pushing
  <2>2. \A p \in SlabCpus, i \in 0 .. Capacity - 1, o \in Objs : ~InSlot(p, i, o)
    BY DEF Init, InSlot
  <2>3. Filled
    BY DEF Init, Filled
  <2>4. ASSUME NEW o \in Objs PROVE Once(o) /\ Somewhere(o)
    <3>1. live[o] = 1 /\ o \notin central
      BY DEF Init
    <3>2. Once(o)
      BY <3>1, <2>1, <2>2 DEF Once
    <3> QED BY <3>1, <3>2 DEF Somewhere
  <2> QED BY <2>3, <2>4 DEF DataInv
<1> QED BY <1>4, <1>5, <1>6, <1>7, <1>8, <1>9 DEF SlabInv

\* Every step preserves the invariant.
LEMMA SlabNext ==
  ASSUME SlabInv, RseqRegime \/ LockedRegime, [Next]_vars
  PROVE  SlabInv'
<1>1. CASE Kernel
  BY <1>1, PreemptStep, ResumeStep DEF Kernel
<1>2. CASE Seize
  BY <1>2, SupervisorStep
<1>3. ASSUME NEW t \in Threads, StartPop(t) \/ \E o \in Objs : StartPush(t, o) PROVE SlabInv'
  BY <1>3, StartPopStep, StartPushStep
<1>4. ASSUME NEW t \in Threads, RseqStep(t) PROVE SlabInv'
  BY <1>4, RseqStartStep, RseqArmStep, RseqCheckStep, RseqLoadStep, RseqSlotStep,
      RseqCommitStep DEF RseqStep
<1>5. ASSUME NEW t \in Threads, LockedStep(t) PROVE SlabInv'
  BY <1>5, LockedCheckStep, LockedAcquireStep, LockedLoadStep, LockedSlotStep,
      LockedStoreStep DEF LockedStep
<1>6. CASE UNCHANGED vars
  <2>1. UNCHANGED <<run, current, slots, lock, stopped, live, central, op, sup>>
    BY <1>6 DEF vars
  <2>2. DataInv'
    BY <2>1, DataSame DEF SlabInv
  <2>3. \A t \in Threads : Knows(t)'
    BY <2>1, KnowsSame DEF SlabInv
  <2>4. Types' /\ OnePerCpu'
    BY <2>1 DEF SlabInv, Types, Memory, OnePerCpu
  <2>5. (RseqRegime => RseqPart') /\ (LockedRegime => LockedPart')
    BY <2>1 DEF SlabInv, RseqPart, Seized, RseqThread, LockedPart, LockedThread
  <2> QED BY <2>2, <2>3, <2>4, <2>5 DEF SlabInv
<1> QED BY <1>1, <1>2, <1>3, <1>4, <1>5, <1>6 DEF Next

\* In both regimes the invariant holds in every state.
LEMMA AlwaysSlabInv ==
  ASSUME RseqRegime \/ LockedRegime
  PROVE  Spec => []SlabInv
<1>1. Init => SlabInv
  BY SlabInit
<1>2. SlabInv /\ [Next]_vars => SlabInv'
  BY SlabNext
<1> QED BY <1>1, <1>2, PTL DEF Spec

\* An object that is Once somewhere has one place.
LEMMA OnePlace ==
  ASSUME Types, NEW o \in Objs, Once(o)
  PROVE  \A x, y \in Places(o) : x = y
<1> DEFINE Live(x) == \E i \in 1 .. live[o] : x = <<"live", i, 0>>
           Cent(x) == o \in central /\ x = <<"central", 0, 0>>
           Push(x) == \E t \in Threads : Pushing(t, o) /\ x = <<"push", t, 0>>
           Slab(x) == \E p \in SlabCpus : \E i \in 0 .. Capacity - 1 :
                         InSlot(p, i, o) /\ x = <<"slab", p, i>>
<1>1. ASSUME NEW x \in Places(o) PROVE Live(x) \/ Cent(x) \/ Push(x) \/ Slab(x)
  <2>1. CASE x \in {<<"live", i, 0>> : i \in 1 .. live[o]}
    BY <2>1
  <2>2. CASE x \in {<<"central", 0, 0>> : z \in central \cap {o}}
    BY <2>2
  <2>3. CASE x \in {<<"push", t, 0>> : t \in {u \in Threads : op[u].push /\ op[u].obj = o}}
    BY <2>3 DEF Pushing
  <2>4. CASE x \in UNION {{<<"slab", p, i>> : i \in {j \in 0 .. current[p] - 1 : slots[p][j] = o}}
                           : p \in SlabCpus}
    <3>1. PICK p \in SlabCpus : x \in {<<"slab", p, i>> : i \in {j \in 0 .. current[p] - 1 : slots[p][j] = o}}
      BY <2>4
    <3>2. PICK i \in 0 .. current[p] - 1 : slots[p][i] = o /\ x = <<"slab", p, i>>
      BY <3>1
    <3>3. current[p] \in 0 .. Capacity /\ Capacity \in Nat
      BY RseqAssumption DEF Types, Memory
    <3>4. i \in 0 .. Capacity - 1 /\ InSlot(p, i, o)
      BY <3>2, <3>3 DEF InSlot
    <3> QED BY <3>2, <3>4
  <2> QED BY <2>1, <2>2, <2>3, <2>4 DEF Places
<1>2. ASSUME NEW x \in Places(o), NEW y \in Places(o) PROVE x = y
  <2>0. live[o] \in 0 .. 1 /\ (live[o] = 1 <=> live[o] # 0)
    BY DEF Once, Types, Memory
  <2>1. Live(x) \/ Cent(x) \/ Push(x) \/ Slab(x)
    BY <1>1
  <2>2. Live(y) \/ Cent(y) \/ Push(y) \/ Slab(y)
    BY <1>1
  <2>3. Live(x) \/ Live(y) => Live(x) /\ Live(y)
    BY <2>0, <2>1, <2>2 DEF Once
  <2>4. Cent(x) \/ Cent(y) => Cent(x) /\ Cent(y)
    BY <2>0, <2>1, <2>2 DEF Once
  <2>5. Push(x) \/ Push(y) => Push(x) /\ Push(y)
    BY <2>0, <2>1, <2>2, <2>3, <2>4 DEF Once
  <2>6. CASE Live(x) /\ Live(y)
    BY <2>0, <2>6
  <2>7. CASE Cent(x) /\ Cent(y)
    BY <2>7
  <2>8. CASE Push(x) /\ Push(y)
    BY <2>8 DEF Once
  <2>9. CASE Slab(x) /\ Slab(y)
    BY <2>9 DEF Once
  <2> QED BY <2>1, <2>2, <2>3, <2>4, <2>5, <2>6, <2>7, <2>8, <2>9
<1> QED BY <1>2

\* An object that is somewhere has a place.
LEMMA SomePlace ==
  ASSUME Types, NEW o \in Objs, Somewhere(o)
  PROVE  Places(o) # {}
<1>1. CASE live[o] = 1
  <2>1. <<"live", 1, 0>> \in {<<"live", i, 0>> : i \in 1 .. live[o]}
    BY <1>1
  <2> QED BY <2>1 DEF Places
<1>2. CASE o \in central
  <2>1. <<"central", 0, 0>> \in {<<"central", 0, 0>> : z \in central \cap {o}}
    BY <1>2
  <2> QED BY <2>1 DEF Places
<1>3. CASE \E t \in Threads : Pushing(t, o)
  <2>1. PICK t \in Threads : Pushing(t, o)
    BY <1>3
  <2>2. <<"push", t, 0>> \in {<<"push", v, 0>> : v \in {u \in Threads : op[u].push /\ op[u].obj = o}}
    BY <2>1 DEF Pushing
  <2> QED BY <2>2 DEF Places
<1>4. CASE \E p \in SlabCpus : \E i \in 0 .. Capacity - 1 : InSlot(p, i, o)
  <2>1. PICK p \in SlabCpus, i \in 0 .. Capacity - 1 : InSlot(p, i, o)
    BY <1>4
  <2>2. i \in 0 .. current[p] - 1 /\ slots[p][i] = o
    BY <2>1, RseqAssumption DEF InSlot, Types, Memory
  <2>3. <<"slab", p, i>> \in {<<"slab", p, k>> : k \in {j \in 0 .. current[p] - 1 : slots[p][j] = o}}
    BY <2>2
  <2>4. <<"slab", p, i>> \in UNION {{<<"slab", q, k>> : k \in {j \in 0 .. current[q] - 1 : slots[q][j] = o}}
                                     : q \in SlabCpus}
    BY <2>3
  <2> QED BY <2>4 DEF Places
<1> QED BY <1>1, <1>2, <1>3, <1>4 DEF Somewhere

-----------------------------------------------------------------------------
(* Theorems *)

\* No object is popped twice or popped while a stack still holds it: when all
\* operations are restartable sequences (asm.rs), also while the supervisor
\* seizes the only CPU, and when all of them take the lock (slab.rs).
THEOREM NeverDoubleHandOut ==
  ASSUME RseqRegime \/ LockedRegime
  PROVE  Spec => []NoDoubleHandOut
<1>1. SlabInv => NoDoubleHandOut
  BY OnePlace DEF SlabInv, DataInv, NoDoubleHandOut
<1> QED BY <1>1, AlwaysSlabInv, PTL

\* No push is overwritten or undone by another commit in the same regimes.
THEOREM NeverLostObject ==
  ASSUME RseqRegime \/ LockedRegime
  PROVE  Spec => []NoLostObject
<1>1. SlabInv => NoLostObject
  BY SomePlace DEF SlabInv, DataInv, NoLostObject
<1> QED BY <1>1, AlwaysSlabInv, PTL

-----------------------------------------------------------------------------
(* What holds in every regime *)

\* The lowest n slots of a stack have been written.
Written(p, n) == \A i \in 0 .. Capacity - 1 : i < n => slots[p][i] \in Objs

\* What a thread knows of its stack whoever else works on it.
Sound(t) ==
  /\ op[t].push => op[t].obj \in Objs /\ op[t].snap \in SlabCpus
  /\ op[t].at \notin {"idle", "start", "fallback"} => op[t].cpu \in SlabCpus
  /\ op[t].at \in Looping => op[t].loops > 0
  /\ op[t].at \in Section => run[t] = op[t].cpu
  /\ op[t].at \in Touching => /\ IF op[t].push THEN op[t].cur < Capacity ELSE op[t].cur > 0
                              /\ Written(op[t].cpu, op[t].cur)
  /\ op[t].at \in {"commit", "lk_store"} =>
       op[t].obj \in Objs /\ (op[t].push => slots[op[t].cpu][op[t].cur] \in Objs)
  /\ sup.at \in {"seized", "pop"} /\ op[t].at \in Section => op[t].cpu # sup.cpu

SupSound ==
  /\ sup.at # "idle" => sup.cpu \in stopped
  /\ sup.at = "pop" => sup.cur > 0 /\ Written(sup.cpu, sup.cur)

WideInv ==
  /\ Types
  /\ \A t \in Threads : Sound(t)
  /\ SupSound
  /\ \A p \in SlabCpus : Written(p, current[p])

\* A slot that was written is never unwritten.
Kept == \A p \in SlabCpus : \A i \in 0 .. Capacity - 1 : slots[p][i] \in Objs => slots'[p][i] \in Objs

\* What a thread knows stays true while it and the supervisor stand still.
LEMMA SoundSame ==
  ASSUME Types, NEW t \in Threads, Sound(t), op'[t] = op[t], run'[t] = run[t],
         UNCHANGED sup, Kept
  PROVE  Sound(t)'
<1>1. op[t] \in Op
  BY DEF Types
<1>2. op[t].at \in Touching => op[t].cpu \in SlabCpus
  BY DEF Sound, Touching
<1>3. op[t].at \in Touching => Written(op[t].cpu, op[t].cur)'
  BY <1>2 DEF Sound, Written, Kept
<1>4. ASSUME op[t].at \in {"commit", "lk_store"}, op[t].push
      PROVE  slots'[op[t].cpu][op[t].cur] \in Objs
  <2>1. op[t].cpu \in SlabCpus /\ op[t].cur \in 0 .. Capacity - 1
    BY <1>1, <1>2, <1>4, RseqAssumption DEF Sound, Touching, Op
  <2> QED BY <1>4, <2>1 DEF Sound, Kept
<1> QED BY <1>3, <1>4 DEF Sound

\* A step of t.
LEMMA WideStep ==
  ASSUME WideInv, NEW t \in Threads, NEW x \in Op, op' = [op EXCEPT ![t] = x],
         run' \in [Threads -> Cpus \cup {NoCpu}],
         \A u \in Threads : u # t => run'[u] = run[u],
         UNCHANGED <<stopped, sup>>, Memory', Kept, Sound(t)',
         \A p \in SlabCpus : Written(p, current[p])'
  PROVE  WideInv'
<1>1. Types'
  BY DEF WideInv, Types
<1>2. ASSUME NEW u \in Threads PROVE Sound(u)'
  <2>1. CASE u = t
    BY <2>1
  <2>2. CASE u # t
    <3>1. op'[u] = op[u] /\ run'[u] = run[u] /\ Sound(u) /\ Types
      BY <2>2 DEF WideInv, Types
    <3> QED BY <3>1, SoundSame
  <2> QED BY <2>1, <2>2
<1>3. SupSound'
  <2>1. sup.at = "pop" => sup.cpu \in SlabCpus
    BY DEF WideInv, SupSound, Types
  <2>2. sup.at = "pop" => Written(sup.cpu, sup.cur)'
    BY <2>1 DEF WideInv, SupSound, Written, Kept
  <2> QED BY <2>2 DEF WideInv, SupSound
<1> QED BY <1>1, <1>2, <1>3 DEF WideInv

\* A step of t that leaves the stacks and the objects alone.
LEMMA WideLocal ==
  ASSUME WideInv, NEW t \in Threads, NEW x \in Op, op' = [op EXCEPT ![t] = x],
         run' \in [Threads -> Cpus \cup {NoCpu}],
         \A u \in Threads : u # t => run'[u] = run[u],
         UNCHANGED <<current, slots, live, central, stopped, sup>>,
         lock' \in [SlabCpus -> Threads \cup {NoThread}], Sound(t)'
  PROVE  WideInv'
<1>1. Memory' /\ Kept /\ \A p \in SlabCpus : Written(p, current[p])'
  BY DEF WideInv, Types, Memory, Kept, Written
<1> QED BY <1>1, WideStep

\* What the invariant says of t, and where its fallback leads.
LEMMA WideThread ==
  ASSUME WideInv, NEW t \in Threads
  PROVE  /\ Types /\ op[t] \in Op /\ Sound(t)
         /\ run[t] \in Cpus \cup {NoCpu} /\ run \in [Threads -> Cpus \cup {NoCpu}]
         /\ lock \in [SlabCpus -> Threads \cup {NoThread}]
         /\ CurrentCpu(t) \in SlabCpus /\ ResolvedCpu(t) \in SlabCpus
<1>1. op[t] \in Op /\ Sound(t) /\ Types /\ run[t] \in Cpus \cup {NoCpu}
  BY DEF WideInv, Types
<1>2. CurrentCpu(t) \in SlabCpus
  BY RseqAssumption DEF CurrentCpu, HasBlock
<1>3. ResolvedCpu(t) \in SlabCpus
  BY <1>1, <1>2 DEF ResolvedCpu, Op
<1> QED BY <1>1, <1>2, <1>3 DEF Types, Memory

\* An object given to the program is counted.
LEMMA HandType ==
  ASSUME Memory, NEW o \in Objs, Hand(o)
  PROVE  live' \in [Objs -> 0 .. 2]
<1>1. live[o] \in 0 .. 2 /\ live \in [Objs -> 0 .. 2]
  BY DEF Memory
<1>2. (IF live[o] < 2 THEN live[o] + 1 ELSE 2) \in 0 .. 2
  BY <1>1
<1> QED BY <1>1, <1>2 DEF Hand

\* The slow path.
LEMMA WideSlow ==
  ASSUME WideInv, NEW t \in Threads, NeedsSlow(t),
         UNCHANGED <<run, current, slots, stopped, sup>>,
         lock' \in [SlabCpus -> Threads \cup {NoThread}]
  PROVE  WideInv'
<1>1. op[t] \in Op /\ Sound(t) /\ Types /\ Memory /\ run' \in [Threads -> Cpus \cup {NoCpu}]
  BY WideThread DEF Types
<1>2. op' = [op EXCEPT ![t] = Idle] /\ op'[t] = Idle
  BY <1>1 DEF NeedsSlow, Goto, Types
<1>3. Idle \in Op /\ ~Idle.push /\ Idle.at = "idle"
  BY <1>2, IdleOp DEF Idle
<1>4. Sound(t)'
  BY <1>2, <1>3 DEF Sound, Looping, InSection, Section, Touching
<1>5. live' \in [Objs -> 0 .. 2] /\ central' \subseteq Objs
  <2>1. CASE op[t].push
    BY <1>1, <2>1 DEF NeedsSlow, Sound, Memory
  <2>2. CASE ~op[t].push /\ UNCHANGED objects
    BY <1>1, <2>2 DEF objects, Memory
  <2>3. CASE ~op[t].push /\ \E o \in central : central' = central \ {o} /\ Hand(o)
    <3>1. PICK o \in central : central' = central \ {o} /\ Hand(o)
      BY <2>3
    <3> QED BY <1>1, <3>1, HandType DEF Memory
  <2> QED BY <2>1, <2>2, <2>3 DEF NeedsSlow
<1>6. Memory' /\ Kept /\ \A p \in SlabCpus : Written(p, current[p])'
  BY <1>1, <1>5 DEF WideInv, Memory, Kept, Written
<1> QED BY <1>1, <1>2, <1>3, <1>4, <1>6, WideStep

\* Between load and store: the slot is written or read.
LEMMA WideSlot ==
  ASSUME WideInv, NEW t \in Threads, NEW place \in {"commit", "lk_store"}, Slot(t, place),
         op[t].at \in {"slot", "lk_slot"}, (op[t].at = "slot") <=> (place = "commit"),
         UNCHANGED <<run, current, lock, stopped, live, central, sup>>
  PROVE  WideInv'
<1>1. /\ op[t] \in Op /\ Sound(t) /\ Types /\ Memory
      /\ run' \in [Threads -> Cpus \cup {NoCpu}] /\ lock' \in [SlabCpus -> Threads \cup {NoThread}]
  BY WideThread DEF Types
<1>2. /\ op[t].cpu \in SlabCpus /\ op[t].cur \in 0 .. Capacity
      /\ Written(op[t].cpu, op[t].cur)
      /\ IF op[t].push THEN op[t].cur < Capacity ELSE op[t].cur > 0
  BY <1>1 DEF Sound, Touching, Op
<1>3. (op[t].at \in Section) <=> (place = "commit")
  BY DEF Section
<1>4. CASE op[t].push
  <2>1. PICK x \in Op : /\ x = [op[t] EXCEPT !.at = place]
                        /\ x.at = place /\ x.push /\ x.obj = op[t].obj /\ x.snap = op[t].snap
                        /\ x.cpu = op[t].cpu /\ x.cur = op[t].cur /\ x.loops = op[t].loops
    <3> DEFINE v == [op[t] EXCEPT !.at = place]
    <3>v. /\ v \in Op /\ v.at = place /\ v.push /\ v.obj = op[t].obj /\ v.snap = op[t].snap
          /\ v.cpu = op[t].cpu /\ v.cur = op[t].cur /\ v.loops = op[t].loops
      BY <1>1, <1>4 DEF Op, OpPlaces, Section, Holding
    <3> QED BY <3>v
  <2>2. /\ op' = [op EXCEPT ![t] = x] /\ op'[t] = x
        /\ slots' = [slots EXCEPT ![op[t].cpu][op[t].cur] = op[t].obj]
    BY <1>1, <1>4, <2>1 DEF Slot, Move, Goto, Types
  <2>3. op[t].obj \in Objs /\ op[t].snap \in SlabCpus /\ op[t].cur \in 0 .. Capacity - 1
    BY <1>1, <1>2, <1>4, RseqAssumption DEF Sound
  <2>4. /\ slots' \in [SlabCpus -> [0 .. Capacity - 1 -> Objs \cup {NoObj}]] /\ Kept
        /\ slots'[op[t].cpu][op[t].cur] \in Objs
    BY <1>1, <1>2, <2>2, <2>3 DEF Memory, Kept
  <2>5. Written(op[t].cpu, op[t].cur)' /\ \A p \in SlabCpus : Written(p, current[p])'
    BY <1>2, <2>2, <2>1, <2>4 DEF WideInv, Written, Kept
  <2>6. Sound(t)'
    <3>1. Written(x.cpu, x.cur)'
      BY <1>2, <2>1, <2>4 DEF Written, Kept
    <3> QED BY <1>1, <1>2, <1>3, <2>1, <2>2, <2>3, <2>4, <3>1
        DEF Sound, Looping, InSection, Section, Touching
  <2> QED BY <1>1, <2>1, <2>2, <2>4, <2>5, <2>6, WideStep DEF Memory
<1>5. CASE ~op[t].push
  <2>0. op[t].cur - 1 \in 0 .. Capacity - 1 /\ slots[op[t].cpu][op[t].cur - 1] \in Objs
    BY <1>2, <1>5, RseqAssumption DEF Written
  <2>1. PICK x \in Op : /\ x = [op[t] EXCEPT !.at = place, !.obj = slots[op[t].cpu][op[t].cur - 1]]
                        /\ x.at = place /\ ~x.push /\ x.obj \in Objs
                        /\ x.cpu = op[t].cpu /\ x.cur = op[t].cur /\ x.loops = op[t].loops
    <3> DEFINE v == [op[t] EXCEPT !.at = place, !.obj = slots[op[t].cpu][op[t].cur - 1]]
    <3>v. /\ v \in Op /\ v.at = place /\ ~v.push /\ v.obj \in Objs
          /\ v.cpu = op[t].cpu /\ v.cur = op[t].cur /\ v.loops = op[t].loops
      BY <1>1, <1>5, <2>0 DEF Op, OpPlaces, Section, Holding
    <3> QED BY <3>v
  <2>2. op' = [op EXCEPT ![t] = x] /\ op'[t] = x /\ UNCHANGED slots
    BY <1>1, <1>5, <2>1 DEF Slot, Goto, Types
  <2>3. Sound(t)'
    <3>1. Written(x.cpu, x.cur)'
      BY <1>2, <2>1, <2>2 DEF Written
    <3> QED BY <1>1, <1>2, <1>3, <1>5, <2>1, <2>2, <3>1
        DEF Sound, Looping, InSection, Section, Touching
  <2> QED BY <1>1, <2>1, <2>2, <2>3, WideLocal
<1> QED BY <1>4, <1>5

\* The store of current.
LEMMA WideStore ==
  ASSUME WideInv, NEW t \in Threads, Store(t), op[t].at \in {"commit", "lk_store"},
         UNCHANGED <<run, slots, stopped, central, sup>>,
         lock' \in [SlabCpus -> Threads \cup {NoThread}]
  PROVE  WideInv'
<1>1. op[t] \in Op /\ Sound(t) /\ Types /\ Memory /\ run' \in [Threads -> Cpus \cup {NoCpu}]
  BY WideThread DEF Types
<1>2. /\ op[t].cpu \in SlabCpus /\ op[t].cur \in 0 .. Capacity /\ op[t].obj \in Objs
      /\ Written(op[t].cpu, op[t].cur)
      /\ IF op[t].push THEN op[t].cur < Capacity ELSE op[t].cur > 0
      /\ op[t].push => slots[op[t].cpu][op[t].cur] \in Objs
  BY <1>1 DEF Sound, Touching, Op
<1>3. op' = [op EXCEPT ![t] = Idle] /\ op'[t] = Idle
  BY <1>1 DEF Store, Goto, Types
<1>4. Idle \in Op /\ ~Idle.push /\ Idle.at = "idle"
  BY <1>3, IdleOp DEF Idle
<1>5. Sound(t)'
  BY <1>3, <1>4 DEF Sound, Looping, InSection, Section, Touching
<1>6. PICK n : /\ n = (IF op[t].push THEN op[t].cur + 1 ELSE op[t].cur - 1)
               /\ current' = [current EXCEPT ![op[t].cpu] = n]
  BY DEF Store
<1>7. n \in 0 .. Capacity
  BY <1>2, <1>6, RseqAssumption
<1>8. \A p \in SlabCpus : Written(p, current[p])'
  <2>1. \A i \in 0 .. Capacity - 1 : i < n => slots[op[t].cpu][i] \in Objs
    <3>1. ASSUME NEW i \in 0 .. Capacity - 1, i < n PROVE i < op[t].cur \/ (op[t].push /\ i = op[t].cur)
      BY <1>2, <1>6, <3>1, RseqAssumption
    <3> QED BY <1>2, <3>1 DEF Written
  <2>2. \A p \in SlabCpus : current'[p] = IF p = op[t].cpu THEN n ELSE current[p]
    BY <1>1, <1>6 DEF Memory
  <2> QED BY <2>1, <2>2 DEF WideInv, Written
<1>9. live' \in [Objs -> 0 .. 2]
  BY <1>1, <1>2, HandType DEF Store, Memory
<1>10. Memory' /\ Kept
  BY <1>1, <1>2, <1>6, <1>7, <1>9 DEF Memory, Kept
<1> QED BY <1>1, <1>3, <1>4, <1>5, <1>8, <1>10, WideStep

\* Both loads: to the slow path, or on to the slot.
LEMMA WideLoad ==
  ASSUME WideInv, NEW t \in Threads, NEW place \in {"slot", "lk_slot"},
         op[t].at \in {"load", "lk_load"}, (op[t].at = "load") <=> (place = "slot"),
         ~NoRoom(op[t], current[op[t].cpu]),
         Goto(t, [op[t] EXCEPT !.at = place, !.cur = current[op[t].cpu]]),
         UNCHANGED <<run, current, slots, lock, live, central, stopped, sup>>
  PROVE  WideInv'
<1>1. /\ op[t] \in Op /\ Sound(t) /\ Types /\ Memory
      /\ run' \in [Threads -> Cpus \cup {NoCpu}] /\ lock' \in [SlabCpus -> Threads \cup {NoThread}]
  BY WideThread DEF Types
<1> DEFINE n == current[op[t].cpu]
<1>2. op[t].cpu \in SlabCpus /\ n \in 0 .. Capacity /\ Written(op[t].cpu, n)
  BY <1>1 DEF Sound, Memory, WideInv
<1>3. IF op[t].push THEN n < Capacity ELSE n > 0
  BY <1>2, RseqAssumption DEF NoRoom
<1>4. PICK x \in Op : /\ x = [op[t] EXCEPT !.at = place, !.cur = n]
                      /\ x.at = place /\ x.cur = n /\ x.push = op[t].push /\ x.obj = op[t].obj
                      /\ x.snap = op[t].snap /\ x.cpu = op[t].cpu /\ x.loops = op[t].loops
  <2> DEFINE v == [op[t] EXCEPT !.at = place, !.cur = n]
  <2>v. /\ v \in Op /\ v.at = place /\ v.cur = n /\ v.push = op[t].push /\ v.obj = op[t].obj
        /\ v.snap = op[t].snap /\ v.cpu = op[t].cpu /\ v.loops = op[t].loops
    BY <1>1, <1>2 DEF Op, OpPlaces, Section, Holding
  <2> QED BY <2>v
<1>5. op' = [op EXCEPT ![t] = x] /\ op'[t] = x
  BY <1>1, <1>4 DEF Goto, Types
<1>6. Sound(t)'
  <2>1. Written(x.cpu, x.cur)'
    BY <1>2, <1>4 DEF Written
  <2> HIDE DEF n
  <2> QED BY <1>1, <1>2, <1>3, <1>4, <1>5, <2>1
      DEF Sound, Looping, InSection, Section, Touching
<1> QED BY <1>1, <1>4, <1>5, <1>6, WideLocal

\* A step of t to a place where it has nothing from a stack in hand.
LEMMA WideMove ==
  ASSUME WideInv, NEW t \in Threads, NEW x \in Op, op' = [op EXCEPT ![t] = x],
         UNCHANGED <<run, current, slots, live, central, stopped, sup>>,
         lock' \in [SlabCpus -> Threads \cup {NoThread}],
         x.push = op[t].push, x.obj = op[t].obj, x.snap = op[t].snap,
         x.at \in {"start", "arm", "check", "load", "fallback", "lk_wait", "lk_load"},
         x.at \notin {"start", "fallback"} => x.cpu \in SlabCpus,
         x.at \in Looping => x.loops > 0,
         x.at = "load" => run[t] = x.cpu /\ x.cpu \notin stopped
  PROVE  WideInv'
<1>1. Sound(t) /\ Types /\ SupSound /\ run' \in [Threads -> Cpus \cup {NoCpu}]
  BY WideThread DEF WideInv
<1>2. op'[t] = x
  BY <1>1 DEF Types
<1>3. x.at \in Section => x.at = "load"
  BY DEF Section
<1>4. x.at \notin Touching /\ x.at \notin {"commit", "lk_store"}
  BY DEF Touching
<1>5. Sound(t)'
  BY <1>1, <1>2, <1>3, <1>4 DEF Sound, SupSound
<1> QED BY <1>1, <1>5, WideLocal

\* A move that only changes the place.
LEMMA WideAt ==
  ASSUME WideInv, NEW t \in Threads, NEW place \in {"start", "arm", "check", "load", "fallback", "lk_load"},
         Move(t, place), UNCHANGED <<run, current, slots, live, central, stopped, sup>>,
         lock' \in [SlabCpus -> Threads \cup {NoThread}],
         op[t].at \in {"start", "arm", "check", "lk_wait"},
         place \in {"arm", "check", "load"} => op[t].at \in {"arm", "check"},
         place = "lk_load" => op[t].at = "lk_wait",
         place = "start" => op[t].at \in Looping,
         place = "load" => run[t] = op[t].cpu /\ op[t].cpu \notin stopped
  PROVE  WideInv'
<1>1. op[t] \in Op /\ Sound(t) /\ Types
  BY WideThread
<1>2. PICK x \in Op : /\ x = [op[t] EXCEPT !.at = place]
                      /\ x.at = place /\ x.push = op[t].push /\ x.obj = op[t].obj
                      /\ x.snap = op[t].snap /\ x.cpu = op[t].cpu /\ x.loops = op[t].loops
  <2> DEFINE v == [op[t] EXCEPT !.at = place]
  <2>v. /\ v \in Op /\ v.at = place /\ v.push = op[t].push /\ v.obj = op[t].obj
        /\ v.snap = op[t].snap /\ v.cpu = op[t].cpu /\ v.loops = op[t].loops
    BY <1>1 DEF Op, OpPlaces, Section, Holding
  <2> QED BY <2>v
<1>3. op' = [op EXCEPT ![t] = x]
  BY <1>2 DEF Move, Goto
<1>4. x.at \notin {"start", "fallback"} => x.cpu \in SlabCpus
  BY <1>1, <1>2 DEF Sound
<1>5. x.at \in Looping => x.loops > 0
  BY <1>1, <1>2 DEF Sound, Looping, InSection
<1> QED BY <1>2, <1>3, <1>4, <1>5, WideMove

\* An operation begins.
LEMMA WideBegin ==
  ASSUME WideInv, NEW t \in Threads, StartPop(t) \/ \E o \in Objs : StartPush(t, o)
  PROVE  WideInv'
<1>1. /\ op[t] \in Op /\ Sound(t) /\ Types /\ Memory /\ CurrentCpu(t) \in SlabCpus
      /\ run \in [Threads -> Cpus \cup {NoCpu}]
  BY WideThread DEF Types
<1>2. Idle \in Op /\ Loops \in Nat /\ Loops > 0 /\ "start" \in OpPlaces
  BY RseqAssumption DEF Idle, Op, OpPlaces
<1>3. CASE StartPop(t)
  <2>1. PICK x \in Op : /\ x = [Idle EXCEPT !.at = "start", !.loops = Loops]
                        /\ ~x.push /\ x.at = "start" /\ x.loops > 0
    <3> DEFINE v == [Idle EXCEPT !.at = "start", !.loops = Loops]
    <3>v. v \in Op /\ ~v.push /\ v.at = "start" /\ v.loops > 0
      BY <1>2 DEF Op, Idle
    <3> QED BY <3>v
  <2>2. op' = [op EXCEPT ![t] = x] /\ op'[t] = x
    BY <1>1, <1>3, <2>1 DEF StartPop, Goto, Types
  <2>3. Sound(t)'
    BY <2>1, <2>2 DEF Sound, Section, Touching
  <2>4. UNCHANGED <<run, current, slots, lock, live, central, stopped, sup>>
    BY <1>3 DEF StartPop, slab, objects
  <2> QED BY <1>1, <2>1, <2>2, <2>3, <2>4, WideLocal DEF Memory
<1>4. ASSUME NEW o \in Objs, StartPush(t, o) PROVE WideInv'
  <2>1. PICK x \in Op :
                        /\ x = [Idle EXCEPT !.at = "start", !.loops = Loops, !.push = TRUE, !.obj = o, !.snap = CurrentCpu(t)]
                        /\ x.push /\ x.obj = o /\ x.snap \in SlabCpus
                        /\ x.at = "start" /\ x.loops > 0
    <3> DEFINE v == [Idle EXCEPT !.at = "start", !.loops = Loops, !.push = TRUE, !.obj = o, !.snap = CurrentCpu(t)]
    <3>v. v \in Op /\ v.push /\ v.obj = o /\ v.snap \in SlabCpus /\ v.at = "start" /\ v.loops > 0
      BY <1>1, <1>2 DEF Op, Idle
    <3> QED BY <3>v
  <2>2. op' = [op EXCEPT ![t] = x] /\ op'[t] = x
    BY <1>1, <1>4, <2>1 DEF StartPush, Goto, Types
  <2>3. Sound(t)'
    BY <2>1, <2>2 DEF Sound, Section, Touching
  <2>4. UNCHANGED <<run, current, slots, lock, central, stopped, sup>>
    BY <1>4 DEF StartPush, slab
  <2>5. live' \in [Objs -> 0 .. 2]
    <3>1. live \in [Objs -> 0 .. 2] /\ live[o] > 0 /\ live' = [live EXCEPT ![o] = @ - 1]
      BY <1>1, <1>4 DEF StartPush, Memory
    <3>2. live[o] - 1 \in 0 .. 2
      BY <3>1
    <3> QED BY <3>1, <3>2
  <2>6. Memory' /\ Kept /\ \A p \in SlabCpus : Written(p, current[p])'
    BY <1>1, <2>4, <2>5 DEF WideInv, Memory, Kept, Written
  <2> QED BY <1>1, <2>1, <2>2, <2>3, <2>4, <2>6, WideStep
<1> QED BY <1>3, <1>4

\* The steps of a restartable sequence.
LEMMA WideRseq ==
  ASSUME WideInv, NEW t \in Threads, RseqStep(t)
  PROVE  WideInv'
<1>1. /\ op[t] \in Op /\ Sound(t) /\ Types /\ lock \in [SlabCpus -> Threads \cup {NoThread}]
  BY WideThread
<1>2. CASE RseqStart(t)
  <2>1. UNCHANGED <<run, current, slots, lock, live, central, stopped, sup>> /\ op[t].at = "start"
    BY <1>2 DEF RseqStart, slab, objects, At
  <2>2. op[t].loops \in Nat /\ op[t].loops > 0
    BY <1>1, <2>1 DEF Sound, Looping, Op
  <2>3. CASE ~HasBlock(t) \/ op[t].loops - 1 = 0
    <3>1. Move(t, "fallback")
      BY <1>2, <2>3 DEF RseqStart, Retry
    <3> QED BY <1>1, <2>1, <3>1, WideAt
  <2>4. CASE HasBlock(t) /\ op[t].loops - 1 # 0
    <3>1. CpuIdStart(t) \in SlabCpus /\ op[t].loops - 1 \in Nat /\ op[t].loops - 1 > 0
      BY <2>2, <2>4 DEF HasBlock
    <3>2. PICK x \in Op :
               /\ x = [op[t] EXCEPT !.at = "arm", !.cpu = CpuIdStart(t), !.loops = op[t].loops - 1]
               /\ x.at = "arm" /\ x.cpu \in SlabCpus /\ x.loops > 0
               /\ x.push = op[t].push /\ x.obj = op[t].obj /\ x.snap = op[t].snap
      <4> DEFINE v == [op[t] EXCEPT !.at = "arm", !.cpu = CpuIdStart(t), !.loops = op[t].loops - 1]
      <4>v. /\ v \in Op /\ v.at = "arm" /\ v.cpu \in SlabCpus /\ v.loops > 0
            /\ v.push = op[t].push /\ v.obj = op[t].obj /\ v.snap = op[t].snap
        BY <1>1, <3>1 DEF Op, OpPlaces
      <4> QED BY <4>v
    <3>3. op' = [op EXCEPT ![t] = x]
      BY <1>2, <2>4, <3>2 DEF RseqStart, Retry, Goto
    <3> QED BY <1>1, <2>1, <3>2, <3>3, WideMove
  <2> QED BY <2>3, <2>4
<1>3. CASE RseqArm(t)
  BY <1>1, <1>3, WideAt DEF RseqArm, At, slab, objects
<1>4. CASE RseqCheck(t)
  <2>1. /\ UNCHANGED <<run, current, slots, lock, live, central, stopped, sup>>
        /\ op[t].at = "check" /\ op[t].at \in Looping
    BY <1>4 DEF RseqCheck, At, slab, objects, Looping, InSection
  <2>2. CASE op[t].cpu # run[t]
    <3>1. Move(t, "start")
      BY <1>4, <2>2 DEF RseqCheck
    <3> QED BY <1>1, <2>1, <3>1, WideAt
  <2>3. CASE op[t].cpu = run[t] /\ op[t].cpu \in stopped
    <3>1. Move(t, "fallback")
      BY <1>4, <2>3 DEF RseqCheck
    <3> QED BY <1>1, <2>1, <3>1, WideAt
  <2>4. CASE op[t].cpu = run[t] /\ op[t].cpu \notin stopped
    <3>1. Move(t, "load")
      BY <1>4, <2>4 DEF RseqCheck
    <3> QED BY <1>1, <2>1, <2>4, <3>1, WideAt
  <2> QED BY <2>2, <2>3, <2>4
<1>5. CASE RseqLoad(t)
  <2>1. UNCHANGED <<run, current, slots, lock, stopped, sup>> /\ op[t].at = "load"
    BY <1>5 DEF RseqLoad, slab, At
  <2>2. CASE NoRoom(op[t], current[op[t].cpu])
    <3>1. NeedsSlow(t)
      BY <1>5, <2>2 DEF RseqLoad
    <3> QED BY <1>1, <2>1, <3>1, WideSlow
  <2>3. CASE ~NoRoom(op[t], current[op[t].cpu])
    <3>1. /\ Goto(t, [op[t] EXCEPT !.at = "slot", !.cur = current[op[t].cpu]])
          /\ UNCHANGED <<live, central>>
      BY <1>5, <2>3 DEF RseqLoad, objects
    <3> QED BY <2>1, <2>3, <3>1, WideLoad
  <2> QED BY <2>2, <2>3
<1>6. CASE RseqSlot(t)
  BY <1>6, WideSlot DEF RseqSlot, At, objects
<1>7. CASE RseqCommit(t)
  BY <1>1, <1>7, WideStore DEF RseqCommit, At
<1> QED BY <1>2, <1>3, <1>4, <1>5, <1>6, <1>7 DEF RseqStep

\* The steps of the locked path.
LEMMA WideLocked ==
  ASSUME WideInv, NEW t \in Threads, LockedStep(t)
  PROVE  WideInv'
<1>1. /\ op[t] \in Op /\ Sound(t) /\ Types /\ lock \in [SlabCpus -> Threads \cup {NoThread}]
      /\ ResolvedCpu(t) \in SlabCpus
  BY WideThread
<1>2. CASE LockedCheck(t)
  <2>1. UNCHANGED <<run, current, slots, lock, stopped, sup>> /\ op[t].at = "fallback"
    BY <1>2 DEF LockedCheck, slab, At
  <2>2. CASE ResolvedCpu(t) \in stopped
    <3>1. NeedsSlow(t)
      BY <1>2, <2>2 DEF LockedCheck
    <3> QED BY <1>1, <2>1, <3>1, WideSlow
  <2>3. CASE ResolvedCpu(t) \notin stopped
    <3>1. PICK x \in Op : /\ x = [op[t] EXCEPT !.at = "lk_wait", !.cpu = ResolvedCpu(t)]
                          /\ x.at = "lk_wait" /\ x.cpu \in SlabCpus
                          /\ x.push = op[t].push /\ x.obj = op[t].obj /\ x.snap = op[t].snap
      <4> DEFINE v == [op[t] EXCEPT !.at = "lk_wait", !.cpu = ResolvedCpu(t)]
      <4>v. /\ v \in Op /\ v.at = "lk_wait" /\ v.cpu \in SlabCpus
            /\ v.push = op[t].push /\ v.obj = op[t].obj /\ v.snap = op[t].snap
        BY <1>1 DEF Op, OpPlaces
      <4> QED BY <4>v
    <3>2. op' = [op EXCEPT ![t] = x] /\ UNCHANGED <<live, central>>
      BY <1>2, <2>3, <3>1 DEF LockedCheck, Goto, objects
    <3>3. x.at \notin Looping
      BY <3>1 DEF Looping, InSection
    <3> QED BY <1>1, <2>1, <3>1, <3>2, <3>3, WideMove
  <2> QED BY <2>2, <2>3
<1>3. CASE LockedAcquire(t)
  <2>1. lock' \in [SlabCpus -> Threads \cup {NoThread}]
    BY <1>1, <1>3 DEF LockedAcquire
  <2> QED BY <1>3, <2>1, WideAt DEF LockedAcquire, At, slab, objects
<1>4. Release(t) => lock' \in [SlabCpus -> Threads \cup {NoThread}]
  BY <1>1 DEF Release
<1>5. CASE LockedLoad(t)
  <2>1. UNCHANGED <<run, current, slots, stopped, sup>> /\ op[t].at = "lk_load"
    BY <1>5 DEF LockedLoad, slab, At
  <2>2. CASE NoRoom(op[t], current[op[t].cpu])
    <3>1. NeedsSlow(t) /\ Release(t)
      BY <1>5, <2>2 DEF LockedLoad
    <3> QED BY <1>4, <2>1, <3>1, WideSlow
  <2>3. CASE ~NoRoom(op[t], current[op[t].cpu])
    <3>1. /\ Goto(t, [op[t] EXCEPT !.at = "lk_slot", !.cur = current[op[t].cpu]])
          /\ UNCHANGED <<live, central, lock>>
      BY <1>5, <2>3 DEF LockedLoad, objects
    <3> QED BY <2>1, <2>3, <3>1, WideLoad
  <2> QED BY <2>2, <2>3
<1>6. CASE LockedSlot(t)
  BY <1>6, WideSlot DEF LockedSlot, At, objects
<1>7. CASE LockedStore(t)
  BY <1>4, <1>7, WideStore DEF LockedStore, At
<1> QED BY <1>2, <1>3, <1>5, <1>6, <1>7 DEF LockedStep

\* The kernel puts t on a CPU or takes it off.
LEMMA WideKernel ==
  ASSUME WideInv, Kernel
  PROVE  WideInv'
<1>1. PICK t \in Threads : Preempt(t) \/ \E p \in Cpus : Resume(t, p)
  BY DEF Kernel
<1>2. /\ op[t] \in Op /\ Sound(t) /\ Types /\ lock \in [SlabCpus -> Threads \cup {NoThread}]
      /\ run \in [Threads -> Cpus \cup {NoCpu}]
  BY WideThread
<1>3. UNCHANGED <<current, slots, lock, stopped, live, central, sup>>
  BY <1>1 DEF Preempt, Resume, slab, objects
<1>4. CASE Preempt(t)
  <2>1. PICK x \in Op : /\ x = Abort(op[t])
                        /\ x.push = op[t].push /\ x.obj = op[t].obj /\ x.snap = op[t].snap
                        /\ x.cpu = op[t].cpu /\ x.cur = op[t].cur /\ x.loops = op[t].loops
                        /\ x.at = IF op[t].at \in {"check"} \cup Section THEN "start" ELSE op[t].at
    BY <1>2, AbortOp
  <2>2. /\ op' = [op EXCEPT ![t] = x] /\ op'[t] = x
        /\ run' = [run EXCEPT ![t] = NoCpu]
    BY <1>2, <1>4, <2>1 DEF Preempt, Goto, Types
  <2>3. x.at \notin Section /\ (x.at \in Looping => op[t].at \in Looping)
    BY <2>1 DEF Section, Looping, InSection
  <2>4. x.at = op[t].at \/ x.at = "start"
    BY <2>1
  <2>5. x.at \in Touching => Written(x.cpu, x.cur)'
    BY <1>2, <1>3, <2>1, <2>4 DEF Sound, Written, Touching
  <2>6. Sound(t)'
    BY <1>2, <1>3, <2>1, <2>2, <2>3, <2>4, <2>5 DEF Sound, Touching
  <2> QED BY <1>2, <1>3, <2>2, <2>6, WideLocal
<1>5. ASSUME NEW p \in Cpus, Resume(t, p) PROVE WideInv'
  <2>1. /\ run[t] = NoCpu /\ run' = [run EXCEPT ![t] = p]
        /\ op' = [op EXCEPT ![t] = op[t]] /\ op'[t] = op[t]
    BY <1>2, <1>5 DEF Resume, Runs, Types
  <2>2. op[t].at \notin Section
    BY <1>2, <2>1, RseqAssumption DEF Sound, Section
  <2>3. op[t].at \in Touching => Written(op[t].cpu, op[t].cur)'
    BY <1>2, <1>3, <2>1 DEF Sound, Written
  <2>4. Sound(t)'
    BY <1>2, <1>3, <2>1, <2>2, <2>3 DEF Sound
  <2> QED BY <1>2, <1>3, <2>1, <2>4, WideLocal
<1> QED BY <1>1, <1>4, <1>5

\* A step of the supervisor that leaves the threads and the slots alone.
LEMMA WideSup ==
  ASSUME WideInv, sup' \in Sup, stopped' \subseteq SlabCpus, Memory', SupSound',
         UNCHANGED <<run, op, slots>>, \A p \in SlabCpus : Written(p, current[p])',
         sup'.at \in {"seized", "pop"} => sup.at \in {"seized", "pop"} /\ sup'.cpu = sup.cpu
  PROVE  WideInv'
<1>1. Types'
  BY DEF WideInv, Types
<1>2. ASSUME NEW t \in Threads PROVE Sound(t)'
  <2>1. Sound(t) /\ op[t] \in Op
    BY DEF WideInv, Types
  <2>2. op[t].at \in Touching => Written(op[t].cpu, op[t].cur)'
    BY <2>1 DEF Sound, Written
  <2> QED BY <2>1, <2>2 DEF Sound
<1> QED BY <1>1, <1>2 DEF WideInv

\* The membarrier aborts every sequence on the CPU that is being seized.
LEMMA WideBarrier ==
  ASSUME WideInv, Membarrier
  PROVE  WideInv'
<1>1. /\ sup.at = "barrier" /\ sup' = [sup EXCEPT !.at = "seized"]
      /\ op' = [t \in Threads |-> Fenced(t)]
      /\ UNCHANGED <<run, current, slots, lock, stopped, live, central>>
  BY DEF Membarrier, slab, objects
<1>2. sup' \in Sup /\ sup'.at = "seized" /\ sup'.cpu = sup.cpu
  BY <1>1 DEF WideInv, Types, Sup
<1>3. ASSUME NEW t \in Threads
      PROVE  /\ op'[t] \in Op /\ op'[t].push = op[t].push /\ op'[t].obj = op[t].obj
             /\ op'[t].snap = op[t].snap /\ op'[t].cpu = op[t].cpu /\ op'[t].cur = op[t].cur
             /\ op'[t].loops = op[t].loops
             /\ op'[t].at = IF run[t] = sup.cpu /\ op[t].at \in {"check"} \cup Section
                            THEN "start" ELSE op[t].at
  <2>1. op'[t] = (IF run[t] = sup.cpu THEN Abort(op[t]) ELSE op[t]) /\ op[t] \in Op
    BY <1>1 DEF Fenced, WideInv, Types
  <2> QED BY <2>1, AbortOp
<1>4. ASSUME NEW t \in Threads PROVE Sound(t)'
  <2>1. Sound(t)
    BY DEF WideInv
  <2>2. op'[t].at = op[t].at \/ (op'[t].at = "start" /\ op[t].at \in Looping)
    BY <1>3 DEF Section, Looping, InSection
  <2>3. op'[t].at \in Section => op'[t].at = op[t].at /\ run[t] = op[t].cpu /\ run[t] # sup.cpu
    BY <1>3, <2>1 DEF Sound, Section
  <2>4. op'[t].at \in Touching => op'[t].at = op[t].at
    BY <2>2 DEF Touching
  <2>5. op'[t].at \in Touching => Written(op[t].cpu, op[t].cur)'
    BY <1>1, <1>3, <2>1, <2>4 DEF Sound, Written
  <2> QED BY <1>1, <1>2, <1>3, <2>1, <2>2, <2>3, <2>4, <2>5 DEF Sound
<1>5. SupSound'
  BY <1>1, <1>2 DEF WideInv, SupSound
<1>6. Types'
  BY <1>1, <1>2, <1>3 DEF WideInv, Types, Memory
<1>7. \A p \in SlabCpus : Written(p, current[p])'
  BY <1>1 DEF WideInv, Written
<1> QED BY <1>4, <1>5, <1>6, <1>7 DEF WideInv

\* The steps of the supervisor.
LEMMA WideSeize ==
  ASSUME WideInv, Seize
  PROVE  WideInv'
<1>1. Types /\ SupSound /\ Memory /\ sup \in Sup /\ stopped \subseteq SlabCpus
  BY DEF WideInv, Types
<1>2. SupIdle \in Sup /\ SupIdle.at = "idle"
  BY RseqAssumption DEF SupIdle, Sup
<1>3. UNCHANGED <<current, slots, lock, live, central>>
        => Memory' /\ \A p \in SlabCpus : Written(p, current[p])'
  BY DEF WideInv, Types, Memory, Written
<1>4. CASE \E p \in Seizing : SetStopped(p)
  <2>1. PICK p \in Seizing : SetStopped(p)
    BY <1>4
  <2>2. /\ stopped' = stopped \cup {p} /\ p \in SlabCpus
        /\ sup' = [SupIdle EXCEPT !.at = "barrier", !.cpu = p]
        /\ UNCHANGED <<run, current, slots, lock, live, central, op>>
    BY <2>1, RseqAssumption DEF SetStopped, slab, objects
  <2>3. sup' \in Sup /\ sup'.at = "barrier" /\ sup'.cpu = p
    <3>1. 0 \in 0 .. Capacity
      BY RseqAssumption
    <3> QED BY <2>2, <3>1 DEF SupIdle, Sup
  <2>4. SupSound'
    BY <2>2, <2>3 DEF SupSound
  <2> QED BY <1>1, <1>3, <2>2, <2>3, <2>4, WideSup
<1>5. CASE MembarrierFailed \/ DropGuard
  <2>1. sup' = SupIdle /\ stopped' \subseteq SlabCpus
        /\ UNCHANGED <<run, current, slots, lock, live, central, op>>
    BY <1>1, <1>5 DEF MembarrierFailed, DropGuard, slab, objects
  <2>2. SupSound'
    BY <1>2, <2>1 DEF SupSound
  <2> QED BY <1>2, <1>3, <2>1, <2>2, WideSup
<1>6. CASE RebalanceLoad
  <2>1. /\ sup.at = "seized" /\ current[sup.cpu] > 0
        /\ sup' = [sup EXCEPT !.at = "pop", !.cur = current[sup.cpu]]
        /\ UNCHANGED <<run, current, slots, lock, stopped, live, central, op>>
    BY <1>6 DEF RebalanceLoad, slab, objects
  <2>2. sup.cpu \in SlabCpus /\ sup.cpu \in stopped
    BY <1>1, <2>1 DEF SupSound
  <2>3. current[sup.cpu] \in 0 .. Capacity /\ Written(sup.cpu, current[sup.cpu])
    BY <1>1, <2>2 DEF WideInv, Memory
  <2>4. sup' \in Sup /\ sup'.at = "pop" /\ sup'.cpu = sup.cpu /\ sup'.cur = current[sup.cpu]
    BY <1>1, <2>1, <2>3 DEF Sup
  <2>5. SupSound'
    BY <2>1, <2>2, <2>3, <2>4 DEF SupSound, Written
  <2> QED BY <1>1, <1>3, <2>1, <2>4, <2>5, WideSup
<1>7. CASE RebalancePop
  <2>1. /\ sup.at = "pop" /\ current' = [current EXCEPT ![sup.cpu] = sup.cur - 1]
        /\ central' = central \cup {slots[sup.cpu][sup.cur - 1]}
        /\ sup' = [sup EXCEPT !.at = "seized", !.cur = 0]
        /\ UNCHANGED <<run, slots, lock, stopped, live, op>>
    BY <1>7 DEF RebalancePop
  <2>2. /\ sup.cpu \in SlabCpus /\ sup.cpu \in stopped /\ sup.cur \in 0 .. Capacity
        /\ sup.cur > 0 /\ Written(sup.cpu, sup.cur)
    BY <1>1, <2>1 DEF SupSound, Sup
  <2>3. sup.cur - 1 \in 0 .. Capacity /\ sup.cur - 1 \in 0 .. Capacity - 1 /\ 0 \in 0 .. Capacity
    BY <2>2, RseqAssumption
  <2>4. slots[sup.cpu][sup.cur - 1] \in Objs
    BY <2>2, <2>3 DEF Written
  <2>5. Memory'
    BY <1>1, <2>1, <2>2, <2>3, <2>4 DEF Memory
  <2>6. \A p \in SlabCpus : Written(p, current[p])'
    <3>1. \A p \in SlabCpus : current'[p] = IF p = sup.cpu THEN sup.cur - 1 ELSE current[p]
      BY <1>1, <2>1 DEF Memory
    <3>2. \A i \in 0 .. Capacity - 1 : i < sup.cur - 1 => i < sup.cur
      BY <2>2
    <3> QED BY <2>1, <2>2, <3>1, <3>2 DEF WideInv, Written
  <2>7. sup' \in Sup /\ sup'.at = "seized" /\ sup'.cpu = sup.cpu
    BY <1>1, <2>1, <2>3 DEF Sup
  <2>8. SupSound'
    BY <2>1, <2>2, <2>7 DEF SupSound
  <2> QED BY <1>1, <2>1, <2>5, <2>6, <2>7, <2>8, WideSup
<1> QED BY <1>4, <1>5, <1>6, <1>7, WideBarrier DEF Seize

\* Initially.
LEMMA WideInit == Init => WideInv
<1> SUFFICES ASSUME Init PROVE WideInv
  OBVIOUS
<1>1. Idle \in Op /\ ~Idle.push /\ Idle.at = "idle"
  BY RseqAssumption DEF Idle, Op, OpPlaces
<1>2. SupIdle \in Sup /\ SupIdle.at = "idle"
  BY RseqAssumption DEF SupIdle, Sup
<1>3. Memory
  BY RseqAssumption DEF Init, Memory
<1>4. Types
  BY <1>1, <1>2, <1>3 DEF Init, Types
<1>5. \A t \in Threads : Sound(t)
  BY <1>1 DEF Init, Sound, Looping, InSection, Section, Touching
<1>6. \A p \in SlabCpus : Written(p, current[p])
  BY DEF Init, Written
<1> QED BY <1>2, <1>4, <1>5, <1>6 DEF Init, SupSound, WideInv

\* In whatever regime, WideInv holds in every state.
LEMMA AlwaysWide == Spec => []WideInv
<1>1. WideInv /\ [Next]_vars => WideInv'
  <2> SUFFICES ASSUME WideInv, [Next]_vars PROVE WideInv'
    OBVIOUS
  <2>1. CASE Kernel
    BY <2>1, WideKernel
  <2>2. CASE Seize
    BY <2>2, WideSeize
  <2>3. ASSUME NEW t \in Threads, StartPop(t) \/ \E o \in Objs : StartPush(t, o) PROVE WideInv'
    BY <2>3, WideBegin
  <2>4. ASSUME NEW t \in Threads, RseqStep(t) \/ LockedStep(t) PROVE WideInv'
    BY <2>4, WideRseq, WideLocked
  <2>5. CASE UNCHANGED vars
    <3>1. UNCHANGED <<run, current, slots, lock, stopped, live, central, op, sup>>
      BY <2>5 DEF vars
    <3>2. Memory' /\ SupSound' /\ \A p \in SlabCpus : Written(p, current[p])'
      BY <3>1 DEF WideInv, Types, Memory, SupSound, Written
    <3> QED BY <3>1, <3>2, WideSup DEF WideInv, Types
  <2> QED BY <2>1, <2>2, <2>3, <2>4, <2>5 DEF Next
<1> QED BY <1>1, WideInit, PTL DEF Spec

\* After the membarrier of seize_cpu no restartable sequence is past its check on
\* the seized CPU until the guard is dropped: for any CPUs, seizures, releases,
\* storms of aborts, unregistered threads and CPUs without a block.
THEOREM SequencesAlwaysFenced == Spec => []SequencesFenced
<1>1. WideInv => SequencesFenced
  BY DEF WideInv, Sound, SequencesFenced, Section
<1> QED BY <1>1, AlwaysWide, PTL

\* No stack leaves its array or holds a slot that was never written, in every
\* regime, those included in which the lock, the sequences and the supervisor
\* race and objects are lost or handed out twice.
THEOREM StacksAlwaysFilled == Spec => []StacksFilled
<1>1. ASSUME WideInv PROVE StacksFilled
  <2>1. Types /\ Memory
    BY <1>1 DEF WideInv, Types
  <2>2. ASSUME NEW p \in SlabCpus
        PROVE  current[p] \in 0 .. Capacity /\ \A i \in 0 .. current[p] - 1 : slots[p][i] \in Objs
    <3>1. current[p] \in 0 .. Capacity /\ Written(p, current[p])
      BY <1>1, <2>1 DEF WideInv, Memory
    <3>2. \A i \in 0 .. current[p] - 1 : i \in 0 .. Capacity - 1 /\ i < current[p]
      BY <3>1, RseqAssumption
    <3> QED BY <3>1, <3>2 DEF Written
  <2>3. \A t \in Threads : op[t].at \in {"commit", "lk_store"} => op[t].obj \in Objs
    BY <1>1 DEF WideInv, Sound
  <2> QED BY <2>1, <2>2, <2>3 DEF StacksFilled, Memory
<1> QED BY <1>1, AlwaysWide, PTL
=============================================================================
