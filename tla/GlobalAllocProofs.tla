-------------------------- MODULE GlobalAllocProofs --------------------------
(***************************************************************************)
(* Proofs about GlobalAlloc, for any number of threads, any sizes of the   *)
(* pools and magazines and any failure of the thread-local storage: when   *)
(* configure() is done before there is a second thread, as install! does   *)
(* it, every pointer goes back to the allocator it came from, nobody is    *)
(* handed memory that is in use, and thread exits lose nothing.            *)
(***************************************************************************)
EXTENDS GlobalAlloc, TLAPS

Configuring == {"build", "cas", "base", "end"}
Freeing     == {"in_base", "in_end", "route", "push"}

Tls == [ptr : {"null", "live", "freed"}, registered : BOOLEAN,
        heap : Configurers \cup {NoHeap}, mag : SUBSET Addrs]
Op  == [at : {"idle", "alloc"} \cup Configuring \cup Freeing, addr : Addrs \cup {NoAddr},
        lay : Layouts, base : Nat, end : Nat, tmp : BOOLEAN]

Types ==
  /\ main \in Configurers \cup {NoHeap} /\ base \in Nat /\ end \in Nat
  /\ life \in [Threads -> {"unborn", "running", "exiting", "gone"}]
  /\ tls \in [Threads -> Tls]
  /\ op \in [Threads -> Op]
  /\ free \subseteq Addrs /\ sys \subseteq Addrs
  /\ live \in [Addrs -> Layouts \cup {"none"}]

\* The addresses of the sub-heap, and those the program may hold.
InMain(a) == main # NoHeap /\ a \in Pool(main)
Known(a)  == a \in SysAddrs \/ InMain(a)

Published == main # NoHeap /\ base = HeapBase[main] /\ end = HeapBase[main] + HeapLen

\* Only the main thread configures, and it is alone until it is done.
Startup ==
  /\ main \in {NoHeap, MainThread}
  /\ main = NoHeap => base = 0 /\ end = 0
  /\ op[MainThread].at \in Configuring => MainThread \in Configurers
  /\ op[MainThread].at \in {"build", "cas"} => main = NoHeap
  /\ op[MainThread].at \in {"base", "end"} => main # NoHeap /\ end = 0
  /\ op[MainThread].at = "end" => base = HeapBase[main]
  /\ main # NoHeap /\ op[MainThread].at \notin {"base", "end"} => Published
  /\ \A t \in Threads \ {MainThread} :
       /\ op[t].at \notin Configuring
       /\ life[t] = "unborn" \/ Published

\* What a thread's call and its Tls hold.
Thread(t) ==
  /\ life[t] \in {"unborn", "gone"} => op[t].at = "idle"
  /\ life[t] = "unborn" => tls[t] = NoTls
  /\ op[t].at \in Freeing => op[t].addr # NoAddr /\ Known(op[t].addr)
  /\ op[t].at \notin Freeing => op[t].addr = NoAddr
  /\ op[t].at \in {"in_end", "route"} => op[t].base = base
  /\ op[t].at = "route" => op[t].end = end
  /\ op[t].at = "push" => InMain(op[t].addr)
  /\ tls[t].ptr = "null" => tls[t].mag = {}
  /\ tls[t].heap \in {NoHeap, main}
  /\ \A a \in tls[t].mag : tls[t].heap # NoHeap /\ InMain(a)

\* Every address is where it belongs.
Home ==
  /\ sys \subseteq SysAddrs
  /\ \A a \in free : InMain(a)
  /\ \A a \in Addrs : live[a] # "none" => Known(a)

Once(a) ==
  /\ live[a] # "none" => a \notin free /\ a \notin sys
  /\ a \in free => a \notin sys
  /\ live[a] # "none" \/ a \in free \/ a \in sys =>
       \A t \in Threads : op[t].addr # a /\ a \notin tls[t].mag
  /\ \A t, u \in Threads :
       /\ op[t].addr = a => a \notin tls[u].mag
       /\ op[t].addr = a /\ op[u].addr = a => t = u
       /\ a \in tls[t].mag /\ a \in tls[u].mag => t = u

\* Without a refused Tls and late destructors, a thread's cache is flushed.
Flushes(t) ==
  /\ ~op[t].tmp
  /\ tls[t].ptr = "live" => tls[t].registered /\ life[t] # "gone"
  /\ tls[t].ptr # "live" => tls[t].mag = {}
  /\ tls[t].ptr = "freed" => op[t].at = "idle" /\ life[t] \in {"exiting", "gone"}

Somewhere(a) ==
  \/ live[a] # "none" \/ a \in free \/ a \in sys
  \/ \E t \in Threads : op[t].addr = a \/ a \in tls[t].mag

Kept ==
  ~tlsFailed /\ ~LateDestructors =>
    /\ \A t \in Threads : Flushes(t)
    /\ \A a \in Addrs : Known(a) => Somewhere(a)

AllocInv ==
  /\ Types
  /\ Startup
  /\ \A t \in Threads : Thread(t)
  /\ Home
  /\ \A a \in Addrs : Once(a)
  /\ Kept

-----------------------------------------------------------------------------
(* Lemmas *)

\* The pools and the system allocator manage different addresses.
LEMMA AddrFacts ==
  /\ NoAddr \notin Addrs /\ SysAddrs \subseteq Addrs
  /\ \A h \in Configurers : Pool(h) \subseteq Addrs /\ Pool(h) \cap SysAddrs = {}
<1>1. \A h \in Configurers : Pool(h) \subseteq Addrs /\ Pool(h) \cap SysAddrs = {}
  BY GlobalAllocAssumption DEF Addrs
<1>2. \A h \in Configurers : 0 \notin Pool(h)
  BY GlobalAllocAssumption DEF Pool
<1>3. 0 \notin SysAddrs
  BY GlobalAllocAssumption
<1> QED BY <1>1, <1>2, <1>3 DEF Addrs, NoAddr

\* An address the program may hold is one of the addresses, of one allocator.
LEMMA KnownAddr ==
  ASSUME Types, NEW a, Known(a)
  PROVE  a \in Addrs /\ a # NoAddr /\ (InMain(a) => a \notin SysAddrs)
BY AddrFacts DEF Types, Known, InMain

\* The threads that do not move keep what they hold.
LEMMA ThreadSame ==
  ASSUME NEW u \in Threads, Thread(u), op'[u] = op[u], tls'[u] = tls[u], life'[u] = life[u],
         UNCHANGED <<main, base, end>>
  PROVE  Thread(u)'
<1>1. \A a : (InMain(a)' <=> InMain(a)) /\ (Known(a)' <=> Known(a))
  BY DEF InMain, Known
<1> QED BY <1>1 DEF Thread

\* A step of t outside configure().
LEMMA CallStep ==
  ASSUME AllocInv, NEW t \in Threads, NEW x \in Op, NEW y \in Tls,
         op' = [op EXCEPT ![t] = x], tls' = [tls EXCEPT ![t] = y],
         UNCHANGED <<main, base, end, life>>,
         op[t].at \notin Configuring, x.at \notin Configuring,
         free' \subseteq Addrs, sys' \subseteq Addrs, live' \in [Addrs -> Layouts \cup {"none"}],
         Thread(t)', Home', \A a \in Addrs : Once(a)',
         tlsFailed => tlsFailed',
         ~tlsFailed' /\ ~LateDestructors =>
           Flushes(t)' /\ \A a \in Addrs : Known(a) => Somewhere(a)'
  PROVE  AllocInv'
<1>1. Types'
  BY DEF AllocInv, Types
<1>2. \A u \in Threads : u # t => op'[u] = op[u] /\ tls'[u] = tls[u]
  BY DEF AllocInv, Types
<1>3. op'[t] = x /\ tls'[t] = y /\ MainThread \in Threads
  BY GlobalAllocAssumption DEF AllocInv, Types
<1>4. Startup'
  <2>1. op'[MainThread].at \in Configuring => op'[MainThread] = op[MainThread]
    BY <1>2, <1>3
  <2>2. op[MainThread].at \in Configuring => op'[MainThread] = op[MainThread]
    BY <1>2, <1>3
  <2>3. {"build", "cas", "base", "end"} \subseteq Configuring
    BY DEF Configuring
  <2>4. Published' <=> Published
    BY DEF Published
  <2>5. \A u \in Threads : op[u].at \notin Configuring => op'[u].at \notin Configuring
    BY <1>2, <1>3
  <2> QED BY <2>1, <2>2, <2>3, <2>4, <2>5, <1>3 DEF AllocInv, Startup
<1>5. ASSUME NEW u \in Threads PROVE Thread(u)'
  BY <1>2, ThreadSame DEF AllocInv
<1>6. Kept'
  <2>1. \A a : Known(a)' <=> Known(a)
    BY DEF Known, InMain
  <2>2. ASSUME ~tlsFailed', ~LateDestructors, NEW u \in Threads PROVE Flushes(u)'
    <3>1. CASE u = t
      BY <2>2, <3>1
    <3>2. CASE u # t
      <4>1. Flushes(u) /\ op'[u] = op[u] /\ tls'[u] = tls[u]
        BY <1>2, <2>2, <3>2 DEF AllocInv, Kept
      <4> QED BY <4>1 DEF Flushes
    <3> QED BY <3>1, <3>2
  <2> QED BY <2>1, <2>2 DEF Kept
<1> QED BY <1>1, <1>4, <1>5, <1>6 DEF AllocInv

\* What AllocInv says of one thread and of one address.
LEMMA OfThread ==
  ASSUME AllocInv, NEW t \in Threads
  PROVE  /\ op[t] \in Op /\ tls[t] \in Tls /\ Thread(t)
         /\ ~tlsFailed /\ ~LateDestructors => Flushes(t)
BY DEF AllocInv, Types, Kept

\* Nothing moves.
LEMMA DataSame ==
  ASSUME AllocInv, UNCHANGED <<free, sys, live>>,
         \A u \in Threads : op'[u].addr = op[u].addr /\ tls'[u].mag = tls[u].mag
  PROVE  /\ \A a \in Addrs : Once(a)'
         /\ \A a \in Addrs : Somewhere(a) => Somewhere(a)'
<1>1. ASSUME NEW a \in Addrs PROVE Once(a)' /\ (Somewhere(a) => Somewhere(a)')
  <2>1. Once(a)
    BY DEF AllocInv
  <2>2. Once(a)'
    BY <2>1 DEF Once
  <2>3. Somewhere(a) => Somewhere(a)'
    BY DEF Somewhere
  <2> QED BY <2>2, <2>3
<1> QED BY <1>1

\* Nothing moves: every address still is where it belongs.
LEMMA HomeSame ==
  ASSUME Home, UNCHANGED <<main, free, sys, live>>
  PROVE  Home'
<1>1. \A a : (InMain(a)' <=> InMain(a)) /\ (Known(a)' <=> Known(a))
  BY DEF InMain, Known
<1> QED BY <1>1 DEF Home

\* A step of t that moves no address.
LEMMA LocalStep ==
  ASSUME AllocInv, NEW t \in Threads, NEW x \in Op, NEW y \in Tls,
         op' = [op EXCEPT ![t] = x], tls' = [tls EXCEPT ![t] = y],
         UNCHANGED <<main, base, end, life, free, sys, live>>,
         op[t].at \notin Configuring, x.at \notin Configuring,
         x.addr = op[t].addr, y.mag = tls[t].mag, Thread(t)',
         tlsFailed => tlsFailed', ~tlsFailed' /\ ~LateDestructors => Flushes(t)'
  PROVE  AllocInv'
<1>1. \A u \in Threads : op'[u].addr = op[u].addr /\ tls'[u].mag = tls[u].mag
  BY DEF AllocInv, Types
<1>2. /\ \A a \in Addrs : Once(a)'
      /\ \A a \in Addrs : Somewhere(a) => Somewhere(a)'
  BY <1>1, DataSame
<1>3. Home'
  BY HomeSame DEF AllocInv
<1>4. free' \subseteq Addrs /\ sys' \subseteq Addrs /\ live' \in [Addrs -> Layouts \cup {"none"}]
  BY DEF AllocInv, Types
<1>5. ~tlsFailed' /\ ~LateDestructors =>
           Flushes(t)' /\ \A a \in Addrs : Known(a) => Somewhere(a)'
  BY <1>2 DEF AllocInv, Kept
<1> QED BY <1>2, <1>3, <1>4, <1>5, CallStep

\* What a call leaves in the Tls.
LEMMA Leaves ==
  ASSUME Types, NEW t \in Threads, NEW h \in Configurers \cup {NoHeap}, NEW m \in SUBSET Addrs,
         Leave(t, h, m)
  PROVE  \E y \in Tls : /\ tls' = [tls EXCEPT ![t] = y] /\ tls'[t] = y
                        /\ y.ptr = tls[t].ptr /\ y.registered = tls[t].registered
                        /\ y.heap = IF op[t].tmp THEN tls[t].heap ELSE h
                        /\ y.mag = IF op[t].tmp THEN tls[t].mag ELSE m
<1>0. tls[t] \in Tls /\ tls \in [Threads -> Tls]
  BY DEF Types
<1>1. CASE op[t].tmp
  <2>1. tls' = [tls EXCEPT ![t] = tls[t]]
    BY <1>0, <1>1 DEF Leave
  <2> QED BY <1>0, <1>1, <2>1
<1>2. CASE ~op[t].tmp
  <2> DEFINE v == [tls[t] EXCEPT !.heap = h, !.mag = m]
  <2>1. v \in Tls /\ v.ptr = tls[t].ptr /\ v.registered = tls[t].registered /\ v.heap = h /\ v.mag = m
    BY <1>0 DEF Tls
  <2>2. tls' = [tls EXCEPT ![t].heap = h, ![t].mag = m]
    BY <1>2 DEF Leave
  <2>3. tls' = [tls EXCEPT ![t] = v] /\ tls'[t] = v
    BY <1>0, <2>2
  <2> QED BY <1>2, <2>1, <2>3
<1> QED BY <1>1, <1>2

\* The heap a call resolves is the one that was published.
LEMMA HeapIsMain ==
  ASSUME NEW t \in Threads, Thread(t)
  PROVE  Heap(t) = main
BY DEF Thread, Heap

\* A call under way runs on a live, registered Tls unless one was refused.
LEMMA LiveCall ==
  ASSUME AllocInv, NEW t \in Threads, ~tlsFailed, ~LateDestructors, HasTls(t), op[t].at # "idle"
  PROVE  tls[t].ptr = "live" /\ ~op[t].tmp /\ tls[t].registered /\ life[t] # "gone"
<1>1. Flushes(t) /\ tls[t] \in Tls
  BY OfThread
<1> QED BY <1>1 DEF Flushes, HasTls, Tls

\* A call that is over.
LEMMA IdleThread ==
  ASSUME NEW t \in Threads, op'[t] = Idle, life'[t] # "unborn",
         tls'[t].ptr = "null" => tls'[t].mag = {},
         tls'[t].heap \in {NoHeap, main'},
         \A a \in tls'[t].mag : tls'[t].heap # NoHeap /\ InMain(a)'
  PROVE  Thread(t)'
<1>1. Idle.at = "idle" /\ Idle.addr = NoAddr
  BY DEF Idle
<1> QED BY <1>1 DEF Thread, Freeing

\* The record of a thread that is in no call.
LEMMA IdleOp ==
  Idle \in Op /\ Idle.at = "idle" /\ Idle.addr = NoAddr /\ ~Idle.tmp /\ Idle.at \notin Configuring
BY DEF Idle, Op, Layouts, Configuring, Freeing

\* In a state in which nothing is configured nothing is cached.
LEMMA Unconfigured ==
  ASSUME AllocInv, main = NoHeap
  PROVE  free = {} /\ \A t \in Threads : tls[t].mag = {} /\ tls[t].heap = NoHeap
<1>1. \A t \in Threads : Thread(t) /\ tls[t] \in Tls
  BY OfThread
<1> QED BY <1>1 DEF AllocInv, Home, InMain, Thread

-----------------------------------------------------------------------------
(* Thread-local storage *)

\* TlsInit preserves the invariant.
LEMMA TlsInitStep ==
  ASSUME AllocInv, NEW t \in Threads, TlsInit(t)
  PROVE  AllocInv'
<1>1. /\ op[t] \in Op /\ tls[t] \in Tls /\ Thread(t) /\ Types
      /\ op[t].at \in {"alloc", "push"} /\ tls[t].ptr = "null" /\ ~op[t].tmp
  BY OfThread DEF TlsInit, At, AllocInv
<1>2. UNCHANGED <<main, base, end, life, free, sys, live>> /\ op[t].at \notin Configuring
  BY <1>1 DEF TlsInit, statics, heaps, Configuring
<1>3. op[t].at # "idle" /\ life[t] # "unborn" /\ life[t] # "gone"
  BY <1>1 DEF Thread
<1>4. CASE \E k \in {"ok", "failed"} :
             /\ key \in {"none", k} /\ key' = k
             /\ tls' = [tls EXCEPT ![t] = [NoTls EXCEPT !.ptr = "live", !.registered = k = "ok"]]
             /\ tlsFailed' = (tlsFailed \/ k = "failed")
             /\ UNCHANGED op
  <2>1. PICK k \in {"ok", "failed"} :
             /\ key' = k
             /\ tls' = [tls EXCEPT ![t] = [NoTls EXCEPT !.ptr = "live", !.registered = k = "ok"]]
             /\ tlsFailed' = (tlsFailed \/ k = "failed")
             /\ UNCHANGED op
    BY <1>4
  <2>2. PICK y \in Tls : /\ y = [NoTls EXCEPT !.ptr = "live", !.registered = k = "ok"]
                         /\ y.ptr = "live" /\ y.heap = NoHeap /\ y.mag = {}
                         /\ y.registered <=> k = "ok"
    <3> DEFINE v == [NoTls EXCEPT !.ptr = "live", !.registered = k = "ok"]
    <3>v. v \in Tls /\ v.ptr = "live" /\ v.heap = NoHeap /\ v.mag = {} /\ (v.registered <=> k = "ok")
      BY DEF NoTls, Tls
    <3> QED BY <3>v
  <2>3. tls' = [tls EXCEPT ![t] = y] /\ tls'[t] = y /\ op' = [op EXCEPT ![t] = op[t]] /\ op'[t] = op[t]
    BY <1>1, <2>1, <2>2 DEF Types
  <2>5. tls[t].mag = {}
    BY <1>1 DEF Thread
  <2>6. Thread(t)'
    <3>1. \A a : (InMain(a)' <=> InMain(a)) /\ (Known(a)' <=> Known(a))
      BY <1>2 DEF InMain, Known
    <3> QED BY <3>1, <1>1, <1>2, <1>3, <2>2, <2>3 DEF Thread
  <2>7. ASSUME ~tlsFailed', ~LateDestructors PROVE Flushes(t)'
    <3>1. Flushes(t) /\ key' = "ok"
      BY <2>7, <2>1, OfThread
    <3> QED BY <3>1, <1>2, <1>3, <2>1, <2>2, <2>3 DEF Flushes
  <2>8. tlsFailed => tlsFailed'
    BY <2>1
  <2> QED BY <1>1, <1>2, <2>2, <2>3, <2>5, <2>6, <2>7, <2>8, LocalStep
<1>5. CASE op' = [op EXCEPT ![t].tmp = TRUE] /\ tlsFailed' = TRUE /\ UNCHANGED <<key, tls>>
  <2>1. PICK x \in Op : /\ x = [op[t] EXCEPT !.tmp = TRUE]
                        /\ x.at = op[t].at /\ x.addr = op[t].addr /\ x.base = op[t].base
                        /\ x.end = op[t].end
    <3> DEFINE v == [op[t] EXCEPT !.tmp = TRUE]
    <3>v. v \in Op /\ v.at = op[t].at /\ v.addr = op[t].addr /\ v.base = op[t].base /\ v.end = op[t].end
      BY <1>1 DEF Op
    <3> QED BY <3>v
  <2>2. op' = [op EXCEPT ![t] = x] /\ op'[t] = x /\ tls' = [tls EXCEPT ![t] = tls[t]]
    BY <1>1, <1>5, <2>1 DEF Types
  <2>3. Thread(t)'
    <3>1. \A a : (InMain(a)' <=> InMain(a)) /\ (Known(a)' <=> Known(a))
      BY <1>2 DEF InMain, Known
    <3> QED BY <3>1, <1>1, <1>2, <1>5, <2>1, <2>2 DEF Thread
  <2> QED BY <1>1, <1>2, <1>5, <2>1, <2>2, <2>3, LocalStep
<1> QED BY <1>4, <1>5 DEF TlsInit

\* An address that nobody new holds is still held once.
LEMMA OnceFewer ==
  ASSUME NEW a \in Addrs, Once(a), live'[a] # "none" => live[a] # "none",
         a \in free' => a \in free, a \in sys' => a \in sys,
         \A u \in Threads : /\ op'[u].addr = a => op[u].addr = a
                            /\ a \in tls'[u].mag => a \in tls[u].mag
  PROVE  Once(a)'
BY DEF Once

\* OnThreadExit preserves the invariant.
LEMMA OnThreadExitStep ==
  ASSUME AllocInv, NEW t \in Threads, OnThreadExit(t)
  PROVE  AllocInv'
<1>1. /\ op[t] \in Op /\ tls[t] \in Tls /\ Thread(t) /\ Types /\ Home
      /\ life[t] = "exiting" /\ op[t].at = "idle" /\ op[t].addr = NoAddr
  BY OfThread DEF OnThreadExit, At, AllocInv, Thread, Freeing
<1>2. UNCHANGED <<main, base, end, life, sys, live, tlsFailed, op>> /\ op[t].at \notin Configuring
  BY <1>1 DEF OnThreadExit, statics, Configuring
<1>3. PICK y \in Tls : /\ y = [tls[t] EXCEPT !.ptr = "freed", !.registered = FALSE, !.mag = {}]
                       /\ y.ptr = "freed" /\ y.mag = {} /\ y.heap = tls[t].heap
  <2> DEFINE v == [tls[t] EXCEPT !.ptr = "freed", !.registered = FALSE, !.mag = {}]
  <2>v. v \in Tls /\ v.ptr = "freed" /\ v.mag = {} /\ v.heap = tls[t].heap
    BY <1>1 DEF Tls
  <2> QED BY <2>v
<1>4. tls' = [tls EXCEPT ![t] = y] /\ tls'[t] = y
  BY <1>1, <1>3 DEF OnThreadExit, Types
<1>5. op' = [op EXCEPT ![t] = op[t]] /\ op'[t] = op[t]
  BY <1>1, <1>2 DEF Types
<1>6. free' = free \cup tls[t].mag
  BY <1>1 DEF OnThreadExit, Flushed, Thread
<1>7. \A u \in Threads : u # t => tls'[u] = tls[u]
  BY <1>1, <1>4 DEF Types
<1>8. \A a : (InMain(a)' <=> InMain(a)) /\ (Known(a)' <=> Known(a))
  BY <1>2 DEF InMain, Known
<1>9. Thread(t)'
  BY <1>1, <1>2, <1>3, <1>4, <1>8 DEF Thread
<1>10. Home'
  BY <1>1, <1>2, <1>6, <1>8 DEF Home, Thread
<1>11. ASSUME NEW a \in Addrs PROVE Once(a)' /\ (Somewhere(a) => Somewhere(a)')
  <2>1. Once(a) /\ \A u \in Threads : op'[u].addr = op[u].addr
    BY <1>2 DEF AllocInv
  <2>2. CASE a \notin tls[t].mag
    <3>1. a \in free' <=> a \in free
      BY <1>6, <2>2
    <3>2. \A u \in Threads : a \in tls'[u].mag <=> a \in tls[u].mag
      BY <1>3, <1>4, <1>7, <2>2
    <3>3. Once(a)'
      BY <2>1, <3>1, <3>2, <1>2, OnceFewer
    <3> QED BY <1>2, <2>1, <3>1, <3>2, <3>3 DEF Somewhere
  <2>3. CASE a \in tls[t].mag
    <3>1. a \in free' /\ \A u \in Threads : a \notin tls'[u].mag
      BY <1>3, <1>4, <1>6, <1>7, <2>1, <2>3 DEF Once
    <3>2. live'[a] = "none" /\ a \notin sys' /\ \A u \in Threads : op'[u].addr # a
      BY <1>2, <2>1, <2>3 DEF Once
    <3> QED BY <3>1, <3>2 DEF Once, Somewhere
  <2> QED BY <2>2, <2>3
<1>12. ~tlsFailed' /\ ~LateDestructors =>
         Flushes(t)' /\ \A a \in Addrs : Known(a) => Somewhere(a)'
  BY <1>1, <1>2, <1>3, <1>4, <1>11, OfThread DEF Flushes, AllocInv, Kept
<1>13. free' \subseteq Addrs /\ sys' \subseteq Addrs /\ live' \in [Addrs -> Layouts \cup {"none"}]
  BY <1>1, <1>2, <1>6 DEF Types, Tls
<1> QED BY <1>1, <1>2, <1>4, <1>5, <1>9, <1>10, <1>11, <1>12, <1>13, CallStep

-----------------------------------------------------------------------------
(* Allocation *)

\* AllocCall preserves the invariant.
LEMMA AllocCallStep ==
  ASSUME AllocInv, NEW t \in Threads, NEW lay \in Layouts, AllocCall(t, lay)
  PROVE  AllocInv'
<1>1. /\ op[t] \in Op /\ tls[t] \in Tls /\ Thread(t) /\ Types
      /\ op[t].at = "idle" /\ life[t] \in {"running", "exiting"}
      /\ life[t] = "running" \/ LateDestructors \/ tls[t].ptr # "freed"
  BY OfThread DEF AllocCall, Calls, At, AllocInv
<1>2. UNCHANGED <<main, base, end, life, free, sys, live, tls, tlsFailed>> /\ op[t].at \notin Configuring
  BY <1>1 DEF AllocCall, statics, heaps, Configuring
<1>3. PICK x \in Op : /\ x = [op[t] EXCEPT !.at = "alloc", !.lay = lay]
                      /\ x.at = "alloc" /\ x.addr = op[t].addr /\ x.tmp = op[t].tmp
  <2> DEFINE v == [op[t] EXCEPT !.at = "alloc", !.lay = lay]
  <2>v. v \in Op /\ v.at = "alloc" /\ v.addr = op[t].addr /\ v.tmp = op[t].tmp
    BY <1>1 DEF Op
  <2> QED BY <2>v
<1>4. op' = [op EXCEPT ![t] = x] /\ op'[t] = x /\ tls' = [tls EXCEPT ![t] = tls[t]]
  BY <1>1, <1>2, <1>3 DEF AllocCall, Types
<1>5. Thread(t)'
  <2>1. \A a : (InMain(a)' <=> InMain(a)) /\ (Known(a)' <=> Known(a))
    BY <1>2 DEF InMain, Known
  <2> QED BY <2>1, <1>1, <1>2, <1>3, <1>4 DEF Thread, Freeing
<1>6. ASSUME ~tlsFailed', ~LateDestructors PROVE Flushes(t)'
  <2>1. Flushes(t)
    BY <1>6, <1>2, OfThread
  <2> QED BY <2>1, <1>1, <1>2, <1>3, <1>4, <1>6 DEF Flushes
<1>7. x.at \notin Configuring
  BY <1>3 DEF Configuring
<1> QED BY <1>1, <1>2, <1>3, <1>4, <1>5, <1>6, <1>7, LocalStep

\* A call of t hands out a: what is the same in every such step.
LEMMA HandOut ==
  ASSUME AllocInv, NEW t \in Threads, NEW a \in Addrs, Known(a), Hand(t, a), op[t].at = "alloc",
         NEW y \in Tls, tls' = [tls EXCEPT ![t] = y], y.ptr = tls[t].ptr,
         y.registered = tls[t].registered, y.ptr = "null" => y.mag = {},
         y.heap \in {NoHeap, main}, \A b \in y.mag : y.heap # NoHeap /\ InMain(b),
         UNCHANGED <<main, base, end, life, tlsFailed>>, HasTls(t),
         free' \subseteq free, sys' \subseteq sys,
         a \notin free', a \notin sys',
         \A u \in Threads : a \notin tls'[u].mag /\ op[u].addr # a,
         \A b \in Addrs \ {a} : Once(b)',
         ~tlsFailed /\ ~LateDestructors =>
           \A b \in Addrs \ {a} : b \in tls[t].mag \cup free \cup sys
                                => b \in y.mag \cup free' \cup sys'
  PROVE  AllocInv'
<1>1. /\ op[t] \in Op /\ tls[t] \in Tls /\ Thread(t) /\ Types /\ Home
      /\ op[t].at \notin Configuring /\ life[t] # "unborn" /\ op[t].addr = NoAddr
  BY OfThread DEF AllocInv, Configuring, Freeing, Thread
<1>2. op' = [op EXCEPT ![t] = Idle] /\ op'[t] = Idle /\ tls'[t] = y
  BY <1>1 DEF Hand, Done, Types
<1>3. /\ Idle \in Op /\ Idle.at = "idle" /\ Idle.addr = NoAddr /\ ~Idle.tmp
      /\ Idle.at \notin Configuring
  BY IdleOp
<1>4. \A u \in Threads : u # t => op'[u] = op[u] /\ tls'[u] = tls[u]
  BY <1>1, <1>2 DEF Types
<1>5. live' = [live EXCEPT ![a] = op[t].lay] /\ op[t].lay \in Layouts /\ op[t].lay # "none"
  BY <1>1 DEF Hand, Op, Layouts
<1>6. \A b : (InMain(b)' <=> InMain(b)) /\ (Known(b)' <=> Known(b))
  BY DEF InMain, Known
<1>7. Thread(t)'
  BY <1>1, <1>2, <1>6, IdleThread
<1>8. Home'
  BY <1>1, <1>5, <1>6 DEF Home, Types
<1>9. \A u \in Threads : op'[u].addr = op[u].addr
  BY <1>1, <1>2, <1>3, <1>4
<1>10. live'[a] # "none" /\ \A b \in Addrs \ {a} : live'[b] = live[b]
  BY <1>1, <1>5 DEF Types
<1>11. Once(a)'
  <2>1. \A u \in Threads : op'[u].addr # a
    BY <1>9
  <2> QED BY <1>10, <2>1 DEF Once
<1>12. ASSUME ~tlsFailed', ~LateDestructors, NEW b \in Addrs, Known(b) PROVE Somewhere(b)'
  <2>1. Somewhere(b)
    BY <1>12 DEF AllocInv, Kept
  <2>2. CASE b = a
    BY <2>2, <1>10 DEF Somewhere
  <2>3. CASE b # a
    <3>1. CASE live[b] # "none"
      BY <2>3, <3>1, <1>10 DEF Somewhere
    <3>2. CASE b \in tls[t].mag \cup free \cup sys
      <4>1. b \in y.mag \cup free' \cup sys'
        BY <1>12, <2>3, <3>2
      <4> QED BY <4>1, <1>2 DEF Somewhere
    <3>3. CASE \E u \in Threads : op[u].addr = b \/ (u # t /\ b \in tls[u].mag)
      BY <3>3, <1>4, <1>9 DEF Somewhere
    <3> QED BY <2>1, <3>1, <3>2, <3>3 DEF Somewhere
  <2> QED BY <2>2, <2>3
<1>13. ASSUME ~tlsFailed', ~LateDestructors PROVE Flushes(t)'
  <2>1. tls[t].ptr = "live" /\ ~op[t].tmp /\ tls[t].registered /\ life[t] # "gone"
    BY <1>13, LiveCall
  <2> QED BY <2>1, <1>2, <1>3 DEF Flushes
<1>14. free' \subseteq Addrs /\ sys' \subseteq Addrs /\ live' \in [Addrs -> Layouts \cup {"none"}]
  BY <1>1, <1>5 DEF Types
<1>15. \A b \in Addrs : Once(b)'
  BY <1>11
<1> QED BY <1>1, <1>2, <1>3, <1>7, <1>8, <1>12, <1>13, <1>14, <1>15, CallStep

\* What a step of t leaves alone when only its Tls changes.
LEMMA OthersSame ==
  ASSUME Types, NEW t \in Threads, NEW y, tls' = [tls EXCEPT ![t] = y]
  PROVE  tls'[t] = y /\ \A u \in Threads : u # t => tls'[u] = tls[u]
BY DEF Types

\* An address that is free or cached is in no call, and in one place only.
LEMMA Unheld ==
  ASSUME AllocInv, NEW a \in Addrs, NEW t \in Threads, a \in free \cup sys \cup tls[t].mag
  PROVE  /\ live[a] = "none"
         /\ \A u \in Threads : op[u].addr # a
         /\ a \in tls[t].mag => a \notin free \cup sys
         /\ a \notin free \/ a \notin sys
         /\ \A u \in Threads : u # t /\ a \in tls[t].mag => a \notin tls[u].mag
         /\ a \in free \cup sys => \A u \in Threads : a \notin tls[u].mag
<1>1. Once(a)
  BY DEF AllocInv
<1> QED BY <1>1 DEF Once

\* AllocHit preserves the invariant.
LEMMA AllocHitStep ==
  ASSUME AllocInv, NEW t \in Threads, AllocHit(t)
  PROVE  AllocInv'
<1>1. /\ op[t] \in Op /\ tls[t] \in Tls /\ Thread(t) /\ Types
      /\ op[t].at = "alloc" /\ HasTls(t)
  BY OfThread DEF AllocHit, At, AllocInv
<1>2. UNCHANGED <<main, base, end, life, free, sys, tlsFailed>>
  BY DEF AllocHit, statics
<1>3. PICK a \in Mag(t) : Hand(t, a) /\ Leave(t, tls[t].heap, Popped(t, a))
  BY DEF AllocHit
<1>4. ~op[t].tmp /\ a \in tls[t].mag /\ Popped(t, a) = tls[t].mag \ {a}
  BY <1>3 DEF Mag, Popped
<1>5. a \in Addrs /\ tls[t].heap \in Configurers \cup {NoHeap} /\ Popped(t, a) \in SUBSET Addrs
  BY <1>1, <1>4 DEF Tls
<1>6. PICK y \in Tls : /\ tls' = [tls EXCEPT ![t] = y] /\ tls'[t] = y
                       /\ y.ptr = tls[t].ptr /\ y.registered = tls[t].registered
                       /\ y.heap = IF op[t].tmp THEN tls[t].heap ELSE tls[t].heap
                       /\ y.mag = IF op[t].tmp THEN tls[t].mag ELSE Popped(t, a)
  BY <1>1, <1>3, <1>5, Leaves
<1>7. y.heap = tls[t].heap /\ y.mag = tls[t].mag \ {a}
  BY <1>4, <1>6
<1>8. Known(a) /\ y.heap \in {NoHeap, main} /\ (\A b \in y.mag : y.heap # NoHeap /\ InMain(b))
      /\ (y.ptr = "null" => y.mag = {})
  BY <1>1, <1>4, <1>6, <1>7 DEF Thread, Known
<1>9. \A u \in Threads : u # t => tls'[u] = tls[u]
  BY <1>1, <1>6, OthersSame
<1>10. /\ a \notin free /\ a \notin sys
       /\ \A u \in Threads : a \notin tls'[u].mag /\ op[u].addr # a
  BY <1>4, <1>5, <1>6, <1>7, <1>9, Unheld
<1>11. ASSUME NEW b \in Addrs \ {a} PROVE Once(b)'
  <2>1. Once(b) /\ live'[b] = live[b]
    BY <1>1, <1>3 DEF AllocInv, Hand, Types
  <2>2. \A u \in Threads : b \in tls'[u].mag => b \in tls[u].mag
    BY <1>6, <1>7, <1>9
  <2>3. \A u \in Threads : op'[u].addr = b => op[u].addr = b
    BY <1>1, <1>3, AddrFacts, IdleOp DEF Hand, Done, Types
  <2> QED BY <1>2, <2>1, <2>2, <2>3, OnceFewer
<1>12. \A b \in Addrs \ {a} :
         b \in tls[t].mag \cup free \cup sys => b \in y.mag \cup free' \cup sys'
  BY <1>2, <1>7
<1> QED BY <1>1, <1>2, <1>3, <1>5, <1>6, <1>8, <1>10, <1>11, <1>12, HandOut

\* AllocSystem preserves the invariant.
LEMMA AllocSystemStep ==
  ASSUME AllocInv, NEW t \in Threads, AllocSystem(t)
  PROVE  AllocInv'
<1>1. /\ op[t] \in Op /\ tls[t] \in Tls /\ Thread(t) /\ Types /\ Home
      /\ op[t].at = "alloc" /\ HasTls(t) /\ main = NoHeap
  BY OfThread, HeapIsMain DEF AllocSystem, Misses, At, AllocInv
<1>2. UNCHANGED <<main, base, end, life, free, tls, tlsFailed>> /\ tls' = [tls EXCEPT ![t] = tls[t]]
  BY <1>1 DEF AllocSystem, statics, Types
<1>3. CASE \E a \in sys : Hand(t, a) /\ sys' = sys \ {a}
  <2>1. PICK a \in sys : Hand(t, a) /\ sys' = sys \ {a}
    BY <1>3
  <2>2. a \in Addrs /\ Known(a)
    BY <1>1 DEF Types, Home, Known
  <2>3. a \notin free /\ \A u \in Threads : a \notin tls'[u].mag /\ op[u].addr # a
    BY <1>2, <2>2, Unheld
  <2>4. ASSUME NEW b \in Addrs \ {a} PROVE Once(b)'
    <3>1. Once(b) /\ live'[b] = live[b]
      BY <1>1, <2>1 DEF AllocInv, Hand, Types
    <3>2. \A u \in Threads : op'[u].addr = b => op[u].addr = b
      BY <1>1, <2>1, AddrFacts, IdleOp DEF Hand, Done, Types
    <3> QED BY <1>2, <2>1, <3>1, <3>2, OnceFewer
  <2>5. /\ tls[t].heap \in {NoHeap, main} /\ (tls[t].ptr = "null" => tls[t].mag = {})
        /\ \A b \in tls[t].mag : tls[t].heap # NoHeap /\ InMain(b)
    BY <1>1 DEF Thread
  <2>6. \A b \in Addrs \ {a} :
          b \in tls[t].mag \cup free \cup sys => b \in tls[t].mag \cup free' \cup sys'
    BY <1>2, <2>1
  <2> QED BY <1>1, <1>2, <2>1, <2>2, <2>3, <2>4, <2>5, <2>6, HandOut
<1>4. CASE sys = {} /\ Done(t) /\ UNCHANGED <<sys, live>>
  <2>1. op' = [op EXCEPT ![t] = Idle] /\ op'[t] = Idle /\ tls'[t] = tls[t]
    BY <1>1, <1>2, <1>4 DEF Done, Types
  <2>2. op[t].addr = NoAddr /\ op[t].at \notin Configuring /\ life[t] # "unborn"
    BY <1>1 DEF Thread, Freeing, Configuring
  <2>3. \A b : InMain(b)' <=> InMain(b)
    BY <1>2 DEF InMain
  <2>4. Thread(t)'
    BY <1>1, <1>2, <2>1, <2>2, <2>3, IdleThread DEF Thread
  <2>5. ASSUME ~tlsFailed', ~LateDestructors PROVE Flushes(t)'
    <3>1. tls[t].ptr = "live" /\ ~op[t].tmp /\ tls[t].registered /\ life[t] # "gone"
      BY <1>1, <1>2, <2>5, LiveCall
    <3> QED BY <3>1, <1>2, <2>1, IdleOp DEF Flushes
  <2> QED BY <1>1, <1>2, <1>4, <2>1, <2>2, <2>4, <2>5, IdleOp, LocalStep
<1> QED BY <1>3, <1>4 DEF AllocSystem

\* AllocRefill preserves the invariant.
LEMMA AllocRefillStep ==
  ASSUME AllocInv, NEW t \in Threads, AllocRefill(t)
  PROVE  AllocInv'
<1>1. /\ op[t] \in Op /\ tls[t] \in Tls /\ Thread(t) /\ Types /\ Home
      /\ op[t].at = "alloc" /\ HasTls(t) /\ main # NoHeap /\ Heap(t) = main /\ Mag(t) = {}
  BY OfThread, HeapIsMain DEF AllocRefill, Misses, At, AllocInv
<1>2. UNCHANGED <<main, base, end, life, sys, tlsFailed>>
  BY DEF AllocRefill, statics
<1>3. PICK S \in SUBSET free : /\ free' = free \ S
                               /\ \E a \in S : Hand(t, a) /\ Leave(t, Heap(t), S \ {a})
  BY DEF AllocRefill
<1>4. PICK a \in S : Hand(t, a) /\ Leave(t, Heap(t), S \ {a})
  BY <1>3
<1>5. a \in free /\ a \in Addrs /\ Heap(t) \in Configurers \cup {NoHeap} /\ S \ {a} \in SUBSET Addrs
  BY <1>1 DEF Types
<1>6. PICK y \in Tls : /\ tls' = [tls EXCEPT ![t] = y] /\ tls'[t] = y
                       /\ y.ptr = tls[t].ptr /\ y.registered = tls[t].registered
                       /\ y.heap = IF op[t].tmp THEN tls[t].heap ELSE Heap(t)
                       /\ y.mag = IF op[t].tmp THEN tls[t].mag ELSE S \ {a}
  BY <1>1, <1>4, <1>5, Leaves
<1>7. Known(a) /\ \A b \in S : InMain(b)
  BY <1>1, <1>5 DEF Home, Known
<1>8. y.heap \in {NoHeap, main} /\ (y.ptr = "null" => y.mag = {})
      /\ \A b \in y.mag : y.heap # NoHeap /\ InMain(b)
  BY <1>1, <1>6, <1>7 DEF Thread, HasTls
<1>9. \A u \in Threads : u # t => tls'[u] = tls[u]
  BY <1>1, <1>6, OthersSame
<1>10. \A b \in S : /\ b \in Addrs /\ live[b] = "none" /\ b \notin sys
                    /\ \A u \in Threads : op[u].addr # b /\ b \notin tls[u].mag
  BY <1>1, Unheld DEF Types
<1>11. a \notin free' /\ a \notin sys' /\ \A u \in Threads : a \notin tls'[u].mag /\ op[u].addr # a
  BY <1>2, <1>3, <1>5, <1>6, <1>9, <1>10
<1>12. ASSUME NEW b \in Addrs \ {a} PROVE Once(b)'
  <2>1. Once(b) /\ live'[b] = live[b]
    BY <1>1, <1>4 DEF AllocInv, Hand, Types
  <2>2. \A u \in Threads : op'[u].addr = b => op[u].addr = b
    BY <1>1, <1>4, AddrFacts, IdleOp DEF Hand, Done, Types
  <2>3. CASE b \in S
    <3>1. live'[b] = "none" /\ b \notin sys' /\ b \notin free'
      BY <1>2, <1>3, <1>10, <2>1, <2>3
    <3>2. \A u \in Threads : op'[u].addr # b
      BY <1>10, <2>2, <2>3
    <3>3. \A u \in Threads : u # t => b \notin tls'[u].mag
      BY <1>9, <1>10, <2>3
    <3> QED BY <3>1, <3>2, <3>3 DEF Once
  <2>4. CASE b \notin S
    <3>1. \A u \in Threads : b \in tls'[u].mag => b \in tls[u].mag
      BY <1>6, <1>9, <2>4
    <3> QED BY <1>2, <1>3, <2>1, <2>2, <3>1, OnceFewer
  <2> QED BY <2>3, <2>4
<1>13. ASSUME ~tlsFailed, ~LateDestructors, NEW b \in Addrs \ {a},
              b \in tls[t].mag \cup free \cup sys
       PROVE  b \in y.mag \cup free' \cup sys'
  <2>1. ~op[t].tmp /\ tls[t].mag = {}
    BY <1>1, <1>13, LiveCall DEF Mag
  <2> QED BY <1>2, <1>3, <1>6, <1>13, <2>1
<1>14. free' \subseteq free
  BY <1>3
<1> QED BY <1>1, <1>2, <1>4, <1>5, <1>6, <1>7, <1>8, <1>11, <1>12, <1>13, <1>14, HandOut

\* AllocBig preserves the invariant.
LEMMA AllocBigStep ==
  ASSUME AllocInv, NEW t \in Threads, AllocBig(t)
  PROVE  AllocInv'
<1>1. /\ op[t] \in Op /\ tls[t] \in Tls /\ Thread(t) /\ Types /\ Home
      /\ op[t].at = "alloc" /\ HasTls(t) /\ main # NoHeap /\ Heap(t) = main
  BY OfThread, HeapIsMain DEF AllocBig, Misses, At, AllocInv
<1>2. UNCHANGED <<main, base, end, life, sys, tlsFailed>> /\ Leave(t, Heap(t), Mag(t))
  BY DEF AllocBig, statics
<1>3. PICK a \in free : Hand(t, a) /\ free' = free \ {a}
  BY DEF AllocBig
<1>4. a \in Addrs /\ Known(a) /\ Heap(t) \in Configurers \cup {NoHeap} /\ Mag(t) \in SUBSET Addrs
  BY <1>1 DEF Types, Home, Known, Mag, Tls
<1>5. PICK y \in Tls : /\ tls' = [tls EXCEPT ![t] = y] /\ tls'[t] = y
                       /\ y.ptr = tls[t].ptr /\ y.registered = tls[t].registered
                       /\ y.heap = IF op[t].tmp THEN tls[t].heap ELSE Heap(t)
                       /\ y.mag = IF op[t].tmp THEN tls[t].mag ELSE Mag(t)
  BY <1>1, <1>2, <1>4, Leaves
<1>6. y.mag = tls[t].mag
  BY <1>5 DEF Mag
<1>7. y.heap \in {NoHeap, main} /\ (y.ptr = "null" => y.mag = {})
      /\ \A b \in y.mag : y.heap # NoHeap /\ InMain(b)
  BY <1>1, <1>5, <1>6 DEF Thread
<1>8. \A u \in Threads : tls'[u].mag = tls[u].mag
  BY <1>1, <1>5, <1>6, OthersSame
<1>9. a \notin free' /\ a \notin sys' /\ \A u \in Threads : a \notin tls'[u].mag /\ op[u].addr # a
  BY <1>2, <1>3, <1>4, <1>8, Unheld
<1>10. ASSUME NEW b \in Addrs \ {a} PROVE Once(b)'
  <2>1. Once(b) /\ live'[b] = live[b]
    BY <1>1, <1>3 DEF AllocInv, Hand, Types
  <2>2. \A u \in Threads : op'[u].addr = b => op[u].addr = b
    BY <1>1, <1>3, AddrFacts, IdleOp DEF Hand, Done, Types
  <2> QED BY <1>2, <1>3, <1>8, <2>1, <2>2, OnceFewer
<1>11. \A b \in Addrs \ {a} :
         b \in tls[t].mag \cup free \cup sys => b \in y.mag \cup free' \cup sys'
  BY <1>2, <1>3, <1>6
<1>12. free' \subseteq free
  BY <1>3
<1> QED BY <1>1, <1>2, <1>3, <1>4, <1>5, <1>7, <1>9, <1>10, <1>11, <1>12, HandOut

\* AllocAbort preserves the invariant.
LEMMA AllocAbortStep ==
  ASSUME AllocInv, NEW t \in Threads, AllocAbort(t)
  PROVE  AllocInv'
<1>1. /\ op[t] \in Op /\ tls[t] \in Tls /\ Thread(t) /\ Types
      /\ op[t].at \notin Configuring
  BY OfThread DEF AllocAbort, Misses, At, AllocInv, Configuring
<1>2. UNCHANGED <<main, base, end, life, free, sys, live, tls, op, tlsFailed>>
  BY DEF AllocAbort, statics, heaps
<1>3. /\ op' = [op EXCEPT ![t] = op[t]] /\ op'[t] = op[t]
      /\ tls' = [tls EXCEPT ![t] = tls[t]] /\ tls'[t] = tls[t]
  BY <1>1, <1>2 DEF Types
<1>4. Thread(t)'
  BY <1>1, <1>2, ThreadSame
<1>5. ~tlsFailed' /\ ~LateDestructors => Flushes(t)'
  BY <1>2, OfThread DEF Flushes
<1> QED BY <1>1, <1>2, <1>3, <1>4, <1>5, LocalStep

-----------------------------------------------------------------------------
(* Deallocation *)

\* DeallocCall preserves the invariant.
LEMMA DeallocCallStep ==
  ASSUME AllocInv, NEW t \in Threads, NEW a \in Addrs, DeallocCall(t, a)
  PROVE  AllocInv'
<1>1. /\ op[t] \in Op /\ tls[t] \in Tls /\ Thread(t) /\ Types /\ Home
      /\ op[t].at = "idle" /\ life[t] \in {"running", "exiting"} /\ op[t].at \notin Configuring
      /\ life[t] = "running" \/ LateDestructors \/ tls[t].ptr # "freed"
  BY OfThread DEF DeallocCall, Calls, At, AllocInv, Configuring
<1>2. /\ UNCHANGED <<main, base, end, life, free, sys, tls, tlsFailed>>
      /\ live[a] # "none" /\ live' = [live EXCEPT ![a] = "none"]
  BY DEF DeallocCall, statics
<1>3. Known(a) /\ a # NoAddr /\ live[a] \in Layouts
  BY <1>1, <1>2, AddrFacts DEF Home, Types
<1>4. PICK x \in Op : /\ x = [op[t] EXCEPT !.at = "in_base", !.addr = a, !.lay = live[a]]
                      /\ x.at = "in_base" /\ x.addr = a /\ x.tmp = op[t].tmp
                      /\ x.at \notin Configuring
  <2> DEFINE v == [op[t] EXCEPT !.at = "in_base", !.addr = a, !.lay = live[a]]
  <2>v. v \in Op /\ v.at = "in_base" /\ v.addr = a /\ v.tmp = op[t].tmp /\ v.at \notin Configuring
    BY <1>1, <1>3 DEF Op, Freeing, Configuring
  <2> QED BY <2>v
<1>5. /\ op' = [op EXCEPT ![t] = x] /\ op'[t] = x /\ tls' = [tls EXCEPT ![t] = tls[t]]
      /\ \A u \in Threads : u # t => op'[u] = op[u]
  BY <1>1, <1>2, <1>4 DEF DeallocCall, Types
<1>6. \A b : (InMain(b)' <=> InMain(b)) /\ (Known(b)' <=> Known(b))
  BY <1>2 DEF InMain, Known
<1>7. Thread(t)'
  BY <1>1, <1>2, <1>3, <1>4, <1>5, <1>6 DEF Thread, Freeing
<1>8. Home'
  BY <1>1, <1>2, <1>6 DEF Home, Types
<1>9. ASSUME NEW b \in Addrs PROVE Once(b)' /\ (Somewhere(b) => Somewhere(b)')
  <2>1. Once(b) /\ op[t].addr = NoAddr /\ b # NoAddr
    BY <1>1, AddrFacts DEF AllocInv, Thread, Freeing
  <2>2. CASE b = a
    <3>1. live'[a] = "none" /\ op'[t].addr = a
      BY <1>1, <1>2, <1>4, <1>5 DEF Types
    <3>2. a \notin free' /\ a \notin sys' /\ \A u \in Threads : a \notin tls'[u].mag
      BY <1>2, <2>1, <2>2 DEF Once
    <3>3. \A u \in Threads : u # t => op'[u].addr # a
      BY <1>2, <1>5, <2>1, <2>2 DEF Once
    <3>4. Once(a)'
      BY <3>1, <3>2, <3>3 DEF Once
    <3> QED BY <2>2, <3>1, <3>4 DEF Somewhere
  <2>3. CASE b # a
    <3>1. live'[b] = live[b]
      BY <1>1, <1>2, <2>3 DEF Types
    <3>2. \A u \in Threads : op'[u].addr = b <=> op[u].addr = b
      BY <1>4, <1>5, <2>1, <2>3
    <3>3. Once(b)'
      BY <1>2, <2>1, <3>1, <3>2, OnceFewer
    <3> QED BY <1>2, <3>1, <3>2, <3>3 DEF Somewhere
  <2> QED BY <2>2, <2>3
<1>10. ASSUME ~tlsFailed', ~LateDestructors
         PROVE  Flushes(t)' /\ \A b \in Addrs : Known(b) => Somewhere(b)'
  <2>1. Flushes(t)
    BY <1>10, <1>2, OfThread
  <2>2. Flushes(t)'
    BY <2>1, <1>1, <1>2, <1>4, <1>5, <1>10 DEF Flushes
  <2> QED BY <2>2, <1>2, <1>9, <1>10 DEF AllocInv, Kept
<1>11. free' \subseteq Addrs /\ sys' \subseteq Addrs /\ live' \in [Addrs -> Layouts \cup {"none"}]
  BY <1>1, <1>2 DEF Types
<1> QED BY <1>1, <1>2, <1>4, <1>5, <1>7, <1>8, <1>9, <1>10, <1>11, CallStep

\* LoadBase preserves the invariant.
LEMMA LoadBaseStep ==
  ASSUME AllocInv, NEW t \in Threads, LoadBase(t)
  PROVE  AllocInv'
<1>1. /\ op[t] \in Op /\ tls[t] \in Tls /\ Thread(t) /\ Types
      /\ op[t].at = "in_base" /\ op[t].at \notin Configuring
  BY OfThread DEF LoadBase, At, AllocInv, Configuring
<1>2. UNCHANGED <<main, base, end, life, free, sys, live, tls, tlsFailed>>
  BY DEF LoadBase, statics, heaps
<1>3. PICK x \in Op : /\ x = [op[t] EXCEPT !.at = "in_end", !.base = base]
                      /\ x.at = "in_end" /\ x.addr = op[t].addr /\ x.tmp = op[t].tmp
                      /\ x.base = base /\ x.at \notin Configuring
  <2> DEFINE v == [op[t] EXCEPT !.at = "in_end", !.base = base]
  <2>v. v \in Op /\ v.at = "in_end" /\ v.addr = op[t].addr /\ v.tmp = op[t].tmp
        /\ v.base = base /\ v.at \notin Configuring
    BY <1>1 DEF Op, Freeing, Configuring, Types
  <2> QED BY <2>v
<1>4. op' = [op EXCEPT ![t] = x] /\ op'[t] = x /\ tls' = [tls EXCEPT ![t] = tls[t]]
  BY <1>1, <1>2, <1>3 DEF LoadBase, Types
<1>5. Thread(t)'
  <2>1. \A a : (InMain(a)' <=> InMain(a)) /\ (Known(a)' <=> Known(a))
    BY <1>2 DEF InMain, Known
  <2> QED BY <2>1, <1>1, <1>2, <1>3, <1>4 DEF Thread, Freeing
<1>6. ~tlsFailed' /\ ~LateDestructors => Flushes(t)'
  BY <1>1, <1>2, <1>3, <1>4, OfThread DEF Flushes
<1> QED BY <1>1, <1>2, <1>3, <1>4, <1>5, <1>6, LocalStep

\* LoadEnd preserves the invariant.
LEMMA LoadEndStep ==
  ASSUME AllocInv, NEW t \in Threads, LoadEnd(t)
  PROVE  AllocInv'
<1>1. /\ op[t] \in Op /\ tls[t] \in Tls /\ Thread(t) /\ Types
      /\ op[t].at = "in_end" /\ op[t].at \notin Configuring
  BY OfThread DEF LoadEnd, At, AllocInv, Configuring
<1>2. UNCHANGED <<main, base, end, life, free, sys, live, tls, tlsFailed>>
  BY DEF LoadEnd, statics, heaps
<1>3. PICK x \in Op : /\ x = [op[t] EXCEPT !.at = "route", !.end = end]
                      /\ x.at = "route" /\ x.addr = op[t].addr /\ x.tmp = op[t].tmp
                      /\ x.base = op[t].base /\ x.end = end /\ x.at \notin Configuring
  <2> DEFINE v == [op[t] EXCEPT !.at = "route", !.end = end]
  <2>v. v \in Op /\ v.at = "route" /\ v.addr = op[t].addr /\ v.tmp = op[t].tmp
        /\ v.base = op[t].base /\ v.end = end /\ v.at \notin Configuring
    BY <1>1 DEF Op, Freeing, Configuring, Types
  <2> QED BY <2>v
<1>4. op' = [op EXCEPT ![t] = x] /\ op'[t] = x /\ tls' = [tls EXCEPT ![t] = tls[t]]
  BY <1>1, <1>2, <1>3 DEF LoadEnd, Types
<1>5. Thread(t)'
  <2>1. \A a : (InMain(a)' <=> InMain(a)) /\ (Known(a)' <=> Known(a))
    BY <1>2 DEF InMain, Known
  <2> QED BY <2>1, <1>1, <1>2, <1>3, <1>4 DEF Thread, Freeing
<1>6. ~tlsFailed' /\ ~LateDestructors => Flushes(t)'
  BY <1>1, <1>2, <1>3, <1>4, OfThread DEF Flushes
<1> QED BY <1>1, <1>2, <1>3, <1>4, <1>5, <1>6, LocalStep

\* in_pool tells the pool's pointers from the system allocator's.
LEMMA InPoolRight ==
  ASSUME AllocInv, NEW t \in Threads, op[t].at = "route"
  PROVE  InPool(t) <=> InMain(op[t].addr)
<1>1. /\ op[t] \in Op /\ Thread(t) /\ Types /\ Startup
      /\ life[t] # "unborn" /\ op[t].base = base /\ op[t].end = end /\ Known(op[t].addr)
  BY OfThread DEF AllocInv, Thread, Freeing
<1>2. op[t].addr \in Nat
  <2>1. op[t].addr \in Addrs
    BY <1>1, KnownAddr
  <2>2. SysAddrs \subseteq Nat /\ \A h \in Configurers : Pool(h) \subseteq Nat
    BY GlobalAllocAssumption DEF Pool
  <2> QED BY <2>1, <2>2 DEF Addrs
<1>3. CASE main = NoHeap
  BY <1>1, <1>2, <1>3 DEF InPool, InMain, Startup
<1>4. CASE main # NoHeap
  <2>1. Published
    BY <1>1, <1>4, GlobalAllocAssumption DEF Startup
  <2>2. main \in Configurers /\ HeapBase[main] \in Nat /\ HeapLen \in Nat
    BY <1>1, <1>4, GlobalAllocAssumption DEF Types
  <2> QED BY <1>1, <1>2, <1>4, <2>1, <2>2 DEF Published, InPool, InMain, Pool
<1> QED BY <1>3, <1>4

\* Route preserves the invariant.
LEMMA RouteStep ==
  ASSUME AllocInv, NEW t \in Threads, Route(t)
  PROVE  AllocInv'
<1>1. /\ op[t] \in Op /\ tls[t] \in Tls /\ Thread(t) /\ Types /\ Home
      /\ op[t].at = "route" /\ op[t].at \notin Configuring
      /\ life[t] # "unborn" /\ life[t] # "gone" /\ Known(op[t].addr)
  BY OfThread DEF Route, At, AllocInv, Configuring, Thread, Freeing
<1>2. UNCHANGED <<main, base, end, life, free, live, tls, tlsFailed>> /\ tls' = [tls EXCEPT ![t] = tls[t]]
  BY <1>1 DEF Route, statics, Types
<1>3. \A a : (InMain(a)' <=> InMain(a)) /\ (Known(a)' <=> Known(a))
  BY <1>2 DEF InMain, Known
<1>4. CASE InPool(t)
  <2>1. UNCHANGED sys /\ InMain(op[t].addr)
    BY <1>1, <1>4, InPoolRight DEF Route
  <2>2. PICK x \in Op : /\ x = [op[t] EXCEPT !.at = "push"]
                        /\ x.at = "push" /\ x.addr = op[t].addr /\ x.tmp = op[t].tmp
                        /\ x.at \notin Configuring
    <3> DEFINE v == [op[t] EXCEPT !.at = "push"]
    <3>v. v \in Op /\ v.at = "push" /\ v.addr = op[t].addr /\ v.tmp = op[t].tmp /\ v.at \notin Configuring
      BY <1>1 DEF Op, Freeing, Configuring
    <3> QED BY <3>v
  <2>3. op' = [op EXCEPT ![t].at = "push"]
    BY <1>4 DEF Route, Goto
  <2>4. op' = [op EXCEPT ![t] = x] /\ op'[t] = x
    BY <1>1, <2>2, <2>3 DEF Types
  <2>5. Thread(t)'
    BY <1>1, <1>2, <1>3, <2>1, <2>2, <2>4 DEF Thread, Freeing
  <2>6. ~tlsFailed' /\ ~LateDestructors => Flushes(t)'
    BY <1>1, <1>2, <2>2, <2>4, OfThread DEF Flushes
  <2> QED BY <1>1, <1>2, <2>1, <2>2, <2>4, <2>5, <2>6, LocalStep
<1>5. CASE ~InPool(t)
  <2> DEFINE a == op[t].addr
  <2>1. a \in Addrs /\ a \in SysAddrs /\ sys' = sys \cup {a}
    BY <1>1, <1>5, InPoolRight, KnownAddr DEF Route, Known
  <2>2. op' = [op EXCEPT ![t] = Idle] /\ op'[t] = Idle
         /\ \A u \in Threads : u # t => op'[u] = op[u]
    BY <1>1, <1>5 DEF Route, Done, Types
  <2>3. Thread(t)'
    BY <1>1, <1>2, <1>3, <2>2, IdleThread DEF Thread
  <2>4. Home'
    BY <1>1, <1>2, <1>3, <2>1 DEF Home
  <2>5. ASSUME NEW b \in Addrs PROVE Once(b)' /\ (Somewhere(b) => Somewhere(b)')
    <3>1. Once(b) /\ b # NoAddr /\ op'[t].addr = NoAddr
      BY <2>2, AddrFacts, IdleOp DEF AllocInv
    <3>2. CASE b = a
      <4>1. b \in sys' /\ live'[b] = "none" /\ b \notin free'
        BY <1>2, <2>1, <3>1, <3>2 DEF Once
      <4>2. \A u \in Threads : op'[u].addr # b /\ b \notin tls'[u].mag
        BY <1>2, <2>2, <3>1, <3>2 DEF Once
      <4> QED BY <4>1, <4>2 DEF Once, Somewhere
    <3>3. CASE b # a
      <4>1. b \in sys' <=> b \in sys
        BY <2>1, <3>3
      <4>2. \A u \in Threads : op'[u].addr = b <=> op[u].addr = b
        BY <2>2, <3>1, <3>3
      <4>3. Once(b)'
        BY <1>2, <3>1, <4>1, <4>2, OnceFewer
      <4> QED BY <1>2, <4>1, <4>2, <4>3 DEF Somewhere
    <3> QED BY <3>2, <3>3
  <2>6. ASSUME ~tlsFailed', ~LateDestructors
         PROVE  Flushes(t)' /\ \A b \in Addrs : Known(b) => Somewhere(b)'
    <3>1. Flushes(t)'
      BY <1>1, <1>2, <2>2, <2>6, OfThread, IdleOp DEF Flushes
    <3> QED BY <3>1, <1>2, <2>5, <2>6 DEF AllocInv, Kept
  <2>7. free' \subseteq Addrs /\ sys' \subseteq Addrs /\ live' \in [Addrs -> Layouts \cup {"none"}]
    BY <1>1, <1>2, <2>1 DEF Types
  <2> QED BY <1>1, <1>2, <2>2, <2>3, <2>4, <2>5, <2>6, <2>7, IdleOp, CallStep
<1> QED BY <1>4, <1>5

\* dealloc gives the pointer of t to the sub-heap or to the magazine: what is the
\* same in both cases.
LEMMA GiveBack ==
  ASSUME AllocInv, NEW t \in Threads, op[t].at = "push", HasTls(t), Done(t),
         UNCHANGED <<main, base, end, life, sys, live, tlsFailed>>,
         NEW y \in Tls, tls' = [tls EXCEPT ![t] = y], y.ptr = tls[t].ptr,
         y.registered = tls[t].registered, y.heap \in {NoHeap, main},
         y.ptr = "null" => y.mag = {},
         \A b \in y.mag : y.heap # NoHeap /\ b \in tls[t].mag \cup {op[t].addr},
         \A b \in free' : b \in free \cup tls[t].mag \cup {op[t].addr},
         \A b \in tls[t].mag \cup {op[t].addr} : b \notin y.mag \/ b \notin free',
         free \subseteq free',
         ~tlsFailed /\ ~LateDestructors =>
           \A b \in tls[t].mag \cup {op[t].addr} : b \in y.mag \/ b \in free'
  PROVE  AllocInv'
<1>1. /\ op[t] \in Op /\ tls[t] \in Tls /\ Thread(t) /\ Types /\ Home
      /\ op[t].at \notin Configuring /\ life[t] # "unborn"
      /\ InMain(op[t].addr) /\ Known(op[t].addr)
  BY OfThread DEF AllocInv, Configuring, Thread, Known
<1>2. op[t].addr \in Addrs /\ op[t].addr # NoAddr
  BY <1>1, KnownAddr
<1>3. op' = [op EXCEPT ![t] = Idle] /\ op'[t] = Idle
         /\ \A u \in Threads : u # t => op'[u] = op[u]
  BY <1>1 DEF Done, Types
<1>4. tls'[t] = y /\ \A u \in Threads : u # t => tls'[u] = tls[u]
  BY <1>1, OthersSame
<1>5. \A a : (InMain(a)' <=> InMain(a)) /\ (Known(a)' <=> Known(a))
  BY DEF InMain, Known
<1>6. \A b \in tls[t].mag \cup {op[t].addr} : InMain(b)
  BY <1>1 DEF Thread
<1>7. Thread(t)'
  BY <1>1, <1>3, <1>4, <1>5, <1>6, IdleThread
<1>8. Home'
  BY <1>1, <1>5, <1>6 DEF Home
<1>9. \A u \in Threads, b \in Addrs : op'[u].addr = b => op[u].addr = b /\ u # t
  BY <1>3, IdleOp, AddrFacts
<1>10. ASSUME NEW b \in Addrs PROVE Once(b)'
  <2>1. Once(b)
    BY DEF AllocInv
  <2>2. CASE b \in tls[t].mag \cup {op[t].addr}
    <3>1. live'[b] = "none" /\ b \notin sys' /\ b \notin free
      BY <2>1, <2>2 DEF Once
    <3>2. \A u \in Threads : op'[u].addr # b /\ (u # t => b \notin tls'[u].mag)
      BY <1>4, <1>9, <2>1, <2>2 DEF Once
    <3>3. b \notin tls'[t].mag \/ b \notin free'
      BY <1>4, <2>2
    <3> QED BY <3>1, <3>2, <3>3 DEF Once
  <2>3. CASE b \notin tls[t].mag \cup {op[t].addr}
    <3>1. b \in free' => b \in free
      BY <2>3
    <3>2. \A u \in Threads : b \in tls'[u].mag => b \in tls[u].mag
      BY <1>4, <2>3
    <3> QED BY <1>9, <2>1, <3>1, <3>2, OnceFewer
  <2> QED BY <2>2, <2>3
<1>11. ASSUME ~tlsFailed', ~LateDestructors, NEW b \in Addrs, Known(b) PROVE Somewhere(b)'
  <2>1. Somewhere(b)
    BY <1>11 DEF AllocInv, Kept
  <2>2. CASE b \in tls[t].mag \cup {op[t].addr}
    BY <2>2, <1>4, <1>11 DEF Somewhere
  <2>3. CASE live[b] # "none" \/ b \in free \/ b \in sys
    BY <2>3 DEF Somewhere
  <2>4. CASE \E u \in Threads : u # t /\ (op[u].addr = b \/ b \in tls[u].mag)
    BY <2>4, <1>3, <1>4 DEF Somewhere
  <2> QED BY <2>1, <2>2, <2>3, <2>4 DEF Somewhere
<1>12. ASSUME ~tlsFailed', ~LateDestructors PROVE Flushes(t)'
  <2>1. tls[t].ptr = "live" /\ ~op[t].tmp /\ tls[t].registered /\ life[t] # "gone"
    BY <1>12, LiveCall
  <2> QED BY <2>1, <1>3, <1>4, IdleOp DEF Flushes
<1>13. free' \subseteq Addrs /\ sys' \subseteq Addrs /\ live' \in [Addrs -> Layouts \cup {"none"}]
  BY <1>1, <1>2 DEF Types, Tls
<1> QED BY <1>1, <1>3, <1>7, <1>8, <1>10, <1>11, <1>12, <1>13, IdleOp, CallStep

\* DeallocSmall preserves the invariant.
LEMMA DeallocSmallStep ==
  ASSUME AllocInv, NEW t \in Threads, DeallocSmall(t)
  PROVE  AllocInv'
<1>1. /\ op[t] \in Op /\ tls[t] \in Tls /\ Thread(t) /\ Types
      /\ op[t].at = "push" /\ HasTls(t) /\ main # NoHeap /\ Heap(t) = main
      /\ InMain(op[t].addr) /\ Known(op[t].addr)
  BY OfThread, HeapIsMain DEF DeallocSmall, At, AllocInv, Thread, Known
<1>2. UNCHANGED <<main, base, end, life, sys, live, tlsFailed>> /\ Done(t)
  BY DEF DeallocSmall, statics
<1>3. PICK D \in Drains(t) : /\ free' = free \cup D
                             /\ Leave(t, Heap(t), (Mag(t) \ D) \cup {op[t].addr})
  BY DEF DeallocSmall
<1>4. D \subseteq Mag(t) /\ Mag(t) \subseteq tls[t].mag
  BY DEF Drains, kSubset, Mag
<1>5. op[t].addr \in Addrs
  BY <1>1, KnownAddr
<1>6. Heap(t) \in Configurers \cup {NoHeap} /\ (Mag(t) \ D) \cup {op[t].addr} \in SUBSET Addrs
  BY <1>1, <1>4, <1>5 DEF Types, Tls
<1>7. PICK y \in Tls : /\ tls' = [tls EXCEPT ![t] = y] /\ tls'[t] = y
                       /\ y.ptr = tls[t].ptr /\ y.registered = tls[t].registered
                       /\ y.heap = IF op[t].tmp THEN tls[t].heap ELSE Heap(t)
                       /\ y.mag = IF op[t].tmp THEN tls[t].mag ELSE (Mag(t) \ D) \cup {op[t].addr}
  BY <1>1, <1>3, <1>6, Leaves
<1>8. op[t].addr \notin tls[t].mag
  BY <1>5 DEF AllocInv, Once
<1>9. op[t].tmp => D = {}
  BY <1>4 DEF Mag
<1>10. ~op[t].tmp => Mag(t) = tls[t].mag
  BY DEF Mag
<1>11. ~tlsFailed /\ ~LateDestructors => ~op[t].tmp
  BY <1>1, LiveCall
<1>12. \A b \in tls[t].mag \cup {op[t].addr} : b \notin y.mag \/ b \notin free'
  <2>1. \A b \in tls[t].mag \cup {op[t].addr} : b \notin free
    BY <1>1, <1>5 DEF AllocInv, Once, Tls
  <2> QED BY <1>3, <1>4, <1>7, <1>8, <1>9, <2>1
<1>13. y.heap \in {NoHeap, main} /\ (y.ptr = "null" => y.mag = {})
  BY <1>1, <1>7 DEF Thread, HasTls
<1>14. \A b \in y.mag : y.heap # NoHeap /\ b \in tls[t].mag \cup {op[t].addr}
  BY <1>1, <1>4, <1>7 DEF Thread
<1>15. /\ \A b \in free' : b \in free \cup tls[t].mag \cup {op[t].addr}
       /\ free \subseteq free'
       /\ ~tlsFailed /\ ~LateDestructors =>
             \A b \in tls[t].mag \cup {op[t].addr} : b \in y.mag \/ b \in free'
  BY <1>3, <1>4, <1>7, <1>10, <1>11
<1> QED BY <1>1, <1>2, <1>7, <1>12, <1>13, <1>14, <1>15, GiveBack

\* DeallocBig preserves the invariant.
LEMMA DeallocBigStep ==
  ASSUME AllocInv, NEW t \in Threads, DeallocBig(t)
  PROVE  AllocInv'
<1>1. /\ op[t] \in Op /\ tls[t] \in Tls /\ Thread(t) /\ Types
      /\ op[t].at = "push" /\ HasTls(t) /\ main # NoHeap /\ Heap(t) = main
      /\ InMain(op[t].addr) /\ Known(op[t].addr)
  BY OfThread, HeapIsMain DEF DeallocBig, At, AllocInv, Thread, Known
<1>2. UNCHANGED <<main, base, end, life, sys, live, tlsFailed>> /\ Done(t) /\ Leave(t, Heap(t), Mag(t))
  BY DEF DeallocBig, statics
<1>3. free' = free \cup {op[t].addr}
  BY <1>1 DEF DeallocBig, InMain
<1>4. op[t].addr \in Addrs
  BY <1>1, KnownAddr
<1>5. Heap(t) \in Configurers \cup {NoHeap} /\ Mag(t) \in SUBSET Addrs
  BY <1>1 DEF Types, Tls, Mag
<1>6. PICK y \in Tls : /\ tls' = [tls EXCEPT ![t] = y] /\ tls'[t] = y
                       /\ y.ptr = tls[t].ptr /\ y.registered = tls[t].registered
                       /\ y.heap = IF op[t].tmp THEN tls[t].heap ELSE Heap(t)
                       /\ y.mag = IF op[t].tmp THEN tls[t].mag ELSE Mag(t)
  BY <1>1, <1>2, <1>5, Leaves
<1>7. y.mag = tls[t].mag
  BY <1>6 DEF Mag
<1>8. \A b \in tls[t].mag \cup {op[t].addr} : b \notin y.mag \/ b \notin free'
  <2>1. op[t].addr \notin tls[t].mag /\ \A b \in tls[t].mag : b \notin free
    BY <1>1, <1>4 DEF AllocInv, Once, Tls
  <2> QED BY <1>3, <1>7, <2>1
<1>9. y.heap \in {NoHeap, main} /\ (y.ptr = "null" => y.mag = {})
      /\ \A b \in y.mag : y.heap # NoHeap /\ b \in tls[t].mag \cup {op[t].addr}
  BY <1>1, <1>6, <1>7 DEF Thread
<1>10. /\ \A b \in free' : b \in free \cup tls[t].mag \cup {op[t].addr}
       /\ free \subseteq free'
       /\ \A b \in tls[t].mag \cup {op[t].addr} : b \in y.mag \/ b \in free'
  BY <1>3, <1>7
<1> QED BY <1>1, <1>2, <1>6, <1>8, <1>9, <1>10, GiveBack

-----------------------------------------------------------------------------
(* configure() and threads *)

\* A thread that configures is the main thread, and the others are not born yet.
LEMMA Configurer ==
  ASSUME AllocInv, NEW t \in Threads, op[t].at \in Configuring
  PROVE  /\ t = MainThread /\ t \in Configurers
         /\ \A u \in Threads \ {t} : life[u] = "unborn" /\ op[u].at = "idle" /\ tls[u] = NoTls
<1>1. Startup /\ \A u \in Threads : Thread(u)
  BY DEF AllocInv
<1>2. t = MainThread /\ t \in Configurers
  BY <1>1 DEF Startup
<1>3. ~Published
  <2>1. main = NoHeap \/ end = 0
    BY <1>1, <1>2 DEF Startup, Configuring
  <2>2. main # NoHeap => HeapBase[main] + HeapLen # 0
    <3>1. main # NoHeap => HeapBase[main] \in Nat \ {0} /\ HeapLen \in Nat \ {0}
      BY GlobalAllocAssumption DEF AllocInv, Types
    <3> QED BY <3>1
  <2> QED BY <2>1, <2>2 DEF Published
<1> QED BY <1>1, <1>2, <1>3 DEF Startup, Thread

\* A step of configure() that moves no address.
LEMMA ConfigStep ==
  ASSUME AllocInv, NEW t \in Threads, NEW x \in Op, op' = [op EXCEPT ![t] = x],
         UNCHANGED <<main, life, tls, free, sys, live, tlsFailed>>,
         base' \in Nat, end' \in Nat,
         op[t].at \in Configuring \/ (op[t].at = "idle" /\ base' = base /\ end' = end),
         x.at \in Configuring \cup {"idle"}, x.addr = NoAddr, ~x.tmp \/ x.tmp = op[t].tmp,
         life[t] \notin {"unborn", "gone"}, op[t].at = "idle" => life[t] = "running",
         Startup'
  PROVE  AllocInv'
<1>1. Types /\ Types' /\ op[t] \in Op /\ tls[t] \in Tls /\ Thread(t) /\ Home
  BY OfThread DEF AllocInv, Types
<1>2. op'[t] = x /\ \A u \in Threads : u # t => op'[u] = op[u]
  BY <1>1 DEF Types
<1>3. op[t].addr = NoAddr
  BY <1>1 DEF Thread, Configuring, Freeing
<1>4. \A a : (InMain(a)' <=> InMain(a)) /\ (Known(a)' <=> Known(a))
  BY DEF InMain, Known
<1>5. ASSUME NEW u \in Threads PROVE Thread(u)'
  <2>1. CASE u = t
    BY <1>1, <1>2, <1>4, <2>1 DEF Thread, Freeing, Configuring
  <2>2. CASE u # t
    <3>1. Thread(u) /\ op'[u] = op[u]
      BY <1>2, <2>2 DEF AllocInv
    <3>2. (base' = base /\ end' = end) \/ op[u].at = "idle"
      BY <2>2, Configurer
    <3> QED BY <3>1, <3>2, <1>4 DEF Thread, Freeing
  <2> QED BY <2>1, <2>2
<1>6. Home'
  BY HomeSame DEF AllocInv
<1>7. \A u \in Threads : op'[u].addr = op[u].addr /\ tls'[u].mag = tls[u].mag
  BY <1>2, <1>3
<1>8. /\ \A a \in Addrs : Once(a)'
      /\ \A a \in Addrs : Somewhere(a) => Somewhere(a)'
  BY <1>7, DataSame
<1>9. Kept'
  <2>1. ASSUME ~tlsFailed', ~LateDestructors, NEW u \in Threads PROVE Flushes(u)'
    <3>1. Flushes(u)
      BY <2>1, OfThread
    <3>2. CASE u = t
      BY <3>1, <3>2, <1>2 DEF Flushes
    <3>3. CASE u # t
      BY <3>1, <3>3, <1>2 DEF Flushes
    <3> QED BY <3>2, <3>3
  <2> QED BY <2>1, <1>4, <1>8 DEF AllocInv, Kept
<1> QED BY <1>1, <1>5, <1>6, <1>8, <1>9 DEF AllocInv

\* The operation record of a step of configure().
LEMMA GotoOp ==
  ASSUME Types, NEW t \in Threads, NEW w \in Configuring, Goto(t, w)
  PROVE  \E x \in Op : /\ op' = [op EXCEPT ![t] = x] /\ op'[t] = x
                       /\ x.at = w /\ x.addr = op[t].addr /\ x.tmp = op[t].tmp
<1>1. op[t] \in Op /\ op \in [Threads -> Op]
  BY DEF Types
<1> DEFINE v == [op[t] EXCEPT !.at = w]
<1>2. v \in Op /\ v.at = w /\ v.addr = op[t].addr /\ v.tmp = op[t].tmp
  BY <1>1 DEF Op
<1>3. op' = [op EXCEPT ![t] = v] /\ op'[t] = v
  BY <1>1 DEF Goto
<1> QED BY <1>2, <1>3

\* Whoever is inside a call, or running, was born and is not gone.
LEMMA Alive ==
  ASSUME AllocInv, NEW t \in Threads, op[t].at # "idle" \/ life[t] = "running"
  PROVE  life[t] \notin {"unborn", "gone"}
BY OfThread DEF Thread

\* Configure preserves the invariant.
LEMMA ConfigureStep ==
  ASSUME AllocInv, NEW t \in Threads, Configure(t)
  PROVE  AllocInv'
<1>1. /\ Types /\ Startup /\ Thread(t) /\ t \in Configurers /\ life[t] = "running"
      /\ op[t].at = "idle" /\ main = NoHeap /\ op[t].addr = NoAddr
  BY OfThread DEF AllocInv, Configure, At, Thread, Freeing
<1>2. UNCHANGED <<main, base, end, life, tls, free, sys, live, tlsFailed>> /\ Goto(t, "build")
  BY DEF Configure, statics, heaps
<1>3. PICK x \in Op : /\ op' = [op EXCEPT ![t] = x] /\ op'[t] = x
                      /\ x.at = "build" /\ x.addr = op[t].addr /\ x.tmp = op[t].tmp
  BY <1>1, <1>2, GotoOp DEF Configuring
<1>4. t = MainThread
  BY <1>1 DEF Startup, Published
<1>5. Startup'
  <2>1. Published' <=> Published
    BY <1>2 DEF Published
  <2>2. \A u \in Threads \ {MainThread} : op'[u] = op[u]
    BY <1>1, <1>3, <1>4 DEF Types
  <2> QED BY <1>1, <1>2, <1>3, <1>4, <2>1, <2>2 DEF Startup
<1> QED BY <1>1, <1>2, <1>3, <1>5, ConfigStep DEF Configuring, Types

\* Build preserves the invariant.
LEMMA BuildStep ==
  ASSUME AllocInv, NEW t \in Threads, Build(t)
  PROVE  AllocInv'
<1>1. /\ Types /\ Startup /\ Thread(t) /\ op[t].at = "build" /\ op[t] \in Op
      /\ op[t].addr = NoAddr /\ life[t] \notin {"unborn", "gone"}
  BY OfThread DEF AllocInv, Build, At, Thread, Freeing, Types
<1>2. UNCHANGED <<main, base, end, life, tls, free, sys, live, tlsFailed>>
  BY DEF Build, statics, heaps
<1>3. t = MainThread /\ t \in Configurers
  BY <1>1, Configurer DEF Configuring
<1>4. PICK x \in Op : /\ op' = [op EXCEPT ![t] = x] /\ op'[t] = x
                      /\ x.at \in {"cas", "idle"} /\ x.addr = NoAddr
                      /\ x.tmp = op[t].tmp \/ x = Idle
  <2>1. CASE Goto(t, "cas")
    BY <1>1, <2>1, GotoOp DEF Configuring
  <2>2. CASE Done(t)
    <3>1. Idle \in Op /\ Idle.at = "idle" /\ Idle.addr = NoAddr
      BY IdleOp DEF Idle
    <3>2. op' = [op EXCEPT ![t] = Idle] /\ op'[t] = Idle
      BY <1>1, <2>2 DEF Done, Types
    <3> QED BY <3>1, <3>2
  <2> QED BY <2>1, <2>2 DEF Build
<1>5. Startup'
  <2>1. Published' <=> Published
    BY <1>2 DEF Published
  <2>2. \A u \in Threads \ {MainThread} : op'[u] = op[u]
    BY <1>1, <1>4, <1>3 DEF Types
  <2> QED BY <1>1, <1>2, <1>3, <1>4, <2>1, <2>2 DEF Startup, Configuring
<1> QED BY <1>1, <1>2, <1>4, <1>5, ConfigStep, ZenonT(60) DEF Configuring, Types, Idle

\* The compare-exchange adds the addresses of the pool, all of them free.
LEMMA PublishMainStep ==
  ASSUME AllocInv, NEW t \in Threads, PublishMain(t)
  PROVE  AllocInv'
<1>1. /\ Types /\ Startup /\ Thread(t) /\ Home /\ op[t].at = "cas" /\ op[t] \in Op
      /\ op[t].addr = NoAddr /\ life[t] \notin {"unborn", "gone"}
  BY OfThread DEF AllocInv, PublishMain, At, Thread, Freeing, Types
<1>2. /\ t = MainThread /\ t \in Configurers
      /\ \A u \in Threads \ {t} : life[u] = "unborn" /\ op[u].at = "idle" /\ tls[u] = NoTls
  BY <1>1, Configurer DEF Configuring
<1>3. main = NoHeap /\ base = 0 /\ end = 0 /\ MainThread # NoHeap
  BY <1>1, <1>2, GlobalAllocAssumption DEF Startup
<1>4. /\ main' = t /\ free' = Pool(t) /\ Goto(t, "base")
      /\ UNCHANGED <<base, end, life, tls, sys, live, tlsFailed>>
  BY <1>3 DEF PublishMain
<1>5. PICK x \in Op : /\ op' = [op EXCEPT ![t] = x] /\ op'[t] = x
                      /\ x.at = "base" /\ x.addr = op[t].addr /\ x.tmp = op[t].tmp
  BY <1>1, <1>4, GotoOp DEF Configuring
<1>6. \A u \in Threads : u # t => op'[u] = op[u]
  BY <1>1, <1>5 DEF Types
<1>7. Pool(t) \subseteq Addrs /\ Pool(t) \cap SysAddrs = {} /\ NoAddr \notin Addrs
  BY <1>2, AddrFacts
<1>8. Types'
  BY <1>1, <1>2, <1>4, <1>5, <1>7 DEF Types
<1>9. Startup'
  BY <1>1, <1>2, <1>3, <1>4, <1>5, <1>6 DEF Startup, Configuring
<1>10. /\ free = {} /\ \A u \in Threads : tls[u].mag = {} /\ tls[u].heap = NoHeap
       /\ \A u \in Threads : op[u].addr = NoAddr
  <2>1. ASSUME NEW u \in Threads
        PROVE  tls[u].mag = {} /\ tls[u].heap = NoHeap /\ op[u].addr = NoAddr
    <3>1. Thread(u)
      BY OfThread
    <3>2. tls[u].mag = {} /\ tls[u].heap = NoHeap
      BY <3>1, <1>3 DEF Thread, InMain
    <3>3. op[u].at \in {"idle", "cas"}
      BY <1>1, <1>2
    <3> QED BY <3>1, <3>2, <3>3 DEF Thread, Freeing
  <2>2. free = {}
    BY <1>1, <1>3 DEF Home, InMain
  <2> QED BY <2>1, <2>2
<1>11. \A u \in Threads : op'[u].addr = NoAddr
  BY <1>5, <1>6, <1>10
<1>12. /\ \A a : InMain(a)' <=> a \in Pool(t)
       /\ \A a : Known(a)' <=> a \in SysAddrs \/ a \in Pool(t)
       /\ \A a : Known(a) <=> a \in SysAddrs
  BY <1>2, <1>3, <1>4 DEF InMain, Known
<1>13. ASSUME NEW u \in Threads PROVE Thread(u)'
  <2>1. Thread(u)
    BY OfThread
  <2>2. op'[u].at \in {"idle", "base"} /\ op'[u].addr = NoAddr
    BY <1>2, <1>5, <1>6, <1>11
  <2>3. life[u] \in {"unborn", "gone"} => op'[u].at = "idle"
    BY <2>1, <1>1, <1>6 DEF Thread
  <2> QED BY <2>1, <2>2, <2>3, <1>4, <1>10 DEF Thread, Freeing
<1>14. Home'
  BY <1>1, <1>4, <1>12 DEF Home
<1>15. ASSUME NEW a \in Addrs PROVE Once(a)'
  <2>1. Once(a) /\ a # NoAddr
    BY <1>7 DEF AllocInv
  <2>2. \A u \in Threads : op'[u].addr # a /\ a \notin tls'[u].mag
    BY <1>4, <1>10, <1>11, <2>1
  <2>3. a \in Pool(t) => live[a] = "none" /\ a \notin sys
    BY <1>1, <1>7, <1>12 DEF Home
  <2> QED BY <1>4, <2>1, <2>2, <2>3 DEF Once
<1>16. Kept'
  <2>1. ASSUME ~tlsFailed', ~LateDestructors PROVE Kept'
    <3>1. ASSUME NEW u \in Threads PROVE Flushes(u)'
      <4>1. Flushes(u)
        BY <2>1, <1>4, OfThread
      <4>2. CASE u = t
        BY <4>1, <4>2, <1>1, <1>4, <1>5 DEF Flushes
      <4>3. CASE u # t
        BY <4>1, <4>3, <1>4, <1>6 DEF Flushes
      <4> QED BY <4>2, <4>3
    <3>2. ASSUME NEW a \in Addrs, Known(a)' PROVE Somewhere(a)'
      <4>1. CASE a \in Pool(t)
        BY <4>1, <1>4 DEF Somewhere
      <4>2. CASE a \in SysAddrs
        <5>1. Somewhere(a) /\ a # NoAddr
          BY <4>2, <2>1, <1>4, <1>7, <1>12 DEF AllocInv, Kept
        <5>2. live[a] # "none" \/ a \in sys
          BY <5>1, <1>10 DEF Somewhere
        <5> QED BY <5>2, <1>4 DEF Somewhere
      <4> QED BY <3>2, <4>1, <4>2, <1>12
    <3> QED BY <3>1, <3>2 DEF Kept
  <2> QED BY <2>1 DEF Kept
<1> QED BY <1>8, <1>9, <1>13, <1>14, <1>15, <1>16 DEF AllocInv

\* PublishBase preserves the invariant.
LEMMA PublishBaseStep ==
  ASSUME AllocInv, NEW t \in Threads, PublishBase(t)
  PROVE  AllocInv'
<1>1. /\ Types /\ Startup /\ Thread(t) /\ op[t].at = "base" /\ op[t] \in Op
      /\ op[t].addr = NoAddr /\ life[t] \notin {"unborn", "gone"}
  BY OfThread DEF AllocInv, PublishBase, At, Thread, Freeing, Types
<1>2. /\ t = MainThread /\ t \in Configurers
      /\ \A u \in Threads \ {t} : life[u] = "unborn" /\ op[u].at = "idle" /\ tls[u] = NoTls
  BY <1>1, Configurer DEF Configuring
<1>3. main = t /\ end = 0 /\ HeapBase[t] \in Nat
  BY <1>1, <1>2, GlobalAllocAssumption DEF Startup
<1>4. /\ base' = HeapBase[t] /\ Goto(t, "end")
      /\ UNCHANGED <<main, end, life, tls, free, sys, live, tlsFailed>>
  BY DEF PublishBase, heaps
<1>5. PICK x \in Op : /\ op' = [op EXCEPT ![t] = x] /\ op'[t] = x
                      /\ x.at = "end" /\ x.addr = op[t].addr /\ x.tmp = op[t].tmp
  BY <1>1, <1>4, GotoOp DEF Configuring
<1>6. \A u \in Threads : u # t => op'[u] = op[u]
  BY <1>1, <1>5 DEF Types
<1>7. Startup'
  <2>1. main' # NoHeap
    BY <1>2, <1>3, <1>4, GlobalAllocAssumption
  <2> QED BY <2>1, <1>1, <1>2, <1>3, <1>4, <1>5, <1>6 DEF Startup, Configuring
<1>8. base' \in Nat /\ end' \in Nat
  BY <1>1, <1>3, <1>4 DEF Types
<1> QED BY <1>1, <1>4, <1>5, <1>7, <1>8, ConfigStep DEF Configuring

\* PublishEnd preserves the invariant.
LEMMA PublishEndStep ==
  ASSUME AllocInv, NEW t \in Threads, PublishEnd(t)
  PROVE  AllocInv'
<1>1. /\ Types /\ Startup /\ Thread(t) /\ op[t].at = "end" /\ op[t] \in Op
      /\ op[t].addr = NoAddr /\ life[t] \notin {"unborn", "gone"}
  BY OfThread DEF AllocInv, PublishEnd, At, Thread, Freeing, Types
<1>2. /\ t = MainThread /\ t \in Configurers
      /\ \A u \in Threads \ {t} : life[u] = "unborn" /\ op[u].at = "idle" /\ tls[u] = NoTls
  BY <1>1, Configurer DEF Configuring
<1>3. main = t /\ base = HeapBase[t] /\ HeapBase[t] \in Nat /\ HeapLen \in Nat
  BY <1>1, <1>2, GlobalAllocAssumption DEF Startup
<1>4. /\ end' = HeapBase[t] + HeapLen /\ Done(t)
      /\ UNCHANGED <<main, base, life, tls, free, sys, live, tlsFailed>>
  BY DEF PublishEnd, heaps
<1>5. /\ op' = [op EXCEPT ![t] = Idle] /\ op'[t] = Idle /\ Idle \in Op
      /\ Idle.at = "idle" /\ Idle.addr = NoAddr /\ ~Idle.tmp
  BY <1>1, <1>4, IdleOp DEF Done, Types, Idle
<1>6. \A u \in Threads : u # t => op'[u] = op[u]
  BY <1>1, <1>5 DEF Types
<1>7. Startup'
  <2>1. Published'
    BY <1>2, <1>3, <1>4, GlobalAllocAssumption DEF Published
  <2>2. main' # NoHeap
    BY <1>2, <1>3, <1>4, GlobalAllocAssumption
  <2> QED BY <2>1, <2>2, <1>1, <1>2, <1>3, <1>4, <1>5, <1>6 DEF Startup, Configuring
<1>8. base' \in Nat /\ end' \in Nat
  BY <1>1, <1>3, <1>4 DEF Types
<1> QED BY <1>1, <1>4, <1>5, <1>7, <1>8, ConfigStep DEF Configuring

\* A thread that was not born yet starts to run, or an idle one ends.
LEMMA LifeStep ==
  ASSUME AllocInv, NEW t \in Threads, NEW l \in {"running", "exiting", "gone"},
         life' = [life EXCEPT ![t] = l], op[t].at = "idle",
         UNCHANGED <<main, base, end, tls, op, free, sys, live, tlsFailed>>,
         life[t] # "unborn" \/ Published \/ t = MainThread,
         l = "gone" => ~(tls[t].ptr = "live" /\ tls[t].registered),
         tls[t].ptr = "freed" => l # "running"
  PROVE  AllocInv'
<1>1. Types /\ Types' /\ Startup /\ Home
  BY DEF AllocInv, Types
<1>2. life'[t] = l /\ \A u \in Threads : u # t => life'[u] = life[u]
  BY <1>1 DEF Types
<1>3. Startup'
  <2>1. Published' <=> Published
    BY DEF Published
  <2>2. \A u \in Threads \ {MainThread} : life'[u] = "unborn" \/ Published
    BY <1>1, <1>2 DEF Startup
  <2> QED BY <1>1, <2>1, <2>2 DEF Startup
<1>4. \A a : (InMain(a)' <=> InMain(a)) /\ (Known(a)' <=> Known(a))
  BY DEF InMain, Known
<1>5. ASSUME NEW u \in Threads PROVE Thread(u)'
  <2>1. Thread(u)
    BY OfThread
  <2>2. life'[u] \in {"unborn", "gone"} => op[u].at = "idle"
    BY <1>2, <2>1 DEF Thread
  <2>3. life'[u] = "unborn" => tls[u] = NoTls
    BY <1>2, <2>1 DEF Thread
  <2> QED BY <1>4, <2>1, <2>2, <2>3 DEF Thread
<1>6. Home'
  BY <1>1, HomeSame
<1>7. /\ \A a \in Addrs : Once(a)'
      /\ \A a \in Addrs : Somewhere(a) => Somewhere(a)'
  BY DataSame
<1>8. Kept'
  <2>1. ASSUME ~tlsFailed', ~LateDestructors, NEW u \in Threads PROVE Flushes(u)'
    <3>1. Flushes(u)
      BY <2>1, OfThread
    <3> QED BY <3>1, <1>2 DEF Flushes
  <2> QED BY <2>1, <1>4, <1>7 DEF AllocInv, Kept
<1> QED BY <1>1, <1>3, <1>5, <1>6, <1>7, <1>8 DEF AllocInv

\* With a second thread only after configure(), the spawner has published all.
LEMMA SpawnStep ==
  ASSUME AllocInv, ~EarlyThreads, NEW t \in Threads, NEW u \in Threads, Spawn(t, u)
  PROVE  AllocInv'
<1>1. /\ life[t] = "running" /\ op[t].at = "idle" /\ life[u] = "unborn" /\ main # NoHeap
      /\ life' = [life EXCEPT ![u] = "running"]
      /\ UNCHANGED <<main, base, end, tls, op, free, sys, live, tlsFailed>>
  BY DEF Spawn, At, statics, heaps
<1>2. op[u].at = "idle" /\ tls[u] = NoTls
  BY <1>1, OfThread DEF Thread
<1>3. Published \/ u = MainThread
  <2>1. CASE t = MainThread
    BY <1>1, <2>1 DEF AllocInv, Startup
  <2>2. CASE t # MainThread
    BY <1>1, <2>2 DEF AllocInv, Startup
  <2> QED BY <2>1, <2>2
<1>4. tls[u].ptr # "freed"
  BY <1>2 DEF NoTls
<1> QED BY <1>1, <1>2, <1>3, <1>4, LifeStep

\* Exit preserves the invariant.
LEMMA ExitStep ==
  ASSUME AllocInv, NEW t \in Threads, Exit(t)
  PROVE  AllocInv'
<1>1. /\ life[t] = "running" /\ op[t].at = "idle"
      /\ life' = [life EXCEPT ![t] = "exiting"]
      /\ UNCHANGED <<main, base, end, tls, op, free, sys, live, tlsFailed>>
  BY DEF Exit, At, statics, heaps
<1> QED BY <1>1, LifeStep

\* Gone preserves the invariant.
LEMMA GoneStep ==
  ASSUME AllocInv, NEW t \in Threads, Gone(t)
  PROVE  AllocInv'
<1>1. /\ life[t] = "exiting" /\ op[t].at = "idle"
      /\ ~(tls[t].ptr = "live" /\ tls[t].registered)
      /\ life' = [life EXCEPT ![t] = "gone"]
      /\ UNCHANGED <<main, base, end, tls, op, free, sys, live, tlsFailed>>
  BY DEF Gone, At, statics, heaps
<1> QED BY <1>1, LifeStep

\* Stutter preserves the invariant.
LEMMA StutterStep ==
  ASSUME AllocInv, UNCHANGED vars
  PROVE  AllocInv'
<1>1. UNCHANGED <<main, base, end, life, tls, op, free, sys, live, tlsFailed>>
  BY DEF vars, statics, heaps
<1>2. Types' /\ Startup' /\ Home'
  BY <1>1 DEF AllocInv, Types, Startup, Home, Published, Known, InMain
<1>3. \A u \in Threads : Thread(u)'
  BY <1>1, ThreadSame DEF AllocInv
<1>4. /\ \A a \in Addrs : Once(a)'
      /\ \A a \in Addrs : Somewhere(a) => Somewhere(a)'
  BY <1>1, DataSame
<1>5. Kept'
  BY <1>1, <1>4 DEF AllocInv, Kept, Flushes, Known, InMain
<1> QED BY <1>2, <1>3, <1>4, <1>5 DEF AllocInv

\* The initial states satisfy the invariant.
LEMMA InitAllocInv ==
  ASSUME Init
  PROVE  AllocInv
<1>1. NoTls \in Tls /\ Idle \in Op /\ SysAddrs \subseteq Addrs /\ NoAddr \notin Addrs
  BY IdleOp, AddrFacts DEF NoTls, Tls
<1>2. Types
  BY <1>1 DEF Init, Types
<1>3. \A t \in Threads : op[t] = Idle /\ tls[t] = NoTls
  BY DEF Init
<1>4. /\ Idle.at = "idle" /\ Idle.addr = NoAddr /\ ~Idle.tmp
      /\ NoTls.ptr = "null" /\ NoTls.mag = {} /\ NoTls.heap = NoHeap
  BY IdleOp DEF NoTls
<1>5. Startup
  BY <1>3, <1>4, GlobalAllocAssumption DEF Init, Startup, Configuring
<1>6. ASSUME NEW t \in Threads PROVE Thread(t) /\ Flushes(t)
  BY <1>3, <1>4 DEF Thread, Flushes, Freeing
<1>7. Home
  BY DEF Init, Home
<1>8. ASSUME NEW a \in Addrs PROVE Once(a) /\ (Known(a) => Somewhere(a))
  <2>1. \A t \in Threads : op[t].addr # a /\ a \notin tls[t].mag
    BY <1>1, <1>3, <1>4
  <2>2. live[a] = "none" /\ free = {} /\ sys = SysAddrs /\ main = NoHeap
    BY DEF Init
  <2> QED BY <2>1, <2>2 DEF Once, Known, InMain, Somewhere
<1> QED BY <1>2, <1>5, <1>6, <1>7, <1>8 DEF AllocInv, Kept

\* Every step preserves the invariant.
LEMMA NextAllocInv ==
  ASSUME ~EarlyThreads, AllocInv, [Next]_vars
  PROVE  AllocInv'
<1>1. CASE UNCHANGED vars
  BY <1>1, StutterStep
<1>2. ASSUME NEW t \in Threads, Step(t) PROVE AllocInv'
  <2>1. CASE Configure(t) \/ Build(t) \/ PublishMain(t) \/ PublishBase(t) \/ PublishEnd(t)
    BY <2>1, ConfigureStep, BuildStep, PublishMainStep, PublishBaseStep, PublishEndStep
  <2>2. CASE TlsInit(t) \/ OnThreadExit(t)
    BY <2>2, TlsInitStep, OnThreadExitStep
  <2>3. CASE \E lay \in Layouts : AllocCall(t, lay)
    BY <2>3, AllocCallStep
  <2>4. CASE AllocHit(t) \/ AllocSystem(t) \/ AllocRefill(t) \/ AllocBig(t) \/ AllocAbort(t)
    BY <2>4, AllocHitStep, AllocSystemStep, AllocRefillStep, AllocBigStep, AllocAbortStep
  <2>5. CASE \E a \in Addrs : DeallocCall(t, a)
    BY <2>5, DeallocCallStep
  <2>6. CASE LoadBase(t) \/ LoadEnd(t) \/ Route(t) \/ DeallocSmall(t) \/ DeallocBig(t)
    BY <2>6, LoadBaseStep, LoadEndStep, RouteStep, DeallocSmallStep, DeallocBigStep
  <2>7. CASE \E u \in Threads : Spawn(t, u)
    BY <2>7, SpawnStep
  <2>8. CASE Exit(t) \/ Gone(t)
    BY <2>8, ExitStep, GoneStep
  <2> QED BY <1>2, <2>1, <2>2, <2>3, <2>4, <2>5, <2>6, <2>7, <2>8 DEF Step
<1> QED BY <1>1, <1>2 DEF Next

-----------------------------------------------------------------------------
(* Theorems *)

\* The inductive invariant, for install!'s order: configure() before threads.
LEMMA AlwaysAllocInv ==
  ASSUME ~EarlyThreads
  PROVE  Spec => []AllocInv
<1>1. AllocInv /\ [Next]_vars => AllocInv'
  BY NextAllocInv
<1>2. Init => AllocInv
  BY InitAllocInv
<1> QED BY <1>1, <1>2, PTL DEF Spec

\* FreesGoHome: the routing check of dealloc sends every pointer back to the
\* allocator it came from, when configure() is done before the second thread and
\* no destructor allocates or frees after on_thread_exit.
THEOREM FreesAlwaysGoHome ==
  ASSUME ~EarlyThreads, ~LateDestructors
  PROVE  Spec => []FreesGoHome
<1>1. AllocInv => FreesGoHome
  <2> SUFFICES ASSUME AllocInv PROVE FreesGoHome
    OBVIOUS
  <2>1. Home /\ \A t \in Threads : Thread(t)
    BY DEF AllocInv
  <2> QED BY <2>1 DEF FreesGoHome, Home, Thread, InMain
<1> QED BY <1>1, AlwaysAllocInv, PTL

\* What Holders(a) lists, case by case.
LEMMA HoldersAre ==
  ASSUME NEW a \in Addrs, NEW x \in Holders(a)
  PROVE  \/ \E t \in Threads : x = <<"call", t>> /\ op[t].addr = a
         \/ \E t \in Threads : x = <<"tls", t>> /\ a \in tls[t].mag
         \/ x = <<"live", NoHeap>> /\ live[a] # "none"
         \/ x = <<"free", NoHeap>> /\ a \in free
         \/ x = <<"sys", NoHeap>> /\ a \in sys
BY DEF Holders

\* NoDoubleHandOut: an address is in one place, whatever thread-local storage
\* was refused and whatever the destructors of a dying thread call before
\* on_thread_exit.  None calls after it, when the Tls is no longer the thread's.
THEOREM NeverDoubleHandOut ==
  ASSUME ~EarlyThreads, ~LateDestructors
  PROVE  Spec => []NoDoubleHandOut
<1>1. AllocInv => NoDoubleHandOut
  <2> SUFFICES ASSUME AllocInv, NEW a \in Addrs, NEW x \in Holders(a), NEW y \in Holders(a)
               PROVE  x = y
    BY DEF NoDoubleHandOut
  <2>1. Once(a)
    BY DEF AllocInv
  <2>2. CASE \E t \in Threads : x = <<"call", t>> /\ op[t].addr = a
    BY <2>1, <2>2, HoldersAre DEF Once
  <2>3. CASE \E t \in Threads : x = <<"tls", t>> /\ a \in tls[t].mag
    BY <2>1, <2>3, HoldersAre DEF Once
  <2>4. CASE x = <<"live", NoHeap>> /\ live[a] # "none"
    BY <2>1, <2>4, HoldersAre DEF Once
  <2>5. CASE x = <<"free", NoHeap>> /\ a \in free
    BY <2>1, <2>5, HoldersAre DEF Once
  <2>6. CASE x = <<"sys", NoHeap>> /\ a \in sys
    BY <2>1, <2>6, HoldersAre DEF Once
  <2> QED BY <2>2, <2>3, <2>4, <2>5, <2>6, HoldersAre
<1> QED BY <1>1, AlwaysAllocInv, PTL

\* NoLostObject: a thread's exit flushes its cache, so that no address is lost
\* unless thread-local storage was refused or destructors allocate after the flush.
THEOREM NeverLostObject ==
  ASSUME ~EarlyThreads, ~LateDestructors
  PROVE  Spec => []NoLostObject
<1>1. AllocInv => NoLostObject
  <2> SUFFICES ASSUME AllocInv, ~tlsFailed,
                      NEW a \in SysAddrs \cup (IF main = NoHeap THEN {} ELSE Pool(main))
               PROVE  Holders(a) # {}
    BY DEF NoLostObject
  <2>1. Known(a)
    BY DEF Known, InMain
  <2>2. a \in Addrs
    BY <2>1, KnownAddr DEF AllocInv
  <2>3. Somewhere(a) /\ \A t \in Threads : Flushes(t)
    BY <2>1, <2>2 DEF AllocInv, Kept
  <2>4. CASE live[a] # "none" \/ a \in free \/ a \in sys
    BY <2>2, <2>4 DEF Holders
  <2>5. CASE \E t \in Threads : op[t].addr = a
    BY <2>5 DEF Holders
  <2>6. CASE \E t \in Threads : a \in tls[t].mag
    <3>1. PICK t \in Threads : a \in tls[t].mag
      BY <2>6
    <3>2. tls[t].ptr = "live" /\ life[t] # "gone"
      BY <2>3, <3>1 DEF Flushes
    <3> QED BY <3>1, <3>2 DEF Holders
  <2> QED BY <2>3, <2>4, <2>5, <2>6 DEF Somewhere
<1> QED BY <1>1, AlwaysAllocInv, PTL
=============================================================================
