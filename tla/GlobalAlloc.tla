----------------------------- MODULE GlobalAlloc -----------------------------
(***************************************************************************)
(* The process allocator of toccata/src/lib.rs: configure() publishes a    *)
(* sub-heap and its address range in three statics, alloc and dealloc      *)
(* route between the pool and the system allocator, and each thread keeps  *)
(* a Tls (resolved heap and magazine) that a pthread destructor flushes    *)
(* and frees.                                                              *)
(*                                                                         *)
(* One action per access to the statics; what a thread does to its own Tls *)
(* between two of them is part of the same action.  The sub-heap (module   *)
(* SubHeap) and the system allocator are sets of free addresses here, and  *)
(* a magazine is a set: which free object is taken is left open.           *)
(***************************************************************************)
EXTENDS Integers, FiniteSets, FiniteSetsExt

CONSTANTS
  Threads,
  MainThread,       \* runs first; the others are spawned
  Configurers,      \* threads that call configure()
  NoHeap,
  HeapBase,         \* where each configurer's reservation starts
  HeapLen,          \* its length, in objects
  SysAddrs,         \* addresses the system allocator manages
  MagCap, DropN,    \* MAG_CAP, and how many objects a full magazine drains
  EarlyThreads,     \* are threads spawned before configure() is done?
  LateDestructors   \* do other TLS destructors allocate after on_thread_exit?

Pool(h) == HeapBase[h] .. HeapBase[h] + HeapLen - 1
Addrs   == SysAddrs \cup UNION {Pool(h) : h \in Configurers}
NoAddr  == 0

ASSUME GlobalAllocAssumption ==
  /\ MainThread \in Threads /\ Configurers \subseteq Threads /\ NoHeap \notin Threads
  /\ HeapBase \in [Configurers -> Nat \ {0}] /\ HeapLen \in Nat \ {0}
  /\ SysAddrs \subseteq Nat \ {0}
  /\ \A h \in Configurers : /\ Pool(h) \cap SysAddrs = {}
                            /\ \A g \in Configurers \ {h} : Pool(g) \cap Pool(h) = {}
  /\ MagCap \in Nat \ {0} /\ DropN \in 1 .. MagCap
  /\ EarlyThreads \in BOOLEAN /\ LateDestructors \in BOOLEAN

VARIABLES
  main, base, end,  \* MAIN, POOL_BASE, POOL_END (0 until configured)
  key,              \* KEY_ONCE and KEY: "none", "ok", "failed"
  life,             \* "unborn", "running", "exiting", "gone"
  tls,              \* TLS_PTR and the Tls it points to
  op,               \* the call a thread is in, and its locals
  free,             \* free objects of the sub-heap MAIN points to
  sys,              \* free addresses of the system allocator
  live,             \* what the program holds, by the layout it asked for
  tlsFailed,        \* whether TLS storage or its destructor was ever refused
  aborted           \* oom_backpressure

statics == <<main, base, end>>
heaps   == <<free, sys, live>>
vars    == <<statics, key, life, tls, op, heaps, tlsFailed, aborted>>

\* "small": served by magazines; "big": over-aligned or large.
Layouts == {"small", "big"}
NoTls   == [ptr |-> "null", registered |-> FALSE, heap |-> NoHeap, mag |-> {}]
\* "build", "cas", "base", "end": inside configure(); "alloc": before with_tls;
\* "in_base", "in_end", "route": inside in_pool; "push": before with_tls of dealloc.
Idle    == [at |-> "idle", addr |-> NoAddr, lay |-> "small",
            base |-> 0, end |-> 0, tmp |-> FALSE]

Init ==
  /\ main = NoHeap /\ base = 0 /\ end = 0
  /\ key = "none"
  /\ life = [t \in Threads |-> IF t = MainThread THEN "running" ELSE "unborn"]
  /\ tls = [t \in Threads |-> NoTls]
  /\ op = [t \in Threads |-> Idle]
  /\ free = {} /\ sys = SysAddrs
  /\ live = [a \in Addrs |-> "none"]
  /\ tlsFailed = FALSE /\ aborted = FALSE

At(t, where)   == op[t].at = where /\ ~aborted
Goto(t, where) == op' = [op EXCEPT ![t].at = where]
Done(t)        == op' = [op EXCEPT ![t] = Idle]

-----------------------------------------------------------------------------
(* configure_with *)

\* Returns at once unless MAIN is null.
Configure(t) ==
  /\ t \in Configurers /\ life[t] = "running" /\ At(t, "idle") /\ main = NoHeap
  /\ Goto(t, "build")
  /\ UNCHANGED <<statics, key, life, tls, heaps, tlsFailed, aborted>>

\* build_standalone: a failed reservation panics.
Build(t) ==
  /\ At(t, "build")
  /\ Goto(t, "cas") \/ Done(t)
  /\ UNCHANGED <<statics, key, life, tls, heaps, tlsFailed, aborted>>

\* The compare-exchange: "a racing/second one leaks its sub-heap".
PublishMain(t) ==
  /\ At(t, "cas")
  /\ IF main = NoHeap THEN main' = t /\ free' = Pool(t) /\ Goto(t, "base")
                      ELSE Done(t) /\ UNCHANGED <<main, free>>
  /\ UNCHANGED <<base, end, key, life, tls, sys, live, tlsFailed, aborted>>

PublishBase(t) ==
  /\ At(t, "base")
  /\ base' = HeapBase[t] /\ Goto(t, "end")
  /\ UNCHANGED <<main, end, key, life, tls, heaps, tlsFailed, aborted>>

PublishEnd(t) ==
  /\ At(t, "end")
  /\ end' = HeapBase[t] + HeapLen /\ Done(t)
  /\ UNCHANGED <<main, base, key, life, tls, heaps, tlsFailed, aborted>>

-----------------------------------------------------------------------------
(* The thread-local cache *)

\* tls::init: storage from calloc, and a destructor through pthread_setspecific.
\* Without storage the call runs on a Tls of its own (with_transient); without
\* a key nothing flushes the cache at exit.
TlsInit(t) ==
  /\ At(t, "alloc") \/ At(t, "push")
  /\ tls[t].ptr = "null" /\ ~op[t].tmp
  /\ \/ \E k \in {"ok", "failed"} :
          /\ key \in {"none", k} /\ key' = k
          /\ tls' = [tls EXCEPT ![t] = [NoTls EXCEPT !.ptr = "live", !.registered = k = "ok"]]
          /\ tlsFailed' = (tlsFailed \/ k = "failed")
          /\ UNCHANGED op
     \/ /\ op' = [op EXCEPT ![t].tmp = TRUE]
        /\ tlsFailed' = TRUE
        /\ UNCHANGED <<key, tls>>
  /\ UNCHANGED <<statics, life, heaps, aborted>>

\* The Tls that tls::with passes on: the thread's, whatever became of it, or a
\* transient one.  One that on_thread_exit freed is used as if it were intact and
\* still the thread's, while libc may give the block to another thread's calloc:
\* nothing is claimed or proved with LateDestructors.
HasTls(t) == tls[t].ptr # "null" \/ op[t].tmp
Mag(t)    == IF op[t].tmp THEN {} ELSE tls[t].mag
\* Tls::heap: resolved once per thread.
Heap(t)   == IF op[t].tmp \/ tls[t].heap = NoHeap THEN main ELSE tls[t].heap
\* What a call leaves in the Tls; a transient one is dropped with its magazine.
Leave(t, h, m) ==
  IF op[t].tmp THEN UNCHANGED tls ELSE tls' = [tls EXCEPT ![t].heap = h, ![t].mag = m]

\* Tls::flush, which does nothing before the heap was resolved.
FlushedNot(t) == free    \* mutant
Flushed(t) == IF tls[t].heap = NoHeap THEN free ELSE free \cup tls[t].mag

\* on_thread_exit: flush, drop, free.  TLS_PTR keeps its value.
OnThreadExit(t) ==
  /\ life[t] = "exiting" /\ At(t, "idle")
  /\ tls[t].ptr = "live" /\ tls[t].registered
  /\ free' = Flushed(t)
  /\ tls' = [tls EXCEPT ![t].ptr = "freed", ![t].registered = FALSE, ![t].mag = {}]
  /\ UNCHANGED <<statics, key, life, op, sys, live, tlsFailed, aborted>>

-----------------------------------------------------------------------------
(* GlobalAlloc::alloc *)

\* A thread calls the allocator while it runs, and from destructors of other
\* thread-local values while it exits.
Calls(t) ==
  /\ At(t, "idle")
  /\ \/ life[t] = "running"
     \/ life[t] = "exiting" /\ (LateDestructors \/ tls[t].ptr # "freed")

AllocCall(t, lay) ==
  /\ Calls(t)
  /\ op' = [op EXCEPT ![t].at = "alloc", ![t].lay = lay]
  /\ UNCHANGED <<statics, key, life, tls, heaps, tlsFailed, aborted>>

Hand(t, a) == Done(t) /\ live' = [live EXCEPT ![a] = op[t].lay]

\* A magazine hit looks at nothing else.  Popped: what the magazine keeps.
Peeked(t, a) == Mag(t)    \* mutant
Popped(t, a) == Mag(t) \ {a}
AllocHit(t) ==
  /\ At(t, "alloc") /\ HasTls(t) /\ op[t].lay = "small"
  /\ \E a \in Mag(t) : Hand(t, a) /\ Leave(t, tls[t].heap, Popped(t, a))
  /\ UNCHANGED <<statics, key, life, free, sys, tlsFailed, aborted>>

Misses(t) == At(t, "alloc") /\ HasTls(t) /\ (op[t].lay = "small" => Mag(t) = {})

\* Not configured yet: the system allocator, which may have nothing.
AllocSystem(t) ==
  /\ Misses(t) /\ Heap(t) = NoHeap
  /\ \/ \E a \in sys : Hand(t, a) /\ sys' = sys \ {a}
     \/ sys = {} /\ Done(t) /\ UNCHANGED <<sys, live>>
  /\ UNCHANGED <<statics, key, life, tls, free, tlsFailed, aborted>>

\* ThreadCache::refill: the batch S becomes the magazine, and one of it goes out.
AllocRefill(t) ==
  /\ Misses(t) /\ Heap(t) # NoHeap /\ op[t].lay = "small"
  /\ \E S \in SUBSET free :
       /\ Cardinality(S) \in 1 .. MagCap
       /\ free' = free \ S
       /\ \E a \in S : Hand(t, a) /\ Leave(t, Heap(t), S \ {a})
  /\ UNCHANGED <<statics, key, life, sys, tlsFailed, aborted>>

\* alloc_large, or alloc_class of an aligned class.
AllocBig(t) ==
  /\ Misses(t) /\ Heap(t) # NoHeap /\ op[t].lay = "big"
  /\ \E a \in free : Hand(t, a) /\ free' = free \ {a}
  /\ Leave(t, Heap(t), Mag(t))
  /\ UNCHANGED <<statics, key, life, sys, tlsFailed, aborted>>

\* The sub-heap has nothing for this thread: oom_backpressure.
AllocAbort(t) ==
  /\ Misses(t) /\ Heap(t) # NoHeap
  /\ aborted' = TRUE
  /\ UNCHANGED <<statics, key, life, tls, op, heaps, tlsFailed>>

-----------------------------------------------------------------------------
(* GlobalAlloc::dealloc *)

DeallocCall(t, a) ==
  /\ Calls(t) /\ live[a] # "none"
  /\ op' = [op EXCEPT ![t].at = "in_base", ![t].addr = a, ![t].lay = live[a]]
  /\ live' = [live EXCEPT ![a] = "none"]
  /\ UNCHANGED <<statics, key, life, tls, free, sys, tlsFailed, aborted>>

\* in_pool: two relaxed loads, and then the test.
LoadBase(t) ==
  /\ At(t, "in_base")
  /\ op' = [op EXCEPT ![t].at = "in_end", ![t].base = base]
  /\ UNCHANGED <<statics, key, life, tls, heaps, tlsFailed, aborted>>

LoadEnd(t) ==
  /\ At(t, "in_end")
  /\ op' = [op EXCEPT ![t].at = "route", ![t].end = end]
  /\ UNCHANGED <<statics, key, life, tls, heaps, tlsFailed, aborted>>

InPoolClosed(t) == op[t].addr >= op[t].base /\ op[t].addr <= op[t].end    \* mutant
InPool(t) == op[t].addr >= op[t].base /\ op[t].addr < op[t].end

Route(t) ==
  /\ At(t, "route")
  /\ IF InPool(t) THEN Goto(t, "push") /\ UNCHANGED sys
                  ELSE Done(t) /\ sys' = sys \cup {op[t].addr}
  /\ UNCHANGED <<statics, key, life, tls, free, live, tlsFailed, aborted>>

\* ThreadCache::free: a full magazine drains DropN objects to the sub-heap first.
Drains(t) == IF Cardinality(Mag(t)) < MagCap THEN {{}} ELSE kSubset(DropN, Mag(t))
DeallocSmall(t) ==
  /\ At(t, "push") /\ HasTls(t) /\ op[t].lay = "small" /\ Heap(t) # NoHeap
  /\ \E D \in Drains(t) :
       /\ free' = free \cup D
       /\ Leave(t, Heap(t), (Mag(t) \ D) \cup {op[t].addr})
  /\ Done(t)
  /\ UNCHANGED <<statics, key, life, sys, live, tlsFailed, aborted>>

\* dealloc_by_ptr: a pointer the span table does not know is ignored.
DeallocBig(t) ==
  /\ At(t, "push") /\ HasTls(t) /\ op[t].lay = "big" /\ Heap(t) # NoHeap
  /\ free' = free \cup ({op[t].addr} \cap Pool(Heap(t)))
  /\ Leave(t, Heap(t), Mag(t))
  /\ Done(t)
  /\ UNCHANGED <<statics, key, life, sys, live, tlsFailed, aborted>>

-----------------------------------------------------------------------------
(* Threads *)

\* install! configures in a constructor, before there is a second thread.
Spawn(s, t) ==
  /\ life[s] = "running" /\ At(s, "idle") /\ life[t] = "unborn"
  /\ EarlyThreads \/ main # NoHeap
  /\ life' = [life EXCEPT ![t] = "running"]
  /\ UNCHANGED <<statics, key, tls, op, heaps, tlsFailed, aborted>>

Exit(t) ==
  /\ t # MainThread /\ life[t] = "running" /\ At(t, "idle")
  /\ life' = [life EXCEPT ![t] = "exiting"]
  /\ UNCHANGED <<statics, key, tls, op, heaps, tlsFailed, aborted>>

\* The destructors are through.
Gone(t) ==
  /\ life[t] = "exiting" /\ At(t, "idle")
  /\ ~(tls[t].ptr = "live" /\ tls[t].registered)
  /\ life' = [life EXCEPT ![t] = "gone"]
  /\ UNCHANGED <<statics, key, tls, op, heaps, tlsFailed, aborted>>

Step(t) ==
  \/ Configure(t) \/ Build(t) \/ PublishMain(t) \/ PublishBase(t) \/ PublishEnd(t)
  \/ TlsInit(t) \/ OnThreadExit(t)
  \/ \E lay \in Layouts : AllocCall(t, lay)
  \/ AllocHit(t) \/ AllocSystem(t) \/ AllocRefill(t) \/ AllocBig(t) \/ AllocAbort(t)
  \/ \E a \in Addrs : DeallocCall(t, a)
  \/ LoadBase(t) \/ LoadEnd(t) \/ Route(t) \/ DeallocSmall(t) \/ DeallocBig(t)
  \/ \E u \in Threads : Spawn(t, u)
  \/ Exit(t) \/ Gone(t)

Next == \E t \in Threads : Step(t)
Spec == Init /\ [][Next]_vars

-----------------------------------------------------------------------------
(* Properties *)

\* dealloc's "single routing check" sends every pointer back to the allocator
\* it came from: the system allocator never gets a pool object, and neither a
\* magazine nor the sub-heap a system one, also for what was allocated before
\* configure() and is freed after it.
FreesGoHome ==
  /\ sys \subseteq SysAddrs
  /\ \A a \in free \cup UNION {tls[t].mag : t \in Threads} : main # NoHeap /\ a \in Pool(main)

\* Who holds an address: a call under way, a live Tls, the program, the sub-heap
\* or the system allocator.
Holders(a) ==
  {<<"call", t>> : t \in {u \in Threads : op[u].addr = a}}
  \cup {<<"tls", t>> : t \in {u \in Threads : /\ life[u] # "gone" /\ tls[u].ptr = "live"
                                             /\ a \in tls[u].mag}}
  \cup {<<"live", NoHeap>> : x \in {a} \cap {y \in Addrs : live[y] # "none"}}
  \cup {<<"free", NoHeap>> : x \in {a} \cap free}
  \cup {<<"sys", NoHeap>> : x \in {a} \cap sys}

\* Nobody is handed memory that somebody else still has, across magazines,
\* refills, drains, thread exits and transient caches.
NoDoubleHandOut == \A a \in Addrs : \A x, y \in Holders(a) : x = y

\* Nothing is lost, thread exits included ("returns to the pool rather than
\* leaking with the thread", magazine.rs:258-259), unless a thread was refused
\* its thread-local storage or its destructor.
NoLostObject ==
  \/ tlsFailed
  \/ \A a \in SysAddrs \cup (IF main = NoHeap THEN {} ELSE Pool(main)) : Holders(a) # {}

\* "published once at configure before any in-pool pointer can exist"
\* (lib.rs:67): POOL_END is set when the program holds an object of the pool.
PublishedFirst == \A a \in Addrs \ SysAddrs : live[a] # "none" => end # 0

\* "a thread that observes a non-zero END ... has also observed BASE"
\* (lib.rs:142-143): in_pool never tests against one bound only.
EndShowsBase == \A t \in Threads : op[t].end # 0 => op[t].base # 0

\* "`t` is this thread's live, initialized `Tls`" (lib.rs:362): no call uses a
\* Tls that on_thread_exit has freed.
TlsIsLive == \A t \in Threads : At(t, "alloc") \/ At(t, "push") => tls[t].ptr # "freed"
=============================================================================
