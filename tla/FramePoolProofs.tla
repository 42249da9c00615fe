--------------------------- MODULE FramePoolProofs ---------------------------
(***************************************************************************)
(* Proofs about FramePool, for any number of threads, CPUs and frames and  *)
(* any sizes of slabs, batches and magazines: every frame is in one place, *)
(* the stacks stay within their storage, no frame is lost, and the pool    *)
(* implements FrameSource.                                                 *)
(***************************************************************************)
EXTENDS FramePool, FiniteSetTheorems, SequenceTheorems, TLAPS

Places == {"idle", "refill", "pull", "dry", "fill", "spill", "drain", "draining"}
Jobs   == [at : Places, back : {"idle", "pull", "spill", "exit"},
           frame : 0 .. NumFrames, stash : 0 .. NumFrames, k : Nat, n : Nat]
Caches == {"null", "live", "temp", "freed"}

Types ==
  /\ central \in Seq(Frames)
  /\ lock \in Threads \cup {NoThread}
  /\ slab \in [Cpus -> Seq(Frames)]
  /\ tls \in [Threads -> Caches]
  /\ mag \in [Threads -> Seq(Frames)]
  /\ out \in [Frames -> 0 .. 1]
  /\ job \in [Threads -> Jobs]

\* A call with locals x on a cache s whose magazine holds len frames.  The loop
\* of a flush ends with the magazine empty, and the frame that is kept aside
\* has room when its loop ends.
Call(x, len, s) ==
  /\ len <= MagCap
  /\ x.at = "idle" => x.back = "idle"
  /\ x.frame # NoFrame <=> x.at \in {"fill", "drain", "draining"}
  /\ x.stash # NoFrame => x.back = "spill" /\ s # "temp" /\ len + 1 <= MagCap + x.k
  /\ x.at \in {"pull", "dry"} => x.back = "pull"
  /\ x.back = "pull" => x.at \in {"pull", "dry", "refill", "fill"} /\ len <= Half
  /\ x.back = "pull" /\ x.at \in {"refill", "fill"} => len < Half
  /\ x.at = "spill" => x.back \in {"spill", "exit"}
  /\ x.back \in {"spill", "exit"} => x.at \in {"spill", "drain", "draining"} /\ x.k <= len
  /\ s = "temp" => x.back \in {"pull", "spill"}
  /\ s = "temp" /\ x.back = "spill" => x.k = len
  /\ x.back = "exit" => x.k = len /\ s = "live"
  /\ ~LateCalls /\ s \in {"null", "freed"} => len = 0 /\ x.back = "idle"

Distinct(q) == \A i, j \in 1 .. Len(q) : q[i] = q[j] => i = j

Stacks ==
  /\ Distinct(central)
  /\ \A c \in Cpus : Distinct(slab[c]) /\ Len(slab[c]) <= CapPerCpu
  /\ \A t \in Threads : Distinct(mag[t])

\* Every frame f is in exactly one place: a place of kind[f], at[f] being the
\* CPU or the thread it belongs to.
Kinds == {"central", "slab", "mag", "frame", "stash", "out"}
Located(kind, at) ==
  \A f \in Frames :
    /\ kind[f] = "slab" => at[f] \in Cpus
    /\ kind[f] \in {"mag", "frame", "stash"} => at[f] \in Threads
    /\ f \in ToSet(central) <=> kind[f] = "central"
    /\ out[f] = 1 <=> kind[f] = "out"
    /\ \A c \in Cpus : f \in ToSet(slab[c]) <=> kind[f] = "slab" /\ at[f] = c
    /\ \A t \in Threads :
         /\ f \in ToSet(mag[t]) <=> kind[f] = "mag" /\ at[f] = t
         /\ f = job[t].frame <=> kind[f] = "frame" /\ at[f] = t
         /\ f = job[t].stash <=> kind[f] = "stash" /\ at[f] = t
Partition ==
  \E kind \in [Frames -> Kinds], at \in [Frames -> Cpus \cup Threads \cup {NoThread}] :
    Located(kind, at)

PoolInv ==
  /\ Types
  /\ \A t \in Threads : Call(job[t], Len(mag[t]), tls[t])
  /\ Stacks
  /\ Partition

-----------------------------------------------------------------------------
(* Stacks *)

\* The arithmetic of half a magazine.
LEMMA HalfFacts == Half \in Nat /\ 1 <= Half /\ Half < MagCap /\ Half <= MagCap - 1
BY FramePoolAssumption DEF Half

\* The frames, and the frame that is none.
LEMMA FrameFacts == NumFrames \in Nat /\ NoFrame \notin Frames /\ Frames \subseteq 0 .. NumFrames
                    /\ NoFrame \in 0 .. NumFrames /\ 0 .. NumFrames \subseteq Frames \cup {NoFrame}
BY FramePoolAssumption DEF Frames, NoFrame

\* What a stack holds.
LEMMA InStack ==
  ASSUME NEW S, NEW q \in Seq(S), NEW f
  PROVE  f \in ToSet(q) <=> \E i \in 1 .. Len(q) : q[i] = f
BY DEF ToSet

\* A push adds the frame.
LEMMA PushStack ==
  ASSUME NEW S, NEW q \in Seq(S), NEW f \in S
  PROVE  /\ Append(q, f) \in Seq(S) /\ Len(Append(q, f)) = Len(q) + 1
         /\ ToSet(Append(q, f)) = ToSet(q) \cup {f}
         /\ Distinct(q) /\ f \notin ToSet(q) => Distinct(Append(q, f))
<1> DEFINE p == Append(q, f)
<1>1. /\ p \in Seq(S) /\ Len(p) = Len(q) + 1 /\ Len(q) \in Nat
      /\ \A i \in 1 .. Len(q) : p[i] = q[i]
      /\ p[Len(q) + 1] = f
  OBVIOUS
<1> HIDE DEF p
<1>2. \A g : g \in ToSet(p) <=> g \in ToSet(q) \/ g = f
  <2>1. ASSUME NEW g \in ToSet(p) PROVE g \in ToSet(q) \/ g = f
    BY <1>1, <2>1, InStack
  <2>2. ASSUME NEW g \in ToSet(q) PROVE g \in ToSet(p)
    <3>1. PICK i \in 1 .. Len(q) : q[i] = g
      BY <2>2, InStack
    <3>2. i \in 1 .. Len(p) /\ p[i] = g
      BY <1>1, <3>1
    <3> QED BY <1>1, <3>2, InStack
  <2>3. f \in ToSet(p)
    <3>1. Len(q) + 1 \in 1 .. Len(p)
      BY <1>1
    <3> QED BY <1>1, <3>1, InStack
  <2> QED BY <2>1, <2>2, <2>3
<1>3. ASSUME Distinct(q), f \notin ToSet(q) PROVE Distinct(p)
  <2>1. ASSUME NEW i \in 1 .. Len(p), NEW j \in 1 .. Len(p), p[i] = p[j] PROVE i = j
    <3>1. \A m \in 1 .. Len(q) : q[m] # f
      BY <1>3, InStack
    <3> QED BY <1>1, <1>3, <2>1, <3>1 DEF Distinct
  <2> QED BY <2>1 DEF Distinct
<1> QED BY <1>1, <1>2, <1>3 DEF p

\* A pop takes the frame on top, and only that.
LEMMA PopStack ==
  ASSUME NEW S, NEW q \in Seq(S), q # <<>>
  PROVE  /\ Front(q) \in Seq(S) /\ Len(Front(q)) = Len(q) - 1 /\ Len(q) > 0
         /\ Last(q) \in S /\ Last(q) \in ToSet(q)
         /\ Distinct(q) => /\ ToSet(Front(q)) = ToSet(q) \ {Last(q)}
                           /\ Distinct(Front(q))
<1> DEFINE p == Front(q)
           f == Last(q)
<1>1. Len(q) \in Nat /\ Len(q) > 0 /\ f = q[Len(q)] /\ f \in S
  BY DEF Last
<1>2. p \in Seq(S) /\ Len(p) = Len(q) - 1 /\ \A i \in 1 .. Len(p) : p[i] = q[i]
  <2>1. p = SubSeq(q, 1, Len(q) - 1) /\ Len(q) - 1 \in Int /\ 1 \in Int
    BY <1>1 DEF Front
  <2>2. \A i \in 1 .. Len(q) - 1 : q[i] \in S
    BY <1>1
  <2>3. /\ SubSeq(q, 1, Len(q) - 1) \in Seq(S)
        /\ Len(SubSeq(q, 1, Len(q) - 1)) = IF 1 <= Len(q) - 1 THEN Len(q) - 1 - 1 + 1 ELSE 0
        /\ \A i \in 1 .. Len(q) - 1 - 1 + 1 : SubSeq(q, 1, Len(q) - 1)[i] = q[1 + i - 1]
    BY <2>1, <2>2, SubSeqProperties
  <2>4. Len(p) = Len(q) - 1
    <3> DEFINE l == Len(SubSeq(q, 1, Len(q) - 1))
               n == Len(q)
    <3>1. n \in Nat /\ n > 0 /\ l = IF 1 <= n - 1 THEN n - 1 - 1 + 1 ELSE 0
      BY <1>1, <2>3
    <3> HIDE DEF l, n
    <3>2. l = n - 1
      BY <3>1
    <3> QED BY <2>1, <3>2 DEF l, n
  <2>5. ASSUME NEW i \in 1 .. Len(p) PROVE p[i] = q[i]
    <3>1. i \in 1 .. Len(q) - 1 - 1 + 1 /\ 1 + i - 1 = i
      BY <1>1, <2>4
    <3> QED BY <2>1, <2>3, <3>1
  <2> QED BY <2>1, <2>3, <2>4, <2>5
<1> HIDE DEF p, f
<1>3. f \in ToSet(q)
  BY <1>1, InStack
<1>4. ASSUME Distinct(q) PROVE Distinct(p)
  BY <1>1, <1>2, <1>4 DEF Distinct
<1>5. ASSUME Distinct(q) PROVE ToSet(p) = ToSet(q) \ {f}
  <2>1. ASSUME NEW g \in ToSet(p) PROVE g \in ToSet(q) /\ g # f
    <3>1. PICK i \in 1 .. Len(p) : p[i] = g
      BY <1>2, <2>1, InStack
    <3>2. i \in 1 .. Len(q) /\ q[i] = g /\ i # Len(q) /\ Len(q) \in 1 .. Len(q)
      BY <1>1, <1>2, <3>1
    <3>3. g # f
      BY <1>1, <1>5, <3>2 DEF Distinct
    <3> QED BY <3>2, <3>3, InStack
  <2>2. ASSUME NEW g \in ToSet(q), g # f PROVE g \in ToSet(p)
    <3>1. PICK i \in 1 .. Len(q) : q[i] = g
      BY <2>2, InStack
    <3>2. i \in 1 .. Len(p) /\ p[i] = g
      BY <1>1, <1>2, <2>2, <3>1
    <3> QED BY <1>2, <3>2, InStack
  <2> QED BY <2>1, <2>2
<1> QED BY <1>1, <1>2, <1>3, <1>4, <1>5 DEF p, f

\* An empty stack holds nothing, and a stack of length 0 is empty.
LEMMA EmptyStack ==
  /\ \A S : <<>> \in Seq(S) /\ Len(<<>>) = 0
  /\ ToSet(<<>>) = {} /\ Distinct(<<>>)
  /\ \A S : \A q \in Seq(S) : Len(q) \in Nat /\ (Len(q) = 0 <=> q = <<>>)
<1>1. \A S : <<>> \in Seq(S) /\ Len(<<>>) = 0
  OBVIOUS
<1>2. ToSet(<<>>) = {}
  BY DEF ToSet
<1>3. Distinct(<<>>)
  BY DEF Distinct
<1> QED BY <1>1, <1>2, <1>3

\* The pigeonhole: a stack of different frames is no longer than there are frames.
LEMMA StackBound ==
  ASSUME NEW q \in Seq(Frames), Distinct(q)
  PROVE  Len(q) <= NumFrames
<1>1. Len(q) \in Nat /\ q \in [1 .. Len(q) -> Frames]
  OBVIOUS
<1>2. q \in Injection(1 .. Len(q), Frames)
  BY <1>1 DEF Injection, IsInjective, Distinct
<1>3. IsFiniteSet(Frames) /\ Cardinality(Frames) = NumFrames
  BY FramePoolAssumption, FS_Interval DEF Frames
<1>4. Cardinality(1 .. Len(q)) = Len(q)
  BY <1>1, FS_Interval
<1>5. Cardinality(1 .. Len(q)) <= Cardinality(Frames)
  BY <1>2, <1>3, FS_Injection
<1> QED BY <1>3, <1>4, <1>5

-----------------------------------------------------------------------------
(* Steps *)

\* Where a frame is, for one frame.
At1(f, K, W) ==
  /\ K = "slab" => W \in Cpus
  /\ K \in {"mag", "frame", "stash"} => W \in Threads
  /\ f \in ToSet(central) <=> K = "central"
  /\ out[f] = 1 <=> K = "out"
  /\ \A c \in Cpus : f \in ToSet(slab[c]) <=> K = "slab" /\ W = c
  /\ \A t \in Threads :
       /\ f \in ToSet(mag[t]) <=> K = "mag" /\ W = t
       /\ f = job[t].frame <=> K = "frame" /\ W = t
       /\ f = job[t].stash <=> K = "stash" /\ W = t

\* Every frame is in one place.
LEMMA FindFrame ==
  ASSUME Partition, NEW f \in Frames
  PROVE  \E K \in Kinds, W \in Cpus \cup Threads \cup {NoThread} : At1(f, K, W)
BY DEF Partition, Located, At1

\* A step that moves f from where it is to a place K, W.
LEMMA MoveFrame ==
  ASSUME Partition, NEW f \in Frames, NEW K \in Kinds,
         NEW W \in Cpus \cup Threads \cup {NoThread},
         At1(f, K, W)',
         \A g \in Frames \ {f} :
           /\ g \in ToSet(central') <=> g \in ToSet(central)
           /\ out'[g] = out[g]
           /\ \A c \in Cpus : g \in ToSet(slab'[c]) <=> g \in ToSet(slab[c])
           /\ \A t \in Threads :
                /\ g \in ToSet(mag'[t]) <=> g \in ToSet(mag[t])
                /\ g = job'[t].frame <=> g = job[t].frame
                /\ g = job'[t].stash <=> g = job[t].stash
  PROVE  Partition'
<1>1. PICK kind \in [Frames -> Kinds], at \in [Frames -> Cpus \cup Threads \cup {NoThread}] :
         Located(kind, at)
  BY DEF Partition
<1> DEFINE kind2 == [kind EXCEPT ![f] = K]
           at2   == [at EXCEPT ![f] = W]
<1>2. /\ kind2 \in [Frames -> Kinds] /\ at2 \in [Frames -> Cpus \cup Threads \cup {NoThread}]
      /\ kind2[f] = K /\ at2[f] = W
      /\ \A g \in Frames \ {f} : kind2[g] = kind[g] /\ at2[g] = at[g]
  OBVIOUS
<1> HIDE DEF kind2, at2
<1>3. ASSUME NEW g \in Frames PROVE At1(g, kind2[g], at2[g])'
  <2>1. CASE g = f
    BY <1>2, <2>1 DEF At1
  <2>2. CASE g # f
    <3>1. At1(g, kind[g], at[g]) /\ kind2[g] = kind[g] /\ at2[g] = at[g]
      BY <1>1, <1>2, <2>2 DEF Located, At1
    <3>2. At1(g, kind[g], at[g])'
      BY <3>1, <2>2 DEF At1
    <3> QED BY <3>1, <3>2
  <2> QED BY <2>1, <2>2
<1>4. Located(kind2, at2)'
  BY <1>3 DEF Located, At1
<1> QED BY <1>2, <1>4 DEF Partition

\* A step of t that leaves the invariant of every other thread alone.
LEMMA CallStep ==
  ASSUME PoolInv, NEW t \in Threads, NEW x \in Jobs, NEW m \in Seq(Frames), NEW s \in Caches,
         job' = [job EXCEPT ![t] = x], mag' = [mag EXCEPT ![t] = m],
         tls' = [tls EXCEPT ![t] = s],
         Call(x, Len(m), s), Distinct(m),
         central' \in Seq(Frames), Distinct(central'), lock' \in Threads \cup {NoThread},
         slab' \in [Cpus -> Seq(Frames)],
         \A c \in Cpus : Distinct(slab'[c]) /\ Len(slab'[c]) <= CapPerCpu,
         out' \in [Frames -> 0 .. 1], Partition'
  PROVE  PoolInv'
<1>1. Types'
  BY DEF PoolInv, Types
<1>2. /\ job'[t] = x /\ mag'[t] = m /\ tls'[t] = s
      /\ \A u \in Threads : u # t => job'[u] = job[u] /\ mag'[u] = mag[u] /\ tls'[u] = tls[u]
  BY DEF PoolInv, Types
<1>3. ASSUME NEW u \in Threads
      PROVE  Call(job'[u], Len(mag'[u]), tls'[u]) /\ Distinct(mag'[u])
  <2>1. CASE u = t
    BY <1>2, <2>1
  <2>2. CASE u # t
    BY <1>2, <2>2 DEF PoolInv, Stacks
  <2> QED BY <2>1, <2>2
<1>4. \A u \in Threads : Call(job[u], Len(mag[u]), tls[u])'
  BY <1>3 DEF Call
<1>5. Stacks'
  BY <1>3 DEF Stacks, Distinct
<1> QED BY <1>1, <1>4, <1>5 DEF PoolInv

\* What the program is handed or gives back in one step, as FrameSource sees it.
OutStep ==
  \/ out' = out
  \/ \E f \in Frames : out[f] = 0 /\ out' = [out EXCEPT ![f] = 1]
  \/ \E f \in Frames : out[f] = 1 /\ out' = [out EXCEPT ![f] = 0]

\* What the invariant says of one thread, one slab and one frame.
LEMMA OfThread ==
  ASSUME PoolInv, NEW t \in Threads
  PROVE  /\ job[t] \in Jobs /\ mag[t] \in Seq(Frames) /\ tls[t] \in Caches
         /\ Call(job[t], Len(mag[t]), tls[t]) /\ Distinct(mag[t])
         /\ Len(mag[t]) \in Nat /\ (Len(mag[t]) = 0 <=> mag[t] = <<>>)
BY EmptyStack DEF PoolInv, Types, Stacks

\* What the invariant says of the pool's own state.
LEMMA OfPool ==
  ASSUME PoolInv
  PROVE  /\ central \in Seq(Frames) /\ Distinct(central) /\ Partition
         /\ lock \in Threads \cup {NoThread}
         /\ slab \in [Cpus -> Seq(Frames)] /\ out \in [Frames -> 0 .. 1]
         /\ job \in [Threads -> Jobs] /\ mag \in [Threads -> Seq(Frames)]
         /\ tls \in [Threads -> Caches]
         /\ \A c \in Cpus : Distinct(slab[c]) /\ Len(slab[c]) <= CapPerCpu
BY DEF PoolInv, Types, Stacks

\* A frame that is seen somewhere is nowhere else.
LEMMA IsAt ==
  ASSUME Partition, NEW f \in Frames
  PROVE  /\ f \in ToSet(central) => At1(f, "central", NoThread)
         /\ out[f] = 1 => At1(f, "out", NoThread)
         /\ \A c \in Cpus : f \in ToSet(slab[c]) => At1(f, "slab", c)
         /\ \A t \in Threads :
              /\ f \in ToSet(mag[t]) => At1(f, "mag", t)
              /\ f = job[t].frame => At1(f, "frame", t)
              /\ f = job[t].stash => At1(f, "stash", t)
<1>1. PICK K \in Kinds, W \in Cpus \cup Threads \cup {NoThread} : At1(f, K, W)
  BY FindFrame
<1> QED BY <1>1 DEF At1

\* pop_l2 takes a frame from the slab of CPU c.
LEMMA PopSlab ==
  ASSUME PoolInv, NEW c \in Cpus, slab[c] # <<>>, slab' = Popped(c)
  PROVE  /\ Last(slab[c]) \in Frames /\ At1(Last(slab[c]), "slab", c)
         /\ slab' \in [Cpus -> Seq(Frames)]
         /\ \A d \in Cpus : Distinct(slab'[d]) /\ Len(slab'[d]) <= CapPerCpu
         /\ \A d \in Cpus : ToSet(slab'[d]) = ToSet(slab[d]) \ {Last(slab[c])}
<1> DEFINE q == Front(slab[c])
           f == Last(slab[c])
<1>1. slab[c] \in Seq(Frames) /\ Distinct(slab[c]) /\ Len(slab[c]) <= CapPerCpu
  BY OfPool
<1>2. /\ q \in Seq(Frames) /\ Len(q) = Len(slab[c]) - 1 /\ Len(slab[c]) > 0
      /\ f \in Frames /\ f \in ToSet(slab[c])
      /\ ToSet(q) = ToSet(slab[c]) \ {f} /\ Distinct(q)
  BY <1>1, PopStack
<1>3. slab' = [slab EXCEPT ![c] = q]
  BY DEF Popped
<1> HIDE DEF q, f
<1>4. At1(f, "slab", c)
  BY <1>2, OfPool, IsAt
<1>5. /\ slab' \in [Cpus -> Seq(Frames)] /\ slab'[c] = q
      /\ \A d \in Cpus : d # c => slab'[d] = slab[d]
  BY <1>2, <1>3, OfPool
<1>6. Len(q) <= CapPerCpu
  BY <1>1, <1>2, FramePoolAssumption
<1>7. \A d \in Cpus : Distinct(slab'[d]) /\ Len(slab'[d]) <= CapPerCpu
  BY <1>2, <1>5, <1>6, OfPool
<1>8. \A d \in Cpus : ToSet(slab'[d]) = ToSet(slab[d]) \ {f}
  BY <1>2, <1>4, <1>5 DEF At1
<1> QED BY <1>2, <1>4, <1>5, <1>7, <1>8 DEF f

\* push_l2 puts a frame that is not there on the slab of CPU c.
LEMMA PushSlab ==
  ASSUME PoolInv, NEW c \in Cpus, HasRoom(c), NEW f \in Frames, f \notin ToSet(slab[c]),
         slab' = Pushed(c, f)
  PROVE  /\ slab' \in [Cpus -> Seq(Frames)]
         /\ \A d \in Cpus : Distinct(slab'[d]) /\ Len(slab'[d]) <= CapPerCpu
         /\ ToSet(slab'[c]) = ToSet(slab[c]) \cup {f}
         /\ \A d \in Cpus : d # c => ToSet(slab'[d]) = ToSet(slab[d])
<1> DEFINE q == Append(slab[c], f)
<1>1. slab[c] \in Seq(Frames) /\ Distinct(slab[c]) /\ Len(slab[c]) < CapPerCpu
  BY OfPool DEF HasRoom
<1>2. /\ q \in Seq(Frames) /\ Len(q) = Len(slab[c]) + 1
      /\ ToSet(q) = ToSet(slab[c]) \cup {f} /\ Distinct(q)
  BY <1>1, PushStack
<1>3. slab' = [slab EXCEPT ![c] = q]
  BY DEF Pushed
<1> HIDE DEF q
<1>5. /\ slab' \in [Cpus -> Seq(Frames)] /\ slab'[c] = q
      /\ \A d \in Cpus : d # c => slab'[d] = slab[d]
  BY <1>2, <1>3, OfPool
<1>6. Len(q) <= CapPerCpu
  <2>1. Len(slab[c]) \in Nat
    BY <1>1, EmptyStack
  <2> QED BY <1>1, <1>2, <2>1, FramePoolAssumption
<1>7. \A d \in Cpus : Distinct(slab'[d]) /\ Len(slab'[d]) <= CapPerCpu
  BY <1>2, <1>5, <1>6, OfPool
<1> QED BY <1>2, <1>5, <1>7

\* The program is handed a frame that it does not hold.
LEMMA HandOne ==
  ASSUME PoolInv, NEW f \in Frames, out[f] # 1, out' = HandOut({f})
  PROVE  /\ out[f] = 0 /\ out' = [out EXCEPT ![f] = 1] /\ out' \in [Frames -> 0 .. 1]
         /\ out'[f] = 1 /\ \A g \in Frames \ {f} : out'[g] = out[g]
         /\ OutStep
<1>1. out \in [Frames -> 0 .. 1] /\ out[f] = 0
  <2>1. out \in [Frames -> 0 .. 1]
    BY OfPool
  <2> QED BY <2>1
<1>2. \A g \in Frames : out'[g] = out[g] + (IF g \in {f} THEN 1 ELSE 0)
  BY DEF HandOut
<1>3. \A g \in Frames : out'[g] = IF g = f THEN 1 ELSE out[g]
  <2>1. \A g \in Frames : out[g] \in 0 .. 1 /\ out[g] + 0 = out[g]
    BY <1>1
  <2> QED BY <1>1, <1>2, <2>1
<1>4. out' = [out EXCEPT ![f] = 1]
  <2>1. out' = [g \in Frames |-> out'[g]]
    BY DEF HandOut
  <2> QED BY <1>1, <1>3, <2>1
<1>5. OutStep
  BY <1>1, <1>4 DEF OutStep
<1>6. out' \in [Frames -> 0 .. 1]
  BY <1>1, <1>4
<1> QED BY <1>1, <1>3, <1>4, <1>5, <1>6

\* The program gives a frame back.
LEMMA GiveOne ==
  ASSUME PoolInv, NEW f \in Held, out' = [out EXCEPT ![f] = @ - 1]
  PROVE  /\ f \in Frames /\ out[f] = 1 /\ At1(f, "out", NoThread)
         /\ out' \in [Frames -> 0 .. 1]
         /\ out'[f] = 0 /\ \A g \in Frames \ {f} : out'[g] = out[g]
         /\ OutStep
<1>1. out \in [Frames -> 0 .. 1] /\ f \in Frames /\ out[f] = 1
  <2>1. out \in [Frames -> 0 .. 1] /\ f \in Frames /\ out[f] > 0
    BY OfPool DEF Held
  <2> QED BY <2>1
<1>2. out' = [out EXCEPT ![f] = 0]
  BY <1>1
<1>3. At1(f, "out", NoThread)
  BY <1>1, OfPool, IsAt
<1>4. OutStep
  BY <1>1, <1>2 DEF OutStep
<1>5. out' \in [Frames -> 0 .. 1] /\ out'[f] = 0 /\ \A g \in Frames \ {f} : out'[g] = out[g]
  BY <1>1, <1>2
<1> QED BY <1>1, <1>3, <1>4, <1>5

-----------------------------------------------------------------------------
(* Allocation *)

\* A step that moves no frame.
LEMMA NoMove ==
  ASSUME PoolInv, UNCHANGED <<central, slab, mag, out>>, NEW t \in Threads,
         NEW x \in Jobs, job' = [job EXCEPT ![t] = x],
         x.frame = job[t].frame, x.stash = job[t].stash,
         NEW s \in Caches, tls' = [tls EXCEPT ![t] = s],
         Call(x, Len(mag[t]), s), lock' \in Threads \cup {NoThread}
  PROVE  PoolInv' /\ OutStep
<1>1. \A u \in Threads : job'[u].frame = job[u].frame /\ job'[u].stash = job[u].stash
  BY OfPool
<1>2. Partition'
  <2>1. PICK kind \in [Frames -> Kinds], at \in [Frames -> Cpus \cup Threads \cup {NoThread}] :
           Located(kind, at)
    BY OfPool DEF Partition
  <2>2. Located(kind, at)'
    BY <1>1, <2>1 DEF Located
  <2> QED BY <2>2 DEF Partition
<1>3. mag' = [mag EXCEPT ![t] = mag[t]] /\ mag[t] \in Seq(Frames) /\ Distinct(mag[t])
  BY OfPool, OfThread
<1>4. /\ central' \in Seq(Frames) /\ Distinct(central') /\ slab' \in [Cpus -> Seq(Frames)]
      /\ out' \in [Frames -> 0 .. 1]
      /\ \A c \in Cpus : Distinct(slab'[c]) /\ Len(slab'[c]) <= CapPerCpu
  BY OfPool
<1> QED BY <1>2, <1>3, <1>4, CallStep DEF OutStep

\* PoolAlloc: from a slab to the program.
LEMMA PoolAllocStep ==
  ASSUME PoolInv, NEW t \in Threads, NEW c \in Cpus, PoolAlloc(t, c)
  PROVE  PoolInv' /\ OutStep
<1>0. PICK f \in Frames : f = Last(slab[c])
  BY PopSlab DEF PoolAlloc
<1>1. /\ slab[c] # <<>> /\ out' = HandOut({f}) /\ slab' = Popped(c)
      /\ UNCHANGED <<central, lock, tls, mag, job>>
  BY <1>0 DEF PoolAlloc
<1>2. /\ f \in Frames /\ At1(f, "slab", c)
      /\ slab' \in [Cpus -> Seq(Frames)]
      /\ \A d \in Cpus : Distinct(slab'[d]) /\ Len(slab'[d]) <= CapPerCpu
      /\ \A d \in Cpus : ToSet(slab'[d]) = ToSet(slab[d]) \ {f}
  BY <1>0, <1>1, PopSlab
<1>3. /\ out[f] = 0 /\ out' \in [Frames -> 0 .. 1]
      /\ out'[f] = 1 /\ \A g \in Frames \ {f} : out'[g] = out[g]
  BY <1>1, <1>2, HandOne DEF At1
<1>4. OutStep
  BY <1>1, <1>2, HandOne DEF At1
<1>5. At1(f, "out", NoThread)'
  BY <1>1, <1>2, <1>3 DEF At1
<1>6. Partition'
  BY <1>1, <1>2, <1>3, <1>5, OfPool, MoveFrame DEF Kinds
<1>7. /\ job' = [job EXCEPT ![t] = job[t]] /\ mag' = [mag EXCEPT ![t] = mag[t]]
      /\ tls' = [tls EXCEPT ![t] = tls[t]]
  BY <1>1, OfPool
<1>8. /\ job[t] \in Jobs /\ mag[t] \in Seq(Frames) /\ tls[t] \in Caches
      /\ Call(job[t], Len(mag[t]), tls[t]) /\ Distinct(mag[t])
      /\ central' \in Seq(Frames) /\ Distinct(central') /\ lock' \in Threads \cup {NoThread}
  BY <1>1, OfThread, OfPool
<1>9. PoolInv'
  BY <1>2, <1>3, <1>6, <1>7, <1>8, CallStep
<1> QED BY <1>4, <1>9

\* The record of a thread that is in no call.
LEMMA IdleJob ==
  /\ Idle \in Jobs /\ Idle.at = "idle" /\ Idle.back = "idle"
  /\ Idle.frame = NoFrame /\ Idle.stash = NoFrame /\ Idle.k = 0 /\ Idle.n = 0
BY FrameFacts DEF Idle, Jobs, Places

\* A thread that is in no call holds no frame aside and has no cache of a call.
LEMMA InNoCall ==
  ASSUME PoolInv, NEW t \in Threads, At(t, "idle")
  PROVE  /\ job[t].frame = NoFrame /\ job[t].stash = NoFrame /\ job[t].back = "idle"
         /\ tls[t] \in {"null", "live", "freed"}
BY OfThread DEF At, Call, Caches

\* A call that begins or ends away from the cache.
LEMMA PlainCall ==
  ASSUME NEW t \in Threads, NEW x \in Jobs, NEW len \in Nat, NEW s, Call(job[t], len, s),
         x.at \in {"idle", "refill"}, x.back = "idle", x.frame = NoFrame, x.stash = NoFrame,
         s # "temp", ~LateCalls /\ s \in {"null", "freed"} => len = 0
  PROVE  Call(x, len, s)
BY DEF Call

\* PoolMiss preserves the invariant.
LEMMA PoolMissStep ==
  ASSUME PoolInv, NEW t \in Threads, NEW c \in Cpus, PoolMiss(t, c)
  PROVE  PoolInv' /\ OutStep
<1> DEFINE v == [Idle EXCEPT !.at = "refill"]
<1>1. /\ v \in Jobs /\ v.at = "refill" /\ v.back = "idle"
      /\ v.frame = NoFrame /\ v.stash = NoFrame
  BY FrameFacts DEF Idle, Jobs, Places
<1>2. /\ At(t, "idle") /\ job' = [job EXCEPT ![t] = v]
      /\ UNCHANGED <<central, lock, slab, tls, mag, out>>
  BY DEF PoolMiss, Goto
<1> HIDE DEF v
<1>3. /\ job[t].frame = NoFrame /\ job[t].stash = NoFrame /\ tls[t] # "temp" /\ tls[t] \in Caches
      /\ Call(job[t], Len(mag[t]), tls[t]) /\ Len(mag[t]) \in Nat
  BY <1>2, InNoCall, OfThread
<1>4. Call(v, Len(mag[t]), tls[t])
  <2>1. ~LateCalls /\ tls[t] \in {"null", "freed"} => Len(mag[t]) = 0
    BY <1>3 DEF Call
  <2> QED BY <1>1, <1>3, <2>1, PlainCall
<1>5. tls' = [tls EXCEPT ![t] = tls[t]] /\ lock' \in Threads \cup {NoThread}
  BY <1>2, OfPool
<1> QED BY <1>1, <1>2, <1>3, <1>4, <1>5, NoMove

\* What with() runs a call on.
LEMMA WithFacts ==
  ASSUME PoolInv, NEW t \in Threads, At(t, "idle"), MayCall(t), NEW s \in With(t)
  PROVE  /\ s \in Caches /\ (tls[t] # "null" => s = tls[t]) /\ s # "null"
         /\ s = "freed" => LateCalls
<1>1. tls[t] \in {"null", "live", "freed"}
  BY InNoCall
<1> QED BY <1>1 DEF With, MayCall, Caches

\* CacheMiss preserves the invariant.
LEMMA CacheMissStep ==
  ASSUME PoolInv, NEW t \in Threads, CacheMiss(t)
  PROVE  PoolInv' /\ OutStep
<1> DEFINE v == [Idle EXCEPT !.at = "pull", !.back = "pull"]
<1>1. /\ v \in Jobs /\ v.at = "pull" /\ v.back = "pull"
      /\ v.frame = NoFrame /\ v.stash = NoFrame
  BY FrameFacts DEF Idle, Jobs, Places
<1>2. /\ At(t, "idle") /\ MayCall(t) /\ mag[t] = <<>> /\ job' = [job EXCEPT ![t] = v]
      /\ UNCHANGED <<central, lock, slab, mag, out>>
  BY DEF CacheMiss, Goto
<1> HIDE DEF v
<1>3. PICK s \in With(t) : tls' = [tls EXCEPT ![t] = s]
  BY DEF CacheMiss
<1>4. s \in Caches /\ s # "null" /\ (s = "freed" => LateCalls)
  BY <1>2, <1>3, WithFacts
<1>5. job[t].frame = NoFrame /\ job[t].stash = NoFrame /\ Len(mag[t]) = 0
  BY <1>2, InNoCall, OfThread
<1>6. Call(v, Len(mag[t]), s)
  <2>1. 0 <= MagCap /\ 0 <= Half
    BY HalfFacts, FramePoolAssumption
  <2> QED BY <1>1, <1>4, <1>5, <2>1 DEF Call
<1>7. lock' \in Threads \cup {NoThread}
  BY <1>2, OfPool
<1> QED BY <1>1, <1>2, <1>3, <1>4, <1>5, <1>6, <1>7, NoMove

\* RefillNone preserves the invariant.
LEMMA RefillNoneStep ==
  ASSUME PoolInv, NEW t \in Threads, RefillNone(t)
  PROVE  PoolInv' /\ OutStep
<1>1. /\ job[t].at = "refill" /\ UNCHANGED <<central, lock, slab, tls, mag, out>>
      /\ job' = [job EXCEPT ![t] =
                   IF job[t].back = "pull" THEN [job[t] EXCEPT !.at = "dry"] ELSE Idle]
  BY DEF RefillNone, At, Goto
<1>2. /\ job[t] \in Jobs /\ tls[t] \in Caches /\ Call(job[t], Len(mag[t]), tls[t])
      /\ Len(mag[t]) \in Nat /\ lock' \in Threads \cup {NoThread}
  BY <1>1, OfThread, OfPool
<1>3. tls' = [tls EXCEPT ![t] = tls[t]]
  BY <1>1, OfPool
<1>4. job[t].frame = NoFrame /\ job[t].stash = NoFrame
  BY <1>1, <1>2 DEF Call
<1>5. CASE job[t].back = "pull"
  <2> DEFINE v == [job[t] EXCEPT !.at = "dry"]
  <2>1. /\ v \in Jobs /\ v.at = "dry" /\ v.back = "pull"
        /\ v.frame = job[t].frame /\ v.stash = job[t].stash
    BY <1>2, <1>5 DEF Jobs, Places
  <2>2. job' = [job EXCEPT ![t] = v]
    BY <1>1, <1>5
  <2> HIDE DEF v
  <2>3. Call(v, Len(mag[t]), tls[t])
    BY <1>1, <1>2, <1>4, <1>5, <2>1 DEF Call
  <2> QED BY <1>1, <1>2, <1>3, <2>1, <2>2, <2>3, NoMove
<1>6. CASE job[t].back # "pull"
  <2>1. job' = [job EXCEPT ![t] = Idle]
    BY <1>1, <1>6
  <2>2. job[t].back = "idle"
    BY <1>1, <1>2, <1>6 DEF Call, Jobs
  <2>3. tls[t] # "temp" /\ (~LateCalls /\ tls[t] \in {"null", "freed"} => Len(mag[t]) = 0)
    BY <1>2, <2>2 DEF Call
  <2>4. Call(Idle, Len(mag[t]), tls[t])
    BY <1>2, <2>3, IdleJob, PlainCall
  <2> QED BY <1>1, <1>2, <1>3, <1>4, <2>1, <2>4, IdleJob, NoMove
<1> QED BY <1>5, <1>6

\* OnExit preserves the invariant.
LEMMA OnExitStep ==
  ASSUME PoolInv, NEW t \in Threads, OnExit(t)
  PROVE  PoolInv' /\ OutStep
<1> DEFINE v == [Idle EXCEPT !.at = "spill", !.back = "exit", !.k = Len(mag[t])]
<1>0. mag[t] \in Seq(Frames) /\ Len(mag[t]) \in Nat
  BY OfThread
<1>1. /\ v \in Jobs /\ v.at = "spill" /\ v.back = "exit"
      /\ v.frame = NoFrame /\ v.stash = NoFrame /\ v.k = Len(mag[t])
  BY <1>0, FrameFacts DEF Idle, Jobs, Places
<1>2. /\ At(t, "idle") /\ tls[t] = "live" /\ job' = [job EXCEPT ![t] = v]
      /\ UNCHANGED <<central, lock, slab, tls, mag, out>>
  BY DEF OnExit, Goto
<1> HIDE DEF v
<1>3. /\ job[t].frame = NoFrame /\ job[t].stash = NoFrame /\ tls[t] \in Caches
      /\ Call(job[t], Len(mag[t]), tls[t])
  BY <1>2, InNoCall, OfThread
<1>4. Call(v, Len(mag[t]), tls[t])
  BY <1>0, <1>1, <1>2, <1>3 DEF Call
<1>5. tls' = [tls EXCEPT ![t] = tls[t]] /\ lock' \in Threads \cup {NoThread}
  BY <1>2, OfPool
<1> QED BY <1>1, <1>2, <1>3, <1>4, <1>5, NoMove

\* Spawn preserves the invariant.
LEMMA SpawnStep ==
  ASSUME PoolInv, NEW t \in Threads, Spawn(t)
  PROVE  PoolInv' /\ OutStep
<1>1. /\ At(t, "idle") /\ tls[t] = "freed" /\ tls' = [tls EXCEPT ![t] = "null"]
      /\ UNCHANGED <<central, lock, slab, mag, out, job>>
  BY DEF Spawn
<1>2. job[t] \in Jobs /\ Call(job[t], Len(mag[t]), tls[t]) /\ "null" \in Caches
  BY OfThread DEF Caches
<1>3. Call(job[t], Len(mag[t]), "null")
  BY <1>1, <1>2 DEF Call
<1>4. job' = [job EXCEPT ![t] = job[t]] /\ lock' \in Threads \cup {NoThread}
  BY <1>1, OfPool
<1> QED BY <1>1, <1>2, <1>3, <1>4, NoMove

\* DrainLock preserves the invariant.
LEMMA DrainLockStep ==
  ASSUME PoolInv, NEW t \in Threads, DrainLock(t)
  PROVE  PoolInv' /\ OutStep
<1> DEFINE v == [job[t] EXCEPT !.at = "draining", !.n = DrainN]
<1>1. /\ job[t].at = "drain" /\ lock' = t /\ job' = [job EXCEPT ![t] = v]
      /\ UNCHANGED <<central, slab, tls, mag, out>>
  BY DEF DrainLock, At, Goto
<1>2. /\ job[t] \in Jobs /\ tls[t] \in Caches /\ Call(job[t], Len(mag[t]), tls[t])
  BY OfThread
<1>3. DrainN \in Nat
  BY FramePoolAssumption DEF DrainN
<1>4. /\ v \in Jobs /\ v.at = "draining" /\ v.back = job[t].back /\ v.k = job[t].k
      /\ v.frame = job[t].frame /\ v.stash = job[t].stash
  BY <1>2, <1>3 DEF Jobs, Places
<1> HIDE DEF v
<1>5. Call(v, Len(mag[t]), tls[t])
  BY <1>1, <1>2, <1>4 DEF Call
<1>6. tls' = [tls EXCEPT ![t] = tls[t]] /\ lock' \in Threads \cup {NoThread}
  BY <1>1, OfPool
<1> QED BY <1>1, <1>2, <1>4, <1>5, <1>6, NoMove

\* A frame leaves the magazine of t.
LEMMA PopMag ==
  ASSUME PoolInv, NEW t \in Threads, mag[t] # <<>>, mag' = [mag EXCEPT ![t] = Front(@)]
  PROVE  /\ Last(mag[t]) \in Frames /\ At1(Last(mag[t]), "mag", t)
         /\ Front(mag[t]) \in Seq(Frames) /\ Distinct(Front(mag[t]))
         /\ Len(Front(mag[t])) = Len(mag[t]) - 1 /\ Len(mag[t]) > 0
         /\ mag'[t] = Front(mag[t])
         /\ \A u \in Threads : ToSet(mag'[u]) = ToSet(mag[u]) \ {Last(mag[t])}
<1> DEFINE q == Front(mag[t])
           f == Last(mag[t])
<1>1. mag[t] \in Seq(Frames) /\ Distinct(mag[t])
  BY OfThread
<1>2. /\ q \in Seq(Frames) /\ Len(q) = Len(mag[t]) - 1 /\ Len(mag[t]) > 0
      /\ f \in Frames /\ f \in ToSet(mag[t])
      /\ ToSet(q) = ToSet(mag[t]) \ {f} /\ Distinct(q)
  BY <1>1, PopStack
<1>3. mag' = [mag EXCEPT ![t] = q]
  OBVIOUS
<1> HIDE DEF q, f
<1>4. At1(f, "mag", t)
  BY <1>2, OfPool, IsAt
<1>5. mag'[t] = q /\ \A u \in Threads : u # t => mag'[u] = mag[u]
  BY <1>2, <1>3, OfPool
<1>6. \A u \in Threads : ToSet(mag'[u]) = ToSet(mag[u]) \ {f}
  BY <1>2, <1>4, <1>5 DEF At1
<1> QED BY <1>2, <1>4, <1>5, <1>6 DEF q, f

\* A frame that is not there joins the magazine of t.
LEMMA PushMag ==
  ASSUME PoolInv, NEW t \in Threads, NEW f \in Frames, f \notin ToSet(mag[t]),
         mag' = [mag EXCEPT ![t] = Append(@, f)]
  PROVE  /\ Append(mag[t], f) \in Seq(Frames) /\ Distinct(Append(mag[t], f))
         /\ Len(Append(mag[t], f)) = Len(mag[t]) + 1
         /\ mag'[t] = Append(mag[t], f)
         /\ ToSet(mag'[t]) = ToSet(mag[t]) \cup {f}
         /\ \A u \in Threads : u # t => ToSet(mag'[u]) = ToSet(mag[u])
<1> DEFINE q == Append(mag[t], f)
<1>1. mag[t] \in Seq(Frames) /\ Distinct(mag[t])
  BY OfThread
<1>2. /\ q \in Seq(Frames) /\ Len(q) = Len(mag[t]) + 1
      /\ ToSet(q) = ToSet(mag[t]) \cup {f} /\ Distinct(q)
  BY <1>1, PushStack
<1>3. mag' = [mag EXCEPT ![t] = q]
  OBVIOUS
<1> HIDE DEF q
<1>4. mag'[t] = q /\ \A u \in Threads : u # t => mag'[u] = mag[u]
  BY <1>2, <1>3, OfPool
<1> QED BY <1>2, <1>4 DEF q

\* The central stack gives a frame.
LEMMA PopCentral ==
  ASSUME PoolInv, central # <<>>, central' = Front(central)
  PROVE  /\ Last(central) \in Frames /\ At1(Last(central), "central", NoThread)
         /\ central' \in Seq(Frames) /\ Distinct(central')
         /\ ToSet(central') = ToSet(central) \ {Last(central)}
<1>1. central \in Seq(Frames) /\ Distinct(central)
  BY OfPool
<1>2. /\ central' \in Seq(Frames) /\ Last(central) \in Frames /\ Last(central) \in ToSet(central)
      /\ ToSet(central') = ToSet(central) \ {Last(central)} /\ Distinct(central')
  BY <1>1, PopStack
<1>3. At1(Last(central), "central", NoThread)
  BY <1>2, OfPool, IsAt
<1> QED BY <1>2, <1>3

\* The central stack takes a frame that is not there.
LEMMA PushCentral ==
  ASSUME PoolInv, NEW f \in Frames, f \notin ToSet(central), central' = Append(central, f)
  PROVE  /\ central' \in Seq(Frames) /\ Distinct(central')
         /\ ToSet(central') = ToSet(central) \cup {f}
<1>1. central \in Seq(Frames) /\ Distinct(central)
  BY OfPool
<1> QED BY <1>1, PushStack

\* The locals of t change, and no other's.
LEMMA JobOf ==
  ASSUME PoolInv, NEW t \in Threads, NEW x \in Jobs, job' = [job EXCEPT ![t] = x]
  PROVE  job'[t] = x /\ \A u \in Threads : u # t => job'[u] = job[u]
BY OfPool

\* A step that changes neither the slabs nor the central stack, or the program.
LEMMA SlabsSame ==
  ASSUME PoolInv
  PROVE  /\ slab' = slab => /\ slab' \in [Cpus -> Seq(Frames)]
                            /\ \A d \in Cpus : Distinct(slab'[d]) /\ Len(slab'[d]) <= CapPerCpu
         /\ central' = central => central' \in Seq(Frames) /\ Distinct(central')
         /\ out' = out => out' \in [Frames -> 0 .. 1] /\ OutStep
         /\ lock' = lock => lock' \in Threads \cup {NoThread}
         /\ \A t \in Threads :
              /\ tls' = tls => tls' = [tls EXCEPT ![t] = tls[t]]
              /\ mag' = mag => mag' = [mag EXCEPT ![t] = mag[t]]
              /\ job' = job => job' = [job EXCEPT ![t] = job[t]]
BY OfPool DEF OutStep

\* CacheAlloc: from a magazine to the program.
LEMMA CacheAllocStep ==
  ASSUME PoolInv, NEW t \in Threads, CacheAlloc(t)
  PROVE  PoolInv' /\ OutStep
<1>0. PICK f \in Frames : f = Last(mag[t])
  BY PopMag DEF CacheAlloc
<1>1. /\ At(t, "idle") /\ mag[t] # <<>> /\ out' = HandOut({f})
      /\ mag' = [mag EXCEPT ![t] = Front(@)]
      /\ UNCHANGED <<central, lock, slab, tls, job>>
  BY <1>0 DEF CacheAlloc
<1>2. /\ At1(f, "mag", t) /\ Front(mag[t]) \in Seq(Frames) /\ Distinct(Front(mag[t]))
      /\ Len(Front(mag[t])) = Len(mag[t]) - 1 /\ Len(mag[t]) > 0
      /\ mag' = [mag EXCEPT ![t] = Front(mag[t])]
      /\ \A u \in Threads : ToSet(mag'[u]) = ToSet(mag[u]) \ {f}
  BY <1>0, <1>1, PopMag
<1>3. /\ out' \in [Frames -> 0 .. 1] /\ out'[f] = 1
      /\ \A g \in Frames \ {f} : out'[g] = out[g]
  BY <1>1, <1>2, HandOne DEF At1
<1>4. OutStep
  BY <1>1, <1>2, HandOne DEF At1
<1>5. At1(f, "out", NoThread)'
  BY <1>1, <1>2, <1>3 DEF At1
<1>6. Partition'
  BY <1>1, <1>2, <1>3, <1>5, OfPool, MoveFrame DEF Kinds
<1>7. /\ job[t] \in Jobs /\ tls[t] \in Caches /\ Len(mag[t]) \in Nat
      /\ Call(job[t], Len(mag[t]), tls[t]) /\ job[t].back = "idle" /\ job[t].stash = NoFrame
  BY <1>1, OfThread, InNoCall
<1>8. Call(job[t], Len(Front(mag[t])), tls[t])
  BY <1>1, <1>2, <1>7, FramePoolAssumption DEF Call, At
<1>9. /\ slab' \in [Cpus -> Seq(Frames)] /\ central' \in Seq(Frames) /\ Distinct(central')
      /\ \A d \in Cpus : Distinct(slab'[d]) /\ Len(slab'[d]) <= CapPerCpu
      /\ lock' \in Threads \cup {NoThread}
      /\ tls' = [tls EXCEPT ![t] = tls[t]] /\ job' = [job EXCEPT ![t] = job[t]]
  BY <1>1, SlabsSame
<1>10. PoolInv'
  BY <1>2, <1>3, <1>6, <1>7, <1>8, <1>9, CallStep
<1> QED BY <1>4, <1>10

\* Pull: from a slab to a magazine, or on to a refill.
LEMMA PullStep ==
  ASSUME PoolInv, NEW t \in Threads, NEW c \in Cpus, Pull(t, c)
  PROVE  PoolInv' /\ OutStep
<1>1. /\ job[t].at = "pull" /\ Len(mag[t]) < Half /\ UNCHANGED <<central, lock, tls, out>>
      /\ job[t] \in Jobs /\ tls[t] \in Caches /\ Len(mag[t]) \in Nat
      /\ Call(job[t], Len(mag[t]), tls[t])
  BY OfThread DEF Pull, At
<1>2. job[t].back = "pull" /\ job[t].stash = NoFrame
  BY <1>1 DEF Call
<1>3. /\ central' \in Seq(Frames) /\ Distinct(central') /\ out' \in [Frames -> 0 .. 1] /\ OutStep
      /\ lock' \in Threads \cup {NoThread} /\ tls' = [tls EXCEPT ![t] = tls[t]]
  BY <1>1, SlabsSame
<1>4. CASE slab[c] # <<>>
  <2>0. PICK f \in Frames : f = Last(slab[c])
    BY <1>4, PopSlab DEF Pull
  <2>1. mag' = [mag EXCEPT ![t] = Append(@, f)] /\ slab' = Popped(c) /\ job' = job
    BY <1>4, <2>0 DEF Pull
  <2>2. /\ At1(f, "slab", c) /\ slab' \in [Cpus -> Seq(Frames)]
        /\ \A d \in Cpus : Distinct(slab'[d]) /\ Len(slab'[d]) <= CapPerCpu
        /\ \A d \in Cpus : ToSet(slab'[d]) = ToSet(slab[d]) \ {f}
    BY <1>4, <2>0, <2>1, PopSlab
  <2>3. f \notin ToSet(mag[t])
    BY <2>2 DEF At1
  <2>4. /\ Append(mag[t], f) \in Seq(Frames) /\ Distinct(Append(mag[t], f))
        /\ Len(Append(mag[t], f)) = Len(mag[t]) + 1
        /\ mag' = [mag EXCEPT ![t] = Append(mag[t], f)]
        /\ ToSet(mag'[t]) = ToSet(mag[t]) \cup {f}
        /\ \A u \in Threads : u # t => ToSet(mag'[u]) = ToSet(mag[u])
    BY <2>1, <2>3, PushMag
  <2>5. At1(f, "mag", t)'
    BY <1>1, <2>1, <2>2, <2>4 DEF At1
  <2>6. Partition'
    BY <1>1, <2>1, <2>2, <2>4, <2>5, OfPool, MoveFrame DEF Kinds
  <2>7. Call(job[t], Len(Append(mag[t], f)), tls[t])
    BY <1>1, <1>2, <2>4, HalfFacts, FramePoolAssumption DEF Call
  <2>8. job' = [job EXCEPT ![t] = job[t]]
    BY <2>1, SlabsSame
  <2> QED BY <1>1, <1>3, <2>2, <2>4, <2>6, <2>7, <2>8, CallStep
<1>5. CASE slab[c] = <<>>
  <2> DEFINE v == [job[t] EXCEPT !.at = "refill"]
  <2>1. job' = [job EXCEPT ![t] = v] /\ UNCHANGED <<slab, mag>>
    BY <1>5 DEF Pull, Goto
  <2>2. /\ v \in Jobs /\ v.at = "refill" /\ v.back = job[t].back /\ v.k = job[t].k
        /\ v.frame = job[t].frame /\ v.stash = job[t].stash
    BY <1>1 DEF Jobs, Places
  <2> HIDE DEF v
  <2>3. Call(v, Len(mag[t]), tls[t])
    BY <1>1, <1>2, <2>2 DEF Call
  <2> QED BY <1>1, <1>3, <2>1, <2>2, <2>3, NoMove
<1> QED BY <1>4, <1>5

\* A call on cache s that ends with len frames in its magazine.
LEMMA ReturnCall ==
  ASSUME NEW s \in Caches, NEW len \in Nat, len <= MagCap,
         ~LateCalls /\ s \in {"null", "freed"} => len = 0
  PROVE  \E x \in Jobs : /\ x = Return(s, len) /\ x.frame = NoFrame /\ x.stash = NoFrame
                         /\ Call(x, len, s)
<1>1. CASE s = "temp"
  <2> DEFINE v == [Idle EXCEPT !.at = "spill", !.back = "spill", !.k = len]
  <2>1. /\ v \in Jobs /\ v.at = "spill" /\ v.back = "spill" /\ v.k = len
        /\ v.frame = NoFrame /\ v.stash = NoFrame
    BY FrameFacts DEF Idle, Jobs, Places
  <2>2. v = Return(s, len)
    BY <1>1 DEF Return
  <2> HIDE DEF v
  <2>3. Call(v, len, s)
    BY <1>1, <2>1 DEF Call
  <2> QED BY <2>1, <2>2, <2>3
<1>2. CASE s # "temp"
  <2>1. Idle = Return(s, len)
    BY <1>2 DEF Return
  <2>2. Call(Idle, len, s)
    BY <1>2, IdleJob DEF Call
  <2> QED BY <2>1, <2>2, IdleJob
<1> QED BY <1>1, <1>2

\* Pulled: the last frame pulled goes to the program.
LEMMA PulledStep ==
  ASSUME PoolInv, NEW t \in Threads, Pulled(t)
  PROVE  PoolInv' /\ OutStep
<1>1. /\ job[t].at \in {"pull", "dry"} /\ UNCHANGED <<central, lock, slab, tls>>
      /\ job[t] \in Jobs /\ tls[t] \in Caches /\ Len(mag[t]) \in Nat
      /\ mag[t] \in Seq(Frames) /\ Distinct(mag[t]) /\ (Len(mag[t]) = 0 <=> mag[t] = <<>>)
      /\ Call(job[t], Len(mag[t]), tls[t])
  BY OfThread DEF Pulled, At
<1>2. /\ job[t].back = "pull" /\ job[t].stash = NoFrame /\ job[t].frame = NoFrame
      /\ ~LateCalls => tls[t] \notin {"null", "freed"}
      /\ Len(mag[t]) <= MagCap
  BY <1>1 DEF Call
<1>3. /\ central' \in Seq(Frames) /\ Distinct(central')
      /\ slab' \in [Cpus -> Seq(Frames)]
      /\ \A d \in Cpus : Distinct(slab'[d]) /\ Len(slab'[d]) <= CapPerCpu
      /\ lock' \in Threads \cup {NoThread} /\ tls' = [tls EXCEPT ![t] = tls[t]]
  BY <1>1, SlabsSame
<1>4. CASE mag[t] = <<>>
  <2>1. {mag[t][i] : i \in {Len(mag[t])} \ {0}} = {}
    BY <1>1, <1>4
  <2>2. out' = out
    <3>1. out' = [f \in Frames |-> out[f] + 0]
      BY <2>1 DEF Pulled, HandOut
    <3>2. out \in [Frames -> 0 .. 1]
      BY OfPool
    <3>3. \A f \in Frames : out[f] + 0 = out[f]
      BY <3>2
    <3> QED BY <3>1, <3>2, <3>3
  <2>3. mag' = mag
    BY <1>4, OfPool DEF Pulled
  <2>4. PICK x \in Jobs : /\ x = Return(tls[t], Len(mag[t])) /\ x.frame = NoFrame
                          /\ x.stash = NoFrame /\ Call(x, Len(mag[t]), tls[t])
    BY <1>1, <1>2, ReturnCall
  <2>5. job' = [job EXCEPT ![t] = x]
    BY <2>3, <2>4 DEF Pulled, Goto
  <2> QED BY <1>1, <1>2, <1>3, <2>2, <2>3, <2>4, <2>5, NoMove
<1>5. CASE mag[t] # <<>>
  <2>0. mag' = [mag EXCEPT ![t] = Front(@)]
    BY <1>5, OfPool DEF Pulled
  <2>1. PICK f \in Frames : f = Last(mag[t])
    BY <1>5, <2>0, PopMag
  <2>2. /\ At1(f, "mag", t) /\ Front(mag[t]) \in Seq(Frames) /\ Distinct(Front(mag[t]))
        /\ Len(Front(mag[t])) = Len(mag[t]) - 1 /\ Len(mag[t]) > 0
        /\ mag' = [mag EXCEPT ![t] = Front(mag[t])] /\ mag'[t] = Front(mag[t])
        /\ \A u \in Threads : ToSet(mag'[u]) = ToSet(mag[u]) \ {f}
    BY <1>5, <2>0, <2>1, PopMag
  <2>3. out' = HandOut({f})
    <3>1. {mag[t][i] : i \in {Len(mag[t])} \ {0}} = {f}
      BY <2>1, <2>2, <1>1 DEF Last
    <3> QED BY <3>1 DEF Pulled
  <2>4. /\ out' \in [Frames -> 0 .. 1] /\ out'[f] = 1
        /\ \A g \in Frames \ {f} : out'[g] = out[g]
    BY <2>2, <2>3, HandOne DEF At1
  <2>5. OutStep
    BY <2>2, <2>3, HandOne DEF At1
  <2>6. Len(Front(mag[t])) \in Nat /\ Len(Front(mag[t])) <= MagCap
    BY <1>1, <1>2, <2>2, FramePoolAssumption
  <2>7. PICK x \in Jobs : /\ x = Return(tls[t], Len(Front(mag[t]))) /\ x.frame = NoFrame
                          /\ x.stash = NoFrame /\ Call(x, Len(Front(mag[t])), tls[t])
    BY <1>1, <1>2, <2>6, ReturnCall
  <2>8. job' = [job EXCEPT ![t] = x]
    BY <2>2, <2>7 DEF Pulled, Goto
  <2>9. \A u \in Threads : job'[u].frame = job[u].frame /\ job'[u].stash = job[u].stash
    BY <1>2, <2>7, <2>8, JobOf
  <2>10. At1(f, "out", NoThread)'
    BY <1>1, <2>2, <2>4, <2>9, SMTT(30) DEF At1
  <2>11. Partition'
    BY <1>1, <2>2, <2>4, <2>9, <2>10, OfPool, MoveFrame DEF Kinds
  <2>12. PoolInv'
    BY <1>1, <1>3, <2>2, <2>4, <2>7, <2>8, <2>11, CallStep
  <2> QED BY <2>5, <2>12
<1> QED BY <1>4, <1>5

\* RefillLock: from the central stack to the call.
LEMMA RefillLockStep ==
  ASSUME PoolInv, NEW t \in Threads, RefillLock(t)
  PROVE  PoolInv' /\ OutStep
<1>0. PICK f \in Frames : f = Last(central)
  BY PopCentral DEF RefillLock
<1> DEFINE v == [job[t] EXCEPT !.at = "fill", !.frame = f, !.n = Batch - 1]
<1>1. /\ job[t].at = "refill" /\ central # <<>> /\ lock' = t /\ central' = Front(central)
      /\ job' = [job EXCEPT ![t] = v] /\ UNCHANGED <<slab, tls, mag, out>>
  BY <1>0 DEF RefillLock, At, Goto
<1>2. /\ job[t] \in Jobs /\ tls[t] \in Caches /\ Call(job[t], Len(mag[t]), tls[t])
      /\ mag[t] \in Seq(Frames) /\ Distinct(mag[t])
  BY OfThread
<1>3. job[t].frame = NoFrame /\ job[t].stash = NoFrame
  BY <1>1, <1>2 DEF Call
<1>4. /\ v \in Jobs /\ v.at = "fill" /\ v.back = job[t].back /\ v.k = job[t].k
      /\ v.frame = f /\ v.stash = NoFrame
  <2>1. Batch - 1 \in Nat /\ f \in 0 .. NumFrames
    BY <1>0, FrameFacts, FramePoolAssumption
  <2> QED BY <1>2, <1>3, <2>1 DEF Jobs, Places
<1> HIDE DEF v
<1>5. /\ At1(f, "central", NoThread) /\ central' \in Seq(Frames) /\ Distinct(central')
      /\ ToSet(central') = ToSet(central) \ {f}
  BY <1>0, <1>1, PopCentral
<1>6. /\ job'[t].frame = f /\ job'[t].stash = NoFrame
      /\ \A u \in Threads : u # t => job'[u] = job[u]
  BY <1>1, <1>4, JobOf
<1>7. At1(f, "frame", t)'
  BY <1>1, <1>5, <1>6, FrameFacts DEF At1
<1>8. \A g \in Frames : g # NoFrame
  BY FrameFacts
<1>9. Partition'
  <2>1. ASSUME NEW g \in Frames \ {f}, NEW u \in Threads
        PROVE  /\ g = job'[u].frame <=> g = job[u].frame
               /\ g = job'[u].stash <=> g = job[u].stash
    BY <1>3, <1>6, <1>8
  <2> QED BY <1>1, <1>5, <1>7, <2>1, OfPool, MoveFrame DEF Kinds
<1>10. Call(v, Len(mag[t]), tls[t])
  BY <1>1, <1>2, <1>4, <1>8 DEF Call
<1>11. /\ slab' \in [Cpus -> Seq(Frames)] /\ out' \in [Frames -> 0 .. 1] /\ OutStep
       /\ \A d \in Cpus : Distinct(slab'[d]) /\ Len(slab'[d]) <= CapPerCpu
       /\ tls' = [tls EXCEPT ![t] = tls[t]] /\ mag' = [mag EXCEPT ![t] = mag[t]]
       /\ lock' \in Threads \cup {NoThread}
  BY <1>1, SlabsSame
<1> QED BY <1>1, <1>2, <1>4, <1>5, <1>9, <1>10, <1>11, CallStep

\* Fill: from the central stack to a slab, or the end of the batch.
LEMMA FillStep ==
  ASSUME PoolInv, NEW t \in Threads, NEW c \in Cpus, Fill(t, c)
  PROVE  PoolInv' /\ OutStep
<1>1. /\ job[t].at = "fill" /\ central # <<>> /\ job[t].n # 0 /\ UNCHANGED <<lock, tls, mag, out>>
      /\ job[t] \in Jobs /\ tls[t] \in Caches /\ Call(job[t], Len(mag[t]), tls[t])
      /\ mag[t] \in Seq(Frames) /\ Distinct(mag[t])
  BY OfThread DEF Fill, At, FillOver
<1>2. /\ out' \in [Frames -> 0 .. 1] /\ OutStep /\ lock' \in Threads \cup {NoThread}
      /\ tls' = [tls EXCEPT ![t] = tls[t]] /\ mag' = [mag EXCEPT ![t] = mag[t]]
  BY <1>1, SlabsSame
<1>3. ASSUME NEW n \in Nat
      PROVE  \E x \in Jobs : /\ x = [job[t] EXCEPT !.n = n] /\ x.frame = job[t].frame
                             /\ x.stash = job[t].stash /\ Call(x, Len(mag[t]), tls[t])
  <2> DEFINE v == [job[t] EXCEPT !.n = n]
  <2>1. /\ v \in Jobs /\ v.at = job[t].at /\ v.back = job[t].back /\ v.k = job[t].k
        /\ v.frame = job[t].frame /\ v.stash = job[t].stash
    BY <1>1, <1>3 DEF Jobs
  <2>2. Call(v, Len(mag[t]), tls[t])
    BY <1>1, <2>1 DEF Call
  <2> QED BY <2>1, <2>2
<1>4. CASE HasRoom(c)
  <2>0. central' = Front(central)
    BY <1>4 DEF Fill
  <2>1. PICK f \in Frames : f = Last(central)
    BY <1>1, <2>0, PopCentral
  <2>2. job[t].n - 1 \in Nat /\ slab' = Pushed(c, f)
            /\ job' = [job EXCEPT ![t] = [job[t] EXCEPT !.n = job[t].n - 1]]
    <3>1. job[t].n \in Nat
      BY <1>1 DEF Jobs
    <3> QED BY <1>1, <1>4, <2>1, <3>1 DEF Fill, Goto
  <2>3. PICK x \in Jobs : /\ x = [job[t] EXCEPT !.n = job[t].n - 1] /\ x.frame = job[t].frame
                          /\ x.stash = job[t].stash /\ Call(x, Len(mag[t]), tls[t])
    BY <1>3, <2>2
  <2>4. job' = [job EXCEPT ![t] = x]
    BY <2>2, <2>3
  <2>5. /\ At1(f, "central", NoThread) /\ central' \in Seq(Frames) /\ Distinct(central')
        /\ ToSet(central') = ToSet(central) \ {f}
    BY <1>1, <2>0, <2>1, PopCentral
  <2>6. f \notin ToSet(slab[c])
    BY <2>5 DEF At1
  <2>7. /\ slab' \in [Cpus -> Seq(Frames)]
        /\ \A d \in Cpus : Distinct(slab'[d]) /\ Len(slab'[d]) <= CapPerCpu
        /\ ToSet(slab'[c]) = ToSet(slab[c]) \cup {f}
        /\ \A d \in Cpus : d # c => ToSet(slab'[d]) = ToSet(slab[d])
    BY <1>4, <2>2, <2>6, PushSlab
  <2>8. \A u \in Threads : job'[u].frame = job[u].frame /\ job'[u].stash = job[u].stash
    BY <2>3, <2>4, JobOf
  <2>9. At1(f, "slab", c)'
    BY <1>1, <2>5, <2>7, <2>8 DEF At1
  <2>10. Partition'
    BY <1>1, <2>5, <2>7, <2>8, <2>9, OfPool, MoveFrame DEF Kinds
  <2> QED BY <1>1, <1>2, <2>3, <2>4, <2>5, <2>7, <2>10, CallStep
<1>5. CASE ~HasRoom(c)
  <2>1. job' = [job EXCEPT ![t] = [job[t] EXCEPT !.n = 0]] /\ UNCHANGED <<slab, central>>
    BY <1>5 DEF Fill, Goto
  <2>2. PICK x \in Jobs : /\ x = [job[t] EXCEPT !.n = 0] /\ x.frame = job[t].frame
                          /\ x.stash = job[t].stash /\ Call(x, Len(mag[t]), tls[t])
    BY <1>3
  <2>3. job' = [job EXCEPT ![t] = x]
    BY <2>1, <2>2
  <2> QED BY <1>1, <1>2, <2>1, <2>2, <2>3, NoMove
<1> QED BY <1>4, <1>5

\* Refilled: from the call to the magazine or to the program.
LEMMA RefilledStep ==
  ASSUME PoolInv, NEW t \in Threads, Refilled(t)
  PROVE  PoolInv' /\ OutStep
<1>1. /\ job[t].at = "fill" /\ lock' = NoThread /\ UNCHANGED <<central, slab, tls>>
      /\ job[t] \in Jobs /\ tls[t] \in Caches /\ Call(job[t], Len(mag[t]), tls[t])
      /\ mag[t] \in Seq(Frames) /\ Distinct(mag[t]) /\ Len(mag[t]) \in Nat
  BY OfThread DEF Refilled, At
<1>2. PICK f \in Frames : f = job[t].frame
  BY <1>1, FrameFacts DEF Call, Jobs
<1>3. At1(f, "frame", t) /\ job[t].stash = NoFrame /\ \A g \in Frames : g # NoFrame
  BY <1>1, <1>2, OfPool, IsAt, FrameFacts DEF Call
<1>4. /\ central' \in Seq(Frames) /\ Distinct(central')
      /\ slab' \in [Cpus -> Seq(Frames)]
      /\ \A d \in Cpus : Distinct(slab'[d]) /\ Len(slab'[d]) <= CapPerCpu
      /\ lock' \in Threads \cup {NoThread} /\ tls' = [tls EXCEPT ![t] = tls[t]]
  BY <1>1, SlabsSame
<1>5. CASE job[t].back = "pull"
  <2> DEFINE v == [job[t] EXCEPT !.at = "pull", !.frame = NoFrame]
  <2>1. /\ mag' = [mag EXCEPT ![t] = Append(@, f)] /\ job' = [job EXCEPT ![t] = v]
        /\ out' = out
    BY <1>2, <1>5 DEF Refilled, Goto
  <2>2. /\ v \in Jobs /\ v.at = "pull" /\ v.back = "pull" /\ v.frame = NoFrame
        /\ v.stash = NoFrame /\ v.k = job[t].k
    BY <1>1, <1>3, <1>5, FrameFacts DEF Jobs, Places
  <2> HIDE DEF v
  <2>3. f \notin ToSet(mag[t])
    BY <1>3 DEF At1
  <2>4. /\ Append(mag[t], f) \in Seq(Frames) /\ Distinct(Append(mag[t], f))
        /\ Len(Append(mag[t], f)) = Len(mag[t]) + 1
        /\ mag' = [mag EXCEPT ![t] = Append(mag[t], f)]
        /\ ToSet(mag'[t]) = ToSet(mag[t]) \cup {f}
        /\ \A u \in Threads : u # t => ToSet(mag'[u]) = ToSet(mag[u])
    BY <2>1, <2>3, PushMag
  <2>5. /\ job'[t].frame = NoFrame /\ job'[t].stash = NoFrame
        /\ \A u \in Threads : u # t => job'[u] = job[u]
    BY <2>1, <2>2, JobOf
  <2>6. At1(f, "mag", t)'
    BY <1>1, <1>3, <2>1, <2>4, <2>5 DEF At1
  <2>7. Partition'
    <3>1. ASSUME NEW g \in Frames \ {f}, NEW u \in Threads
          PROVE  /\ g = job'[u].frame <=> g = job[u].frame
                 /\ g = job'[u].stash <=> g = job[u].stash
      BY <1>2, <1>3, <2>5
    <3> QED BY <1>1, <2>1, <2>4, <2>6, <3>1, OfPool, MoveFrame DEF Kinds
  <2>8. Call(v, Len(Append(mag[t], f)), tls[t])
    BY <1>1, <1>5, <2>2, <2>4, HalfFacts, FramePoolAssumption DEF Call
  <2>9. out' \in [Frames -> 0 .. 1] /\ OutStep
    BY <2>1, SlabsSame
  <2> QED BY <1>1, <1>4, <2>1, <2>2, <2>4, <2>7, <2>8, <2>9, CallStep
<1>6. CASE job[t].back # "pull"
  <2>1. out' = HandOut({f}) /\ job' = [job EXCEPT ![t] = Idle] /\ mag' = mag
    BY <1>2, <1>6 DEF Refilled, Goto
  <2>2. /\ out' \in [Frames -> 0 .. 1] /\ out'[f] = 1
        /\ \A g \in Frames \ {f} : out'[g] = out[g]
    BY <1>3, <2>1, HandOne DEF At1
  <2>3. OutStep
    BY <1>3, <2>1, HandOne DEF At1
  <2>4. /\ job'[t].frame = NoFrame /\ job'[t].stash = NoFrame
        /\ \A u \in Threads : u # t => job'[u] = job[u]
    BY <2>1, IdleJob, JobOf
  <2>5. At1(f, "out", NoThread)'
    BY <1>1, <1>3, <2>1, <2>2, <2>4 DEF At1
  <2>6. Partition'
    <3>1. ASSUME NEW g \in Frames \ {f}, NEW u \in Threads
          PROVE  /\ g = job'[u].frame <=> g = job[u].frame
                 /\ g = job'[u].stash <=> g = job[u].stash
      BY <1>2, <1>3, <2>4
    <3> QED BY <1>1, <2>1, <2>2, <2>5, <3>1, OfPool, MoveFrame DEF Kinds
  <2>7. job[t].back = "idle"
    BY <1>1, <1>6 DEF Call, Jobs
  <2>8. tls[t] # "temp" /\ (~LateCalls /\ tls[t] \in {"null", "freed"} => Len(mag[t]) = 0)
    BY <1>1, <2>7 DEF Call
  <2>9. Call(Idle, Len(mag[t]), tls[t])
    BY <1>1, <2>8, IdleJob, PlainCall
  <2>10. mag' = [mag EXCEPT ![t] = mag[t]]
    BY <2>1, SlabsSame
  <2>11. PoolInv'
    BY <1>1, <1>4, <2>1, <2>2, <2>6, <2>9, <2>10, IdleJob, CallStep
  <2> QED BY <2>3, <2>11
<1> QED BY <1>5, <1>6

-----------------------------------------------------------------------------
(* Free *)

\* PoolFree: from the program to a slab.
LEMMA PoolFreeStep ==
  ASSUME PoolInv, NEW t \in Threads, NEW f \in Held, NEW c \in Cpus, PoolFree(t, f, c)
  PROVE  PoolInv' /\ OutStep
<1>1. /\ HasRoom(c) /\ out' = [out EXCEPT ![f] = @ - 1] /\ slab' = Pushed(c, f)
      /\ UNCHANGED <<central, lock, tls, mag, job>>
  BY DEF PoolFree
<1>2. /\ f \in Frames /\ At1(f, "out", NoThread) /\ out' \in [Frames -> 0 .. 1]
      /\ out'[f] = 0 /\ \A g \in Frames \ {f} : out'[g] = out[g]
  BY <1>1, GiveOne
<1>3. OutStep
  BY <1>1, GiveOne
<1>4. f \notin ToSet(slab[c])
  BY <1>2 DEF At1
<1>5. /\ slab' \in [Cpus -> Seq(Frames)]
      /\ \A d \in Cpus : Distinct(slab'[d]) /\ Len(slab'[d]) <= CapPerCpu
      /\ ToSet(slab'[c]) = ToSet(slab[c]) \cup {f}
      /\ \A d \in Cpus : d # c => ToSet(slab'[d]) = ToSet(slab[d])
  BY <1>1, <1>2, <1>4, PushSlab
<1>6. At1(f, "slab", c)'
  BY <1>1, <1>2, <1>5 DEF At1
<1>7. Partition'
  BY <1>1, <1>2, <1>5, <1>6, OfPool, MoveFrame DEF Kinds
<1>8. /\ job[t] \in Jobs /\ mag[t] \in Seq(Frames) /\ tls[t] \in Caches
      /\ Call(job[t], Len(mag[t]), tls[t]) /\ Distinct(mag[t])
  BY OfThread
<1>9. /\ central' \in Seq(Frames) /\ Distinct(central') /\ lock' \in Threads \cup {NoThread}
      /\ tls' = [tls EXCEPT ![t] = tls[t]] /\ mag' = [mag EXCEPT ![t] = mag[t]]
      /\ job' = [job EXCEPT ![t] = job[t]]
  BY <1>1, SlabsSame
<1>10. PoolInv'
  BY <1>2, <1>5, <1>7, <1>8, <1>9, CallStep
<1> QED BY <1>3, <1>10

\* PoolFull: from the program to the call.
LEMMA PoolFullStep ==
  ASSUME PoolInv, NEW t \in Threads, NEW f \in Held, NEW c \in Cpus, PoolFull(t, f, c)
  PROVE  PoolInv' /\ OutStep
<1> DEFINE v == [Idle EXCEPT !.at = "drain", !.frame = f]
<1>1. /\ At(t, "idle") /\ out' = [out EXCEPT ![f] = @ - 1] /\ job' = [job EXCEPT ![t] = v]
      /\ UNCHANGED <<central, lock, slab, tls, mag>>
  BY DEF PoolFull, Goto
<1>2. /\ f \in Frames /\ At1(f, "out", NoThread) /\ out' \in [Frames -> 0 .. 1]
      /\ out'[f] = 0 /\ \A g \in Frames \ {f} : out'[g] = out[g]
  BY <1>1, GiveOne
<1>3. OutStep
  BY <1>1, GiveOne
<1>4. /\ v \in Jobs /\ v.at = "drain" /\ v.back = "idle" /\ v.frame = f /\ v.stash = NoFrame
      /\ v.k = 0
  BY <1>2, FrameFacts DEF Idle, Jobs, Places
<1> HIDE DEF v
<1>5. /\ job[t].frame = NoFrame /\ job[t].stash = NoFrame /\ job[t].back = "idle"
      /\ tls[t] # "temp" /\ tls[t] \in Caches /\ mag[t] \in Seq(Frames) /\ Distinct(mag[t])
      /\ Call(job[t], Len(mag[t]), tls[t]) /\ \A g \in Frames : g # NoFrame
  BY <1>1, InNoCall, OfThread, FrameFacts
<1>6. /\ job'[t].frame = f /\ job'[t].stash = NoFrame
      /\ \A u \in Threads : u # t => job'[u] = job[u]
  BY <1>1, <1>4, JobOf
<1>7. At1(f, "frame", t)'
  BY <1>1, <1>2, <1>5, <1>6 DEF At1
<1>8. Partition'
  <2>1. ASSUME NEW g \in Frames \ {f}, NEW u \in Threads
        PROVE  /\ g = job'[u].frame <=> g = job[u].frame
               /\ g = job'[u].stash <=> g = job[u].stash
    BY <1>5, <1>6
  <2> QED BY <1>1, <1>2, <1>7, <2>1, OfPool, MoveFrame DEF Kinds
<1>9. Call(v, Len(mag[t]), tls[t])
  BY <1>2, <1>4, <1>5 DEF Call
<1>10. /\ central' \in Seq(Frames) /\ Distinct(central')
       /\ slab' \in [Cpus -> Seq(Frames)]
       /\ \A d \in Cpus : Distinct(slab'[d]) /\ Len(slab'[d]) <= CapPerCpu
       /\ lock' \in Threads \cup {NoThread} /\ tls' = [tls EXCEPT ![t] = tls[t]]
       /\ mag' = [mag EXCEPT ![t] = mag[t]]
  BY <1>1, SlabsSame
<1>11. PoolInv'
  BY <1>1, <1>2, <1>4, <1>5, <1>8, <1>9, <1>10, CallStep
<1> QED BY <1>3, <1>11

\* CacheFree: from the program to the magazine.
LEMMA CacheFreeStep ==
  ASSUME PoolInv, NEW t \in Threads, NEW f \in Held, CacheFree(t, f)
  PROVE  PoolInv' /\ OutStep
<1>1. /\ At(t, "idle") /\ MayCall(t) /\ Len(mag[t]) < MagCap /\ out' = [out EXCEPT ![f] = @ - 1]
      /\ mag' = [mag EXCEPT ![t] = Append(@, f)] /\ UNCHANGED <<central, lock, slab>>
  BY DEF CacheFree
<1>2. /\ f \in Frames /\ At1(f, "out", NoThread) /\ out' \in [Frames -> 0 .. 1]
      /\ out'[f] = 0 /\ \A g \in Frames \ {f} : out'[g] = out[g]
  BY <1>1, GiveOne
<1>3. OutStep
  BY <1>1, GiveOne
<1>4. f \notin ToSet(mag[t])
  BY <1>2 DEF At1
<1>5. /\ Append(mag[t], f) \in Seq(Frames) /\ Distinct(Append(mag[t], f))
      /\ Len(Append(mag[t], f)) = Len(mag[t]) + 1
      /\ mag' = [mag EXCEPT ![t] = Append(mag[t], f)] /\ mag'[t] = Append(mag[t], f)
      /\ ToSet(mag'[t]) = ToSet(mag[t]) \cup {f}
      /\ \A u \in Threads : u # t => ToSet(mag'[u]) = ToSet(mag[u])
  BY <1>1, <1>2, <1>4, PushMag
<1>6. PICK s \in With(t) : tls' = [tls EXCEPT ![t] = s] /\ Goto(t, Return(s, Len(mag'[t])))
  BY DEF CacheFree
<1>7. s \in Caches /\ s # "null" /\ (s = "freed" => LateCalls)
  BY <1>1, <1>6, WithFacts
<1>8. Len(Append(mag[t], f)) \in Nat /\ Len(Append(mag[t], f)) <= MagCap
  <2>1. Len(mag[t]) \in Nat
    BY OfThread
  <2> QED BY <1>1, <1>5, <2>1, FramePoolAssumption
<1>9. PICK x \in Jobs : /\ x = Return(s, Len(Append(mag[t], f))) /\ x.frame = NoFrame
                        /\ x.stash = NoFrame /\ Call(x, Len(Append(mag[t], f)), s)
  BY <1>7, <1>8, ReturnCall
<1>10. job' = [job EXCEPT ![t] = x]
  BY <1>5, <1>6, <1>9 DEF Goto
<1>11. \A u \in Threads : job'[u].frame = job[u].frame /\ job'[u].stash = job[u].stash
  BY <1>1, <1>9, <1>10, InNoCall, JobOf
<1>12. At1(f, "mag", t)'
  BY <1>1, <1>2, <1>5, <1>11 DEF At1
<1>13. Partition'
  BY <1>1, <1>2, <1>5, <1>11, <1>12, OfPool, MoveFrame DEF Kinds
<1>14. /\ central' \in Seq(Frames) /\ Distinct(central')
       /\ slab' \in [Cpus -> Seq(Frames)]
       /\ \A d \in Cpus : Distinct(slab'[d]) /\ Len(slab'[d]) <= CapPerCpu
       /\ lock' \in Threads \cup {NoThread}
  BY <1>1, SlabsSame
<1>15. PoolInv'
  BY <1>2, <1>5, <1>6, <1>7, <1>9, <1>10, <1>13, <1>14, CallStep
<1> QED BY <1>3, <1>15

\* CacheFull: from the program to the call, until the magazine has room.
LEMMA CacheFullStep ==
  ASSUME PoolInv, NEW t \in Threads, NEW f \in Held, CacheFull(t, f)
  PROVE  PoolInv' /\ OutStep
<1> DEFINE v == [Idle EXCEPT !.at = "spill", !.back = "spill", !.stash = f, !.k = Half]
<1>1. /\ At(t, "idle") /\ Len(mag[t]) = MagCap /\ out' = [out EXCEPT ![f] = @ - 1]
      /\ job' = [job EXCEPT ![t] = v] /\ UNCHANGED <<central, lock, slab, tls, mag>>
  BY DEF CacheFull, Goto
<1>2. /\ f \in Frames /\ At1(f, "out", NoThread) /\ out' \in [Frames -> 0 .. 1]
      /\ out'[f] = 0 /\ \A g \in Frames \ {f} : out'[g] = out[g]
  BY <1>1, GiveOne
<1>3. OutStep
  BY <1>1, GiveOne
<1>4. /\ v \in Jobs /\ v.at = "spill" /\ v.back = "spill" /\ v.frame = NoFrame /\ v.stash = f
      /\ v.k = Half
  BY <1>2, FrameFacts, HalfFacts DEF Idle, Jobs, Places
<1> HIDE DEF v
<1>5. /\ job[t].frame = NoFrame /\ job[t].stash = NoFrame /\ job[t].back = "idle"
      /\ tls[t] # "temp" /\ tls[t] \in Caches /\ mag[t] \in Seq(Frames) /\ Distinct(mag[t])
      /\ Call(job[t], Len(mag[t]), tls[t]) /\ \A g \in Frames : g # NoFrame
  BY <1>1, InNoCall, OfThread, FrameFacts
<1>6. /\ job'[t].stash = f /\ job'[t].frame = NoFrame
      /\ \A u \in Threads : u # t => job'[u] = job[u]
  BY <1>1, <1>4, JobOf
<1>7. At1(f, "stash", t)'
  BY <1>1, <1>2, <1>5, <1>6 DEF At1
<1>8. Partition'
  <2>1. ASSUME NEW g \in Frames \ {f}, NEW u \in Threads
        PROVE  /\ g = job'[u].frame <=> g = job[u].frame
               /\ g = job'[u].stash <=> g = job[u].stash
    BY <1>5, <1>6
  <2> QED BY <1>1, <1>2, <1>7, <2>1, OfPool, MoveFrame DEF Kinds
<1>9. Call(v, Len(mag[t]), tls[t])
  <2>1. MagCap <= MagCap /\ MagCap + 1 <= MagCap + Half /\ Half <= MagCap /\ MagCap # 0
    BY HalfFacts, FramePoolAssumption
  <2>2. ~LateCalls => tls[t] \notin {"null", "freed"}
    BY <1>1, <1>5, <2>1 DEF Call
  <2> QED BY <1>1, <1>4, <1>5, <2>1, <2>2 DEF Call
<1>10. /\ central' \in Seq(Frames) /\ Distinct(central')
       /\ slab' \in [Cpus -> Seq(Frames)]
       /\ \A d \in Cpus : Distinct(slab'[d]) /\ Len(slab'[d]) <= CapPerCpu
       /\ lock' \in Threads \cup {NoThread} /\ tls' = [tls EXCEPT ![t] = tls[t]]
       /\ mag' = [mag EXCEPT ![t] = mag[t]]
  BY <1>1, SlabsSame
<1>11. PoolInv'
  BY <1>1, <1>2, <1>4, <1>5, <1>8, <1>9, <1>10, CallStep, ZenonT(60)
<1> QED BY <1>3, <1>11

\* A spill of one frame brings the loop of a flush closer to its end.
LEMMA SpillCall ==
  ASSUME NEW x \in Jobs, NEW y \in Jobs, NEW len \in Nat, NEW s, Call(x, len, s),
         x.at = "spill", x.k > 0, y.k = x.k - 1, y.back = x.back, y.stash = x.stash,
         (y.at = "spill" /\ y.frame = NoFrame) \/ (y.at = "drain" /\ y.frame # NoFrame)
  PROVE  Call(y, len - 1, s)
<1>1. x.k \in Nat /\ MagCap \in Nat /\ x.back \in {"spill", "exit"} /\ x.k <= len
  BY FramePoolAssumption DEF Call, Jobs
<1>2. ~LateCalls => s \notin {"null", "freed"}
  BY <1>1 DEF Call
<1>3. len - 1 <= MagCap /\ y.k <= len - 1 /\ (x.k = len => y.k = len - 1)
      /\ (len + 1 <= MagCap + x.k => len - 1 + 1 <= MagCap + y.k)
  BY <1>1 DEF Call
<1> QED BY <1>1, <1>2, <1>3 DEF Call

\* Spill: from the magazine to a slab, or to the call when the slab is full.
LEMMA SpillStep ==
  ASSUME PoolInv, NEW t \in Threads, NEW c \in Cpus, Spill(t, c)
  PROVE  PoolInv' /\ OutStep
<1>1. /\ job[t].at = "spill" /\ job[t].k > 0 /\ mag' = [mag EXCEPT ![t] = Front(@)]
      /\ UNCHANGED <<central, lock, tls, out>>
      /\ job[t] \in Jobs /\ tls[t] \in Caches /\ Call(job[t], Len(mag[t]), tls[t])
      /\ Len(mag[t]) \in Nat /\ mag[t] \in Seq(Frames) /\ (Len(mag[t]) = 0 <=> mag[t] = <<>>)
  BY OfThread DEF Spill, At
<1>2. /\ job[t].back \in {"spill", "exit"} /\ job[t].k <= Len(mag[t]) /\ job[t].k \in Nat
      /\ job[t].frame = NoFrame /\ job[t].stash \in 0 .. NumFrames
  BY <1>1 DEF Call, Jobs
<1>3. mag[t] # <<>>
  BY <1>1, <1>2
<1>4. PICK f \in Frames : f = Last(mag[t])
  BY <1>1, <1>3, PopMag
<1>5. /\ At1(f, "mag", t) /\ Front(mag[t]) \in Seq(Frames) /\ Distinct(Front(mag[t]))
      /\ Len(Front(mag[t])) = Len(mag[t]) - 1 /\ Len(mag[t]) > 0
      /\ mag' = [mag EXCEPT ![t] = Front(mag[t])]
      /\ \A u \in Threads : ToSet(mag'[u]) = ToSet(mag[u]) \ {f}
  BY <1>1, <1>3, <1>4, PopMag
<1>6. /\ central' \in Seq(Frames) /\ Distinct(central') /\ out' \in [Frames -> 0 .. 1] /\ OutStep
      /\ lock' \in Threads \cup {NoThread} /\ tls' = [tls EXCEPT ![t] = tls[t]]
  BY <1>1, SlabsSame
<1>7. \A g \in Frames : g # NoFrame /\ g \in 0 .. NumFrames
  BY FrameFacts
<1>8. CASE HasRoom(c)
  <2> DEFINE v == [job[t] EXCEPT !.k = job[t].k - 1]
  <2>1. slab' = Pushed(c, f) /\ job' = [job EXCEPT ![t] = v]
    BY <1>4, <1>8 DEF Spill, Goto
  <2>2. /\ v \in Jobs /\ v.at = "spill" /\ v.back = job[t].back /\ v.frame = job[t].frame
        /\ v.stash = job[t].stash /\ v.k = job[t].k - 1
    <3>1. job[t].k - 1 \in Nat
      BY <1>1, <1>2
    <3> QED BY <1>1, <3>1 DEF Jobs
  <2> HIDE DEF v
  <2>3. f \notin ToSet(slab[c])
    BY <1>5 DEF At1
  <2>4. /\ slab' \in [Cpus -> Seq(Frames)]
        /\ \A d \in Cpus : Distinct(slab'[d]) /\ Len(slab'[d]) <= CapPerCpu
        /\ ToSet(slab'[c]) = ToSet(slab[c]) \cup {f}
        /\ \A d \in Cpus : d # c => ToSet(slab'[d]) = ToSet(slab[d])
    BY <1>8, <2>1, <2>3, PushSlab
  <2>5. \A u \in Threads : job'[u].frame = job[u].frame /\ job'[u].stash = job[u].stash
    BY <2>1, <2>2, JobOf
  <2>6. At1(f, "slab", c)'
    BY <1>1, <1>5, <2>4, <2>5 DEF At1
  <2>7. Partition'
    BY <1>1, <1>5, <2>4, <2>5, <2>6, OfPool, MoveFrame DEF Kinds
  <2>8. Call(v, Len(Front(mag[t])), tls[t])
    <3>1. Call(v, Len(mag[t]) - 1, tls[t])
      BY <1>1, <1>2, <2>2, SpillCall
    <3> QED BY <1>5, <3>1
  <2> QED BY <1>1, <1>5, <1>6, <2>1, <2>2, <2>4, <2>7, <2>8, CallStep
<1>9. CASE ~HasRoom(c)
  <2> DEFINE v == [[job[t] EXCEPT !.k = job[t].k - 1] EXCEPT !.at = "drain", !.frame = f]
  <2>1. slab' = slab /\ job' = [job EXCEPT ![t] = v]
    BY <1>4, <1>9 DEF Spill, Goto
  <2>2. /\ v \in Jobs /\ v.at = "drain" /\ v.back = job[t].back /\ v.frame = f
        /\ v.stash = job[t].stash /\ v.k = job[t].k - 1
    <3>1. job[t].k - 1 \in Nat
      BY <1>1, <1>2
    <3> QED BY <1>1, <1>7, <3>1 DEF Jobs, Places
  <2> HIDE DEF v
  <2>3. /\ job'[t].frame = f /\ job'[t].stash = job[t].stash
        /\ \A u \in Threads : u # t => job'[u] = job[u]
    BY <2>1, <2>2, JobOf
  <2>4. At1(f, "frame", t)'
    BY <1>1, <1>5, <2>1, <2>3, SMTT(30) DEF At1
  <2>5. Partition'
    <3>1. ASSUME NEW g \in Frames \ {f}, NEW u \in Threads
          PROVE  /\ g = job'[u].frame <=> g = job[u].frame
                 /\ g = job'[u].stash <=> g = job[u].stash
      BY <1>2, <1>7, <2>3
    <3>2. \A g \in Frames \ {f} : \A u \in Threads : g \in ToSet(mag'[u]) <=> g \in ToSet(mag[u])
      BY <1>5
    <3> QED BY <1>1, <2>1, <2>4, <3>1, <3>2, OfPool, MoveFrame DEF Kinds
  <2>6. Call(v, Len(Front(mag[t])), tls[t])
    <3>1. v.frame # NoFrame
      BY <1>7, <2>2
    <3>2. Call(v, Len(mag[t]) - 1, tls[t])
      BY <1>1, <2>2, <3>1, SpillCall
    <3> QED BY <1>5, <3>2
  <2>7. /\ slab' \in [Cpus -> Seq(Frames)]
        /\ \A d \in Cpus : Distinct(slab'[d]) /\ Len(slab'[d]) <= CapPerCpu
    BY <2>1, SlabsSame
  <2> QED BY <1>1, <1>5, <1>6, <2>1, <2>2, <2>5, <2>6, <2>7, CallStep
<1> QED BY <1>8, <1>9

\* Spilled: the frame kept aside joins the magazine, and a dropped cache is gone.
LEMMA SpilledStep ==
  ASSUME PoolInv, NEW t \in Threads, Spilled(t)
  PROVE  PoolInv' /\ OutStep
<1> DEFINE s == IF job[t].back = "exit" THEN "freed"
                ELSE IF tls[t] = "temp" THEN "null" ELSE tls[t]
<1>1. /\ job[t].at = "spill" /\ job[t].k = 0 /\ job' = [job EXCEPT ![t] = Idle]
      /\ UNCHANGED <<central, lock, slab, out>>
      /\ job[t] \in Jobs /\ tls[t] \in Caches /\ Call(job[t], Len(mag[t]), tls[t])
      /\ Len(mag[t]) \in Nat /\ mag[t] \in Seq(Frames) /\ Distinct(mag[t])
  BY OfThread DEF Spilled, At, Goto
<1>2. tls' = [tls EXCEPT ![t] = s] /\ s \in Caches /\ s # "temp"
  BY <1>1 DEF Spilled, Caches
<1>3. /\ job[t].back = "exit" \/ tls[t] = "temp" => Len(mag[t]) = 0 /\ job[t].stash = NoFrame
      /\ job[t].back \in {"spill", "exit"} /\ job[t].frame = NoFrame /\ Len(mag[t]) <= MagCap
      /\ ~LateCalls => tls[t] \notin {"null", "freed"}
      /\ job[t].stash # NoFrame => Len(mag[t]) + 1 <= MagCap
  BY <1>1, FramePoolAssumption DEF Call
<1>4. ~LateCalls /\ s \in {"null", "freed"} => Len(mag[t]) = 0 /\ job[t].stash = NoFrame
  BY <1>3
<1> HIDE DEF s
<1>5. /\ central' \in Seq(Frames) /\ Distinct(central') /\ out' \in [Frames -> 0 .. 1] /\ OutStep
      /\ slab' \in [Cpus -> Seq(Frames)] /\ lock' \in Threads \cup {NoThread}
      /\ \A d \in Cpus : Distinct(slab'[d]) /\ Len(slab'[d]) <= CapPerCpu
  BY <1>1, SlabsSame
<1>6. CASE job[t].stash = NoFrame
  <2>1. mag' = mag
    BY <1>6, OfPool DEF Spilled
  <2>2. Call(Idle, Len(mag[t]), s)
    BY <1>2, <1>3, <1>4, IdleJob DEF Call
  <2> QED BY <1>1, <1>2, <1>3, <1>5, <1>6, <2>1, <2>2, IdleJob, NoMove
<1>7. CASE job[t].stash # NoFrame
  <2>1. PICK f \in Frames : f = job[t].stash
    BY <1>1, <1>7, FrameFacts DEF Jobs
  <2>2. mag' = [mag EXCEPT ![t] = Append(@, f)]
    BY <1>7, <2>1 DEF Spilled
  <2>3. At1(f, "stash", t) /\ \A g \in Frames : g # NoFrame
    BY <2>1, OfPool, IsAt, FrameFacts
  <2>4. f \notin ToSet(mag[t])
    BY <2>3 DEF At1
  <2>5. /\ Append(mag[t], f) \in Seq(Frames) /\ Distinct(Append(mag[t], f))
        /\ Len(Append(mag[t], f)) = Len(mag[t]) + 1
        /\ mag' = [mag EXCEPT ![t] = Append(mag[t], f)]
        /\ ToSet(mag'[t]) = ToSet(mag[t]) \cup {f}
        /\ \A u \in Threads : u # t => ToSet(mag'[u]) = ToSet(mag[u])
    BY <2>2, <2>4, PushMag
  <2>6. /\ job'[t].frame = NoFrame /\ job'[t].stash = NoFrame
        /\ \A u \in Threads : u # t => job'[u] = job[u]
    BY <1>1, IdleJob, JobOf
  <2>7. At1(f, "mag", t)'
    BY <1>1, <2>3, <2>5, <2>6 DEF At1
  <2>8. Partition'
    <3>1. ASSUME NEW g \in Frames \ {f}, NEW u \in Threads
          PROVE  /\ g = job'[u].frame <=> g = job[u].frame
                 /\ g = job'[u].stash <=> g = job[u].stash
      BY <1>3, <2>1, <2>3, <2>6
    <3> QED BY <1>1, <2>5, <2>7, <3>1, OfPool, MoveFrame DEF Kinds
  <2>9. Call(Idle, Len(Append(mag[t], f)), s)
    BY <1>1, <1>2, <1>3, <1>4, <1>7, <2>5, IdleJob, FramePoolAssumption DEF Call
  <2> QED BY <1>1, <1>2, <1>5, <2>5, <2>8, <2>9, IdleJob, CallStep
<1> QED BY <1>6, <1>7

\* DrainPop: from a slab to the central stack, or the end of the loop.
LEMMA DrainPopStep ==
  ASSUME PoolInv, NEW t \in Threads, NEW c \in Cpus, DrainPop(t, c)
  PROVE  PoolInv' /\ OutStep
<1>1. /\ job[t].at = "draining" /\ job[t].n > 0 /\ UNCHANGED <<lock, tls, mag, out>>
      /\ job[t] \in Jobs /\ tls[t] \in Caches /\ Call(job[t], Len(mag[t]), tls[t])
      /\ mag[t] \in Seq(Frames) /\ Distinct(mag[t])
  BY OfThread DEF DrainPop, At
<1>2. /\ out' \in [Frames -> 0 .. 1] /\ OutStep /\ lock' \in Threads \cup {NoThread}
      /\ tls' = [tls EXCEPT ![t] = tls[t]] /\ mag' = [mag EXCEPT ![t] = mag[t]]
  BY <1>1, SlabsSame
<1>3. ASSUME NEW n \in Nat
      PROVE  \E x \in Jobs : /\ x = [job[t] EXCEPT !.n = n] /\ x.frame = job[t].frame
                             /\ x.stash = job[t].stash /\ Call(x, Len(mag[t]), tls[t])
  <2> DEFINE v == [job[t] EXCEPT !.n = n]
  <2>1. /\ v \in Jobs /\ v.at = job[t].at /\ v.back = job[t].back /\ v.k = job[t].k
        /\ v.frame = job[t].frame /\ v.stash = job[t].stash
    BY <1>1, <1>3 DEF Jobs
  <2>2. Call(v, Len(mag[t]), tls[t])
    BY <1>1, <2>1 DEF Call
  <2> QED BY <2>1, <2>2
<1>4. CASE slab[c] # <<>>
  <2>0. slab' = Popped(c)
    BY <1>4 DEF DrainPop
  <2>1. PICK f \in Frames : f = Last(slab[c])
    BY <1>4, <2>0, PopSlab
  <2>2. /\ job[t].n - 1 \in Nat /\ central' = Append(central, f)
        /\ job' = [job EXCEPT ![t] = [job[t] EXCEPT !.n = job[t].n - 1]]
    <3>1. job[t].n \in Nat
      BY <1>1 DEF Jobs
    <3> QED BY <1>1, <1>4, <2>1, <3>1 DEF DrainPop, Goto
  <2>3. PICK x \in Jobs : /\ x = [job[t] EXCEPT !.n = job[t].n - 1] /\ x.frame = job[t].frame
                          /\ x.stash = job[t].stash /\ Call(x, Len(mag[t]), tls[t])
    BY <1>3, <2>2
  <2>4. job' = [job EXCEPT ![t] = x]
    BY <2>2, <2>3
  <2>5. /\ At1(f, "slab", c) /\ slab' \in [Cpus -> Seq(Frames)]
        /\ \A d \in Cpus : Distinct(slab'[d]) /\ Len(slab'[d]) <= CapPerCpu
        /\ \A d \in Cpus : ToSet(slab'[d]) = ToSet(slab[d]) \ {f}
    BY <1>4, <2>0, <2>1, PopSlab
  <2>6. f \notin ToSet(central)
    BY <2>5 DEF At1
  <2>7. /\ central' \in Seq(Frames) /\ Distinct(central')
        /\ ToSet(central') = ToSet(central) \cup {f}
    BY <2>2, <2>6, PushCentral
  <2>8. \A u \in Threads : job'[u].frame = job[u].frame /\ job'[u].stash = job[u].stash
    BY <2>3, <2>4, JobOf
  <2>9. At1(f, "central", NoThread)'
    BY <1>1, <2>5, <2>7, <2>8 DEF At1
  <2>10. Partition'
    BY <1>1, <2>5, <2>7, <2>8, <2>9, OfPool, MoveFrame DEF Kinds
  <2> QED BY <1>1, <1>2, <2>3, <2>4, <2>5, <2>7, <2>10, CallStep
<1>5. CASE slab[c] = <<>>
  <2>1. job' = [job EXCEPT ![t] = [job[t] EXCEPT !.n = 0]] /\ UNCHANGED <<slab, central>>
    BY <1>5 DEF DrainPop, Goto, DrainBreak
  <2>2. PICK x \in Jobs : /\ x = [job[t] EXCEPT !.n = 0] /\ x.frame = job[t].frame
                          /\ x.stash = job[t].stash /\ Call(x, Len(mag[t]), tls[t])
    BY <1>3
  <2>3. job' = [job EXCEPT ![t] = x]
    BY <2>1, <2>2
  <2> QED BY <1>1, <1>2, <2>1, <2>2, <2>3, NoMove
<1> QED BY <1>4, <1>5

\* Drained: the frame that caused the drain goes to a slab or the central stack.
LEMMA DrainedStep ==
  ASSUME PoolInv, NEW t \in Threads, NEW c \in Cpus, Drained(t, c)
  PROVE  PoolInv' /\ OutStep
<1>1. /\ job[t].at = "draining" /\ lock' = NoThread /\ UNCHANGED <<tls, mag, out>>
      /\ job' = [job EXCEPT ![t] = IF job[t].back # "idle"
                                   THEN [job[t] EXCEPT !.at = "spill", !.frame = NoFrame]
                                   ELSE Idle]
      /\ job[t] \in Jobs /\ tls[t] \in Caches /\ Call(job[t], Len(mag[t]), tls[t])
      /\ mag[t] \in Seq(Frames) /\ Distinct(mag[t]) /\ Len(mag[t]) \in Nat
  BY OfThread DEF Drained, At, Goto
<1>2. PICK f \in Frames : f = job[t].frame
  BY <1>1, FrameFacts DEF Call, Jobs
<1>3. At1(f, "frame", t) /\ \A g \in Frames : g # NoFrame
  BY <1>2, OfPool, IsAt, FrameFacts
<1>4. /\ out' \in [Frames -> 0 .. 1] /\ OutStep /\ lock' \in Threads \cup {NoThread}
      /\ tls' = [tls EXCEPT ![t] = tls[t]] /\ mag' = [mag EXCEPT ![t] = mag[t]]
  BY <1>1, SlabsSame
<1>5. PICK x \in Jobs : /\ job' = [job EXCEPT ![t] = x] /\ x.frame = NoFrame
                        /\ x.stash = job[t].stash /\ Call(x, Len(mag[t]), tls[t])
  <2>1. CASE job[t].back # "idle"
    <3> DEFINE v == [job[t] EXCEPT !.at = "spill", !.frame = NoFrame]
    <3>1. /\ v \in Jobs /\ v.at = "spill" /\ v.back = job[t].back /\ v.k = job[t].k
          /\ v.frame = NoFrame /\ v.stash = job[t].stash
      BY <1>1, FrameFacts DEF Jobs, Places
    <3>2. job' = [job EXCEPT ![t] = v]
      BY <1>1, <2>1
    <3> HIDE DEF v
    <3>3. job[t].back \in {"spill", "exit"}
      BY <1>1, <2>1 DEF Call, Jobs
    <3>4. Call(v, Len(mag[t]), tls[t])
      BY <1>1, <3>1, <3>3 DEF Call
    <3> QED BY <3>1, <3>2, <3>4
  <2>2. CASE job[t].back = "idle"
    <3>1. /\ job[t].stash = NoFrame /\ tls[t] # "temp"
          /\ ~LateCalls /\ tls[t] \in {"null", "freed"} => Len(mag[t]) = 0
      BY <1>1, <2>2 DEF Call
    <3>2. Call(Idle, Len(mag[t]), tls[t])
      BY <1>1, <3>1, IdleJob, PlainCall
    <3> QED BY <1>1, <2>2, <3>1, <3>2, IdleJob
  <2> QED BY <2>1, <2>2
<1>6. /\ job'[t].frame = NoFrame /\ job'[t].stash = job[t].stash
      /\ \A u \in Threads : u # t => job'[u] = job[u]
  BY <1>5, JobOf
<1>7. ASSUME NEW g \in Frames \ {f}, NEW u \in Threads
      PROVE  /\ g = job'[u].frame <=> g = job[u].frame
             /\ g = job'[u].stash <=> g = job[u].stash
  BY <1>2, <1>3, <1>6
<1>0. mag[t] \in Seq(Frames) /\ tls[t] \in Caches /\ Distinct(mag[t])
  BY <1>1
<1>8. CASE HasRoom(c)
  <2>1. slab' = Pushed(c, f) /\ central' = central /\ f \notin ToSet(slab[c])
    BY <1>2, <1>3, <1>8 DEF Drained, At1
  <2>2. /\ slab' \in [Cpus -> Seq(Frames)]
        /\ \A d \in Cpus : Distinct(slab'[d]) /\ Len(slab'[d]) <= CapPerCpu
        /\ ToSet(slab'[c]) = ToSet(slab[c]) \cup {f}
        /\ \A d \in Cpus : d # c => ToSet(slab'[d]) = ToSet(slab[d])
    BY <1>8, <2>1, PushSlab
  <2>3. At1(f, "slab", c)'
    BY <1>1, <1>3, <1>6, <2>1, <2>2 DEF At1
  <2>4. Partition'
    BY <1>1, <1>7, <2>1, <2>2, <2>3, OfPool, MoveFrame DEF Kinds
  <2>5. central' \in Seq(Frames) /\ Distinct(central')
    BY <2>1, SlabsSame
  <2> QED BY <1>0, <1>4, <1>5, <2>2, <2>4, <2>5, CallStep
<1>9. CASE ~HasRoom(c)
  <2>1. central' = Append(central, f) /\ slab' = slab /\ f \notin ToSet(central)
    BY <1>2, <1>3, <1>9 DEF Drained, DrainStashed, At1
  <2>2. /\ central' \in Seq(Frames) /\ Distinct(central')
        /\ ToSet(central') = ToSet(central) \cup {f}
    BY <2>1, PushCentral
  <2>3. At1(f, "central", NoThread)'
    BY <1>1, <1>3, <1>6, <2>1, <2>2 DEF At1
  <2>4. Partition'
    <3>1. \A g \in Frames \ {f} : g \in ToSet(central') <=> g \in ToSet(central)
      BY <2>2
    <3> QED BY <1>1, <1>7, <2>1, <2>3, <3>1, OfPool, MoveFrame DEF Kinds
  <2>5. /\ slab' \in [Cpus -> Seq(Frames)]
        /\ \A d \in Cpus : Distinct(slab'[d]) /\ Len(slab'[d]) <= CapPerCpu
    BY <2>1, SlabsSame
  <2> QED BY <1>0, <1>4, <1>5, <2>2, <2>4, <2>5, CallStep
<1> QED BY <1>8, <1>9

-----------------------------------------------------------------------------
(* The invariant *)

\* build puts every frame on the central stack, once.
LEMMA InitPoolInv ==
  ASSUME Init
  PROVE  PoolInv
<1>1. /\ central \in Seq(Frames) /\ Len(central) = NumFrames
      /\ \A i \in 1 .. NumFrames : central[i] = i - 1
  BY FramePoolAssumption DEF Init, Frames
<1>2. Distinct(central)
  BY <1>1, FrameFacts DEF Distinct
<1>3. \A f \in Frames : f \in ToSet(central)
  <2> SUFFICES ASSUME NEW f \in Frames PROVE f \in ToSet(central)
    OBVIOUS
  <2>1. PICK i \in 1 .. NumFrames : i - 1 = f
    <3> DEFINE n == f + 1
    <3>1. n \in 1 .. NumFrames /\ n - 1 = f
      BY FramePoolAssumption DEF Frames
    <3> HIDE DEF n
    <3> QED BY <3>1
  <2>2. central[i] = f /\ i \in 1 .. Len(central)
    BY <1>1, <2>1
  <2> QED BY <1>1, <2>2, InStack
<1>4. Types
  BY <1>1, IdleJob, EmptyStack DEF Init, Types, Caches
<1>5. /\ \A c \in Cpus : slab[c] = <<>>
      /\ \A t \in Threads : job[t] = Idle /\ mag[t] = <<>> /\ tls[t] = "null"
      /\ \A f \in Frames : out[f] = 0
  BY DEF Init
<1>6. \A t \in Threads : Call(job[t], Len(mag[t]), tls[t])
  <2>1. 0 <= MagCap
    BY FramePoolAssumption
  <2> QED BY <1>5, <2>1, IdleJob, EmptyStack DEF Call
<1>7. Stacks
  <2>1. 0 <= CapPerCpu
    BY FramePoolAssumption
  <2> QED BY <1>2, <1>5, <2>1, EmptyStack DEF Stacks
<1>8. Partition
  <2> DEFINE kind == [f \in Frames |-> "central"]
             at   == [f \in Frames |-> NoThread]
  <2>1. /\ kind \in [Frames -> Kinds] /\ at \in [Frames -> Cpus \cup Threads \cup {NoThread}]
        /\ \A f \in Frames : kind[f] = "central"
    BY DEF Kinds
  <2> HIDE DEF kind, at
  <2>2. \A f \in Frames : f # NoFrame /\ 0 # 1
    BY FrameFacts
  <2>3. Located(kind, at)
    BY <1>3, <1>5, <2>1, <2>2, IdleJob, EmptyStack DEF Located
  <2> QED BY <2>1, <2>3 DEF Partition
<1> QED BY <1>4, <1>6, <1>7, <1>8 DEF PoolInv

\* A step that changes nothing.
LEMMA StutterStep ==
  ASSUME PoolInv, UNCHANGED vars
  PROVE  PoolInv' /\ OutStep
<1>1. UNCHANGED <<central, lock, slab, tls, mag, out, job>>
  BY DEF vars
<1>2. Types' /\ Stacks'
  BY <1>1 DEF PoolInv, Types, Stacks, Distinct
<1>3. \A t \in Threads : Call(job[t], Len(mag[t]), tls[t])'
  BY <1>1 DEF PoolInv, Call
<1>4. PICK kind \in [Frames -> Kinds], at \in [Frames -> Cpus \cup Threads \cup {NoThread}] :
         Located(kind, at)
  BY OfPool DEF Partition
<1>5. Located(kind, at)'
  BY <1>1, <1>4 DEF Located
<1>6. Partition'
  BY <1>5 DEF Partition
<1> QED BY <1>1, <1>2, <1>3, <1>6 DEF PoolInv, OutStep

\* Every step preserves the invariant and is one of FrameSource's or a stutter.
LEMMA NextPoolInv ==
  ASSUME PoolInv, [Next]_vars
  PROVE  PoolInv' /\ OutStep
<1>1. CASE UNCHANGED vars
  BY <1>1, StutterStep
<1>2. ASSUME NEW t \in Threads, Alloc(t) PROVE PoolInv' /\ OutStep
  <2>1. CASE CacheAlloc(t) \/ CacheMiss(t)
    BY <2>1, CacheAllocStep, CacheMissStep
  <2>2. CASE \E c \in Cpus : PoolAlloc(t, c) \/ PoolMiss(t, c)
    BY <2>2, PoolAllocStep, PoolMissStep
  <2>3. CASE RefillNone(t) \/ RefillLock(t) \/ Refilled(t) \/ Pulled(t)
    BY <2>3, RefillNoneStep, RefillLockStep, RefilledStep, PulledStep
  <2>4. CASE \E c \in Cpus : Pull(t, c) \/ Fill(t, c)
    BY <2>4, PullStep, FillStep
  <2> QED BY <1>2, <2>1, <2>2, <2>3, <2>4 DEF Alloc
<1>3. ASSUME NEW t \in Threads, Free(t) PROVE PoolInv' /\ OutStep
  <2>1. CASE \E f \in Held : CacheFree(t, f) \/ CacheFull(t, f)
    BY <2>1, CacheFreeStep, CacheFullStep
  <2>2. CASE OnExit(t) \/ Spawn(t)
    BY <2>2, OnExitStep, SpawnStep
  <2>3. CASE \E f \in Held, c \in Cpus : PoolFree(t, f, c) \/ PoolFull(t, f, c)
    BY <2>3, PoolFreeStep, PoolFullStep
  <2>4. CASE Spilled(t) \/ DrainLock(t)
    BY <2>4, SpilledStep, DrainLockStep
  <2>5. CASE \E c \in Cpus : Spill(t, c) \/ DrainPop(t, c) \/ Drained(t, c)
    BY <2>5, SpillStep, DrainPopStep, DrainedStep
  <2> QED BY <1>3, <2>1, <2>2, <2>3, <2>4, <2>5 DEF Free
<1> QED BY <1>1, <1>2, <1>3 DEF Next

\* PoolInv is an invariant.
LEMMA AlwaysPoolInv == Spec => []PoolInv
<1>1. Init => PoolInv
  BY InitPoolInv
<1>2. PoolInv /\ [Next]_vars => PoolInv'
  BY NextPoolInv
<1> QED BY <1>1, <1>2, PTL DEF Spec

-----------------------------------------------------------------------------
(* Theorems *)

\* TypeOK: the stacks stay within their storage.  The central one does because
\* no frame is on it twice.  No cache is used after on_exit has freed it.
THEOREM StacksAlwaysFit ==
  ASSUME ~LateCalls
  PROVE  Spec => []TypeOK
<1>1. PoolInv => TypeOK
  <2> SUFFICES ASSUME PoolInv PROVE TypeOK
    OBVIOUS
  <2>1. Len(central) <= NumFrames
    BY OfPool, StackBound
  <2>2. \A t \in Threads : mag[t] \in Seq(Frames) /\ Len(mag[t]) <= MagCap
    BY OfThread DEF Call
  <2> QED BY <2>1, <2>2, OfPool DEF TypeOK
<1> QED BY <1>1, AlwaysPoolInv, PTL

\* NoLostFrame: no free, flush, refill, failed calloc or thread exit strands a
\* frame, as long as nobody uses a cache that on_exit has freed.
THEOREM NeverLostFrame ==
  ASSUME ~LateCalls
  PROVE  Spec => []NoLostFrame
<1>1. PoolInv => NoLostFrame
  <2> SUFFICES ASSUME PoolInv, NEW f \in Frames PROVE f \in Known
    BY DEF NoLostFrame
  <2>1. PICK K \in Kinds, W \in Cpus \cup Threads \cup {NoThread} : At1(f, K, W)
    BY OfPool, FindFrame
  <2> DEFINE Mags   == UNION {ToSet(mag[t]) : t \in {u \in Threads : tls[u] \in {"live", "temp"}}}
             Moving == {job[t].frame : t \in Threads}
             Aside  == {job[t].stash : t \in Threads}
             Others == ToSet(central) \cup Held \cup UNION {ToSet(slab[c]) : c \in Cpus}
  <2>8. Known = Others \cup Mags \cup Moving \cup Aside
    BY DEF Known
  <2>2. CASE K = "central"
    BY <2>1, <2>2 DEF At1, Known
  <2>3. CASE K = "out"
    BY <2>1, <2>3 DEF At1, Known, Held
  <2>4. CASE K = "slab"
    BY <2>1, <2>4 DEF At1, Known
  <2>5. CASE K = "mag"
    <3>1. W \in Threads /\ f \in ToSet(mag[W])
      BY <2>1, <2>5 DEF At1
    <3>2. mag[W] # <<>>
      BY <3>1, EmptyStack
    <3>3. Len(mag[W]) # 0 /\ tls[W] \in Caches /\ Call(job[W], Len(mag[W]), tls[W])
      BY <3>1, <3>2, OfThread
    <3>4. tls[W] \in {"live", "temp"}
      BY <3>3 DEF Call, Caches
    <3>5. W \in {u \in Threads : tls[u] \in {"live", "temp"}}
      BY <3>1, <3>4
    <3>6. f \in Mags
      BY <3>1, <3>5
    <3> HIDE DEF Others, Mags, Moving, Aside
    <3> QED BY <3>6, <2>8
  <2>6. CASE K = "frame"
    <3>1. W \in Threads /\ f = job[W].frame
      BY <2>1, <2>6 DEF At1
    <3>2. f \in {job[t].frame : t \in Threads}
      BY <3>1
    <3>3. f \in Moving
      BY <3>2
    <3> HIDE DEF Others, Mags, Moving, Aside
    <3> QED BY <3>3, <2>8
  <2>7. CASE K = "stash"
    <3>1. W \in Threads /\ f = job[W].stash
      BY <2>1, <2>7 DEF At1
    <3>2. f \in {job[t].stash : t \in Threads}
      BY <3>1
    <3>3. f \in Aside
      BY <3>2
    <3> HIDE DEF Others, Mags, Moving, Aside
    <3> QED BY <3>3, <2>8
  <2> QED BY <2>2, <2>3, <2>4, <2>5, <2>6, <2>7 DEF Kinds
<1> QED BY <1>1, AlwaysPoolInv, PTL

\* RefinesFrameSource: whatever the threads do to the stacks, the program is
\* handed a frame only when nobody holds it, and gives back what it holds, as
\* long as nobody uses a cache that on_exit has freed.
THEOREM ImplementsFrameSource ==
  ASSUME ~LateCalls
  PROVE  Spec => RefinesFrameSource
<1>1. Init => Source!SInit
  BY DEF Init, Source!SInit
<1>2. PoolInv /\ [Next]_vars => [Source!SNext]_out
  <2> SUFFICES ASSUME PoolInv, OutStep, out' # out PROVE Source!SNext
    BY NextPoolInv
  <2>1. out \in [Frames -> 0 .. 1]
    BY OfPool
  <2>2. CASE \E f \in Frames : out[f] = 0 /\ out' = [out EXCEPT ![f] = 1]
    <3>1. PICK f \in Frames : out[f] = 0 /\ out' = [out EXCEPT ![f] = 1]
      BY <2>2
    <3>2. out' = [out EXCEPT ![f] = out[f] + 1]
      BY <3>1
    <3> QED BY <3>1, <3>2 DEF Source!SNext, Source!AllocFrame
  <2>3. CASE \E f \in Frames : out[f] = 1 /\ out' = [out EXCEPT ![f] = 0]
    <3>1. PICK f \in Frames : out[f] = 1 /\ out' = [out EXCEPT ![f] = 0]
      BY <2>3
    <3>2. out' = [out EXCEPT ![f] = out[f] - 1]
      BY <3>1
    <3> QED BY <3>1, <3>2 DEF Source!SNext, Source!RecycleFrame
  <2> QED BY <2>2, <2>3 DEF OutStep
<1> QED BY <1>1, <1>2, AlwaysPoolInv, PTL DEF Spec, RefinesFrameSource, Source!Spec
=============================================================================
