--------------------------- MODULE SubHeapProofs ---------------------------
(***************************************************************************)
(* Proofs about SubHeap, for any number of threads, shards, CPUs, classes  *)
(* and spans and any sizes of spans, words, magazines, slabs and batches.  *)
(***************************************************************************)
EXTENDS SubHeap, FiniteSetTheorems, SequenceTheorems, TLAPS

Allocates(t, c) == <<t, c>> \in Producers \cup SlabUsers

\* The 16 bits of home in the span table are enough: every shard fits (MAX_SHARDS),
\* and cutting a thread id to them does not change its shard, as long as fewer than
\* 2^16 threads have been created or the number of shards is a power of two.
HomesFit ==
  /\ NumShards <= HomeMod
  /\ \A t \in Threads : (ShardId[t] % HomeMod) % NumShards = Shard(t)

\* A class whose spans have one word, so that its hints are used, is allocated on
\* one shard only.
OneShard ==
  \A c \in Classes : Slots[c] <= WordSlots =>
    \A t, u \in Threads : Allocates(t, c) /\ Allocates(u, c) => Shard(t) = Shard(u)

\* Spans are never taken from a class, or a stale hint cannot meet another
\* shard with the same class.
Regime == HomesFit /\ (~Reclaiming \/ OneShard)

-----------------------------------------------------------------------------
(* The inductive invariant *)

Shards  == 0 .. NumShards - 1
Objects == {o \in Classes \X Spans \X Nat : o[3] < Slots[o[1]]}
Holding == {"take", "scan", "clear", "carve", "tile", "done"}
Freeing == {"batch", "one", "flush"}
ThreadPlaces ==
  {"idle", "miss", "push", "drain", "home", "publish", "exited"} \cup Holding \cup Freeing
Places  == ThreadPlaces \cup {"walk", "retire", "file"}
Vias    == {"mag", "slab"} \cup Freeing

Jobs ==
  [at : Places, via : Vias, class : Classes \cup {Unassigned}, out : Seq(Objects),
   start : Nat, again : BOOLEAN, todo : Seq(Spans), word : Nat, taken : SUBSET Nat,
   batch : Seq(Objects), pend : Seq(Objects), shard : Shards, k : Nat]

OfClass(q, c) == \A o \in ToSet(q) : o[1] = c
OneSpan(q) == \A o, r \in ToSet(q) : o[2] = r[2]

Types ==
  /\ mag \in [Threads -> [Classes -> Seq(Objects)]]
  /\ l2 \in [Cpus -> [Classes -> Seq(Objects)]]
  /\ alloc_words \in [Spans -> SUBSET Nat]
  /\ free_words \in [Spans -> SUBSET Nat]
  /\ list \in [Cells -> Seq(Spans)]
  /\ hint \in [Cells -> Spans \cup {NO_SPAN}]
  /\ lock \in [Cells -> Threads \cup {Sweeper, NoThread}]
  /\ class \in [Spans -> Classes \cup {Large, Unassigned}]
  /\ home \in [Spans -> 0 .. HomeMod - 1]
  /\ free \in SUBSET Spans
  /\ cursor \in 0 .. NumSpans
  /\ stopped \in SUBSET Cpus
  /\ live \in SUBSET Objects
  /\ job \in [Threads \cup {Sweeper} -> Jobs]
  /\ sup \in [phase : {"nap", "sweep", "final", "gone"}, cell : 0 .. NumCells - 1,
              stop : BOOLEAN]

WantOf(j) == IF j.via = "mag" THEN MagCap ELSE Batch

\* The locals j of a call of thread t whose magazines are m: what each place of
\* a call has and has not in its hands.
Shape(t, j, m) ==
  /\ j.at \in ThreadPlaces
  /\ \A c \in Classes : Len(m[c]) <= MagCap
  /\ j.at \in Holding \cup {"miss"} =>
       /\ j.class \in Classes /\ Allocates(t, j.class) /\ j.via \in {"mag", "slab"}
       /\ OfClass(j.out, j.class) /\ Len(j.out) <= WantOf(j)
       /\ j.via = "mag" => m[j.class] = <<>>
  /\ j.at = "clear" =>
       /\ j.todo # <<>> /\ IsFiniteSet(j.taken)
       /\ j.taken \subseteq 0 .. Slots[j.class] - 1
       /\ Len(j.out) + Cardinality(j.taken) <= WantOf(j)
  /\ j.at = "push" => j.class \in Classes /\ OfClass(j.out, j.class) /\ j.out # <<>>
  /\ j.at \notin (Holding \cup {"push"}) => j.out = <<>>
  /\ j.at \notin (Freeing \cup {"drain"}) => j.batch = <<>> /\ j.pend = <<>>
  /\ j.at = "drain" => j.via \in Freeing /\ j.batch # <<>>
  /\ j.at = "batch" \/ (j.at = "drain" /\ j.via = "batch") =>
       /\ j.class \in Classes /\ OfClass(j.batch, j.class) /\ OfClass(j.pend, j.class)
       /\ OneSpan(j.pend)
  /\ j.at \in {"one", "flush"} \/ (j.at = "drain" /\ j.via # "batch") =>
       j.pend = <<>> /\ Len(j.batch) <= 1
  /\ j.at \in {"tile", "home", "publish"} => Len(j.todo) = 1 /\ j.class \in Classes

Distinct(q) == \A i, j \in 1 .. Len(q) : q[i] = q[j] => i = j

\* The spans on the lists are those of the size classes, except for one that is
\* being tiled by the holder of its cell's lock.
Tiled(s) == \E t \in Threads : job[t].at = "tile" /\ job[t].todo[1] = s
Lists ==
  /\ \A x \in Cells : Distinct(list[x])
  /\ \A x \in Cells : \A s \in ToSet(list[x]) :
       class[s] = x[2] /\ HomeShard(s) = x[1] /\ ~Tiled(s)
  /\ \A s \in Spans : class[s] \in Classes =>
       /\ s \in ToSet(list[<<HomeShard(s), class[s]>>]) \/ Tiled(s)
       /\ \E t \in Threads : Allocates(t, class[s]) /\ HomeShard(s) = Shard(t)
  /\ \A s \in free : class[s] = Large
  /\ \A s \in Spans : s >= cursor => class[s] = Unassigned

\* A thread in a refill holds its cell's lock and scans spans of that cell.
Refilling(t) ==
  /\ job[t].at \in Holding => lock[Cell(t)] = t
  /\ job[t].at \in {"scan", "clear"} => ToSet(job[t].todo) \subseteq ToSet(list[Cell(t)])
  /\ job[t].at = "clear" => job[t].taken \subseteq alloc_words[job[t].todo[1]]
  /\ job[t].at = "tile" =>
       class[job[t].todo[1]] = job[t].class /\ HomeShard(job[t].todo[1]) = Shard(t)

\* The supervisor holds the lock of the cell it walks, and what it has taken
\* belongs to no class.
SweptCell == <<job[Sweeper].shard, job[Sweeper].class>>
Sweeps ==
  LET j == job[Sweeper] IN
  /\ j.at \in {"idle", "walk", "retire", "file"}
  /\ j.out = <<>> /\ j.batch = <<>> /\ j.pend = <<>>
  /\ j.taken \subseteq {s \in Spans : class[s] = Large} \ free
  /\ j.at = "idle" => j.taken = {}
  /\ j.at \in {"walk", "retire"} =>
       /\ j.class \in Classes /\ lock[SweptCell] = Sweeper
       /\ Distinct(j.todo) /\ ToSet(j.todo) \subseteq ToSet(list[SweptCell])
  /\ j.at = "walk" /\ j.todo # <<>> =>
       j.k <= Cardinality({i \in alloc_words[j.todo[1]] : WordOf(i) < j.word})
  /\ j.at = "retire" =>
       j.todo # <<>> /\ j.k = 0 /\ alloc_words[j.todo[1]] = 0 .. Slots[j.class] - 1

\* Without reclaim a hint is of a span on the list of its cell.
Hints ==
  /\ \A x \in Cells : hint[x] # NO_SPAN => hint[x] \in ToSet(list[x])
  /\ \A t \in Threads :
       /\ job[t].at = "home" => class[job[t].todo[1]] = job[t].class
                                /\ ~Tiled(job[t].todo[1])
       /\ job[t].at = "publish" => job[t].todo[1] \in ToSet(list[<<job[t].shard, job[t].class>>])

Bits ==
  \A s \in Spans : alloc_words[s] \cup free_words[s] \subseteq SlotsOf(s)

\* Object o is in exactly one place: one of kind k, that belongs to thread or
\* CPU a.  There is an object where a span is on a list.
Exists(o) == class[o[2]] = o[1] /\ ~Tiled(o[2])
InWord(w, o) == class[o[2]] = o[1] /\ o[3] \in w[o[2]]
In(o, k, a) ==
  /\ k \in {"mag", "out", "batch", "pend"} => a \in Threads
  /\ k = "l2" => a \in Cpus
  /\ k # "none" <=> Exists(o)
  /\ InWord(alloc_words, o) <=> k = "alloc"
  /\ InWord(free_words, o) <=> k = "free"
  /\ o \in live <=> k = "live"
  /\ \A t \in Threads :
       /\ o \in ToSet(mag[t][o[1]]) <=> k = "mag" /\ a = t
       /\ o \in ToSet(job[t].out) <=> k = "out" /\ a = t
       /\ o \in ToSet(job[t].batch) <=> k = "batch" /\ a = t
       /\ o \in ToSet(job[t].pend) <=> k = "pend" /\ a = t
  /\ \A p \in Cpus : o \in ToSet(l2[p][o[1]]) <=> k = "l2" /\ a = p

Kinds  == {"none", "alloc", "free", "live", "mag", "out", "batch", "pend", "l2"}
Agents == Threads \cup Cpus \cup {NoThread}
Partition == \A o \in Objects : \E k \in Kinds, a \in Agents : In(o, k, a)

Stacks ==
  /\ \A t \in Threads, c \in Classes : Distinct(mag[t][c]) /\ OfClass(mag[t][c], c)
  /\ \A t \in Threads : Distinct(job[t].out) /\ Distinct(job[t].batch) /\ Distinct(job[t].pend)
  /\ \A p \in Cpus, c \in Classes :
       Distinct(l2[p][c]) /\ OfClass(l2[p][c], c) /\ Len(l2[p][c]) <= L2Cap

HeapInv ==
  /\ Types
  /\ \A t \in Threads : Shape(t, job[t], mag[t]) /\ Refilling(t)
  /\ Lists /\ Sweeps /\ (~Reclaiming => Hints)
  /\ Bits /\ Partition /\ Stacks
-----------------------------------------------------------------------------
(* Sequences *)

\* What a sequence holds.
LEMMA InStack ==
  ASSUME NEW S, NEW q \in Seq(S), NEW f
  PROVE  f \in ToSet(q) <=> \E i \in 1 .. Len(q) : q[i] = f
BY DEF ToSet

\* Its elements are of its type.
LEMMA StackType ==
  ASSUME NEW S, NEW q \in Seq(S)
  PROVE  ToSet(q) \subseteq S /\ Len(q) \in Nat /\ (Len(q) = 0 <=> q = <<>>)
         /\ (q # <<>> => Len(q) >= 1 /\ q[1] \in S /\ q[1] \in ToSet(q) /\ Head(q) = q[1])
BY DEF ToSet

\* The empty sequence.
LEMMA EmptyStack == \A S : <<>> \in Seq(S) /\ Len(<<>>) = 0 /\ ToSet(<<>>) = {} /\ Distinct(<<>>)
<1>1. ToSet(<<>>) = {}
  BY DEF ToSet
<1>2. Distinct(<<>>)
  BY DEF Distinct
<1> QED BY <1>1, <1>2

\* A sequence of one element.
LEMMA OneStack ==
  ASSUME NEW S, NEW f \in S
  PROVE  <<f>> \in Seq(S) /\ Len(<<f>>) = 1 /\ ToSet(<<f>>) = {f} /\ Distinct(<<f>>)
         /\ <<f>>[1] = f /\ Head(<<f>>) = f /\ <<f>> # <<>>
<1> DEFINE q == <<f>>
<1>1. q \in Seq(S) /\ Len(q) = 1 /\ q[1] = f /\ Head(q) = f /\ q # <<>>
  OBVIOUS
<1> HIDE DEF q
<1>2. ToSet(q) = {f}
  BY <1>1, InStack
<1>3. Distinct(q)
  BY <1>1 DEF Distinct
<1> QED BY <1>1, <1>2, <1>3 DEF q

\* A push adds the element.
LEMMA PushStack ==
  ASSUME NEW S, NEW q \in Seq(S), NEW f \in S
  PROVE  /\ Append(q, f) \in Seq(S) /\ Len(Append(q, f)) = Len(q) + 1
         /\ ToSet(Append(q, f)) = ToSet(q) \cup {f}
         /\ Distinct(q) /\ f \notin ToSet(q) => Distinct(Append(q, f))
<1> DEFINE p == Append(q, f)
<1>1. /\ p \in Seq(S) /\ Len(p) = Len(q) + 1 /\ Len(q) \in Nat
      /\ \A i \in 1 .. Len(q) : p[i] = q[i]
      /\ p[Len(q) + 1] = f
  OBVIOUS
<1> HIDE DEF p
<1>2. \A g : g \in ToSet(p) <=> g \in ToSet(q) \/ g = f
  <2>1. ASSUME NEW g \in ToSet(p) PROVE g \in ToSet(q) \/ g = f
    BY <1>1, <2>1, InStack
  <2>2. ASSUME NEW g \in ToSet(q) PROVE g \in ToSet(p)
    <3>1. PICK i \in 1 .. Len(q) : q[i] = g
      BY <2>2, InStack
    <3>2. i \in 1 .. Len(p) /\ p[i] = g
      BY <1>1, <3>1
    <3> QED BY <1>1, <3>2, InStack
  <2>3. f \in ToSet(p)
    <3>1. Len(q) + 1 \in 1 .. Len(p)
      BY <1>1
    <3> QED BY <1>1, <3>1, InStack
  <2> QED BY <2>1, <2>2, <2>3
<1>3. ASSUME Distinct(q), f \notin ToSet(q) PROVE Distinct(p)
  <2>1. ASSUME NEW i \in 1 .. Len(p), NEW j \in 1 .. Len(p), p[i] = p[j] PROVE i = j
    <3>1. \A m \in 1 .. Len(q) : q[m] # f
      BY <1>3, InStack
    <3> QED BY <1>1, <1>3, <2>1, <3>1 DEF Distinct
  <2> QED BY <2>1 DEF Distinct
<1> QED BY <1>1, <1>2, <1>3 DEF p

\* A part of a sequence.
LEMMA PartStack ==
  ASSUME NEW S, NEW q \in Seq(S), NEW m \in Nat, NEW n \in Nat,
         1 <= m, m <= n + 1, n <= Len(q)
  PROVE  /\ SubSeq(q, m, n) \in Seq(S) /\ Len(SubSeq(q, m, n)) = n - m + 1
         /\ \A i \in 1 .. n - m + 1 : SubSeq(q, m, n)[i] = q[m + i - 1]
         /\ ToSet(SubSeq(q, m, n)) = {q[i] : i \in m .. n}
         /\ Distinct(q) => Distinct(SubSeq(q, m, n))
<1> DEFINE p == SubSeq(q, m, n)
<1>1. \A i \in m .. n : q[i] \in S
  OBVIOUS
<1>2. /\ p \in Seq(S)
      /\ Len(p) = IF m <= n THEN n - m + 1 ELSE 0
      /\ \A i \in 1 .. n - m + 1 : p[i] = q[m + i - 1]
  BY <1>1, SubSeqProperties
<1>3. Len(p) = n - m + 1
  <2> DEFINE l == Len(p)
  <2>1. l = IF m <= n THEN n - m + 1 ELSE 0
    BY <1>2
  <2> HIDE DEF l
  <2>2. l = n - m + 1
    BY <2>1
  <2> QED BY <2>2 DEF l
<1> HIDE DEF p
<1>4. ToSet(p) = {q[i] : i \in m .. n}
  <2>1. ASSUME NEW g \in ToSet(p) PROVE g \in {q[i] : i \in m .. n}
    <3>1. PICK i \in 1 .. Len(p) : p[i] = g
      BY <1>2, <2>1, InStack
    <3>2. m + i - 1 \in m .. n /\ q[m + i - 1] = g
      BY <1>2, <1>3, <3>1
    <3> QED BY <3>2
  <2>2. ASSUME NEW i \in m .. n PROVE q[i] \in ToSet(p)
    <3>1. i - m + 1 \in 1 .. n - m + 1 /\ m + (i - m + 1) - 1 = i
      OBVIOUS
    <3>2. p[i - m + 1] = q[i]
      BY <1>2, <3>1
    <3> QED BY <1>2, <1>3, <3>1, <3>2, InStack
  <2> QED BY <2>1, <2>2
<1>5. ASSUME Distinct(q) PROVE Distinct(p)
  <2>1. ASSUME NEW i \in 1 .. Len(p), NEW j \in 1 .. Len(p), p[i] = p[j] PROVE i = j
    <3>1. /\ m + i - 1 \in 1 .. Len(q) /\ m + j - 1 \in 1 .. Len(q)
          /\ q[m + i - 1] = q[m + j - 1]
      BY <1>2, <1>3, <2>1
    <3>2. m + i - 1 = m + j - 1
      BY <1>5, <3>1 DEF Distinct
    <3> QED BY <3>2
  <2> QED BY <2>1 DEF Distinct
<1> QED BY <1>2, <1>3, <1>4, <1>5 DEF p

\* A sequence cut in two.
LEMMA CutStack ==
  ASSUME NEW S, NEW q \in Seq(S), NEW n \in Nat, n <= Len(q)
  PROVE  LET a == SubSeq(q, 1, n)
             b == SubSeq(q, n + 1, Len(q))
         IN  /\ a \in Seq(S) /\ b \in Seq(S) /\ Len(a) = n /\ Len(b) = Len(q) - n
             /\ ToSet(q) = ToSet(a) \cup ToSet(b)
             /\ Distinct(q) => Distinct(a) /\ Distinct(b) /\ ToSet(a) \cap ToSet(b) = {}
<1> DEFINE a == SubSeq(q, 1, n)
           b == SubSeq(q, n + 1, Len(q))
<1>0. Len(q) \in Nat
  OBVIOUS
<1>1. /\ a \in Seq(S) /\ Len(a) = n - 1 + 1 /\ ToSet(a) = {q[i] : i \in 1 .. n}
      /\ Distinct(q) => Distinct(a)
  BY PartStack
<1>2. /\ b \in Seq(S) /\ Len(b) = Len(q) - (n + 1) + 1
      /\ ToSet(b) = {q[i] : i \in n + 1 .. Len(q)} /\ (Distinct(q) => Distinct(b))
  BY <1>0, PartStack
<1> HIDE DEF a, b
<1>3. Len(a) = n /\ Len(b) = Len(q) - n
  BY <1>0, <1>1, <1>2
<1>4. \A g : g \in ToSet(q) <=> g \in ToSet(a) \/ g \in ToSet(b)
  <2>1. ASSUME NEW g \in ToSet(q) PROVE g \in ToSet(a) \/ g \in ToSet(b)
    <3>1. PICK i \in 1 .. Len(q) : q[i] = g
      BY <2>1, InStack
    <3>2. i \in 1 .. n \/ i \in n + 1 .. Len(q)
      BY <1>0, <3>1
    <3> QED BY <1>1, <1>2, <3>1, <3>2
  <2>2. ASSUME NEW g, g \in ToSet(a) \/ g \in ToSet(b) PROVE g \in ToSet(q)
    <3>1. PICK i \in 1 .. Len(q) : q[i] = g
      BY <1>0, <1>1, <1>2, <2>2
    <3> QED BY <3>1, InStack
  <2> QED BY <2>1, <2>2
<1>5. ASSUME Distinct(q), NEW g \in ToSet(a), g \in ToSet(b) PROVE FALSE
  <2>1. PICK i \in 1 .. n : q[i] = g
    BY <1>1, <1>5
  <2>2. PICK j \in n + 1 .. Len(q) : q[j] = g
    BY <1>2, <1>5
  <2>3. i \in 1 .. Len(q) /\ j \in 1 .. Len(q) /\ i # j
    BY <1>0
  <2> QED BY <1>5, <2>1, <2>2, <2>3 DEF Distinct
<1> QED BY <1>1, <1>2, <1>3, <1>4, <1>5 DEF a, b

\* A pop takes the element on top, and only that.
LEMMA PopStack ==
  ASSUME NEW S, NEW q \in Seq(S), q # <<>>
  PROVE  /\ Front(q) \in Seq(S) /\ Len(Front(q)) = Len(q) - 1
         /\ Last(q) \in S /\ Last(q) \in ToSet(q)
         /\ ToSet(Front(q)) \subseteq ToSet(q)
         /\ Distinct(q) => /\ ToSet(Front(q)) = ToSet(q) \ {Last(q)}
                           /\ Distinct(Front(q))
<1> DEFINE a == SubSeq(q, 1, Len(q) - 1)
           b == SubSeq(q, Len(q), Len(q))
<1>1. Len(q) \in Nat /\ Len(q) >= 1 /\ Len(q) - 1 \in Nat /\ Len(q) - 1 <= Len(q)
      /\ (Len(q) - 1) + 1 = Len(q)
  BY StackType
<1>2. /\ a \in Seq(S) /\ Len(a) = Len(q) - 1 /\ ToSet(q) = ToSet(a) \cup ToSet(b)
      /\ Distinct(q) => Distinct(a) /\ ToSet(a) \cap ToSet(b) = {}
  BY <1>1, CutStack
<1>3. ToSet(b) = {q[i] : i \in Len(q) .. Len(q)}
  BY <1>1, PartStack
<1>4. ToSet(b) = {q[Len(q)]} /\ q[Len(q)] \in S
  BY <1>1, <1>3
<1>5. a = Front(q) /\ q[Len(q)] = Last(q)
  BY DEF Front, Last
<1> HIDE DEF a, b
<1> QED BY <1>2, <1>4, <1>5

\* The rest of a sequence after its head.
LEMMA TailStack ==
  ASSUME NEW S, NEW q \in Seq(S), q # <<>>
  PROVE  /\ Tail(q) \in Seq(S) /\ Len(Tail(q)) = Len(q) - 1
         /\ Head(q) \in S /\ Head(q) \in ToSet(q) /\ Head(q) = q[1]
         /\ ToSet(q) = ToSet(Tail(q)) \cup {Head(q)}
         /\ Distinct(q) => Head(q) \notin ToSet(Tail(q)) /\ Distinct(Tail(q))
<1> DEFINE a == SubSeq(q, 1, 1)
           b == Tail(q)
<1>1. Len(q) \in Nat /\ Len(q) >= 1 /\ 1 \in Nat /\ 1 <= Len(q) /\ Head(q) = q[1] /\ Head(q) \in S
  BY StackType
<1>2. b = SubSeq(q, 1 + 1, Len(q))
  <2> SUFFICES ASSUME NEW m \in Nat, 2 <= m, m <= 2 PROVE b = SubSeq(q, m, Len(q))
    OBVIOUS
  <2> DEFINE c == SubSeq(q, m, Len(q))
  <2>1. /\ c \in Seq(S) /\ Len(c) = Len(q) - m + 1
        /\ \A i \in 1 .. Len(q) - m + 1 : c[i] = q[m + i - 1]
    BY <1>1, PartStack
  <2>2. b \in Seq(S) /\ Len(b) = Len(q) - 1 /\ \A i \in 1 .. Len(q) - 1 : b[i] = q[i + 1]
    BY <1>1
  <2> HIDE DEF b, c
  <2>3. Len(b) = Len(c) /\ \A i \in 1 .. Len(b) : b[i] = c[i]
    BY <1>1, <2>1, <2>2
  <2>4. b = c
    BY <2>1, <2>2, <2>3, SeqEqual
  <2> QED BY <2>4 DEF c
<1>3. /\ b \in Seq(S) /\ Len(b) = Len(q) - 1 /\ ToSet(q) = ToSet(a) \cup ToSet(b)
      /\ Distinct(q) => Distinct(b) /\ ToSet(a) \cap ToSet(b) = {}
  <2> DEFINE c == SubSeq(q, 1 + 1, Len(q))
  <2>1. /\ a \in Seq(S) /\ c \in Seq(S) /\ Len(a) = 1 /\ Len(c) = Len(q) - 1
        /\ ToSet(q) = ToSet(a) \cup ToSet(c)
        /\ Distinct(q) => Distinct(a) /\ Distinct(c) /\ ToSet(a) \cap ToSet(c) = {}
    BY <1>1, CutStack
  <2>2. b = c
    BY <1>2
  <2> HIDE DEF a, b, c
  <2> QED BY <2>1, <2>2
<1>4. ToSet(a) = {q[i] : i \in 1 .. 1}
  BY <1>1, PartStack
<1>5. ToSet(a) = {Head(q)}
  BY <1>1, <1>4
<1> HIDE DEF a, b
<1> QED BY <1>1, <1>3, <1>5 DEF b

\* One sequence after another.
LEMMA JoinStack ==
  ASSUME NEW S, NEW p \in Seq(S), NEW q \in Seq(S)
  PROVE  /\ p \o q \in Seq(S) /\ Len(p \o q) = Len(p) + Len(q)
         /\ ToSet(p \o q) = ToSet(p) \cup ToSet(q)
         /\ Distinct(p) /\ Distinct(q) /\ ToSet(p) \cap ToSet(q) = {} => Distinct(p \o q)
<1> DEFINE r == p \o q
<1>1. /\ r \in Seq(S) /\ Len(r) = Len(p) + Len(q) /\ Len(p) \in Nat /\ Len(q) \in Nat
      /\ \A i \in 1 .. Len(p) + Len(q) : r[i] = IF i <= Len(p) THEN p[i] ELSE q[i - Len(p)]
  BY ConcatProperties
<1> HIDE DEF r
<1>2. ToSet(r) = ToSet(p) \cup ToSet(q)
  <2>1. ASSUME NEW g \in ToSet(r) PROVE g \in ToSet(p) \/ g \in ToSet(q)
    <3>1. PICK i \in 1 .. Len(r) : r[i] = g
      BY <1>1, <2>1, InStack
    <3>2. CASE i <= Len(p)
      <4>1. i \in 1 .. Len(p) /\ p[i] = g
        BY <1>1, <3>1, <3>2
      <4> QED BY <4>1, InStack
    <3>3. CASE ~(i <= Len(p))
      <4>1. i - Len(p) \in 1 .. Len(q) /\ q[i - Len(p)] = g
        BY <1>1, <3>1, <3>3
      <4> QED BY <4>1, InStack
    <3> QED BY <3>2, <3>3
  <2>2. ASSUME NEW g \in ToSet(p) PROVE g \in ToSet(r)
    <3>1. PICK i \in 1 .. Len(p) : p[i] = g
      BY <2>2, InStack
    <3>2. i \in 1 .. Len(r) /\ r[i] = g
      BY <1>1, <3>1
    <3> QED BY <1>1, <3>2, InStack
  <2>3. ASSUME NEW g \in ToSet(q) PROVE g \in ToSet(r)
    <3>1. PICK i \in 1 .. Len(q) : q[i] = g
      BY <2>3, InStack
    <3>2. i + Len(p) \in 1 .. Len(r) /\ ~(i + Len(p) <= Len(p)) /\ (i + Len(p)) - Len(p) = i
      BY <1>1, <3>1
    <3>3. r[i + Len(p)] = g
      BY <1>1, <3>1, <3>2
    <3> QED BY <1>1, <3>2, <3>3, InStack
  <2> QED BY <2>1, <2>2, <2>3
<1>3. ASSUME Distinct(p), Distinct(q), ToSet(p) \cap ToSet(q) = {} PROVE Distinct(r)
  <2>0. \A i \in 1 .. Len(p), j \in 1 .. Len(q) : p[i] # q[j]
    BY <1>3, InStack
  <2>1. ASSUME NEW i \in 1 .. Len(r), NEW j \in 1 .. Len(r), r[i] = r[j] PROVE i = j
    <3>1. CASE i <= Len(p) /\ j <= Len(p)
      <4>1. i \in 1 .. Len(p) /\ j \in 1 .. Len(p) /\ p[i] = p[j]
        BY <1>1, <2>1, <3>1
      <4> QED BY <1>3, <4>1 DEF Distinct
    <3>2. CASE ~(i <= Len(p)) /\ ~(j <= Len(p))
      <4>1. i - Len(p) \in 1 .. Len(q) /\ j - Len(p) \in 1 .. Len(q)
            /\ q[i - Len(p)] = q[j - Len(p)]
        BY <1>1, <2>1, <3>2
      <4>2. i - Len(p) = j - Len(p)
        BY <1>3, <4>1 DEF Distinct
      <4> QED BY <1>1, <4>2
    <3>3. CASE i <= Len(p) /\ ~(j <= Len(p))
      <4>1. i \in 1 .. Len(p) /\ j - Len(p) \in 1 .. Len(q) /\ p[i] = q[j - Len(p)]
        BY <1>1, <2>1, <3>3
      <4> QED BY <2>0, <4>1
    <3>4. CASE ~(i <= Len(p)) /\ j <= Len(p)
      <4>1. j \in 1 .. Len(p) /\ i - Len(p) \in 1 .. Len(q) /\ p[j] = q[i - Len(p)]
        BY <1>1, <2>1, <3>4
      <4> QED BY <2>0, <4>1
    <3> QED BY <3>1, <3>2, <3>3, <3>4
  <2> QED BY <2>1 DEF Distinct
<1> QED BY <1>1, <1>2, <1>3 DEF r

\* A sequence backwards.
LEMMA ReverseStack ==
  ASSUME NEW S, NEW q \in Seq(S)
  PROVE  /\ Reverse(q) \in Seq(S) /\ Len(Reverse(q)) = Len(q) /\ ToSet(Reverse(q)) = ToSet(q)
         /\ Distinct(q) => Distinct(Reverse(q))
<1> DEFINE r == Reverse(q)
           n == Len(q)
<1>0. n \in Nat /\ \A i \in 1 .. n : n - i + 1 \in 1 .. n /\ n - (n - i + 1) + 1 = i
  OBVIOUS
<1>1. r \in Seq(S) /\ Len(r) = n /\ \A i \in 1 .. n : r[i] = q[n - i + 1]
  BY <1>0 DEF Reverse
<1> HIDE DEF r
<1>2. ToSet(r) = ToSet(q)
  <2>1. ASSUME NEW g \in ToSet(r) PROVE g \in ToSet(q)
    <3>1. PICK i \in 1 .. n : r[i] = g
      BY <1>1, <2>1, InStack
    <3> QED BY <1>0, <1>1, <3>1, InStack
  <2>2. ASSUME NEW g \in ToSet(q) PROVE g \in ToSet(r)
    <3>1. PICK i \in 1 .. n : q[i] = g
      BY <2>2, InStack
    <3>2. n - i + 1 \in 1 .. n /\ r[n - i + 1] = q[n - (n - i + 1) + 1]
      BY <1>0, <1>1
    <3>3. r[n - i + 1] = g
      BY <1>0, <3>1, <3>2
    <3> QED BY <1>1, <3>2, <3>3, InStack
  <2> QED BY <2>1, <2>2
<1>3. ASSUME Distinct(q) PROVE Distinct(r)
  <2>1. ASSUME NEW i \in 1 .. n, NEW j \in 1 .. n, r[i] = r[j] PROVE i = j
    <3>1. n - i + 1 = n - j + 1
      BY <1>0, <1>1, <1>3, <2>1 DEF Distinct
    <3> QED BY <1>0, <3>1
  <2> QED BY <1>1, <2>1 DEF Distinct
<1> QED BY <1>1, <1>2, <1>3 DEF r, n

\* A list without one of its spans.
LEMMA RemoveStack ==
  ASSUME NEW S, NEW q \in Seq(S), Distinct(q), NEW f
  PROVE  /\ RemoveFirst(q, f) \in Seq(S) /\ Distinct(RemoveFirst(q, f))
         /\ ToSet(RemoveFirst(q, f)) = ToSet(q) \ {f}
<1>1. CASE \A i \in 1 .. Len(q) : q[i] # f
  <2>1. RemoveFirst(q, f) = q
    BY <1>1 DEF RemoveFirst
  <2>2. f \notin ToSet(q)
    BY <1>1, InStack
  <2> QED BY <2>1, <2>2
<1>2. CASE \E i \in 1 .. Len(q) : q[i] = f
  <2>1. PICK i \in 1 .. Len(q) : q[i] = f
    BY <1>2
  <2>2. {k \in 1 .. Len(q) : q[k] = f} = {i}
    BY <2>1 DEF Distinct
  <2>3. Min({i}) = i
    BY DEF Min
  <2>4. SelectInSeq(q, LAMBDA v : v = f) = i
    BY <2>2, <2>3 DEF SelectInSeq
  <2>5. RemoveFirst(q, f) = SubSeq(q, 1, i - 1) \o SubSeq(q, i + 1, Len(q))
    BY <2>1, <2>4 DEF RemoveFirst, RemoveAt
  <2> DEFINE a == SubSeq(q, 1, i - 1)
             b == SubSeq(q, i + 1, Len(q))
  <2>6. Len(q) \in Nat /\ i \in Nat /\ i - 1 \in Nat /\ i <= Len(q) /\ 1 <= i
    OBVIOUS
  <2>7. a \in Seq(S) /\ ToSet(a) = {q[k] : k \in 1 .. i - 1} /\ Distinct(a)
    BY <2>6, PartStack
  <2>8. b \in Seq(S) /\ ToSet(b) = {q[k] : k \in i + 1 .. Len(q)} /\ Distinct(b)
    BY <2>6, PartStack
  <2> HIDE DEF a, b
  <2>9. ToSet(a) \cap ToSet(b) = {}
    <3> SUFFICES ASSUME NEW g \in ToSet(a), g \in ToSet(b) PROVE FALSE
      OBVIOUS
    <3>1. PICK k \in 1 .. i - 1 : q[k] = g
      BY <2>7
    <3>2. PICK l \in i + 1 .. Len(q) : q[l] = g
      BY <2>8
    <3>3. k \in 1 .. Len(q) /\ l \in 1 .. Len(q) /\ k # l
      BY <2>6
    <3> QED BY <3>1, <3>2, <3>3 DEF Distinct
  <2>10. ToSet(a) \cup ToSet(b) = ToSet(q) \ {f}
    <3>1. ASSUME NEW g \in ToSet(a) \cup ToSet(b) PROVE g \in ToSet(q) /\ g # f
      <4>1. PICK k \in 1 .. Len(q) : k # i /\ q[k] = g
        BY <2>6, <2>7, <2>8
      <4> QED BY <2>1, <4>1, InStack DEF Distinct
    <3>2. ASSUME NEW g \in ToSet(q), g # f PROVE g \in ToSet(a) \cup ToSet(b)
      <4>1. PICK k \in 1 .. Len(q) : q[k] = g
        BY InStack
      <4>2. k \in 1 .. i - 1 \/ k \in i + 1 .. Len(q)
        BY <2>1, <2>6, <3>2, <4>1
      <4> QED BY <2>7, <2>8, <4>1, <4>2
    <3> QED BY <3>1, <3>2
  <2>11. RemoveFirst(q, f) = a \o b
    BY <2>5 DEF a, b
  <2>12. a \o b \in Seq(S) /\ ToSet(a \o b) = ToSet(a) \cup ToSet(b) /\ Distinct(a \o b)
    <3>1. a \in Seq(S) /\ b \in Seq(S) /\ Distinct(a) /\ Distinct(b) /\ ToSet(a) \cap ToSet(b) = {}
      BY <2>7, <2>8, <2>9
    <3> QED BY <3>1, JoinStack
  <2> QED BY <2>10, <2>11, <2>12
<1> QED BY <1>1, <1>2

-----------------------------------------------------------------------------
(* Slots in ascending order *)

\* The number of lower elements ranks the elements of a set.
LEMMA Ranks ==
  ASSUME NEW T \in SUBSET Nat, IsFiniteSet(T)
  PROVE  /\ Cardinality(T) \in Nat
         /\ \A i \in T : Below(T, i) \in Nat /\ Below(T, i) < Cardinality(T)
         /\ \A i, j \in T : i < j => Below(T, i) < Below(T, j)
         /\ \A i, j \in T : Below(T, i) = Below(T, j) => i = j
<1> DEFINE B(i) == {k \in T : k < i}
<1>1. ASSUME NEW i \in T PROVE IsFiniteSet(B(i)) /\ Cardinality(B(i)) \in Nat
                               /\ Below(T, i) = Cardinality(B(i))
  BY FS_Subset, FS_CardinalityType DEF Below
<1>2. Cardinality(T) \in Nat
  BY FS_CardinalityType
<1>3. ASSUME NEW i \in T PROVE Below(T, i) < Cardinality(T)
  <2>1. B(i) \in SUBSET T /\ B(i) # T
    OBVIOUS
  <2>2. Cardinality(B(i)) <= Cardinality(T) /\ Cardinality(B(i)) # Cardinality(T)
    BY <2>1, FS_Subset
  <2> HIDE DEF B
  <2> QED BY <1>1, <1>2, <2>2
<1>4. ASSUME NEW i \in T, NEW j \in T, i < j PROVE Below(T, i) < Below(T, j)
  <2>0. ASSUME NEW k \in T, k < i PROVE k < j
    <3>1. k \in Nat /\ i \in Nat /\ j \in Nat
      OBVIOUS
    <3> QED BY <1>4, <2>0, <3>1
  <2>1. B(i) \in SUBSET B(j)
    BY <2>0
  <2>2. i \in Nat /\ i \in B(j) /\ i \notin B(i)
    <3>1. i \in Nat
      OBVIOUS
    <3> QED BY <1>4, <3>1
  <2>3. IsFiniteSet(B(j)) /\ Cardinality(B(i)) \in Nat /\ Cardinality(B(j)) \in Nat
    BY <1>1
  <2>4. Cardinality(B(i)) <= Cardinality(B(j)) /\ Cardinality(B(i)) # Cardinality(B(j))
    <3> HIDE DEF B
    <3> QED BY <2>1, <2>2, <2>3, FS_Subset
  <2> HIDE DEF B
  <2> QED BY <1>1, <2>3, <2>4
<1>5. ASSUME NEW i \in T, NEW j \in T, Below(T, i) = Below(T, j) PROVE i = j
  <2>1. Below(T, i) \in Nat /\ i \in Nat /\ j \in Nat
    BY <1>1
  <2> QED BY <1>4, <1>5, <2>1
<1> HIDE DEF B
<1> QED BY <1>1, <1>2, <1>3, <1>4, <1>5

\* Nth counts the elements of a set through.
LEMMA NthCounts ==
  ASSUME NEW T \in SUBSET Nat, IsFiniteSet(T)
  PROVE  /\ \A n \in 1 .. Cardinality(T) : Nth(T, n) \in T /\ Below(T, Nth(T, n)) = n - 1
         /\ \A i \in T : \E n \in 1 .. Cardinality(T) : Nth(T, n) = i
<1> DEFINE N == Cardinality(T)
           f == [i \in T |-> Below(T, i) + 1]
<1>0. /\ N \in Nat /\ \A i \in T : Below(T, i) \in Nat /\ Below(T, i) < N
      /\ \A i, j \in T : Below(T, i) = Below(T, j) => i = j
  BY Ranks
<1>1. f \in [T -> 1 .. N] /\ \A i \in T : f[i] = Below(T, i) + 1
  BY <1>0
<1>2. \A i, j \in T : f[i] = f[j] => i = j
  BY <1>0
<1> HIDE DEF f
<1>3. f \in Injection(T, 1 .. N)
  BY <1>1, <1>2 DEF Injection, IsInjective
<1>4. IsFiniteSet(1 .. N) /\ Cardinality(1 .. N) = N
  BY <1>0, FS_Interval
<1>5. f \in Surjection(T, 1 .. N)
  BY <1>3, <1>4, FS_Injection
<1>6. \A n \in 1 .. N : \E i \in T : f[i] = n
  BY <1>5 DEF Surjection
<1>7. ASSUME NEW n \in 1 .. N PROVE Nth(T, n) \in T /\ Below(T, Nth(T, n)) = n - 1
  <2>1. PICK i \in T : f[i] = n
    BY <1>6
  <2>2. Below(T, i) = n - 1
    BY <1>0, <1>1, <2>1
  <2> QED BY <2>2 DEF Nth
<1>8. ASSUME NEW i \in T PROVE \E n \in 1 .. N : Nth(T, n) = i
  <2>1. Below(T, i) + 1 \in 1 .. N /\ (Below(T, i) + 1) - 1 = Below(T, i)
    BY <1>0
  <2>2. Nth(T, Below(T, i) + 1) \in T /\ Below(T, Nth(T, Below(T, i) + 1)) = Below(T, i)
    BY <1>7, <2>1
  <2> QED BY <1>0, <2>1, <2>2
<1> QED BY <1>7, <1>8

\* Lowest takes at most so many.
LEMMA LowestFew ==
  ASSUME NEW T \in SUBSET Nat, IsFiniteSet(T), NEW n \in Nat
  PROVE  /\ Lowest(T, n) \subseteq T /\ IsFiniteSet(Lowest(T, n))
         /\ Cardinality(Lowest(T, n)) \in Nat /\ Cardinality(Lowest(T, n)) <= n
<1> DEFINE L == Lowest(T, n)
           f == [i \in L |-> Below(T, i) + 1]
<1>0. /\ \A i \in T : Below(T, i) \in Nat
      /\ \A i, j \in T : Below(T, i) = Below(T, j) => i = j
  BY Ranks
<1>1. L \subseteq T /\ \A i \in L : Below(T, i) < n
  BY DEF Lowest
<1>2. IsFiniteSet(L) /\ Cardinality(L) \in Nat
  BY <1>1, FS_Subset, FS_CardinalityType
<1> HIDE DEF L
<1>3. f \in [L -> 1 .. n] /\ \A i \in L : f[i] = Below(T, i) + 1
  BY <1>0, <1>1
<1>4. \A i, j \in L : f[i] = f[j] => i = j
  BY <1>0, <1>1
<1> HIDE DEF f
<1>5. f \in Injection(L, 1 .. n)
  BY <1>3, <1>4 DEF Injection, IsInjective
<1>6. IsFiniteSet(1 .. n) /\ Cardinality(1 .. n) = n
  BY FS_Interval
<1>7. Cardinality(L) <= n
  BY <1>5, <1>6, FS_Injection
<1> QED BY <1>1, <1>2, <1>7 DEF L

\* The facts about constants that the steps need.
LEMMA Constants ==
  /\ Sweeper \notin Threads /\ NoThread \notin Threads /\ NoThread # Sweeper
  /\ NumShards \in Nat /\ NumShards > 0 /\ HomeMod \in Nat /\ HomeMod > 0
  /\ Large \notin Classes /\ Unassigned \notin Classes /\ Large # Unassigned
  /\ \A c \in Classes : Slots[c] \in Nat /\ Slots[c] > 0
  /\ WordSlots \in Nat /\ WordSlots > 0 /\ MagCap \in Nat /\ MagCap > 0
  /\ Batch \in Nat /\ Batch > 0 /\ L2Cap \in Nat /\ NumSpans \in Nat
  /\ Spans \subseteq Nat /\ NO_SPAN \notin Spans
BY SubHeapAssumption DEF Spans, NO_SPAN, Large, Unassigned

\* What an object is.
LEMMA ObjectParts ==
  ASSUME NEW o \in Objects
  PROVE  /\ o = <<o[1], o[2], o[3]>> /\ o[1] \in Classes /\ o[2] \in Spans
         /\ o[3] \in 0 .. Slots[o[1]] - 1 /\ o[3] \in Nat
BY Constants DEF Objects

\* A slot of a class in a span is an object.
LEMMA MakeObject ==
  ASSUME NEW c \in Classes, NEW s \in Spans, NEW i \in 0 .. Slots[c] - 1
  PROVE  <<c, s, i>> \in Objects
BY Constants DEF Objects

\* The objects of the slots a scan takes, in ascending order.
LEMMA TakenObjects ==
  ASSUME NEW c \in Classes, NEW s \in Spans, NEW T \in SUBSET (0 .. Slots[c] - 1), IsFiniteSet(T)
  PROVE  LET q == [i \in 1 .. Cardinality(T) |-> <<c, s, Nth(T, i)>>]
         IN  /\ q \in Seq(Objects) /\ Len(q) = Cardinality(T) /\ Distinct(q)
             /\ ToSet(q) = {<<c, s, i>> : i \in T}
<1> DEFINE N == Cardinality(T)
           q == [i \in 1 .. N |-> <<c, s, Nth(T, i)>>]
<1>0. T \in SUBSET Nat
  BY Constants
<1>1. N \in Nat
  BY FS_CardinalityType
<1>2. /\ \A n \in 1 .. N : Nth(T, n) \in T /\ Below(T, Nth(T, n)) = n - 1
      /\ \A i \in T : \E n \in 1 .. N : Nth(T, n) = i
  BY <1>0, NthCounts
<1>3. \A n \in 1 .. N : <<c, s, Nth(T, n)>> \in Objects
  BY <1>2, MakeObject
<1>4. q \in Seq(Objects) /\ Len(q) = N /\ \A n \in 1 .. N : q[n] = <<c, s, Nth(T, n)>>
  BY <1>1, <1>3
<1> HIDE DEF q, N
<1>5. Distinct(q)
  <2>1. ASSUME NEW i \in 1 .. N, NEW j \in 1 .. N, q[i] = q[j] PROVE i = j
    <3>1. Nth(T, i) = Nth(T, j)
      BY <1>4, <2>1
    <3>2. i - 1 = j - 1
      BY <1>2, <3>1
    <3> QED BY <1>1, <3>2
  <2> QED BY <1>4, <2>1 DEF Distinct
<1>6. ToSet(q) = {<<c, s, i>> : i \in T}
  <2>1. ASSUME NEW g \in ToSet(q) PROVE g \in {<<c, s, i>> : i \in T}
    <3>1. PICK n \in 1 .. N : q[n] = g
      BY <1>4, <2>1, InStack
    <3> QED BY <1>2, <1>4, <3>1
  <2>2. ASSUME NEW i \in T PROVE <<c, s, i>> \in ToSet(q)
    <3>1. PICK n \in 1 .. N : Nth(T, n) = i
      BY <1>2
    <3>2. q[n] = <<c, s, i>>
      BY <1>4, <3>1
    <3> QED BY <1>4, <3>2, InStack
  <2> QED BY <2>1, <2>2
<1> QED BY <1>4, <1>5, <1>6 DEF q, N

-----------------------------------------------------------------------------
(* Where objects are *)

\* Nothing changes for object o.
Same(o) ==
  /\ Exists(o)' <=> Exists(o)
  /\ InWord(alloc_words, o)' <=> InWord(alloc_words, o)
  /\ InWord(free_words, o)' <=> InWord(free_words, o)
  /\ o \in live' <=> o \in live
  /\ \A t \in Threads :
       /\ o \in ToSet(mag'[t][o[1]]) <=> o \in ToSet(mag[t][o[1]])
       /\ o \in ToSet(job'[t].out) <=> o \in ToSet(job[t].out)
       /\ o \in ToSet(job'[t].batch) <=> o \in ToSet(job[t].batch)
       /\ o \in ToSet(job'[t].pend) <=> o \in ToSet(job[t].pend)
  /\ \A p \in Cpus : o \in ToSet(l2'[p][o[1]]) <=> o \in ToSet(l2[p][o[1]])

\* A step that moves some objects and leaves the others.
LEMMA MoveObjects ==
  ASSUME Partition,
         \A o \in Objects : Same(o) \/ \E k \in Kinds, a \in Agents : In(o, k, a)'
  PROVE  Partition'
<1> SUFFICES ASSUME NEW o \in Objects PROVE \E k \in Kinds, a \in Agents : In(o, k, a)'
  BY DEF Partition
<1>1. CASE Same(o)
  <2>1. PICK k \in Kinds, a \in Agents : In(o, k, a)
    BY DEF Partition
  <2>2. In(o, k, a)'
    BY <1>1, <2>1 DEF Same, In
  <2> QED BY <2>2
<1> QED BY <1>1

\* An object that is seen somewhere is nowhere else.
LEMMA IsIn ==
  ASSUME Partition, NEW o \in Objects
  PROVE  /\ InWord(alloc_words, o) => In(o, "alloc", NoThread)
         /\ InWord(free_words, o) => In(o, "free", NoThread)
         /\ o \in live => In(o, "live", NoThread)
         /\ ~Exists(o) => In(o, "none", NoThread)
         /\ \A t \in Threads :
              /\ o \in ToSet(mag[t][o[1]]) => In(o, "mag", t)
              /\ o \in ToSet(job[t].out) => In(o, "out", t)
              /\ o \in ToSet(job[t].batch) => In(o, "batch", t)
              /\ o \in ToSet(job[t].pend) => In(o, "pend", t)
         /\ \A p \in Cpus : o \in ToSet(l2[p][o[1]]) => In(o, "l2", p)
<1>1. PICK k \in Kinds, a \in Agents : In(o, k, a)
  BY DEF Partition
<1>2. ASSUME NEW b PROVE
         /\ k = "alloc" => In(o, "alloc", b)
         /\ k = "free" => In(o, "free", b)
         /\ k = "live" => In(o, "live", b)
         /\ k = "none" => In(o, "none", b)
  BY <1>1 DEF In
<1>3. /\ InWord(alloc_words, o) <=> k = "alloc"
      /\ InWord(free_words, o) <=> k = "free"
      /\ o \in live <=> k = "live"
      /\ k # "none" <=> Exists(o)
  BY <1>1 DEF In
<1>4. ASSUME NEW t \in Threads
      PROVE  /\ o \in ToSet(mag[t][o[1]]) => In(o, "mag", t)
             /\ o \in ToSet(job[t].out) => In(o, "out", t)
             /\ o \in ToSet(job[t].batch) => In(o, "batch", t)
             /\ o \in ToSet(job[t].pend) => In(o, "pend", t)
  <2>1. /\ o \in ToSet(mag[t][o[1]]) => k = "mag" /\ a = t
        /\ o \in ToSet(job[t].out) => k = "out" /\ a = t
        /\ o \in ToSet(job[t].batch) => k = "batch" /\ a = t
        /\ o \in ToSet(job[t].pend) => k = "pend" /\ a = t
    BY <1>1 DEF In
  <2> QED BY <1>1, <2>1
<1>5. ASSUME NEW p \in Cpus PROVE o \in ToSet(l2[p][o[1]]) => In(o, "l2", p)
  <2>1. o \in ToSet(l2[p][o[1]]) => k = "l2" /\ a = p
    BY <1>1 DEF In
  <2> QED BY <1>1, <2>1
<1> QED BY <1>2, <1>3, <1>4, <1>5

\* An object that is somewhere has the class of its span, which is on a list.
LEMMA Pinned ==
  ASSUME NEW o \in Objects, NEW k, NEW a, In(o, k, a), k # "none"
  PROVE  class[o[2]] = o[1] /\ ~Tiled(o[2])
BY DEF In, Exists

\* The parts of the invariant.
LEMMA OfHeap ==
  ASSUME HeapInv
  PROVE  /\ Types /\ Lists /\ Sweeps /\ Bits /\ Partition /\ Stacks
         /\ ~Reclaiming => Hints
         /\ \A t \in Threads : Shape(t, job[t], mag[t]) /\ Refilling(t)
BY DEF HeapInv

\* The invariant for one thread.
LEMMA OfThread ==
  ASSUME HeapInv, NEW t \in Threads
  PROVE  /\ job[t] \in Jobs /\ mag[t] \in [Classes -> Seq(Objects)]
         /\ Shape(t, job[t], mag[t])
         /\ \A c \in Classes : mag[t][c] \in Seq(Objects) /\ Distinct(mag[t][c])
                               /\ OfClass(mag[t][c], c) /\ Len(mag[t][c]) <= MagCap
         /\ Distinct(job[t].out) /\ Distinct(job[t].batch) /\ Distinct(job[t].pend)
<1>1. job[t] \in Jobs /\ mag[t] \in [Classes -> Seq(Objects)]
  BY DEF HeapInv, Types
<1>2. Shape(t, job[t], mag[t])
  BY DEF HeapInv
<1>3. \A c \in Classes : Len(mag[t][c]) <= MagCap
  BY <1>2 DEF Shape
<1> QED BY <1>1, <1>2, <1>3 DEF HeapInv, Stacks

\* The fields of a call.
LEMMA OfJob ==
  ASSUME NEW j \in Jobs
  PROVE  /\ j.at \in Places /\ j.via \in Vias /\ j.class \in Classes \cup {Unassigned}
         /\ j.out \in Seq(Objects) /\ j.start \in Nat /\ j.again \in BOOLEAN
         /\ j.todo \in Seq(Spans) /\ j.word \in Nat /\ j.taken \in SUBSET Nat
         /\ j.batch \in Seq(Objects) /\ j.pend \in Seq(Objects) /\ j.shard \in Shards
         /\ j.k \in Nat
BY DEF Jobs

\* The job of one thread changes.
LEMMA JobStep ==
  ASSUME Types, NEW t \in Threads \cup {Sweeper}, NEW x \in Jobs, job' = [job EXCEPT ![t] = x]
  PROVE  /\ job' \in [Threads \cup {Sweeper} -> Jobs] /\ job'[t] = x
         /\ \A u \in Threads \cup {Sweeper} : u # t => job'[u] = job[u]
         /\ t \in Threads => job'[Sweeper] = job[Sweeper]
BY Constants DEF Types

\* The call that a thread is not in.
LEMMA IdleJob ==
  /\ Idle \in Jobs /\ Idle.at = "idle" /\ Idle.via = "mag" /\ Idle.class = Unassigned
  /\ Idle.out = <<>> /\ Idle.batch = <<>> /\ Idle.pend = <<>> /\ Idle.todo = <<>>
  /\ Idle.taken = {} /\ Idle.k = 0 /\ Idle.word = 0 /\ Idle.shard = 0
<1>1. 0 \in Shards /\ <<>> \in Seq(Objects) /\ <<>> \in Seq(Spans)
  BY Constants DEF Shards
<1>2. Idle \in Jobs
  BY <1>1 DEF Idle, Jobs, Places, ThreadPlaces, Vias
<1> QED BY <1>2 DEF Idle

-----------------------------------------------------------------------------
(* Steps that leave lists and locks alone *)

\* The spans being tiled do not change with the other fields of a call.
LEMMA TiledSame ==
  ASSUME Types, NEW t \in Threads, NEW x \in Jobs, job' = [job EXCEPT ![t] = x],
         job[t].at # "tile", x.at # "tile"
  PROVE  \A s : Tiled(s)' <=> Tiled(s)
<1>1. job'[t] = x /\ \A u \in Threads : u # t => job'[u] = job[u]
  BY JobStep
<1> QED BY <1>1 DEF Tiled

\* Lists depends on what is tiled and on the span table.
LEMMA ListsSame ==
  ASSUME Lists, \A s : Tiled(s)' <=> Tiled(s), UNCHANGED <<list, class, home, free, cursor>>
  PROVE  Lists'
BY DEF Lists, HomeShard

\* A thread that does nothing to locks and lists keeps its place among them.
LEMMA RefillingSame ==
  ASSUME NEW u \in Threads, Refilling(u), job'[u] = job[u],
         UNCHANGED <<list, lock, class, home>>,
         job[u].at = "clear" => alloc_words'[job[u].todo[1]] = alloc_words[job[u].todo[1]]
  PROVE  Refilling(u)'
BY DEF Refilling, Cell, HomeShard

\* The supervisor's walk is untouched by what leaves its job, lists and spans alone.
LEMMA SweepsSame ==
  ASSUME Sweeps, job'[Sweeper] = job[Sweeper], UNCHANGED <<list, lock, class, free>>,
         job[Sweeper].at \in {"walk", "retire"} /\ job[Sweeper].todo # <<>> =>
           alloc_words'[job[Sweeper].todo[1]] = alloc_words[job[Sweeper].todo[1]]
  PROVE  Sweeps'
<1> DEFINE j == job[Sweeper]
<1>1. SweptCell' = SweptCell /\ job'[Sweeper] = j
  BY DEF SweptCell
<1>2. /\ j.at \in {"idle", "walk", "retire", "file"}
      /\ j.out = <<>> /\ j.batch = <<>> /\ j.pend = <<>>
      /\ j.taken \subseteq {s \in Spans : class[s] = Large} \ free
      /\ j.at = "idle" => j.taken = {}
      /\ j.at \in {"walk", "retire"} =>
           /\ j.class \in Classes /\ lock[SweptCell] = Sweeper
           /\ Distinct(j.todo) /\ ToSet(j.todo) \subseteq ToSet(list[SweptCell])
      /\ j.at = "walk" /\ j.todo # <<>> =>
           j.k <= Cardinality({i \in alloc_words[j.todo[1]] : WordOf(i) < j.word})
      /\ j.at = "retire" =>
           j.todo # <<>> /\ j.k = 0 /\ alloc_words[j.todo[1]] = 0 .. Slots[j.class] - 1
  BY DEF Sweeps
<1> HIDE DEF j
<1>3. CASE j.at \in {"walk", "retire"} /\ j.todo # <<>>
  <2>1. alloc_words'[j.todo[1]] = alloc_words[j.todo[1]]
    BY <1>3 DEF j
  <2> QED BY <1>1, <1>2, <2>1 DEF Sweeps
<1>4. CASE ~(j.at \in {"walk", "retire"} /\ j.todo # <<>>)
  BY <1>1, <1>2, <1>4 DEF Sweeps
<1> QED BY <1>3, <1>4

\* A call that ends outside of any refill.
LEMMA SpansCalm ==
  ASSUME HeapInv, NEW t \in Threads, NEW x \in Jobs, job' = [job EXCEPT ![t] = x],
         job[t].at # "tile", x.at \notin Holding,
         UNCHANGED <<alloc_words, list, lock, class, home, free, cursor>>
  PROVE  /\ \A u \in Threads : Refilling(u)'
         /\ Lists' /\ Sweeps'
         /\ \A s : Tiled(s)' <=> Tiled(s)
<1>1. /\ job'[t] = x /\ job'[Sweeper] = job[Sweeper]
      /\ \A u \in Threads : u # t => job'[u] = job[u]
  BY JobStep, OfHeap
<1>2. x.at # "tile" /\ x.at \notin {"scan", "clear"}
  BY DEF Holding
<1>3. \A s : Tiled(s)' <=> Tiled(s)
  BY <1>2, TiledSame, OfHeap
<1>4. ASSUME NEW u \in Threads PROVE Refilling(u)'
  <2>1. CASE u = t
    BY <1>1, <1>2, <2>1 DEF Refilling
  <2>2. CASE u # t
    BY <1>1, <2>2, RefillingSame, OfHeap
  <2> QED BY <2>1, <2>2
<1>5. Lists'
  BY <1>3, ListsSame, OfHeap
<1>6. Sweeps'
  BY <1>1, SweepsSame, OfHeap
<1> QED BY <1>3, <1>4, <1>5, <1>6

\* Hints stay right while lists grow and listed spans keep their class.
LEMMA HintsStep ==
  ASSUME HeapInv, Hints, NEW t \in Threads, NEW x \in Jobs, job' = [job EXCEPT ![t] = x],
         \A y \in Cells : ToSet(list[y]) \subseteq ToSet(list'[y]),
         \A s \in Spans : class[s] \in Classes /\ ~Tiled(s) => class'[s] = class[s] /\ ~Tiled(s)',
         \A y \in Cells : hint'[y] # NO_SPAN => hint'[y] \in ToSet(list'[y]),
         x.at = "home" => class'[x.todo[1]] = x.class /\ ~Tiled(x.todo[1])',
         x.at = "publish" => x.todo[1] \in ToSet(list'[<<x.shard, x.class>>])
  PROVE  Hints'
<1>1. /\ job'[t] = x /\ \A u \in Threads : u # t => job'[u] = job[u]
  BY JobStep, OfHeap
<1>2. ASSUME NEW u \in Threads
      PROVE  (/\ job[u].at = "home" => class[job[u].todo[1]] = job[u].class
                                       /\ ~Tiled(job[u].todo[1])
              /\ job[u].at = "publish" =>
                   job[u].todo[1] \in ToSet(list[<<job[u].shard, job[u].class>>]))'
  <2>0. PICK j, s : j = job'[u] /\ s = j.todo[1]
    OBVIOUS
  <2>1. /\ j.at = "home" => class'[s] = j.class /\ ~Tiled(s)'
        /\ j.at = "publish" => s \in ToSet(list'[<<j.shard, j.class>>])
    <3>1. CASE u = t
      <4>1. j = x
        BY <1>1, <2>0, <3>1
      <4> QED BY <2>0, <4>1
    <3>2. CASE u # t
      <4>1. job[u] = j
        BY <1>1, <2>0, <3>2
      <4>2. /\ j.at = "home" => class[s] = j.class /\ ~Tiled(s)
            /\ j.at = "publish" => s \in ToSet(list[<<j.shard, j.class>>])
        BY <2>0, <4>1 DEF Hints
      <4>3. j \in Jobs /\ Shape(u, j, mag[u])
        BY <4>1, OfThread
      <4>4. ASSUME j.at \in {"home", "publish"}
            PROVE  s \in Spans /\ j.class \in Classes /\ <<j.shard, j.class>> \in Cells
        <5>1. Len(j.todo) = 1 /\ j.class \in Classes
          BY <4>3, <4>4 DEF Shape
        <5>2. j.todo \in Seq(Spans) /\ j.shard \in Shards
          BY <4>3, OfJob
        <5>3. s \in Spans
          BY <2>0, <5>1, <5>2
        <5> QED BY <5>1, <5>2, <5>3 DEF Cells, Shards
      <4>5. j.at = "home" => class'[s] = j.class /\ ~Tiled(s)'
        BY <4>2, <4>4
      <4>6. j.at = "publish" => s \in ToSet(list'[<<j.shard, j.class>>])
        BY <4>2, <4>4
      <4> QED BY <4>5, <4>6
    <3> QED BY <3>1, <3>2
  <2>2. ~Tiled(s)' => ~(\E v \in Threads : job[v].at = "tile" /\ job[v].todo[1] = job[u].todo[1])'
    BY <2>0 DEF Tiled
  <2> QED BY <2>0, <2>1, <2>2 DEF Tiled
<1>3. (\A y \in Cells : hint[y] # NO_SPAN => hint[y] \in ToSet(list[y]))'
  OBVIOUS
<1> QED BY <1>2, <1>3 DEF Hints

\* A thread's step outside of any refill.
LEMMA SpansQuiet ==
  ASSUME HeapInv, NEW t \in Threads, NEW x \in Jobs, job' = [job EXCEPT ![t] = x],
         job[t].at # "tile", x.at \notin Holding \cup {"home", "publish"},
         UNCHANGED <<alloc_words, list, hint, lock, class, home, free, cursor>>
  PROVE  /\ \A u \in Threads : Refilling(u)'
         /\ Lists' /\ Sweeps' /\ (~Reclaiming => Hints')
         /\ \A s : Tiled(s)' <=> Tiled(s)
<1>1. /\ \A u \in Threads : Refilling(u)'
      /\ Lists' /\ Sweeps'
      /\ \A s : Tiled(s)' <=> Tiled(s)
  BY SpansCalm
<1>2. ASSUME ~Reclaiming PROVE Hints'
  <2>1. Hints
    BY <1>2, OfHeap
  <2>2. \A y \in Cells : hint'[y] # NO_SPAN => hint'[y] \in ToSet(list'[y])
    BY <2>1 DEF Hints
  <2>3. \A y \in Cells : ToSet(list[y]) \subseteq ToSet(list'[y])
    OBVIOUS
  <2>4. \A s \in Spans : class[s] \in Classes /\ ~Tiled(s) => class'[s] = class[s] /\ ~Tiled(s)'
    BY <1>1
  <2> QED BY <2>1, <2>2, <2>3, <2>4, HintsStep
<1> QED BY <1>1, <1>2

\* The invariant after a thread's step, from its parts.
LEMMA HeapStep ==
  ASSUME HeapInv, NEW t \in Threads, NEW x \in Jobs, NEW m \in [Classes -> Seq(Objects)],
         job' = [job EXCEPT ![t] = x], mag' = [mag EXCEPT ![t] = m],
         Shape(t, x, m), Distinct(x.out), Distinct(x.batch), Distinct(x.pend),
         \A c \in Classes : Distinct(m[c]) /\ OfClass(m[c], c),
         l2' \in [Cpus -> [Classes -> Seq(Objects)]],
         \A p \in Cpus, c \in Classes :
           Distinct(l2'[p][c]) /\ OfClass(l2'[p][c], c) /\ Len(l2'[p][c]) <= L2Cap,
         alloc_words' \in [Spans -> SUBSET Nat], free_words' \in [Spans -> SUBSET Nat],
         list' \in [Cells -> Seq(Spans)], hint' \in [Cells -> Spans \cup {NO_SPAN}],
         lock' \in [Cells -> Threads \cup {Sweeper, NoThread}],
         class' \in [Spans -> Classes \cup {Large, Unassigned}],
         home' \in [Spans -> 0 .. HomeMod - 1], free' \in SUBSET Spans,
         cursor' \in 0 .. NumSpans, stopped' = stopped, live' \in SUBSET Objects, sup' = sup,
         \A u \in Threads : Refilling(u)',
         Lists', Sweeps', ~Reclaiming => Hints', Bits', Partition'
  PROVE  HeapInv'
<1>1. /\ job' \in [Threads \cup {Sweeper} -> Jobs] /\ job'[t] = x
      /\ \A u \in Threads : u # t => job'[u] = job[u]
  BY JobStep, OfHeap
<1>2. /\ mag' \in [Threads -> [Classes -> Seq(Objects)]] /\ mag'[t] = m
      /\ \A u \in Threads : u # t => mag'[u] = mag[u]
  BY OfHeap DEF Types
<1>3. Types'
  BY <1>1, <1>2, OfHeap DEF Types
<1>4. ASSUME NEW u \in Threads PROVE Shape(u, job'[u], mag'[u])
  <2>1. CASE u = t
    BY <1>1, <1>2, <2>1
  <2>2. CASE u # t
    BY <1>1, <1>2, <2>2, OfHeap
  <2> QED BY <2>1, <2>2
<1>5. \A u \in Threads : Shape(u, job[u], mag[u])'
  BY <1>4 DEF Shape
<1>6. ASSUME NEW u \in Threads
      PROVE  /\ \A c \in Classes : Distinct(mag'[u][c]) /\ OfClass(mag'[u][c], c)
             /\ Distinct(job'[u].out) /\ Distinct(job'[u].batch) /\ Distinct(job'[u].pend)
  <2>1. CASE u = t
    BY <1>1, <1>2, <2>1
  <2>2. CASE u # t
    BY <1>1, <1>2, <2>2, OfThread
  <2> QED BY <2>1, <2>2
<1>7. Stacks'
  BY <1>6 DEF Stacks, Distinct, OfClass
<1> QED BY <1>3, <1>5, <1>7 DEF HeapInv

\* A step outside of any refill keeps the invariant if it keeps every object in
\* one place and every bitmap within its span.
LEMMA QuietStep ==
  ASSUME HeapInv, NEW t \in Threads, NEW x \in Jobs, NEW m \in [Classes -> Seq(Objects)],
         job' = [job EXCEPT ![t] = x], mag' = [mag EXCEPT ![t] = m],
         Shape(t, x, m), Distinct(x.out), Distinct(x.batch), Distinct(x.pend),
         \A c \in Classes : Distinct(m[c]) /\ OfClass(m[c], c),
         l2' \in [Cpus -> [Classes -> Seq(Objects)]],
         \A p \in Cpus, c \in Classes :
           Distinct(l2'[p][c]) /\ OfClass(l2'[p][c], c) /\ Len(l2'[p][c]) <= L2Cap,
         free_words' \in [Spans -> SUBSET Nat], live' \in SUBSET Objects,
         UNCHANGED <<alloc_words, list, hint, lock, class, home, free, cursor, stopped, sup>>,
         job[t].at # "tile", x.at \notin Holding \cup {"home", "publish"},
         Bits', Partition'
  PROVE  HeapInv'
<1>1. /\ \A u \in Threads : Refilling(u)'
      /\ Lists' /\ Sweeps' /\ (~Reclaiming => Hints')
  BY SpansQuiet
<1>2. /\ alloc_words' \in [Spans -> SUBSET Nat]
      /\ list' \in [Cells -> Seq(Spans)] /\ hint' \in [Cells -> Spans \cup {NO_SPAN}]
      /\ lock' \in [Cells -> Threads \cup {Sweeper, NoThread}]
      /\ class' \in [Spans -> Classes \cup {Large, Unassigned}]
      /\ home' \in [Spans -> 0 .. HomeMod - 1] /\ free' \in SUBSET Spans
      /\ cursor' \in 0 .. NumSpans /\ stopped' = stopped /\ sup' = sup
  BY OfHeap DEF Types
<1> QED BY <1>1, <1>2, HeapStep

-----------------------------------------------------------------------------
(* Bitmaps, slabs and magazines *)

\* Bits of objects of one span are set in free_words.
LEMMA DepositSet ==
  ASSUME HeapInv, NEW s \in Spans, NEW c \in Classes, class[s] = c, NEW M \in SUBSET Objects,
         \A o \in M : o[1] = c /\ o[2] = s,
         free_words' = [free_words EXCEPT ![s] = @ \cup {o[3] : o \in M}],
         UNCHANGED <<class, alloc_words>>
  PROVE  /\ free_words' \in [Spans -> SUBSET Nat] /\ Bits'
         /\ \A r \in Objects : InWord(free_words, r)' <=> InWord(free_words, r) \/ r \in M
         /\ \A r \in Objects : InWord(alloc_words, r)' <=> InWord(alloc_words, r)
<1>1. free_words \in [Spans -> SUBSET Nat] /\ Bits
  BY OfHeap DEF Types
<1>2. {o[3] : o \in M} \subseteq 0 .. Slots[c] - 1 /\ {o[3] : o \in M} \subseteq Nat
  BY ObjectParts
<1> DEFINE W == {o[3] : o \in M}
<1>3. /\ free_words' \in [Spans -> SUBSET Nat] /\ free_words'[s] = free_words[s] \cup W
      /\ \A v \in Spans : v # s => free_words'[v] = free_words[v]
  BY <1>1, <1>2
<1>4. Bits'
  <2> SUFFICES ASSUME NEW v \in Spans
               PROVE  alloc_words'[v] \cup free_words'[v] \subseteq SlotsOf(v)'
    BY DEF Bits
  <2>1. SlotsOf(v)' = SlotsOf(v) /\ alloc_words[v] \cup free_words[v] \subseteq SlotsOf(v)
    BY <1>1 DEF SlotsOf, Bits
  <2>2. SlotsOf(s) = 0 .. Slots[c] - 1
    BY DEF SlotsOf
  <2>3. W \subseteq 0 .. Slots[c] - 1
    BY <1>2
  <2> HIDE DEF W
  <2>4. CASE v = s
    BY <1>3, <2>1, <2>2, <2>3, <2>4
  <2>5. CASE v # s
    BY <1>3, <2>1, <2>5
  <2> QED BY <2>4, <2>5
<1>5. ASSUME NEW r \in Objects
      PROVE  InWord(free_words, r)' <=> InWord(free_words, r) \/ r \in M
  <2>1. r = <<r[1], r[2], r[3]>> /\ r[2] \in Spans
    BY ObjectParts
  <2>2. CASE r[2] # s
    <3>1. r \notin M /\ free_words'[r[2]] = free_words[r[2]]
      BY <1>3, <2>1, <2>2
    <3> QED BY <3>1 DEF InWord
  <2>3. CASE r[2] = s
    <3>1. ASSUME r[1] = c, r[3] \in W PROVE r \in M
      <4>1. PICK o \in M : o[3] = r[3]
        BY <3>1
      <4>2. o = <<o[1], o[2], o[3]>> /\ o[1] = c /\ o[2] = s
        BY ObjectParts
      <4> QED BY <2>1, <2>3, <3>1, <4>1, <4>2
    <3>2. r \in M => r[1] = c /\ r[3] \in W
      OBVIOUS
    <3> HIDE DEF W
    <3> QED BY <1>3, <2>3, <3>1, <3>2 DEF InWord
  <2> QED BY <2>2, <2>3
<1> QED BY <1>3, <1>4, <1>5 DEF InWord

\* A deposit sets the free bit of one object.
LEMMA DepositOne ==
  ASSUME HeapInv, NEW o \in Objects, class[o[2]] = o[1], Deposit(o), UNCHANGED <<class, alloc_words>>
  PROVE  /\ free_words' \in [Spans -> SUBSET Nat] /\ Bits'
         /\ \A r \in Objects : InWord(free_words, r)' <=> InWord(free_words, r) \/ r = o
         /\ \A r \in Objects : InWord(alloc_words, r)' <=> InWord(alloc_words, r)
<1>1. o[1] \in Classes /\ o[2] \in Spans /\ {r[3] : r \in {o}} = {o[3]} /\ {o} \in SUBSET Objects
  BY ObjectParts
<1>2. free_words' = [free_words EXCEPT ![o[2]] = @ \cup {r[3] : r \in {o}}]
  BY <1>1 DEF Deposit
<1>3. \A r \in {o} : r[1] = o[1] /\ r[2] = o[2]
  OBVIOUS
<1>4. /\ free_words' \in [Spans -> SUBSET Nat] /\ Bits'
      /\ \A r \in Objects : InWord(free_words, r)' <=> InWord(free_words, r) \/ r \in {o}
      /\ \A r \in Objects : InWord(alloc_words, r)' <=> InWord(alloc_words, r)
  BY <1>1, <1>2, <1>3, DepositSet
<1> QED BY <1>4

\* No bit changes.
LEMMA WordsSame ==
  ASSUME HeapInv, UNCHANGED <<class, alloc_words, free_words>>
  PROVE  /\ free_words' \in [Spans -> SUBSET Nat] /\ Bits'
         /\ \A r \in Objects : InWord(free_words, r)' <=> InWord(free_words, r)
         /\ \A r \in Objects : InWord(alloc_words, r)' <=> InWord(alloc_words, r)
<1>1. Bits'
  BY OfHeap DEF Bits, SlotsOf
<1> QED BY <1>1, OfHeap DEF Types, InWord

\* The slabs are as the invariant wants them.
SlabsFine ==
  /\ l2 \in [Cpus -> [Classes -> Seq(Objects)]]
  /\ \A p \in Cpus, c \in Classes :
       Distinct(l2[p][c]) /\ OfClass(l2[p][c], c) /\ Len(l2[p][c]) <= L2Cap

\* The slabs hold objects of their class, none twice, within the limit.
LEMMA SlabsNow == ASSUME HeapInv PROVE SlabsFine
BY DEF HeapInv, Types, Stacks, SlabsFine

\* Unchanged slabs stay so.
LEMMA SlabsSame ==
  ASSUME HeapInv, UNCHANGED l2
  PROVE  /\ SlabsFine'
         /\ \A r \in Objects : \A p \in Cpus : r \in ToSet(l2'[p][r[1]]) <=> r \in ToSet(l2[p][r[1]])
BY SlabsNow DEF SlabsFine

\* One stack of a slab becomes q.
LEMMA SlabSet ==
  ASSUME HeapInv, NEW p \in Cpus, NEW c \in Classes, NEW q \in Seq(Objects),
         Distinct(q), OfClass(q, c), Len(q) <= L2Cap, l2' = [l2 EXCEPT ![p][c] = q]
  PROVE  /\ SlabsFine' /\ l2'[p][c] = q
         /\ \A v \in Cpus, d \in Classes : v # p \/ d # c => l2'[v][d] = l2[v][d]
<1>1. SlabsFine
  BY SlabsNow
<1>2. l2 \in [Cpus -> [Classes -> Seq(Objects)]]
  BY <1>1 DEF SlabsFine
<1>3. /\ l2' \in [Cpus -> [Classes -> Seq(Objects)]] /\ l2'[p][c] = q
      /\ \A v \in Cpus, d \in Classes : v # p \/ d # c => l2'[v][d] = l2[v][d]
  BY <1>2
<1>4. ASSUME NEW v \in Cpus, NEW d \in Classes
      PROVE  Distinct(l2'[v][d]) /\ OfClass(l2'[v][d], d) /\ Len(l2'[v][d]) <= L2Cap
  <2>1. CASE v = p /\ d = c
    BY <1>3, <2>1
  <2>2. CASE v # p \/ d # c
    BY <1>1, <1>3, <2>2 DEF SlabsFine
  <2> QED BY <2>1, <2>2
<1>5. SlabsFine'
  BY <1>3, <1>4 DEF SlabsFine, Distinct, OfClass
<1> QED BY <1>3, <1>5

\* What a push onto a slab leaves of its slabs.
LEMMA SlabPush ==
  ASSUME HeapInv, NEW o \in Objects, NEW p \in Cpus, CanPush(p, o[1]),
         o \notin ToSet(l2[p][o[1]]), l2' = [l2 EXCEPT ![p][o[1]] = Push(@, o)]
  PROVE  /\ SlabsFine'
         /\ \A r \in Objects : \A v \in Cpus :
              r \in ToSet(l2'[v][r[1]]) <=> r \in ToSet(l2[v][r[1]]) \/ (r = o /\ v = p)
<1> DEFINE q == l2[p][o[1]]
<1>1. /\ o[1] \in Classes /\ q \in Seq(Objects) /\ Distinct(q) /\ OfClass(q, o[1])
      /\ Len(q) < L2Cap /\ Len(q) \in Nat /\ o \notin ToSet(q)
  BY SlabsNow, ObjectParts DEF SlabsFine, CanPush
<1>2. l2' = [l2 EXCEPT ![p][o[1]] = Append(q, o)]
  BY <1>1, SlabsNow DEF Push, SlabsFine
<1> HIDE DEF q
<1>3. /\ Append(q, o) \in Seq(Objects) /\ Len(Append(q, o)) = Len(q) + 1
      /\ ToSet(Append(q, o)) = ToSet(q) \cup {o} /\ Distinct(Append(q, o))
  BY <1>1, PushStack
<1>4. Len(Append(q, o)) <= L2Cap
  BY <1>1, <1>3, Constants
<1>5. OfClass(Append(q, o), o[1])
  BY <1>1, <1>3 DEF OfClass
<1>6. /\ SlabsFine' /\ l2'[p][o[1]] = Append(q, o)
      /\ \A v \in Cpus, d \in Classes : v # p \/ d # o[1] => l2'[v][d] = l2[v][d]
  BY <1>1, <1>2, <1>3, <1>4, <1>5, SlabSet, ZenonT(60)
<1>7. ASSUME NEW r \in Objects, NEW v \in Cpus
      PROVE  r \in ToSet(l2'[v][r[1]]) <=> r \in ToSet(l2[v][r[1]]) \/ (r = o /\ v = p)
  <2>1. CASE v = p /\ r[1] = o[1]
    <3>1. l2'[v][r[1]] = Append(q, o) /\ l2[v][r[1]] = q
      BY <1>6, <2>1 DEF q
    <3> QED BY <1>3, <2>1, <3>1
  <2>2. CASE v # p \/ r[1] # o[1]
    BY <1>6, <2>2, ObjectParts
  <2> QED BY <2>1, <2>2
<1> QED BY <1>6, <1>7

\* What a pop from a slab leaves, and where the object was.
LEMMA SlabPop ==
  ASSUME HeapInv, NEW p \in Cpus, NEW c \in Classes, l2[p][c] # <<>>,
         l2' = [l2 EXCEPT ![p][c] = Front(@)]
  PROVE  LET o == Last(l2[p][c])
         IN  /\ o \in Objects /\ o[1] = c /\ In(o, "l2", p)
             /\ SlabsFine'
             /\ \A r \in Objects : \A v \in Cpus :
                  r \in ToSet(l2'[v][r[1]]) <=> r \in ToSet(l2[v][r[1]]) /\ r # o
<1> DEFINE q == l2[p][c]
           o == Last(q)
<1>1. /\ q \in Seq(Objects) /\ Distinct(q) /\ OfClass(q, c) /\ Len(q) <= L2Cap
      /\ Len(q) \in Nat /\ q # <<>>
  BY SlabsNow DEF SlabsFine
<1>2. l2' = [l2 EXCEPT ![p][c] = Front(q)]
  BY SlabsNow DEF SlabsFine
<1>3. /\ Front(q) \in Seq(Objects) /\ Len(Front(q)) = Len(q) - 1
      /\ o \in Objects /\ o \in ToSet(q)
      /\ ToSet(Front(q)) = ToSet(q) \ {o} /\ Distinct(Front(q))
  BY <1>1, PopStack
<1>4. o[1] = c
  BY <1>1, <1>3 DEF OfClass
<1>5. In(o, "l2", p)
  BY <1>3, <1>4, IsIn, OfHeap
<1> HIDE DEF q, o
<1>6. Len(Front(q)) <= L2Cap /\ OfClass(Front(q), c)
  BY <1>1, <1>3, Constants DEF OfClass
<1>7. /\ SlabsFine' /\ l2'[p][c] = Front(q)
      /\ \A v \in Cpus, d \in Classes : v # p \/ d # c => l2'[v][d] = l2[v][d]
  BY <1>1, <1>2, <1>3, <1>6, SlabSet, ZenonT(60)
<1>8. ASSUME NEW r \in Objects, NEW v \in Cpus
      PROVE  r \in ToSet(l2'[v][r[1]]) <=> r \in ToSet(l2[v][r[1]]) /\ r # o
  <2>1. CASE v = p /\ r[1] = c
    BY <1>3, <1>7, <2>1 DEF q
  <2>2. CASE v # p \/ r[1] # c
    <3>1. l2'[v][r[1]] = l2[v][r[1]]
      BY <1>7, <2>2, ObjectParts
    <3>2. o \notin ToSet(l2[v][o[1]]) \/ v = p
      BY <1>5 DEF In
    <3> QED BY <1>4, <2>2, <3>1, <3>2
  <2> QED BY <2>1, <2>2
<1> QED BY <1>3, <1>4, <1>5, <1>7, <1>8 DEF o, q

-----------------------------------------------------------------------------
(* Objects move from place to place *)

\* A place that no thread but t has.
Mine(k, a, t) == k \in {"alloc", "free", "live", "l2"} \/ a = t

\* Object r is in a place that a step of t may take it from.
Held(r, t) == \E k \in Kinds \ {"none"}, a \in Agents : In(r, k, a) /\ Mine(k, a, t)

\* A step of t, whose call becomes x and whose magazines m, takes the objects of M
\* to place <<k, a>> and those of N to place <<l, b>>.
Moved(t, x, m, M, k, a, N, l, b) ==
  \A r \in Objects :
    LET After(was, z, e) ==
          (was /\ r \notin M /\ r \notin N) \/ (r \in M /\ k = z /\ a = e)
                                            \/ (r \in N /\ l = z /\ b = e)
    IN /\ InWord(alloc_words, r)' <=> After(InWord(alloc_words, r), "alloc", NoThread)
       /\ InWord(free_words, r)' <=> After(InWord(free_words, r), "free", NoThread)
       /\ r \in live' <=> After(r \in live, "live", NoThread)
       /\ r \in ToSet(m[r[1]]) <=> After(r \in ToSet(mag[t][r[1]]), "mag", t)
       /\ r \in ToSet(x.out) <=> After(r \in ToSet(job[t].out), "out", t)
       /\ r \in ToSet(x.batch) <=> After(r \in ToSet(job[t].batch), "batch", t)
       /\ r \in ToSet(x.pend) <=> After(r \in ToSet(job[t].pend), "pend", t)
       /\ \A p \in Cpus : r \in ToSet(l2'[p][r[1]]) <=> After(r \in ToSet(l2[p][r[1]]), "l2", p)

\* The places that objects go to.
Target(k, a, t) ==
  \/ k \in {"alloc", "free", "live"} /\ a = NoThread
  \/ k \in {"mag", "out", "batch", "pend"} /\ a = t
  \/ k = "l2" /\ a \in Cpus

\* Objects that move between two kinds of places stay in exactly one place.
LEMMA MoveSets ==
  ASSUME HeapInv, NEW t \in Threads, NEW x \in Jobs, NEW m \in [Classes -> Seq(Objects)],
         job' = [job EXCEPT ![t] = x], mag' = [mag EXCEPT ![t] = m],
         NEW M, NEW k, NEW a, NEW N, NEW l, NEW b,
         Moved(t, x, m, M, k, a, N, l, b), M \cap N = {},
         Target(k, a, t), Target(l, b, t),
         \A r \in M \cup N : Held(r, t),
         \A r \in Objects : Exists(r)' <=> Exists(r)
  PROVE  Partition'
<1>1. /\ job'[t] = x /\ \A u \in Threads : u # t => job'[u] = job[u]
      /\ mag'[t] = m /\ \A u \in Threads : u # t => mag'[u] = mag[u]
  BY JobStep, OfHeap DEF Types
<1>2. Partition
  BY OfHeap
<1>3. ASSUME NEW r \in Objects, r \notin M, r \notin N PROVE Same(r)
  <2>1. /\ InWord(alloc_words, r)' <=> InWord(alloc_words, r)
        /\ InWord(free_words, r)' <=> InWord(free_words, r)
        /\ r \in live' <=> r \in live
        /\ r \in ToSet(m[r[1]]) <=> r \in ToSet(mag[t][r[1]])
        /\ r \in ToSet(x.out) <=> r \in ToSet(job[t].out)
        /\ r \in ToSet(x.batch) <=> r \in ToSet(job[t].batch)
        /\ r \in ToSet(x.pend) <=> r \in ToSet(job[t].pend)
        /\ \A p \in Cpus : r \in ToSet(l2'[p][r[1]]) <=> r \in ToSet(l2[p][r[1]])
    BY <1>3 DEF Moved
  <2>2. ASSUME NEW u \in Threads
        PROVE  /\ r \in ToSet(mag'[u][r[1]]) <=> r \in ToSet(mag[u][r[1]])
               /\ r \in ToSet(job'[u].out) <=> r \in ToSet(job[u].out)
               /\ r \in ToSet(job'[u].batch) <=> r \in ToSet(job[u].batch)
               /\ r \in ToSet(job'[u].pend) <=> r \in ToSet(job[u].pend)
    <3>1. CASE u = t
      BY <1>1, <2>1, <3>1
    <3>2. CASE u # t
      BY <1>1, <3>2
    <3> QED BY <3>1, <3>2
  <2> QED BY <2>1, <2>2 DEF Same
<1>4. ASSUME NEW r \in Objects, NEW y, NEW e, Target(y, e, t), Held(r, t),
             (r \in M /\ r \notin N /\ y = k /\ e = a) \/ (r \in N /\ r \notin M /\ y = l /\ e = b)
      PROVE  In(r, y, e)' /\ y \in Kinds /\ e \in Agents
  <2>0. y \in Kinds /\ e \in Agents /\ y # "none"
    BY <1>4, Constants DEF Target, Kinds, Agents
  <2>1. /\ InWord(alloc_words, r)' <=> y = "alloc" /\ e = NoThread
        /\ InWord(free_words, r)' <=> y = "free" /\ e = NoThread
        /\ r \in live' <=> y = "live" /\ e = NoThread
        /\ r \in ToSet(m[r[1]]) <=> y = "mag" /\ e = t
        /\ r \in ToSet(x.out) <=> y = "out" /\ e = t
        /\ r \in ToSet(x.batch) <=> y = "batch" /\ e = t
        /\ r \in ToSet(x.pend) <=> y = "pend" /\ e = t
        /\ \A p \in Cpus : r \in ToSet(l2'[p][r[1]]) <=> y = "l2" /\ e = p
    BY <1>4 DEF Moved
  <2>2. PICK k0 \in Kinds \ {"none"}, a0 \in Agents : In(r, k0, a0) /\ Mine(k0, a0, t)
    BY <1>4 DEF Held
  <2>3. Exists(r)'
    BY <2>2 DEF In
  <2>4. ASSUME NEW u \in Threads
        PROVE  /\ r \in ToSet(mag'[u][r[1]]) <=> y = "mag" /\ e = u
               /\ r \in ToSet(job'[u].out) <=> y = "out" /\ e = u
               /\ r \in ToSet(job'[u].batch) <=> y = "batch" /\ e = u
               /\ r \in ToSet(job'[u].pend) <=> y = "pend" /\ e = u
    <3>1. CASE u = t
      BY <1>1, <2>1, <3>1
    <3>2. CASE u # t
      <4>1. /\ r \notin ToSet(mag[u][r[1]]) /\ r \notin ToSet(job[u].out)
            /\ r \notin ToSet(job[u].batch) /\ r \notin ToSet(job[u].pend)
        BY <2>2, <3>2 DEF In, Mine
      <4>2. y \in {"mag", "out", "batch", "pend"} => e # u
        BY <1>4, <3>2 DEF Target
      <4> QED BY <1>1, <3>2, <4>1, <4>2
    <3> QED BY <3>1, <3>2
  <2>5. /\ y \in {"alloc", "free", "live"} => e = NoThread
        /\ y \in {"mag", "out", "batch", "pend"} => e \in Threads
        /\ y = "l2" => e \in Cpus
    BY <1>4 DEF Target
  <2> QED BY <2>0, <2>1, <2>3, <2>4, <2>5 DEF In
<1>5. ASSUME NEW r \in Objects
      PROVE  Same(r) \/ \E y \in Kinds, e \in Agents : In(r, y, e)'
  <2>1. CASE r \in M
    BY <1>4, <2>1
  <2>2. CASE r \in N
    BY <1>4, <2>2
  <2> QED BY <1>3, <2>1, <2>2
<1> QED BY <1>2, <1>5, MoveObjects

\* No object moves.
Unmoved(t, x, m) == Moved(t, x, m, {}, "live", NoThread, {}, "live", NoThread)

\* No object moves.
LEMMA NoMove ==
  ASSUME HeapInv, NEW t \in Threads, NEW x \in Jobs, NEW m \in [Classes -> Seq(Objects)],
         job' = [job EXCEPT ![t] = x], mag' = [mag EXCEPT ![t] = m],
         Unmoved(t, x, m), \A r \in Objects : Exists(r)' <=> Exists(r)
  PROVE  Partition'
<1>1. Target("live", NoThread, t)
  BY DEF Target
<1>2. {} \cap {} = {} /\ \A r \in {} \cup {} : Held(r, t)
  OBVIOUS
<1> QED BY <1>1, <1>2, MoveSets DEF Unmoved

\* Some objects go to one place.
MovedTo(t, x, m, M, k, a) == Moved(t, x, m, M, k, a, {}, "live", NoThread)

\* One object moves.
LEMMA OneMove ==
  ASSUME HeapInv, NEW t \in Threads, NEW x \in Jobs, NEW m \in [Classes -> Seq(Objects)],
         job' = [job EXCEPT ![t] = x], mag' = [mag EXCEPT ![t] = m],
         NEW M, NEW k, NEW a, MovedTo(t, x, m, M, k, a), Target(k, a, t),
         \A r \in M : Held(r, t), \A r \in Objects : Exists(r)' <=> Exists(r)
  PROVE  Partition'
<1>1. Target("live", NoThread, t)
  BY DEF Target
<1>2. M \cap {} = {} /\ \A r \in M \cup {} : Held(r, t)
  OBVIOUS
<1> QED BY <1>1, <1>2, MoveSets DEF MovedTo

\* The places a step of t may take an object from.
LEMMA HeldBy ==
  ASSUME NEW t \in Threads, NEW o \in Objects
  PROVE  /\ In(o, "alloc", NoThread) \/ In(o, "free", NoThread) \/ In(o, "live", NoThread)
            \/ In(o, "mag", t) \/ In(o, "out", t) \/ In(o, "batch", t) \/ In(o, "pend", t)
            => Held(o, t)
         /\ \A p \in Cpus : In(o, "l2", p) => Held(o, t)
BY Constants DEF Held, Mine, Kinds, Agents

\* Objects exist as before when the table does not change and nothing is tiled.
LEMMA ExistsSame ==
  ASSUME UNCHANGED class, \A s : Tiled(s)' <=> Tiled(s)
  PROVE  \A r \in Objects : Exists(r)' <=> Exists(r)
BY DEF Exists

\* What the invariant asks of a thread's call x and magazines m.
MagsFine(m) == \A c \in Classes : Distinct(m[c]) /\ OfClass(m[c], c) /\ Len(m[c]) <= MagCap
CallFine(t, x, m) ==
  /\ Shape(t, x, m) /\ Distinct(x.out) /\ Distinct(x.batch) /\ Distinct(x.pend) /\ MagsFine(m)

\* The call a thread is in and its magazines are in order.
LEMMA CallNow ==
  ASSUME HeapInv, NEW t \in Threads
  PROVE  /\ CallFine(t, job[t], mag[t]) /\ MagsFine(mag[t]) /\ Shape(t, job[t], mag[t])
         /\ job[t] \in Jobs /\ mag[t] \in [Classes -> Seq(Objects)]
         /\ job = [job EXCEPT ![t] = job[t]] /\ mag = [mag EXCEPT ![t] = mag[t]]
<1>1. CallFine(t, job[t], mag[t]) /\ MagsFine(mag[t])
  BY OfThread DEF CallFine, MagsFine
<1>2. job[t] \in Jobs /\ mag[t] \in [Classes -> Seq(Objects)]
  BY OfThread
<1>3. job \in [Threads \cup {Sweeper} -> Jobs] /\ mag \in [Threads -> [Classes -> Seq(Objects)]]
  BY OfHeap DEF Types
<1>4. job = [job EXCEPT ![t] = job[t]] /\ mag = [mag EXCEPT ![t] = mag[t]]
  BY <1>3
<1> QED BY <1>1, <1>2, <1>4 DEF CallFine

\* Objects that the step of t may take go to places it may bring them to.
Carried(t, x, m, M, k, a, N, l, b) ==
  /\ Moved(t, x, m, M, k, a, N, l, b)
  /\ M \cap N = {} /\ Target(k, a, t) /\ Target(l, b, t)
  /\ \A r \in M \cup N : Held(r, t)

\* A step outside of any refill that moves objects to at most two places.
LEMMA QuietMoves ==
  ASSUME HeapInv, NEW t \in Threads, NEW x \in Jobs, NEW m \in [Classes -> Seq(Objects)],
         job' = [job EXCEPT ![t] = x], mag' = [mag EXCEPT ![t] = m], CallFine(t, x, m),
         SlabsFine', free_words' \in [Spans -> SUBSET Nat], Bits', live' \in SUBSET Objects,
         UNCHANGED <<alloc_words, list, hint, lock, class, home, free, cursor, stopped, sup>>,
         job[t].at # "tile", x.at \notin Holding \cup {"home", "publish"},
         NEW M, NEW k, NEW a, NEW N, NEW l, NEW b, Carried(t, x, m, M, k, a, N, l, b)
  PROVE  HeapInv'
<1>1. \A s : Tiled(s)' <=> Tiled(s)
  BY SpansQuiet
<1>2. Partition'
  BY <1>1, ExistsSame, MoveSets DEF Carried
<1>3. /\ Shape(t, x, m) /\ Distinct(x.out) /\ Distinct(x.batch) /\ Distinct(x.pend)
      /\ \A c \in Classes : Distinct(m[c]) /\ OfClass(m[c], c)
  BY DEF CallFine, MagsFine
<1>4. /\ l2' \in [Cpus -> [Classes -> Seq(Objects)]]
      /\ \A p \in Cpus, c \in Classes :
           Distinct(l2'[p][c]) /\ OfClass(l2'[p][c], c) /\ Len(l2'[p][c]) <= L2Cap
  BY DEF SlabsFine, Distinct, OfClass
<1> QED BY <1>2, <1>3, <1>4, QuietStep

\* A step of a thread that changes no span, list or lock, and moves objects.
LEMMA QuietMove ==
  ASSUME HeapInv, NEW t \in Threads, NEW x \in Jobs, NEW m \in [Classes -> Seq(Objects)],
         job' = [job EXCEPT ![t] = x], mag' = [mag EXCEPT ![t] = m], CallFine(t, x, m),
         SlabsFine', free_words' \in [Spans -> SUBSET Nat], Bits', live' \in SUBSET Objects,
         UNCHANGED <<alloc_words, list, hint, lock, class, home, free, cursor, stopped, sup>>,
         job[t].at # "tile", x.at \notin Holding \cup {"home", "publish"},
         NEW M, NEW k, NEW a, MovedTo(t, x, m, M, k, a), Target(k, a, t), \A r \in M : Held(r, t)
  PROVE  HeapInv'
<1> DEFINE N == {}
<1>1. Target("live", NoThread, t)
  BY DEF Target
<1>2. M \cap N = {} /\ \A r \in M \cup N : Held(r, t)
  OBVIOUS
<1>3. Moved(t, x, m, M, k, a, N, "live", NoThread)
  BY DEF MovedTo
<1> HIDE DEF N
<1>4. Carried(t, x, m, M, k, a, N, "live", NoThread)
  BY <1>1, <1>2, <1>3 DEF Carried
<1> QED BY <1>4, QuietMoves

\* One object moves.
MovedOne(t, x, m, o, k, a) == MovedTo(t, x, m, {o}, k, a)

\* Such a step that moves one object.
LEMMA QuietOne ==
  ASSUME HeapInv, NEW t \in Threads, NEW x \in Jobs, NEW m \in [Classes -> Seq(Objects)],
         job' = [job EXCEPT ![t] = x], mag' = [mag EXCEPT ![t] = m], CallFine(t, x, m),
         SlabsFine', free_words' \in [Spans -> SUBSET Nat], Bits', live' \in SUBSET Objects,
         UNCHANGED <<alloc_words, list, hint, lock, class, home, free, cursor, stopped, sup>>,
         job[t].at # "tile", x.at \notin Holding \cup {"home", "publish"},
         NEW o, NEW k, NEW a, MovedOne(t, x, m, o, k, a), Target(k, a, t), Held(o, t)
  PROVE  HeapInv'
<1> DEFINE M == {o}
<1>1. MovedTo(t, x, m, M, k, a) /\ \A r \in M : Held(r, t)
  BY DEF MovedOne
<1> HIDE DEF M
<1> QED BY <1>1, QuietMove

\* Such a step that moves none.
LEMMA QuietCall ==
  ASSUME HeapInv, NEW t \in Threads, NEW x \in Jobs, job' = [job EXCEPT ![t] = x],
         CallFine(t, x, mag[t]), x.out = job[t].out, x.batch = job[t].batch, x.pend = job[t].pend,
         UNCHANGED <<mag, l2, live, free_words,
                     alloc_words, list, hint, lock, class, home, free, cursor, stopped, sup>>,
         job[t].at # "tile", x.at \notin Holding \cup {"home", "publish"}
  PROVE  HeapInv'
<1>1. mag[t] \in [Classes -> Seq(Objects)] /\ mag' = [mag EXCEPT ![t] = mag[t]]
  BY CallNow
<1>2. free_words' \in [Spans -> SUBSET Nat] /\ Bits' /\ live' \in SUBSET Objects /\ SlabsFine'
  BY WordsSame, SlabsSame, OfHeap DEF Types
<1> DEFINE M == {}
<1>3. MovedTo(t, x, mag[t], M, "live", NoThread)
  BY WordsSame, SlabsSame DEF MovedTo, Moved
<1>4. Target("live", NoThread, t) /\ \A r \in M : Held(r, t)
  BY DEF Target
<1>5. UNCHANGED <<alloc_words, list, hint, lock, class, home, free, cursor, stopped, sup>>
  OBVIOUS
<1> HIDE DEF M
<1> QED BY <1>1, <1>2, <1>3, <1>4, <1>5, QuietMove

\* One magazine becomes q.
LEMMA MagSet ==
  ASSUME HeapInv, NEW t \in Threads, NEW c \in Classes, NEW q \in Seq(Objects),
         Distinct(q), OfClass(q, c), Len(q) <= MagCap, mag' = [mag EXCEPT ![t][c] = q]
  PROVE  /\ mag'[t] \in [Classes -> Seq(Objects)] /\ mag' = [mag EXCEPT ![t] = mag'[t]]
         /\ MagsFine(mag'[t]) /\ mag'[t][c] = q
         /\ \A d \in Classes : d # c => mag'[t][d] = mag[t][d]
<1> DEFINE m == [mag[t] EXCEPT ![c] = q]
<1>1. mag[t] \in [Classes -> Seq(Objects)] /\ MagsFine(mag[t])
  BY CallNow
<1>2. /\ m \in [Classes -> Seq(Objects)] /\ mag' = [mag EXCEPT ![t] = m] /\ mag'[t] = m
      /\ m[c] = q /\ \A d \in Classes : d # c => m[d] = mag[t][d]
  BY <1>1, OfHeap DEF Types
<1> HIDE DEF m
<1>3. MagsFine(m)
  <2>1. ASSUME NEW d \in Classes
        PROVE  Distinct(m[d]) /\ OfClass(m[d], d) /\ Len(m[d]) <= MagCap
    BY <1>1, <1>2 DEF MagsFine
  <2> QED BY <2>1 DEF MagsFine
<1> QED BY <1>2, <1>3

\* What a push onto a magazine leaves.
LEMMA MagPush ==
  ASSUME HeapInv, NEW t \in Threads, NEW o \in Objects, o \notin ToSet(mag[t][o[1]]),
         Len(mag[t][o[1]]) < MagCap, mag' = [mag EXCEPT ![t][o[1]] = Push(@, o)]
  PROVE  /\ mag'[t] \in [Classes -> Seq(Objects)] /\ mag' = [mag EXCEPT ![t] = mag'[t]]
         /\ MagsFine(mag'[t])
         /\ \A r \in Objects : r \in ToSet(mag'[t][r[1]]) <=> r \in ToSet(mag[t][r[1]]) \/ r = o
<1> DEFINE q == mag[t][o[1]]
           p == Append(q, o)
<1>1. /\ o[1] \in Classes /\ q \in Seq(Objects) /\ Distinct(q) /\ OfClass(q, o[1])
      /\ Len(q) < MagCap /\ Len(q) \in Nat /\ o \notin ToSet(q)
  BY CallNow, ObjectParts DEF MagsFine
<1>2. mag' = [mag EXCEPT ![t][o[1]] = p]
  BY <1>1, OfHeap DEF Push, Types
<1> HIDE DEF q
<1>3. /\ p \in Seq(Objects) /\ Len(p) = Len(q) + 1
      /\ ToSet(p) = ToSet(q) \cup {o} /\ Distinct(p)
  BY <1>1, PushStack
<1>4. Len(p) <= MagCap
  BY <1>1, <1>3, Constants
<1> HIDE DEF p
<1>5. OfClass(p, o[1])
  BY <1>1, <1>3 DEF OfClass
<1>6. /\ mag'[t] \in [Classes -> Seq(Objects)] /\ mag' = [mag EXCEPT ![t] = mag'[t]]
      /\ MagsFine(mag'[t]) /\ mag'[t][o[1]] = p
      /\ \A d \in Classes : d # o[1] => mag'[t][d] = mag[t][d]
  BY <1>1, <1>2, <1>3, <1>4, <1>5, MagSet, ZenonT(60)
<1>7. ASSUME NEW r \in Objects
      PROVE  r \in ToSet(mag'[t][r[1]]) <=> r \in ToSet(mag[t][r[1]]) \/ r = o
  <2>1. CASE r[1] = o[1]
    <3>1. mag'[t][r[1]] = p /\ mag[t][r[1]] = q
      BY <1>6, <2>1 DEF q
    <3> QED BY <1>3, <3>1
  <2>2. CASE r[1] # o[1]
    BY <1>6, <2>2, ObjectParts
  <2> QED BY <2>1, <2>2
<1> QED BY <1>6, <1>7

\* What a pop from a magazine leaves, and where the object was.
LEMMA MagPop ==
  ASSUME HeapInv, NEW t \in Threads, NEW c \in Classes, mag[t][c] # <<>>,
         mag' = [mag EXCEPT ![t][c] = Front(@)]
  PROVE  /\ mag'[t] \in [Classes -> Seq(Objects)] /\ mag' = [mag EXCEPT ![t] = mag'[t]]
         /\ MagsFine(mag'[t])
         /\ Last(mag[t][c]) \in Objects /\ Last(mag[t][c])[1] = c /\ In(Last(mag[t][c]), "mag", t)
         /\ \A r \in Objects : r \in ToSet(mag'[t][r[1]]) <=>
                                 r \in ToSet(mag[t][r[1]]) /\ r # Last(mag[t][c])
<1> DEFINE q == mag[t][c]
           o == Last(q)
           p == Front(q)
<1>1. /\ q \in Seq(Objects) /\ Distinct(q) /\ OfClass(q, c) /\ Len(q) <= MagCap
      /\ Len(q) \in Nat /\ q # <<>>
  BY CallNow DEF MagsFine
<1>2. mag' = [mag EXCEPT ![t][c] = p]
  BY OfHeap DEF Types
<1>3. /\ p \in Seq(Objects) /\ Len(p) = Len(q) - 1
      /\ o \in Objects /\ o \in ToSet(q)
      /\ ToSet(p) = ToSet(q) \ {o} /\ Distinct(p)
  BY <1>1, PopStack
<1>4. o[1] = c
  BY <1>1, <1>3 DEF OfClass
<1>5. In(o, "mag", t)
  BY <1>3, <1>4, IsIn, OfHeap
<1> HIDE DEF p, q, o
<1>6. Len(p) <= MagCap /\ OfClass(p, c)
  BY <1>1, <1>3, Constants DEF OfClass
<1>7. /\ mag'[t] \in [Classes -> Seq(Objects)] /\ mag' = [mag EXCEPT ![t] = mag'[t]]
      /\ MagsFine(mag'[t]) /\ mag'[t][c] = p
      /\ \A d \in Classes : d # c => mag'[t][d] = mag[t][d]
  BY <1>2, <1>3, <1>6, MagSet
<1>8. ASSUME NEW r \in Objects
      PROVE  r \in ToSet(mag'[t][r[1]]) <=> r \in ToSet(mag[t][r[1]]) /\ r # o
  <2>1. CASE r[1] = c
    <3>1. mag'[t][r[1]] = p /\ mag[t][r[1]] = q
      BY <1>7, <2>1 DEF q
    <3> QED BY <1>3, <3>1
  <2>2. CASE r[1] # c
    BY <1>4, <1>7, <2>2, ObjectParts
  <2> QED BY <2>1, <2>2
<1> QED BY <1>3, <1>4, <1>5, <1>7, <1>8 DEF o, q

-----------------------------------------------------------------------------
(* Steps outside of a refill *)

\* A thread that is in no call, or at one of the places with empty hands.
LEMMA IdleFine ==
  ASSUME NEW t \in Threads, NEW x \in Jobs, NEW m, MagsFine(m), x.at \in {"idle", "flush", "exited"},
         x.out = <<>>, x.batch = <<>>, x.pend = <<>>
  PROVE  CallFine(t, x, m)
<1>1. Len(<<>>) <= 1 /\ x.at \notin Holding /\ x.at \in ThreadPlaces
  BY EmptyStack DEF Holding, ThreadPlaces, Freeing
<1>2. Shape(t, x, m)
  BY <1>1 DEF Shape, MagsFine, Holding, Freeing
<1> QED BY <1>2, EmptyStack DEF CallFine

\* An idle thread has nothing in its hands.
LEMMA IdleEmpty ==
  ASSUME HeapInv, NEW t \in Threads, job[t].at \in {"idle", "miss", "home", "publish", "exited"}
  PROVE  job[t].out = <<>> /\ job[t].batch = <<>> /\ job[t].pend = <<>>
<1>1. Shape(t, job[t], mag[t])
  BY CallNow
<1> QED BY <1>1 DEF Shape, Holding, Freeing

\* TryPop preserves the invariant.
LEMMA TryPopSafe ==
  ASSUME HeapInv, NEW t \in Threads, NEW c \in Classes, TryPop(t, c), UNCHANGED sup
  PROVE  HeapInv'
<1> DEFINE o == Last(mag[t][c])
<1>1. /\ job[t].at = "idle" /\ mag[t][c] # <<>> /\ mag' = [mag EXCEPT ![t][c] = Front(@)]
      /\ live' = live \cup {o}
      /\ UNCHANGED <<l2, alloc_words, free_words, list, hint, lock, class, home, free, cursor,
                     stopped, sup, job>>
  BY DEF TryPop, At, Top, bitmaps, table, arena
<1>2. /\ mag'[t] \in [Classes -> Seq(Objects)] /\ mag' = [mag EXCEPT ![t] = mag'[t]]
      /\ MagsFine(mag'[t])
      /\ o \in Objects /\ o[1] = c /\ In(o, "mag", t)
      /\ \A r \in Objects : r \in ToSet(mag'[t][r[1]]) <=> r \in ToSet(mag[t][r[1]]) /\ r # o
  BY <1>1, MagPop
<1> HIDE DEF o
<1>3. job[t] \in Jobs /\ job' = [job EXCEPT ![t] = job[t]]
  BY <1>1, CallNow
<1>4. CallFine(t, job[t], mag'[t])
  BY <1>1, <1>2, <1>3, IdleFine, IdleEmpty
<1>5. free_words' \in [Spans -> SUBSET Nat] /\ Bits' /\ live' \in SUBSET Objects /\ SlabsFine'
  BY <1>1, <1>2, WordsSame, SlabsSame, OfHeap DEF Types
<1>6. MovedOne(t, job[t], mag'[t], o, "live", NoThread)
  BY <1>1, <1>2, WordsSame, SlabsSame DEF MovedOne, MovedTo, Moved, In
<1>7. Target("live", NoThread, t) /\ Held(o, t)
  BY <1>2, HeldBy DEF Target
<1>8. job[t].at # "tile" /\ job[t].at \notin Holding \cup {"home", "publish"}
  BY <1>1 DEF Holding
<1>9. UNCHANGED <<alloc_words, list, hint, lock, class, home, free, cursor, stopped, sup>>
  BY <1>1
<1> QED BY <1>2, <1>3, <1>4, <1>5, <1>6, <1>7, <1>8, <1>9, QuietOne

\* PopL2 preserves the invariant.
LEMMA PopL2Safe ==
  ASSUME HeapInv, NEW t \in Threads, NEW c \in Classes, NEW p \in Cpus, PopL2(t, c, p), UNCHANGED sup
  PROVE  HeapInv'
<1> DEFINE o == Last(l2[p][c])
<1>1. /\ job[t].at = "idle" /\ l2[p][c] # <<>> /\ l2' = [l2 EXCEPT ![p][c] = Front(@)]
      /\ live' = live \cup {o}
      /\ UNCHANGED <<mag, alloc_words, free_words, list, hint, lock, class, home, free, cursor,
                     stopped, sup, job>>
  BY DEF PopL2, CanPop, At, Top, bitmaps, table, arena
<1>2. /\ o \in Objects /\ o[1] = c /\ In(o, "l2", p) /\ SlabsFine'
      /\ \A r \in Objects : \A v \in Cpus :
           r \in ToSet(l2'[v][r[1]]) <=> r \in ToSet(l2[v][r[1]]) /\ r # o
  BY <1>1, SlabPop
<1> HIDE DEF o
<1>3. /\ job[t] \in Jobs /\ job' = [job EXCEPT ![t] = job[t]] /\ CallFine(t, job[t], mag[t])
      /\ mag[t] \in [Classes -> Seq(Objects)] /\ mag' = [mag EXCEPT ![t] = mag[t]]
  BY <1>1, CallNow
<1>5. free_words' \in [Spans -> SUBSET Nat] /\ Bits' /\ live' \in SUBSET Objects
  BY <1>1, <1>2, WordsSame, OfHeap DEF Types
<1>6. MovedOne(t, job[t], mag[t], o, "live", NoThread)
  BY <1>1, <1>2, WordsSame DEF MovedOne, MovedTo, Moved, In
<1>7. Target("live", NoThread, t) /\ Held(o, t)
  BY <1>2, HeldBy DEF Target
<1>8. job[t].at # "tile" /\ job[t].at \notin Holding \cup {"home", "publish"}
  BY <1>1 DEF Holding
<1>9. UNCHANGED <<alloc_words, list, hint, lock, class, home, free, cursor, stopped, sup>>
  BY <1>1
<1> QED BY <1>2, <1>3, <1>5, <1>6, <1>7, <1>8, <1>9, QuietOne

\* MissL2 preserves the invariant.
LEMMA MissL2Safe ==
  ASSUME HeapInv, NEW t \in Threads, NEW c \in Classes, NEW p \in Cpus, <<t, c>> \in SlabUsers,
         MissL2(t, c, p), UNCHANGED sup
  PROVE  HeapInv'
<1> DEFINE x == [Idle EXCEPT !.at = "miss", !.class = c, !.via = "slab"]
<1>1. /\ job[t].at = "idle" /\ job' = [job EXCEPT ![t] = x]
      /\ UNCHANGED <<mag, l2, live, free_words,
                     alloc_words, list, hint, lock, class, home, free, cursor, stopped, sup>>
  BY DEF MissL2, At, Goto, bitmaps, table, arena
<1>2. /\ x \in Jobs /\ x.at = "miss" /\ x.class = c /\ x.via = "slab"
      /\ x.out = <<>> /\ x.batch = <<>> /\ x.pend = <<>>
  BY IdleJob DEF Jobs, Places, ThreadPlaces, Vias
<1> HIDE DEF x
<1>3. Shape(t, x, mag[t])
  <2>1. Len(<<>>) <= WantOf(x) /\ OfClass(<<>>, c)
    BY Constants, EmptyStack DEF WantOf, OfClass
  <2>2. MagsFine(mag[t]) /\ Allocates(t, c)
    BY CallNow DEF Allocates
  <2> QED BY <1>2, <2>1, <2>2 DEF Shape, MagsFine, Holding, Freeing, ThreadPlaces
<1>4. CallFine(t, x, mag[t])
  BY <1>2, <1>3, CallNow, EmptyStack DEF CallFine
<1>5. x.out = job[t].out /\ x.batch = job[t].batch /\ x.pend = job[t].pend
  BY <1>1, <1>2, IdleEmpty
<1>6. job[t].at # "tile" /\ x.at \notin Holding \cup {"home", "publish"}
  BY <1>1, <1>2 DEF Holding
<1> QED BY <1>1, <1>2, <1>4, <1>5, <1>6, QuietCall

\* Object o, which a thread has in its hands, goes to a slab or to its bitmap.
PutAway(o, k, a) ==
  /\ (k = "l2" /\ a \in Cpus) \/ (k = "free" /\ a = NoThread)
  /\ SlabsFine' /\ free_words' \in [Spans -> SUBSET Nat] /\ Bits'
  /\ \A r \in Objects :
       /\ InWord(alloc_words, r)' <=> InWord(alloc_words, r)
       /\ InWord(free_words, r)' <=> InWord(free_words, r) \/ (r = o /\ k = "free")
       /\ \A v \in Cpus :
            r \in ToSet(l2'[v][r[1]]) <=> r \in ToSet(l2[v][r[1]]) \/ (r = o /\ k = "l2" /\ a = v)

\* An object put away on a slab.
LEMMA OntoSlab ==
  ASSUME HeapInv, NEW o \in Objects, NEW k, NEW t, In(o, k, t), k \notin {"none", "l2"},
         NEW p \in Cpus, CanPush(p, o[1]), l2' = [l2 EXCEPT ![p][o[1]] = Push(@, o)],
         UNCHANGED <<class, alloc_words, free_words>>
  PROVE  PutAway(o, "l2", p)
<1>1. o \notin ToSet(l2[p][o[1]])
  BY DEF In
<1>2. /\ SlabsFine'
      /\ \A r \in Objects : \A v \in Cpus :
           r \in ToSet(l2'[v][r[1]]) <=> r \in ToSet(l2[v][r[1]]) \/ (r = o /\ v = p)
  BY <1>1, SlabPush
<1> QED BY <1>2, WordsSame DEF PutAway

\* An object put away in its bitmap.
LEMMA IntoWord ==
  ASSUME HeapInv, NEW o \in Objects, NEW k, NEW t, In(o, k, t), k # "none", Deposit(o),
         UNCHANGED <<class, alloc_words, l2>>
  PROVE  PutAway(o, "free", NoThread)
<1>1. class[o[2]] = o[1]
  BY Pinned
<1>2. /\ free_words' \in [Spans -> SUBSET Nat] /\ Bits'
      /\ \A r \in Objects : InWord(free_words, r)' <=> InWord(free_words, r) \/ r = o
      /\ \A r \in Objects : InWord(alloc_words, r)' <=> InWord(alloc_words, r)
  BY <1>1, DepositOne
<1> QED BY <1>2, SlabsSame DEF PutAway

\* An object put away on the slab, or in the bitmap when the slab is full or stopped.
LEMMA SlabOrWord ==
  ASSUME HeapInv, NEW o \in Objects, NEW k, NEW t, In(o, k, t), k \notin {"none", "l2"},
         NEW p \in Cpus, UNCHANGED <<class, alloc_words>>,
         \/ /\ CanPush(p, o[1])
            /\ l2' = [l2 EXCEPT ![p][o[1]] = Push(@, o)]
            /\ UNCHANGED free_words
         \/ /\ ~CanPush(p, o[1])
            /\ Deposit(o)
            /\ UNCHANGED l2
  PROVE  \E l, b : PutAway(o, l, b)
<1>1. CASE CanPush(p, o[1])
  BY <1>1, OntoSlab
<1>2. CASE ~CanPush(p, o[1])
  BY <1>2, IntoWord
<1> QED BY <1>1, <1>2

\* The object put away was the head of what the call had in its hands.
LEMMA PutAwaySafe ==
  ASSUME HeapInv, NEW t \in Threads, NEW x \in Jobs, job' = [job EXCEPT ![t] = x],
         CallFine(t, x, mag[t]), NEW o \in Objects, NEW k, In(o, k, t),
         k \in {"out", "batch"}, NEW l, NEW b, PutAway(o, l, b),
         UNCHANGED <<mag, live, alloc_words, list, hint, lock, class, home, free, cursor, stopped, sup>>,
         ToSet(x.out) = ToSet(job[t].out) \ {o}, ToSet(x.batch) = ToSet(job[t].batch) \ {o},
         ToSet(x.pend) = ToSet(job[t].pend),
         job[t].at # "tile", x.at \notin Holding \cup {"home", "publish"}
  PROVE  HeapInv'
<1>1. mag[t] \in [Classes -> Seq(Objects)] /\ mag' = [mag EXCEPT ![t] = mag[t]]
  BY CallNow
<1>2. /\ SlabsFine' /\ free_words' \in [Spans -> SUBSET Nat] /\ Bits' /\ live' \in SUBSET Objects
      /\ Target(l, b, t)
  BY OfHeap DEF PutAway, Types, Target
<1>3. Held(o, t)
  BY HeldBy
<1>4. MovedOne(t, x, mag[t], o, l, b)
  BY DEF PutAway, MovedOne, MovedTo, Moved, In
<1>5. UNCHANGED <<alloc_words, list, hint, lock, class, home, free, cursor, stopped, sup>>
  OBVIOUS
<1> QED BY <1>1, <1>2, <1>3, <1>4, <1>5, QuietOne

\* PushRest preserves the invariant.
LEMMA PushRestSafe ==
  ASSUME HeapInv, NEW t \in Threads, NEW p \in Cpus, PushRest(t, p), UNCHANGED sup
  PROVE  HeapInv'
<1> DEFINE j == job[t]
           o == Head(j.out)
           x == IF Len(j.out) > 1 THEN [j EXCEPT !.out = Tail(@)] ELSE Idle
<1>1. /\ j.at = "push" /\ job' = [job EXCEPT ![t] = x]
      /\ UNCHANGED <<mag, live, alloc_words, list, hint, lock, class, home, free, cursor, stopped, sup>>
      /\ \/ /\ CanPush(p, j.class)
            /\ l2' = [l2 EXCEPT ![p][j.class] = Push(@, o)]
            /\ UNCHANGED free_words
         \/ /\ ~CanPush(p, j.class)
            /\ Deposit(o)
            /\ UNCHANGED l2
  BY DEF PushRest, At, Goto, table, arena
<1>2. /\ j \in Jobs /\ Shape(t, j, mag[t]) /\ MagsFine(mag[t]) /\ Distinct(j.out)
      /\ j.out \in Seq(Objects)
  BY CallNow, OfJob DEF CallFine
<1>3. /\ j.class \in Classes /\ OfClass(j.out, j.class) /\ j.out # <<>>
      /\ j.batch = <<>> /\ j.pend = <<>>
  BY <1>1, <1>2 DEF Shape, Holding, Freeing
<1>4. /\ Tail(j.out) \in Seq(Objects) /\ Len(Tail(j.out)) = Len(j.out) - 1
      /\ o \in Objects /\ o \in ToSet(j.out)
      /\ ToSet(j.out) = ToSet(Tail(j.out)) \cup {o}
      /\ o \notin ToSet(Tail(j.out)) /\ Distinct(Tail(j.out))
  BY <1>2, <1>3, TailStack
<1>5. o[1] = j.class /\ In(o, "out", t)
  BY <1>3, <1>4, IsIn, OfHeap DEF OfClass
<1>6. PICK l, b : PutAway(o, l, b)
  <2> HIDE DEF o, x
  <2> QED BY <1>1, <1>4, <1>5, SlabOrWord
<1>7. /\ x \in Jobs /\ x.at \in {"push", "idle"} /\ x.batch = <<>> /\ x.pend = <<>>
      /\ x.out = Tail(j.out) /\ (x.at = "push" => x.class = j.class /\ x.out # <<>>)
  <2>1. Len(j.out) \in Nat /\ Len(j.out) >= 1
    BY <1>2, <1>3, StackType
  <2>2. CASE Len(j.out) > 1
    <3>1. x = [j EXCEPT !.out = Tail(@)]
      BY <2>2
    <3>2. Tail(j.out) # <<>>
      <4> DEFINE q == Tail(j.out)
                 n == Len(j.out)
      <4>1. Len(q) = n - 1 /\ n > 1 /\ n \in Nat
        BY <1>4, <2>1, <2>2
      <4> HIDE DEF q, n
      <4>2. q # <<>>
        BY <4>1, EmptyStack
      <4> QED BY <4>2 DEF q
    <3> HIDE DEF x
    <3> QED BY <1>1, <1>2, <1>3, <1>4, <3>1, <3>2 DEF Jobs
  <2>3. CASE ~(Len(j.out) > 1)
    <3>1. Tail(j.out) = <<>>
      BY <1>4, <2>1, <2>3, StackType
    <3> QED BY <2>3, <3>1, IdleJob
  <2> QED BY <2>2, <2>3
<1> HIDE DEF x, o
<1>8. CallFine(t, x, mag[t])
  <2>1. OfClass(x.out, j.class)
    BY <1>3, <1>4, <1>7 DEF OfClass
  <2>2. Shape(t, x, mag[t])
    <3>1. CASE x.at = "push"
      BY <1>2, <1>3, <1>7, <2>1, <3>1 DEF Shape, MagsFine, Holding, Freeing, ThreadPlaces
    <3>2. CASE x.at = "idle"
      <4>1. x = Idle
        BY <1>7, <1>1, <3>2 DEF x
      <4> QED BY <1>2, <4>1, IdleFine, IdleJob DEF CallFine
    <3> QED BY <1>7, <3>1, <3>2
  <2> QED BY <1>2, <1>4, <1>7, <2>2, EmptyStack DEF CallFine
<1>9. /\ ToSet(x.out) = ToSet(j.out) \ {o} /\ ToSet(x.batch) = ToSet(j.batch) \ {o}
      /\ ToSet(x.pend) = ToSet(j.pend)
  BY <1>3, <1>4, <1>7, EmptyStack
<1>10. j.at # "tile" /\ x.at \notin Holding \cup {"home", "publish"}
  BY <1>1, <1>7 DEF Holding
<1>11. "out" \in {"out", "batch"}
  OBVIOUS
<1> QED BY <1>1, <1>4, <1>5, <1>6, <1>7, <1>8, <1>9, <1>10, <1>11, PutAwaySafe

\* TryPush preserves the invariant.
LEMMA TryPushSafe ==
  ASSUME HeapInv, NEW t \in Threads, NEW o \in live, TryPush(t, o), UNCHANGED sup
  PROVE  HeapInv'
<1>1. /\ job[t].at = "idle" /\ Len(mag[t][o[1]]) < MagCap /\ live' = live \ {o}
      /\ mag' = [mag EXCEPT ![t][o[1]] = Push(@, o)]
      /\ UNCHANGED <<l2, alloc_words, free_words, list, hint, lock, class, home, free, cursor,
                     stopped, sup, job>>
  BY DEF TryPush, At, bitmaps, table, arena
<1>2. o \in Objects /\ In(o, "live", NoThread)
  BY IsIn, OfHeap DEF Types
<1>3. o \notin ToSet(mag[t][o[1]])
  BY <1>2 DEF In
<1>4. /\ mag'[t] \in [Classes -> Seq(Objects)] /\ mag' = [mag EXCEPT ![t] = mag'[t]]
      /\ MagsFine(mag'[t])
      /\ \A r \in Objects : r \in ToSet(mag'[t][r[1]]) <=> r \in ToSet(mag[t][r[1]]) \/ r = o
  BY <1>1, <1>2, <1>3, MagPush
<1>5. job[t] \in Jobs /\ job' = [job EXCEPT ![t] = job[t]]
  BY <1>1, CallNow
<1>6. CallFine(t, job[t], mag'[t])
  BY <1>1, <1>4, <1>5, IdleFine, IdleEmpty
<1>7. free_words' \in [Spans -> SUBSET Nat] /\ Bits' /\ live' \in SUBSET Objects /\ SlabsFine'
  BY <1>1, WordsSame, SlabsSame, OfHeap DEF Types
<1>8. MovedOne(t, job[t], mag'[t], o, "mag", t)
  BY <1>1, <1>2, <1>4, WordsSame, SlabsSame DEF MovedOne, MovedTo, Moved, In
<1>9. Target("mag", t, t) /\ Held(o, t)
  BY <1>2, HeldBy DEF Target
<1>10. job[t].at # "tile" /\ job[t].at \notin Holding \cup {"home", "publish"}
  BY <1>1 DEF Holding
<1>11. UNCHANGED <<alloc_words, list, hint, lock, class, home, free, cursor, stopped, sup>>
  BY <1>1
<1> QED BY <1>4, <1>5, <1>6, <1>7, <1>8, <1>9, <1>10, <1>11, QuietOne

\* DrainThenPush preserves the invariant.
LEMMA DrainThenPushSafe ==
  ASSUME HeapInv, NEW t \in Threads, NEW o \in live, DrainThenPush(t, o), UNCHANGED sup
  PROVE  HeapInv'
<1> DEFINE q == mag[t][o[1]]
           a == SubSeq(q, 1, DropN)
           b == SubSeq(q, DropN + 1, MagCap)
           x == [Idle EXCEPT !.at = "batch", !.class = o[1], !.batch = a]
<1>1. /\ job[t].at = "idle" /\ Len(q) = MagCap /\ live' = live \ {o}
      /\ mag' = [mag EXCEPT ![t][o[1]] = Append(b, o)]
      /\ job' = [job EXCEPT ![t] = x]
      /\ UNCHANGED <<l2, alloc_words, free_words, list, hint, lock, class, home, free, cursor,
                     stopped, sup>>
  BY DEF DrainThenPush, At, Goto, Push, bitmaps, table, arena
<1>2. o \in Objects /\ In(o, "live", NoThread)
  BY IsIn, OfHeap DEF Types
<1>3. o \notin ToSet(q) /\ o[1] \in Classes
  BY <1>2, ObjectParts DEF In
<1>4. q \in Seq(Objects) /\ Distinct(q) /\ OfClass(q, o[1])
  BY <1>3, OfThread
<1>5. DropN \in Nat /\ DropN <= Len(q) /\ DropN >= 1 /\ MagCap \in Nat
  BY <1>1, SubHeapAssumption
<1> HIDE DEF q
<1>6. /\ a \in Seq(Objects) /\ b \in Seq(Objects) /\ Len(a) = DropN /\ Len(b) = Len(q) - DropN
      /\ ToSet(q) = ToSet(a) \cup ToSet(b)
      /\ Distinct(q) => Distinct(a) /\ Distinct(b) /\ ToSet(a) \cap ToSet(b) = {}
  BY <1>1, <1>4, <1>5, CutStack
<1>7. /\ x \in Jobs /\ x.at = "batch" /\ x.class = o[1] /\ x.batch = a
      /\ x.out = <<>> /\ x.pend = <<>>
  <2> HIDE DEF a, b
  <2> QED BY <1>3, <1>6, IdleJob DEF Jobs, Places, ThreadPlaces, Freeing
<1> DEFINE p == Append(b, o)
<1> HIDE DEF a, b, x
<1>8. p \in Seq(Objects) /\ Len(p) = Len(b) + 1 /\ ToSet(p) = ToSet(b) \cup {o} /\ Distinct(p)
  BY <1>2, <1>3, <1>4, <1>6, PushStack
<1>9. Len(p) <= MagCap
  BY <1>1, <1>5, <1>6, <1>8
<1>10. mag' = [mag EXCEPT ![t][o[1]] = p]
  BY <1>1
<1> HIDE DEF p
<1>11. OfClass(p, o[1]) /\ OfClass(a, o[1])
  BY <1>4, <1>6, <1>8 DEF OfClass
<1>12. /\ mag'[t] \in [Classes -> Seq(Objects)] /\ mag' = [mag EXCEPT ![t] = mag'[t]]
       /\ MagsFine(mag'[t]) /\ mag'[t][o[1]] = p
       /\ \A d \in Classes : d # o[1] => mag'[t][d] = mag[t][d]
  BY <1>3, <1>8, <1>9, <1>10, <1>11, MagSet
<1>13. CallFine(t, x, mag'[t])
  <2>1. OfClass(<<>>, o[1]) /\ OneSpan(<<>>) /\ Distinct(<<>>)
    BY EmptyStack DEF OfClass, OneSpan
  <2>2. Shape(t, x, mag'[t])
    BY <1>3, <1>7, <1>11, <1>12, <2>1 DEF Shape, MagsFine, Holding, Freeing, ThreadPlaces
  <2> QED BY <1>4, <1>6, <1>7, <1>12, <2>1, <2>2 DEF CallFine
<1>14. free_words' \in [Spans -> SUBSET Nat] /\ Bits' /\ live' \in SUBSET Objects /\ SlabsFine'
  BY <1>1, WordsSame, SlabsSame, OfHeap DEF Types
<1>15. ASSUME NEW r \in Objects
       PROVE  r \in ToSet(mag'[t][r[1]]) <=>
                (r \in ToSet(mag[t][r[1]]) /\ r \notin ToSet(a)) \/ r = o
  <2>1. CASE r[1] = o[1]
    <3>1. mag'[t][r[1]] = p /\ mag[t][r[1]] = q
      BY <1>12, <2>1 DEF q
    <3> QED BY <1>3, <1>4, <1>6, <1>8, <3>1
  <2>2. CASE r[1] # o[1]
    <3>1. mag'[t][r[1]] = mag[t][r[1]] /\ r \notin ToSet(a) /\ r # o
      BY <1>11, <1>12, <2>2, ObjectParts DEF OfClass
    <3> QED BY <3>1
  <2> QED BY <2>1, <2>2
<1>16. \A r \in ToSet(a) : r \in Objects /\ In(r, "mag", t)
  <2> SUFFICES ASSUME NEW r \in ToSet(a) PROVE r \in Objects /\ In(r, "mag", t)
    OBVIOUS
  <2>1. r \in Objects /\ r[1] = o[1] /\ r \in ToSet(q)
    BY <1>6, <1>11, StackType DEF OfClass
  <2> QED BY <2>1, IsIn, OfHeap DEF q
<1>17. job[t].out = <<>> /\ job[t].batch = <<>> /\ job[t].pend = <<>>
  BY <1>1, IdleEmpty
<1> DEFINE M == ToSet(a)
           N == {o}
<1>18. Moved(t, x, mag'[t], M, "batch", t, N, "mag", t)
  <2> SUFFICES ASSUME NEW r \in Objects
               PROVE
    LET After(was, z, e) ==
          (was /\ r \notin M /\ r \notin N) \/ (r \in M /\ "batch" = z /\ t = e)
                                            \/ (r \in N /\ "mag" = z /\ t = e)
    IN /\ InWord(alloc_words, r)' <=> After(InWord(alloc_words, r), "alloc", NoThread)
       /\ InWord(free_words, r)' <=> After(InWord(free_words, r), "free", NoThread)
       /\ r \in live' <=> After(r \in live, "live", NoThread)
       /\ r \in ToSet(mag'[t][r[1]]) <=> After(r \in ToSet(mag[t][r[1]]), "mag", t)
       /\ r \in ToSet(x.out) <=> After(r \in ToSet(job[t].out), "out", t)
       /\ r \in ToSet(x.batch) <=> After(r \in ToSet(job[t].batch), "batch", t)
       /\ r \in ToSet(x.pend) <=> After(r \in ToSet(job[t].pend), "pend", t)
       /\ \A v \in Cpus : r \in ToSet(l2'[v][r[1]]) <=> After(r \in ToSet(l2[v][r[1]]), "l2", v)
    BY DEF Moved
  <2>1. r \in ToSet(a) => In(r, "mag", t)
    BY <1>16
  <2>2. r = o => In(r, "live", NoThread)
    BY <1>2
  <2>3. /\ InWord(alloc_words, r)' <=> InWord(alloc_words, r)
        /\ InWord(free_words, r)' <=> InWord(free_words, r)
        /\ \A v \in Cpus : r \in ToSet(l2'[v][r[1]]) <=> r \in ToSet(l2[v][r[1]])
        /\ r \in live' <=> r \in live /\ r # o
    BY <1>1, WordsSame, SlabsSame
  <2>4. ToSet(<<>>) = {}
    BY EmptyStack
  <2> QED BY <1>7, <1>15, <1>17, <2>1, <2>2, <2>3, <2>4 DEF In
<1>19. M \cap N = {} /\ Target("batch", t, t) /\ Target("mag", t, t)
  BY <1>3, <1>6 DEF Target
<1>20. \A r \in M \cup N : Held(r, t)
  BY <1>2, <1>16, HeldBy
<1>21. job[t].at # "tile" /\ x.at \notin Holding \cup {"home", "publish"}
  BY <1>1, <1>7 DEF Holding
<1>22. job' = [job EXCEPT ![t] = x]
       /\ UNCHANGED <<alloc_words, list, hint, lock, class, home, free, cursor, stopped, sup>>
  BY <1>1
<1> HIDE DEF M, N
<1>23. Carried(t, x, mag'[t], M, "batch", t, N, "mag", t)
  BY <1>18, <1>19, <1>20 DEF Carried
<1> QED BY <1>7, <1>12, <1>13, <1>14, <1>21, <1>22, <1>23, QuietMoves

\* DeallocClass preserves the invariant.
LEMMA DeallocClassSafe ==
  ASSUME HeapInv, NEW t \in Threads, NEW o \in live, DeallocClass(t, o), UNCHANGED sup
  PROVE  HeapInv'
<1> DEFINE x == [Idle EXCEPT !.at = "one", !.batch = <<o>>]
<1>1. /\ job[t].at = "idle" /\ live' = live \ {o} /\ job' = [job EXCEPT ![t] = x]
      /\ UNCHANGED <<mag, l2, alloc_words, free_words, list, hint, lock, class, home, free, cursor,
                     stopped, sup>>
  BY DEF DeallocClass, At, Goto, bitmaps, table, arena
<1>2. o \in Objects /\ In(o, "live", NoThread)
  BY IsIn, OfHeap DEF Types
<1> DEFINE q == <<o>>
<1>3. q \in Seq(Objects) /\ Len(q) <= 1 /\ ToSet(q) = {o} /\ Distinct(q)
  BY <1>2, OneStack
<1>4. x = [Idle EXCEPT !.at = "one", !.batch = q]
  OBVIOUS
<1> HIDE DEF q, x
<1>5. /\ x \in Jobs /\ x.at = "one" /\ x.batch = q /\ x.out = <<>> /\ x.pend = <<>>
  BY <1>3, <1>4, IdleJob DEF Jobs, Places, ThreadPlaces, Freeing
<1>6. CallFine(t, x, mag[t])
  <2>1. MagsFine(mag[t])
    BY CallNow
  <2>2. Shape(t, x, mag[t])
    BY <1>3, <1>5, <2>1 DEF Shape, MagsFine, Holding, Freeing, ThreadPlaces
  <2> QED BY <1>3, <1>5, <2>1, <2>2, EmptyStack DEF CallFine
<1>7. free_words' \in [Spans -> SUBSET Nat] /\ Bits' /\ live' \in SUBSET Objects /\ SlabsFine'
  BY <1>1, WordsSame, SlabsSame, OfHeap DEF Types
<1>8. MovedOne(t, x, mag[t], o, "batch", t)
  <2>1. job[t].out = <<>> /\ job[t].batch = <<>> /\ job[t].pend = <<>> /\ ToSet(<<>>) = {}
    BY <1>1, IdleEmpty, EmptyStack
  <2> QED BY <1>1, <1>2, <1>3, <1>5, <2>1, WordsSame, SlabsSame DEF MovedOne, MovedTo, Moved, In
<1>9. Target("batch", t, t) /\ Held(o, t)
  BY <1>2, HeldBy DEF Target
<1>10. job[t].at # "tile" /\ x.at \notin Holding \cup {"home", "publish"}
  BY <1>1, <1>5 DEF Holding
<1>11. /\ UNCHANGED <<alloc_words, list, hint, lock, class, home, free, cursor, stopped, sup>>
       /\ mag[t] \in [Classes -> Seq(Objects)] /\ mag' = [mag EXCEPT ![t] = mag[t]]
       /\ job' = [job EXCEPT ![t] = x]
  BY <1>1, CallNow
<1> QED BY <1>5, <1>6, <1>7, <1>8, <1>9, <1>10, <1>11, QuietOne

\* FlushAll preserves the invariant.
LEMMA FlushAllSafe ==
  ASSUME HeapInv, NEW t \in Threads, FlushAll(t), UNCHANGED sup
  PROVE  HeapInv'
<1> DEFINE x == [Idle EXCEPT !.at = "flush"]
<1>1. /\ job[t].at = "idle" /\ job' = [job EXCEPT ![t] = x]
      /\ UNCHANGED <<mag, l2, live, free_words,
                     alloc_words, list, hint, lock, class, home, free, cursor, stopped, sup>>
  BY DEF FlushAll, At, Goto, bitmaps, table, arena
<1>2. /\ x \in Jobs /\ x.at = "flush" /\ x.out = <<>> /\ x.batch = <<>> /\ x.pend = <<>>
  BY IdleJob DEF Jobs, Places, ThreadPlaces, Freeing
<1> HIDE DEF x
<1>3. CallFine(t, x, mag[t])
  BY <1>2, CallNow, IdleFine
<1>4. x.out = job[t].out /\ x.batch = job[t].batch /\ x.pend = job[t].pend
  BY <1>1, <1>2, IdleEmpty
<1>5. job[t].at # "tile" /\ x.at \notin Holding \cup {"home", "publish"}
  BY <1>1, <1>2 DEF Holding
<1> QED BY <1>1, <1>2, <1>3, <1>4, <1>5, QuietCall

\* OneEnd preserves the invariant.
LEMMA OneEndSafe ==
  ASSUME HeapInv, NEW t \in Threads, OneEnd(t), UNCHANGED sup
  PROVE  HeapInv'
<1>1. /\ job[t].at = "one" /\ job[t].batch = <<>> /\ job' = [job EXCEPT ![t] = Idle]
      /\ UNCHANGED <<mag, l2, live, free_words,
                     alloc_words, list, hint, lock, class, home, free, cursor, stopped, sup>>
  BY DEF OneEnd, At, Goto, bitmaps, table, arena
<1>2. CallFine(t, Idle, mag[t])
  BY CallNow, IdleFine, IdleJob
<1>3. job[t].out = <<>> /\ job[t].pend = <<>>
  BY <1>1, CallNow DEF Shape, Holding, Freeing
<1>4. Idle.at \notin Holding \cup {"home", "publish"} /\ job[t].at # "tile"
  BY <1>1, IdleJob DEF Holding
<1> QED BY <1>1, <1>2, <1>3, <1>4, IdleJob, QuietCall

\* A thread in the middle of a free.
LEMMA FreeingFine ==
  ASSUME NEW t \in Threads, NEW x \in Jobs, NEW m, MagsFine(m), x.at \in Freeing,
         x.out = <<>>, Distinct(x.batch), Distinct(x.pend),
         x.at = "batch" => /\ x.class \in Classes /\ OfClass(x.batch, x.class)
                           /\ OfClass(x.pend, x.class) /\ OneSpan(x.pend),
         x.at # "batch" => x.pend = <<>> /\ Len(x.batch) <= 1
  PROVE  CallFine(t, x, m)
<1>1. Shape(t, x, m)
  BY DEF Shape, MagsFine, Holding, Freeing, ThreadPlaces
<1> QED BY <1>1, EmptyStack DEF CallFine

\* What a thread in a free, that goes on at place back, has in its hands.
FreeHands(t, back) ==
  /\ back \in Freeing /\ job[t].out = <<>>
  /\ Distinct(job[t].batch) /\ Distinct(job[t].pend)
  /\ back = "batch" => /\ job[t].class \in Classes /\ OfClass(job[t].batch, job[t].class)
                       /\ OfClass(job[t].pend, job[t].class) /\ OneSpan(job[t].pend)
  /\ back # "batch" => job[t].pend = <<>> /\ Len(job[t].batch) <= 1

\* What a thread that frees has in its hands.
LEMMA InFreeing ==
  ASSUME HeapInv, NEW t \in Threads
  PROVE  /\ job[t].at \in Freeing => FreeHands(t, job[t].at)
         /\ job[t].at = "drain" => FreeHands(t, job[t].via) /\ job[t].batch # <<>>
<1>1. Shape(t, job[t], mag[t]) /\ CallFine(t, job[t], mag[t])
  BY CallNow
<1>2. Distinct(job[t].batch) /\ Distinct(job[t].pend)
  BY <1>1 DEF CallFine
<1> QED BY <1>1, <1>2 DEF Shape, FreeHands, Holding, Freeing

\* The object that is freed next.
LEMMA NextFreed ==
  ASSUME HeapInv, NEW t \in Threads, job[t].batch # <<>>
  PROVE  LET o == Head(job[t].batch)
             q == Tail(job[t].batch)
         IN  /\ o \in Objects /\ In(o, "batch", t) /\ q \in Seq(Objects) /\ Distinct(q)
             /\ ToSet(q) = ToSet(job[t].batch) \ {o}
             /\ \A c : OfClass(job[t].batch, c) => OfClass(q, c) /\ o[1] = c
             /\ Len(job[t].batch) <= 1 => Len(q) <= 1 /\ q = <<>>
<1> DEFINE o == Head(job[t].batch)
           q == Tail(job[t].batch)
           p == job[t].batch
<1>1. p \in Seq(Objects) /\ Distinct(p)
  BY CallNow, OfJob DEF CallFine
<1>2. /\ q \in Seq(Objects) /\ Len(q) = Len(p) - 1 /\ o \in Objects /\ o \in ToSet(p)
      /\ ToSet(p) = ToSet(q) \cup {o} /\ o \notin ToSet(q) /\ Distinct(q)
  BY <1>1, TailStack
<1>3. In(o, "batch", t)
  BY <1>2, IsIn, OfHeap
<1>4. Len(p) <= 1 => Len(q) <= 1 /\ q = <<>>
  <2> HIDE DEF q, p
  <2> QED BY <1>1, <1>2, StackType
<1> HIDE DEF q, p, o
<1>5. \A c : OfClass(p, c) => OfClass(q, c) /\ o[1] = c
  BY <1>2 DEF OfClass
<1>6. ToSet(q) = ToSet(p) \ {o}
  BY <1>2
<1> QED BY <1>2, <1>3, <1>4, <1>5, <1>6 DEF q, p, o

\* FlushNext preserves the invariant.
LEMMA FlushNextSafe ==
  ASSUME HeapInv, NEW t \in Threads, FlushNext(t), UNCHANGED sup
  PROVE  HeapInv'
<1>1. /\ job[t].at = "flush" /\ job[t].batch = <<>>
      /\ UNCHANGED <<l2, alloc_words, free_words, list, hint, lock, class, home, free, cursor,
                     stopped, sup, live>>
      /\ \/ \E c \in Classes :
              /\ mag[t][c] # <<>>
              /\ mag' = [mag EXCEPT ![t][c] = Front(@)]
              /\ job' = [job EXCEPT ![t] = [job[t] EXCEPT !.batch = <<Last(mag[t][c])>>]]
         \/ /\ UNCHANGED mag
            /\ job' = [job EXCEPT ![t] = [Idle EXCEPT !.at = "exited"]]
  BY DEF FlushNext, At, Goto, Top, bitmaps, table, arena
<1>2. job[t].out = <<>> /\ job[t].pend = <<>> /\ job[t] \in Jobs
  BY <1>1, InFreeing, CallNow DEF Freeing, FreeHands
<1>3. ASSUME NEW c \in Classes, mag[t][c] # <<>>, mag' = [mag EXCEPT ![t][c] = Front(@)],
             job' = [job EXCEPT ![t] = [job[t] EXCEPT !.batch = <<Last(mag[t][c])>>]]
      PROVE  HeapInv'
  <2> DEFINE o == Last(mag[t][c])
             q == <<o>>
             x == [job[t] EXCEPT !.batch = q]
  <2>1. /\ mag'[t] \in [Classes -> Seq(Objects)] /\ mag' = [mag EXCEPT ![t] = mag'[t]]
        /\ MagsFine(mag'[t])
        /\ o \in Objects /\ o[1] = c /\ In(o, "mag", t)
        /\ \A r \in Objects : r \in ToSet(mag'[t][r[1]]) <=> r \in ToSet(mag[t][r[1]]) /\ r # o
    BY <1>3, MagPop
  <2>2. job' = [job EXCEPT ![t] = x]
    BY <1>3
  <2> HIDE DEF o
  <2>3. q \in Seq(Objects) /\ Len(q) <= 1 /\ ToSet(q) = {o} /\ Distinct(q)
    BY <2>1, OneStack
  <2> HIDE DEF q
  <2>4. x \in Jobs /\ x.at = "flush" /\ x.out = <<>> /\ x.pend = <<>> /\ x.batch = q
    BY <1>1, <1>2, <2>3 DEF Jobs
  <2> HIDE DEF x
  <2>5. CallFine(t, x, mag'[t])
    BY <2>1, <2>3, <2>4, EmptyStack, FreeingFine DEF Freeing
  <2>6. free_words' \in [Spans -> SUBSET Nat] /\ Bits' /\ live' \in SUBSET Objects /\ SlabsFine'
    BY <1>1, WordsSame, SlabsSame, OfHeap DEF Types
  <2>7. MovedOne(t, x, mag'[t], o, "batch", t)
    <3>1. ToSet(<<>>) = {}
      BY EmptyStack
    <3> QED BY <1>1, <1>2, <2>1, <2>3, <2>4, <3>1, WordsSame, SlabsSame
            DEF MovedOne, MovedTo, Moved, In
  <2>8. Target("batch", t, t) /\ Held(o, t)
    BY <2>1, HeldBy DEF Target
  <2>9. job[t].at # "tile" /\ x.at \notin Holding \cup {"home", "publish"}
    BY <1>1, <2>4 DEF Holding
  <2>10. UNCHANGED <<alloc_words, list, hint, lock, class, home, free, cursor, stopped, sup>>
    BY <1>1
  <2> QED BY <2>1, <2>2, <2>4, <2>5, <2>6, <2>7, <2>8, <2>9, <2>10, QuietOne
<1>4. ASSUME UNCHANGED mag, job' = [job EXCEPT ![t] = [Idle EXCEPT !.at = "exited"]]
      PROVE  HeapInv'
  <2> DEFINE x == [Idle EXCEPT !.at = "exited"]
  <2>1. /\ x \in Jobs /\ x.at = "exited" /\ x.out = <<>> /\ x.batch = <<>> /\ x.pend = <<>>
        /\ job' = [job EXCEPT ![t] = x]
    BY <1>4, IdleJob DEF Jobs, Places, ThreadPlaces
  <2> HIDE DEF x
  <2>2. CallFine(t, x, mag[t])
    BY <2>1, CallNow, IdleFine
  <2>3. x.out = job[t].out /\ x.batch = job[t].batch /\ x.pend = job[t].pend
    BY <1>1, <1>2, <2>1
  <2>4. job[t].at # "tile" /\ x.at \notin Holding \cup {"home", "publish"}
    BY <1>1, <2>1 DEF Holding
  <2>5. UNCHANGED <<mag, l2, live, free_words,
                    alloc_words, list, hint, lock, class, home, free, cursor, stopped, sup>>
    BY <1>1, <1>4
  <2> QED BY <2>1, <2>2, <2>3, <2>4, <2>5, QuietCall
<1> QED BY <1>1, <1>3, <1>4

\* OneRemote preserves the invariant.
LEMMA OneRemoteSafe ==
  ASSUME HeapInv, NEW t \in Threads, OneRemote(t), UNCHANGED sup
  PROVE  HeapInv'
<1> DEFINE j == job[t]
           o == Head(j.batch)
           x == [j EXCEPT !.batch = <<>>]
<1>1. /\ j.at \in {"one", "flush"} /\ j.batch # <<>> /\ Deposit(o) /\ job' = [job EXCEPT ![t] = x]
      /\ UNCHANGED <<mag, live, alloc_words, list, hint, lock, class, home, free, cursor, stopped, sup>>
      /\ UNCHANGED l2
  BY DEF OneRemote, Goto, table, arena
<1>2. /\ j.out = <<>> /\ j.pend = <<>> /\ Len(j.batch) <= 1 /\ j \in Jobs /\ MagsFine(mag[t])
  BY <1>1, InFreeing, CallNow DEF Freeing, FreeHands
<1> DEFINE q == Tail(j.batch)
<1>3. /\ o \in Objects /\ In(o, "batch", t) /\ q \in Seq(Objects) /\ Distinct(q)
      /\ ToSet(q) = ToSet(j.batch) \ {o}
      /\ \A c : OfClass(j.batch, c) => OfClass(q, c) /\ o[1] = c
      /\ Len(j.batch) <= 1 => Len(q) <= 1 /\ q = <<>>
  BY <1>1, NextFreed
<1> HIDE DEF o, q
<1>4. /\ x \in Jobs /\ x.at = j.at /\ x.out = <<>> /\ x.pend = <<>> /\ x.batch = <<>>
  BY <1>2, EmptyStack DEF Jobs
<1> HIDE DEF x
<1>5. CallFine(t, x, mag[t])
  BY <1>1, <1>2, <1>4, EmptyStack, FreeingFine DEF Freeing
<1>6. PutAway(o, "free", NoThread)
  BY <1>1, <1>3, IntoWord
<1>7. /\ ToSet(x.out) = ToSet(j.out) \ {o} /\ ToSet(x.batch) = ToSet(j.batch) \ {o}
      /\ ToSet(x.pend) = ToSet(j.pend)
  BY <1>2, <1>3, <1>4, EmptyStack
<1>8. j.at # "tile" /\ x.at \notin Holding \cup {"home", "publish"} /\ "batch" \in {"out", "batch"}
  BY <1>1, <1>4 DEF Holding
<1> QED BY <1>1, <1>3, <1>4, <1>5, <1>6, <1>7, <1>8, PutAwaySafe

\* FreeLocal preserves the invariant.
LEMMA FreeLocalSafe ==
  ASSUME HeapInv, NEW t \in Threads, NEW p \in Cpus, job[t].at \in Freeing,
         FreeLocal(t, p, job[t].at), UNCHANGED sup
  PROVE  HeapInv'
<1> DEFINE j == job[t]
           o == Head(j.batch)
           q == Tail(j.batch)
           x == [j EXCEPT !.batch = q]
           n == IF Batch \div 2 > 1 THEN Batch \div 2 ELSE 1
           y == [j EXCEPT !.at = "drain", !.via = j.at, !.k = n]
<1>1. /\ j.batch # <<>>
      /\ UNCHANGED <<mag, live, alloc_words, list, hint, lock, class, home, free, cursor, stopped, sup>>
      /\ UNCHANGED free_words
      /\ \/ /\ CanPush(p, o[1])
            /\ l2' = [l2 EXCEPT ![p][o[1]] = Push(@, o)]
            /\ job' = [job EXCEPT ![t] = x]
         \/ job' = [job EXCEPT ![t] = y] /\ UNCHANGED l2
  BY DEF FreeLocal, Goto, bitmaps, table, arena
<1>2. /\ j.out = <<>> /\ j \in Jobs /\ MagsFine(mag[t]) /\ j.at \in Freeing
      /\ Distinct(j.batch) /\ Distinct(j.pend)
      /\ j.at = "batch" => /\ j.class \in Classes /\ OfClass(j.batch, j.class)
                           /\ OfClass(j.pend, j.class) /\ OneSpan(j.pend)
      /\ j.at # "batch" => j.pend = <<>> /\ Len(j.batch) <= 1
  BY InFreeing, CallNow DEF FreeHands
<1>3. /\ o \in Objects /\ In(o, "batch", t) /\ q \in Seq(Objects) /\ Distinct(q)
      /\ ToSet(q) = ToSet(j.batch) \ {o}
      /\ \A c : OfClass(j.batch, c) => OfClass(q, c) /\ o[1] = c
      /\ Len(j.batch) <= 1 => Len(q) <= 1 /\ q = <<>>
  BY <1>1, NextFreed
<1>4. ASSUME CanPush(p, o[1]), l2' = [l2 EXCEPT ![p][o[1]] = Push(@, o)],
             job' = [job EXCEPT ![t] = x]
      PROVE  HeapInv'
  <2> HIDE DEF o, q
  <2>1. /\ x \in Jobs /\ x.at = j.at /\ x.out = <<>> /\ x.pend = j.pend /\ x.batch = q
        /\ x.class = j.class
    BY <1>2, <1>3 DEF Jobs
  <2> HIDE DEF x
  <2>2. CallFine(t, x, mag[t])
    BY <1>2, <1>3, <2>1, FreeingFine
  <2>3. PutAway(o, "l2", p)
    BY <1>1, <1>3, <1>4, OntoSlab
  <2>4. /\ ToSet(x.out) = ToSet(j.out) \ {o} /\ ToSet(x.batch) = ToSet(j.batch) \ {o}
        /\ ToSet(x.pend) = ToSet(j.pend)
    BY <1>2, <1>3, <2>1, EmptyStack
  <2>5. j.at # "tile" /\ x.at \notin Holding \cup {"home", "publish"} /\ "batch" \in {"out", "batch"}
    BY <2>1 DEF Holding, Freeing
  <2> QED BY <1>1, <1>3, <1>4, <2>1, <2>2, <2>3, <2>4, <2>5, PutAwaySafe
<1>5. ASSUME job' = [job EXCEPT ![t] = y], UNCHANGED l2
      PROVE  HeapInv'
  <2>1. n \in Nat
    BY Constants
  <2> HIDE DEF n
  <2>2. /\ y \in Jobs /\ y.at = "drain" /\ y.via = j.at /\ y.out = j.out /\ y.pend = j.pend
        /\ y.batch = j.batch /\ y.class = j.class
    BY <1>2, <2>1 DEF Jobs, Places, ThreadPlaces, Vias
  <2> HIDE DEF y
  <2>3. Shape(t, y, mag[t])
    BY <1>1, <1>2, <2>2 DEF Shape, MagsFine, Holding, Freeing, ThreadPlaces
  <2>4. CallFine(t, y, mag[t])
    BY <1>2, <2>2, <2>3, EmptyStack DEF CallFine
  <2>5. j.at # "tile" /\ y.at \notin Holding \cup {"home", "publish"}
    BY <2>2 DEF Holding, Freeing
  <2>6. UNCHANGED <<mag, l2, live, free_words,
                    alloc_words, list, hint, lock, class, home, free, cursor, stopped, sup>>
    BY <1>1, <1>5
  <2> QED BY <1>5, <2>2, <2>4, <2>5, <2>6, QuietCall
<1> QED BY <1>1, <1>4, <1>5

\* A shard is one of the shards.
LEMMA ShardTypes ==
  ASSUME Types
  PROVE  /\ \A t \in Threads : Shard(t) \in Shards
         /\ \A s \in Spans : HomeShard(s) \in Shards
<1>1. \A a \in Nat, b \in Nat : b > 0 => a % b \in 0 .. b - 1
  OBVIOUS
<1>2. NumShards \in Nat /\ NumShards > 0 /\ HomeMod \in Nat
  BY Constants
<1>3. ASSUME NEW t \in Threads PROVE Shard(t) \in Shards
  <2>1. ShardId[t] \in Nat
    BY SubHeapAssumption
  <2> QED BY <1>1, <1>2, <2>1 DEF Shard, Shards
<1>4. ASSUME NEW s \in Spans PROVE HomeShard(s) \in Shards
  <2>1. home[s] \in Nat
    BY <1>2 DEF Types
  <2> QED BY <1>1, <1>2, <2>1 DEF HomeShard, Shards
<1> QED BY <1>3, <1>4

\* DrainPop preserves the invariant.
LEMMA DrainPopSafe ==
  ASSUME HeapInv, NEW t \in Threads, NEW p \in Cpus, DrainPop(t, p), UNCHANGED sup
  PROVE  HeapInv'
<1> DEFINE j == job[t]
           c == Head(j.batch)[1]
           o == Last(l2[p][c])
           x == [j EXCEPT !.k = @ - 1]
           y == [j EXCEPT !.k = 0]
<1>1. /\ j.at = "drain" /\ j.k > 0
      /\ UNCHANGED <<mag, live, alloc_words, list, hint, lock, class, home, free, cursor, stopped, sup>>
      /\ \/ /\ l2[p][c] # <<>>
            /\ Deposit(o)
            /\ l2' = [l2 EXCEPT ![p][c] = Front(@)]
            /\ job' = [job EXCEPT ![t] = x]
         \/ job' = [job EXCEPT ![t] = y] /\ UNCHANGED <<l2, free_words>>
  BY DEF DrainPop, CanPop, SlabPopped, Top, Goto, At, table, arena
<1>2. j \in Jobs /\ Shape(t, j, mag[t]) /\ CallFine(t, j, mag[t]) /\ MagsFine(mag[t])
  BY CallNow
<1>3. j.batch # <<>>
  BY <1>1, InFreeing
<1>4. c \in Classes
  BY <1>3, NextFreed, ObjectParts
<1>5. ASSUME NEW n \in Nat, NEW z, z = [j EXCEPT !.k = n]
      PROVE  /\ z \in Jobs /\ z.at = j.at /\ z.out = j.out /\ z.batch = j.batch /\ z.pend = j.pend
             /\ CallFine(t, z, mag[t])
  <2>1. /\ z \in Jobs /\ z.at = j.at /\ z.via = j.via /\ z.out = j.out /\ z.batch = j.batch
        /\ z.pend = j.pend /\ z.class = j.class /\ z.todo = j.todo /\ z.taken = j.taken
    BY <1>2, <1>5 DEF Jobs
  <2>2. Shape(t, z, mag[t])
    BY <1>1, <1>2, <2>1 DEF Shape, Holding, Freeing
  <2> QED BY <1>2, <2>1, <2>2 DEF CallFine
<1>6. ASSUME l2[p][c] # <<>>, Deposit(o), l2' = [l2 EXCEPT ![p][c] = Front(@)],
             job' = [job EXCEPT ![t] = x]
      PROVE  HeapInv'
  <2>1. /\ o \in Objects /\ o[1] = c /\ In(o, "l2", p) /\ SlabsFine'
        /\ \A r \in Objects : \A v \in Cpus :
             r \in ToSet(l2'[v][r[1]]) <=> r \in ToSet(l2[v][r[1]]) /\ r # o
    <3> HIDE DEF c
    <3> QED BY <1>4, <1>6, SlabPop
  <2> HIDE DEF o, c
  <2>2. class[o[2]] = o[1]
    BY <2>1, Pinned
  <2>3. /\ free_words' \in [Spans -> SUBSET Nat] /\ Bits'
        /\ \A r \in Objects : InWord(free_words, r)' <=> InWord(free_words, r) \/ r = o
        /\ \A r \in Objects : InWord(alloc_words, r)' <=> InWord(alloc_words, r)
    BY <1>1, <1>6, <2>1, <2>2, DepositOne
  <2>4. j.k - 1 \in Nat /\ x = [j EXCEPT !.k = j.k - 1]
    BY <1>1, <1>2, OfJob
  <2> HIDE DEF x
  <2>5. /\ x \in Jobs /\ x.at = j.at /\ x.out = j.out /\ x.batch = j.batch /\ x.pend = j.pend
        /\ CallFine(t, x, mag[t])
    BY <1>5, <2>4
  <2>6. MovedOne(t, x, mag[t], o, "free", NoThread)
    BY <1>1, <2>1, <2>3, <2>5 DEF MovedOne, MovedTo, Moved, In
  <2>7. Target("free", NoThread, t) /\ Held(o, t)
    BY <2>1, HeldBy DEF Target
  <2>8. j.at # "tile" /\ x.at \notin Holding \cup {"home", "publish"}
    BY <1>1, <2>5 DEF Holding
  <2>9. /\ UNCHANGED <<alloc_words, list, hint, lock, class, home, free, cursor, stopped, sup>>
        /\ mag[t] \in [Classes -> Seq(Objects)] /\ mag' = [mag EXCEPT ![t] = mag[t]]
        /\ live' \in SUBSET Objects
    BY <1>1, CallNow, OfHeap DEF Types
  <2> QED BY <1>6, <2>1, <2>3, <2>5, <2>6, <2>7, <2>8, <2>9, QuietOne
<1>7. ASSUME job' = [job EXCEPT ![t] = y], UNCHANGED <<l2, free_words>>
      PROVE  HeapInv'
  <2>1. y = [j EXCEPT !.k = 0] /\ 0 \in Nat
    OBVIOUS
  <2> HIDE DEF y
  <2>2. /\ y \in Jobs /\ y.at = j.at /\ y.out = j.out /\ y.batch = j.batch /\ y.pend = j.pend
        /\ CallFine(t, y, mag[t])
    BY <1>5, <2>1
  <2>3. j.at # "tile" /\ y.at \notin Holding \cup {"home", "publish"}
    BY <1>1, <2>2 DEF Holding
  <2>4. UNCHANGED <<mag, l2, live, free_words,
                    alloc_words, list, hint, lock, class, home, free, cursor, stopped, sup>>
    BY <1>1, <1>7
  <2> QED BY <1>7, <2>2, <2>3, <2>4, QuietCall
<1> QED BY <1>1, <1>6, <1>7

\* DrainEnd preserves the invariant.
LEMMA DrainEndSafe ==
  ASSUME HeapInv, NEW t \in Threads, NEW p \in Cpus, DrainEnd(t, p), UNCHANGED sup
  PROVE  HeapInv'
<1> DEFINE j == job[t]
           o == Head(j.batch)
           q == Tail(j.batch)
           x == [j EXCEPT !.at = j.via, !.via = "mag", !.batch = q]
<1>1. /\ j.at = "drain" /\ job' = [job EXCEPT ![t] = x]
      /\ UNCHANGED <<mag, live, alloc_words, list, hint, lock, class, home, free, cursor, stopped, sup>>
      /\ \/ /\ CanPush(p, o[1])
            /\ l2' = [l2 EXCEPT ![p][o[1]] = Push(@, o)]
            /\ UNCHANGED free_words
         \/ /\ ~CanPush(p, o[1])
            /\ Deposit(o)
            /\ UNCHANGED l2
  BY DEF DrainEnd, Goto, At, table, arena
<1>2. /\ j.out = <<>> /\ j \in Jobs /\ MagsFine(mag[t]) /\ j.via \in Freeing /\ j.batch # <<>>
      /\ Distinct(j.batch) /\ Distinct(j.pend)
      /\ j.via = "batch" => /\ j.class \in Classes /\ OfClass(j.batch, j.class)
                            /\ OfClass(j.pend, j.class) /\ OneSpan(j.pend)
      /\ j.via # "batch" => j.pend = <<>> /\ Len(j.batch) <= 1
  BY <1>1, InFreeing, CallNow DEF FreeHands
<1>3. /\ o \in Objects /\ In(o, "batch", t) /\ q \in Seq(Objects) /\ Distinct(q)
      /\ ToSet(q) = ToSet(j.batch) \ {o}
      /\ \A d : OfClass(j.batch, d) => OfClass(q, d) /\ o[1] = d
      /\ Len(j.batch) <= 1 => Len(q) <= 1 /\ q = <<>>
  BY <1>2, NextFreed
<1> HIDE DEF o, q
<1>4. /\ x \in Jobs /\ x.at = j.via /\ x.out = <<>> /\ x.pend = j.pend /\ x.batch = q
      /\ x.class = j.class
  BY <1>2, <1>3 DEF Jobs, Places, ThreadPlaces, Vias, Freeing
<1> HIDE DEF x
<1>5. CallFine(t, x, mag[t])
  BY <1>2, <1>3, <1>4, FreeingFine
<1>6. PICK l, b : PutAway(o, l, b)
  BY <1>1, <1>3, SlabOrWord
<1>7. /\ ToSet(x.out) = ToSet(j.out) \ {o} /\ ToSet(x.batch) = ToSet(j.batch) \ {o}
      /\ ToSet(x.pend) = ToSet(j.pend)
  BY <1>2, <1>3, <1>4, EmptyStack
<1>8. j.at # "tile" /\ x.at \notin Holding \cup {"home", "publish"} /\ "batch" \in {"out", "batch"}
  BY <1>1, <1>2, <1>4 DEF Holding, Freeing
<1> QED BY <1>1, <1>3, <1>4, <1>5, <1>6, <1>7, <1>8, PutAwaySafe

\* The objects of a pending word are of one span.
LEMMA PendingWord ==
  ASSUME HeapInv, NEW t \in Threads, job[t].at = "batch", job[t].pend # <<>>,
         UNCHANGED <<class, alloc_words>>, free_words' = Flushed(job[t], FALSE)
  PROVE  LET j == job[t]
             s == j.pend[1][2]
             M == ToSet(j.pend)
         IN  /\ s \in Spans /\ class[s] = j.class /\ j.class \in Classes /\ ~Tiled(s)
             /\ M \in SUBSET Objects
             /\ \A o \in M : o[1] = j.class /\ o[2] = s /\ In(o, "pend", t)
             /\ free_words' \in [Spans -> SUBSET Nat] /\ Bits'
             /\ \A r \in Objects : InWord(free_words, r)' <=> InWord(free_words, r) \/ r \in M
             /\ \A r \in Objects : InWord(alloc_words, r)' <=> InWord(alloc_words, r)
<1> DEFINE j == job[t]
           s == j.pend[1][2]
           M == ToSet(j.pend)
<1>1. /\ j.pend \in Seq(Objects) /\ j.class \in Classes /\ OfClass(j.pend, j.class)
      /\ OneSpan(j.pend)
  BY CallNow, OfJob, InFreeing DEF FreeHands, Freeing
<1>2. j.pend[1] \in Objects /\ j.pend[1] \in M /\ M \in SUBSET Objects
  BY <1>1, StackType
<1>3. ASSUME NEW o \in M PROVE o[1] = j.class /\ o[2] = s /\ In(o, "pend", t)
  BY <1>1, <1>2, IsIn, OfHeap DEF OfClass, OneSpan
<1>4. s \in Spans /\ class[s] = j.class /\ ~Tiled(s)
  BY <1>2, <1>3, Pinned, ObjectParts
<1>5. free_words' = [free_words EXCEPT ![s] = @ \cup {o[3] : o \in M}]
  BY DEF Flushed, Range, ToSet
<1> HIDE DEF s, M
<1>6. \A o \in M : o[1] = j.class /\ o[2] = s
  BY <1>3
<1>7. /\ free_words' \in [Spans -> SUBSET Nat] /\ Bits'
      /\ \A r \in Objects : InWord(free_words, r)' <=> InWord(free_words, r) \/ r \in M
      /\ \A r \in Objects : InWord(alloc_words, r)' <=> InWord(alloc_words, r)
  BY <1>1, <1>2, <1>4, <1>5, <1>6, DepositSet, ZenonT(60)
<1> QED BY <1>1, <1>2, <1>3, <1>4, <1>7 DEF s, M

\* BatchRemote preserves the invariant.
LEMMA BatchRemoteSafe ==
  ASSUME HeapInv, NEW t \in Threads, BatchRemote(t), UNCHANGED sup
  PROVE  HeapInv'
<1> DEFINE j == job[t]
           o == Head(j.batch)
           q == Tail(j.batch)
           same == j.pend = <<>> \/ (/\ j.pend[1][2] = o[2]
                                     /\ WordOf(j.pend[1][3]) = WordOf(o[3]))
           p == IF same THEN Append(j.pend, o) ELSE <<o>>
           x == [j EXCEPT !.batch = q, !.pend = p]
<1>1. /\ j.at = "batch" /\ j.batch # <<>> /\ free_words' = Flushed(j, same)
      /\ job' = [job EXCEPT ![t] = x]
      /\ UNCHANGED <<mag, l2, live, alloc_words, list, hint, lock, class, home, free, cursor, stopped, sup>>
  BY DEF BatchRemote, Goto, At, table, arena
<1>2. /\ j.out = <<>> /\ j \in Jobs /\ MagsFine(mag[t])
      /\ Distinct(j.batch) /\ Distinct(j.pend) /\ j.pend \in Seq(Objects)
      /\ j.class \in Classes /\ OfClass(j.batch, j.class) /\ OfClass(j.pend, j.class)
      /\ OneSpan(j.pend)
  BY <1>1, InFreeing, CallNow, OfJob DEF FreeHands, Freeing
<1>3. /\ o \in Objects /\ In(o, "batch", t) /\ q \in Seq(Objects) /\ Distinct(q)
      /\ ToSet(q) = ToSet(j.batch) \ {o} /\ OfClass(q, j.class) /\ o[1] = j.class
  BY <1>1, <1>2, NextFreed
<1>4. ASSUME p \in Seq(Objects), Distinct(p), OfClass(p, j.class), OneSpan(p)
      PROVE  /\ x \in Jobs /\ x.at = "batch" /\ x.out = <<>> /\ x.pend = p /\ x.batch = q
             /\ CallFine(t, x, mag[t])
  <2> HIDE DEF p, q
  <2>1. /\ x \in Jobs /\ x.at = "batch" /\ x.out = <<>> /\ x.pend = p /\ x.batch = q
        /\ x.class = j.class
    BY <1>1, <1>2, <1>3, <1>4 DEF Jobs
  <2> HIDE DEF x
  <2>2. CallFine(t, x, mag[t])
    BY <1>2, <1>3, <1>4, <2>1, FreeingFine DEF Freeing
  <2> QED BY <2>1, <2>2
<1>5. /\ SlabsFine' /\ live' \in SUBSET Objects
      /\ mag[t] \in [Classes -> Seq(Objects)] /\ mag' = [mag EXCEPT ![t] = mag[t]]
      /\ UNCHANGED <<alloc_words, list, hint, lock, class, home, free, cursor, stopped, sup>>
  BY <1>1, SlabsSame, CallNow, OfHeap DEF Types
<1>6. CASE same
  <2>1. p = Append(j.pend, o) /\ UNCHANGED free_words
    BY <1>1, <1>6 DEF Flushed
  <2>2. o \notin ToSet(j.pend)
    BY <1>3 DEF In
  <2>3. /\ p \in Seq(Objects) /\ ToSet(p) = ToSet(j.pend) \cup {o} /\ Distinct(p)
    <3> HIDE DEF o, p
    <3> QED BY <1>2, <1>3, <2>1, <2>2, PushStack
  <2>4. OneSpan(p)
    <3>1. CASE j.pend = <<>>
      BY <2>3, <3>1, EmptyStack DEF OneSpan
    <3>2. CASE j.pend # <<>>
      <4>1. j.pend[1] \in ToSet(j.pend) /\ j.pend[1][2] = o[2]
        BY <1>2, <1>6, <3>2, StackType
      <4>2. \A r \in ToSet(j.pend) : r[2] = o[2]
        BY <1>2, <4>1 DEF OneSpan
      <4> HIDE DEF o, p
      <4> QED BY <2>3, <4>2 DEF OneSpan
    <3> QED BY <3>1, <3>2
  <2> HIDE DEF o, p, q
  <2>5. OfClass(p, j.class)
    BY <1>2, <1>3, <2>3 DEF OfClass
  <2>6. /\ x \in Jobs /\ x.at = "batch" /\ x.out = <<>> /\ x.pend = p /\ x.batch = q
        /\ CallFine(t, x, mag[t])
    BY <1>4, <2>3, <2>4, <2>5
  <2> HIDE DEF x
  <2>7. MovedOne(t, x, mag[t], o, "pend", t)
    BY <1>1, <1>2, <1>3, <2>1, <2>3, <2>6, WordsSame, SlabsSame DEF MovedOne, MovedTo, Moved, In
  <2>8. Target("pend", t, t) /\ Held(o, t) /\ free_words' \in [Spans -> SUBSET Nat] /\ Bits'
    BY <1>1, <1>3, <2>1, HeldBy, WordsSame DEF Target
  <2>9. j.at # "tile" /\ x.at \notin Holding \cup {"home", "publish"}
    BY <1>1, <2>6 DEF Holding
  <2> QED BY <1>1, <1>5, <2>6, <2>7, <2>8, <2>9, QuietOne
<1>7. CASE ~same
  <2> DEFINE M == ToSet(j.pend)
             N == {o}
  <2>1. p = <<o>> /\ free_words' = Flushed(j, FALSE) /\ j.pend # <<>>
    BY <1>1, <1>7 DEF Flushed
  <2>2. /\ M \in SUBSET Objects /\ \A r \in M : In(r, "pend", t)
        /\ free_words' \in [Spans -> SUBSET Nat] /\ Bits'
        /\ \A r \in Objects : InWord(free_words, r)' <=> InWord(free_words, r) \/ r \in M
        /\ \A r \in Objects : InWord(alloc_words, r)' <=> InWord(alloc_words, r)
    <3> HIDE DEF o
    <3> QED BY <1>1, <2>1, PendingWord
  <2>3. p \in Seq(Objects) /\ ToSet(p) = {o} /\ Distinct(p)
    <3> HIDE DEF o, p
    <3> QED BY <1>3, <2>1, OneStack
  <2> HIDE DEF o, p, q
  <2>4. OneSpan(p) /\ OfClass(p, j.class)
    BY <1>3, <2>3 DEF OneSpan, OfClass
  <2>5. /\ x \in Jobs /\ x.at = "batch" /\ x.out = <<>> /\ x.pend = p /\ x.batch = q
        /\ CallFine(t, x, mag[t])
    BY <1>4, <2>3, <2>4
  <2> HIDE DEF x
  <2>6. Moved(t, x, mag[t], M, "free", NoThread, N, "pend", t)
    <3>1. \A r \in Objects : r \in M => In(r, "pend", t)
      BY <2>2
    <3>2. /\ \A r \in Objects : r \in live' <=> r \in live
          /\ \A r \in Objects : \A v \in Cpus : r \in ToSet(l2'[v][r[1]]) <=> r \in ToSet(l2[v][r[1]])
      BY <1>1
    <3> SUFFICES ASSUME NEW r \in Objects
               PROVE
      LET After(was, z, e) ==
            (was /\ r \notin M /\ r \notin N) \/ (r \in M /\ "free" = z /\ NoThread = e)
                                              \/ (r \in N /\ "pend" = z /\ t = e)
      IN /\ InWord(alloc_words, r)' <=> After(InWord(alloc_words, r), "alloc", NoThread)
         /\ InWord(free_words, r)' <=> After(InWord(free_words, r), "free", NoThread)
         /\ r \in live' <=> After(r \in live, "live", NoThread)
         /\ r \in ToSet(mag[t][r[1]]) <=> After(r \in ToSet(mag[t][r[1]]), "mag", t)
         /\ r \in ToSet(x.out) <=> After(r \in ToSet(job[t].out), "out", t)
         /\ r \in ToSet(x.batch) <=> After(r \in ToSet(job[t].batch), "batch", t)
         /\ r \in ToSet(x.pend) <=> After(r \in ToSet(job[t].pend), "pend", t)
         /\ \A v \in Cpus : r \in ToSet(l2'[v][r[1]]) <=> After(r \in ToSet(l2[v][r[1]]), "l2", v)
      BY DEF Moved
    <3>3. CASE r = o
      BY <1>2, <1>3, <2>2, <2>3, <2>5, <3>1, <3>2, <3>3 DEF In
    <3>4. CASE r # o /\ r \in M
      <4>1. In(r, "pend", t)
        BY <3>1, <3>4
      <4> QED BY <1>2, <1>3, <2>2, <2>3, <2>5, <3>2, <3>4, <4>1 DEF In
    <3>5. CASE r # o /\ r \notin M
      BY <1>2, <1>3, <2>2, <2>3, <2>5, <3>2, <3>5
    <3> QED BY <3>3, <3>4, <3>5
  <2>7. M \cap N = {} /\ Target("free", NoThread, t) /\ Target("pend", t, t)
    BY <1>3 DEF In, Target
  <2>8. \A r \in M \cup N : Held(r, t)
    BY <1>3, <2>2, HeldBy
  <2> HIDE DEF M, N
  <2>9. Carried(t, x, mag[t], M, "free", NoThread, N, "pend", t)
    BY <2>6, <2>7, <2>8 DEF Carried
  <2>10. j.at # "tile" /\ x.at \notin Holding \cup {"home", "publish"}
    BY <1>1, <2>5 DEF Holding
  <2> QED BY <1>1, <1>5, <2>2, <2>5, <2>9, <2>10, QuietMoves
<1> QED BY <1>6, <1>7

\* A step that ends outside of any refill and may be about a hint.
LEMMA CalmMove ==
  ASSUME HeapInv, NEW t \in Threads, NEW x \in Jobs, NEW m \in [Classes -> Seq(Objects)],
         job' = [job EXCEPT ![t] = x], mag' = [mag EXCEPT ![t] = m], CallFine(t, x, m),
         SlabsFine', free_words' \in [Spans -> SUBSET Nat], Bits', live' \in SUBSET Objects,
         UNCHANGED <<alloc_words, list, lock, class, home, free, cursor, stopped, sup>>,
         hint' \in [Cells -> Spans \cup {NO_SPAN}], ~Reclaiming => Hints',
         job[t].at # "tile", x.at \notin Holding,
         NEW M, NEW k, NEW a, MovedTo(t, x, m, M, k, a), Target(k, a, t), \A r \in M : Held(r, t)
  PROVE  HeapInv'
<1>1. /\ \A u \in Threads : Refilling(u)'
      /\ Lists' /\ Sweeps'
      /\ \A s : Tiled(s)' <=> Tiled(s)
  BY SpansCalm
<1>2. Partition'
  BY <1>1, ExistsSame, OneMove
<1>3. /\ Shape(t, x, m) /\ Distinct(x.out) /\ Distinct(x.batch) /\ Distinct(x.pend)
      /\ \A c \in Classes : Distinct(m[c]) /\ OfClass(m[c], c)
  BY DEF CallFine, MagsFine
<1>4. /\ l2' \in [Cpus -> [Classes -> Seq(Objects)]]
      /\ \A p \in Cpus, c \in Classes :
           Distinct(l2'[p][c]) /\ OfClass(l2'[p][c], c) /\ Len(l2'[p][c]) <= L2Cap
  BY DEF SlabsFine, Distinct, OfClass
<1>5. /\ alloc_words' \in [Spans -> SUBSET Nat] /\ list' \in [Cells -> Seq(Spans)]
      /\ lock' \in [Cells -> Threads \cup {Sweeper, NoThread}]
      /\ class' \in [Spans -> Classes \cup {Large, Unassigned}]
      /\ home' \in [Spans -> 0 .. HomeMod - 1] /\ free' \in SUBSET Spans
      /\ cursor' \in 0 .. NumSpans /\ stopped' = stopped /\ sup' = sup
  BY OfHeap DEF Types
<1> QED BY <1>1, <1>2, <1>3, <1>4, <1>5, HeapStep

\* A thread that is about to publish a hint.
LEMMA HintFine ==
  ASSUME NEW t \in Threads, NEW x \in Jobs, NEW m, MagsFine(m), x.at \in {"home", "publish"},
         x.out = <<>>, x.batch = <<>>, x.pend = <<>>, Len(x.todo) = 1, x.class \in Classes
  PROVE  CallFine(t, x, m)
<1>1. Shape(t, x, m)
  BY DEF Shape, MagsFine, Holding, Freeing, ThreadPlaces
<1> QED BY <1>1, EmptyStack DEF CallFine

\* BatchFlush preserves the invariant.
LEMMA BatchFlushSafe ==
  ASSUME HeapInv, NEW t \in Threads, BatchFlush(t), UNCHANGED sup
  PROVE  HeapInv'
<1> DEFINE j == job[t]
           s == j.pend[1][2]
           x == [Idle EXCEPT !.at = "home", !.class = j.class, !.todo = <<s>>]
<1>1. /\ j.at = "batch" /\ j.batch = <<>>
      /\ UNCHANGED <<mag, l2, live, alloc_words, list, hint, lock, class, home, free, cursor, stopped, sup>>
      /\ \/ j.pend = <<>> /\ job' = [job EXCEPT ![t] = Idle] /\ UNCHANGED free_words
         \/ /\ j.pend # <<>> /\ free_words' = Flushed(j, FALSE) /\ job' = [job EXCEPT ![t] = x]
  BY DEF BatchFlush, Goto, At, table, arena
<1>2. j.out = <<>> /\ MagsFine(mag[t]) /\ j.at # "tile"
  BY <1>1, InFreeing, CallNow DEF FreeHands, Freeing
<1>3. CASE j.pend = <<>> /\ job' = [job EXCEPT ![t] = Idle] /\ UNCHANGED free_words
  <2>1. CallFine(t, Idle, mag[t])
    BY <1>2, IdleFine, IdleJob
  <2>2. Idle.at \notin Holding \cup {"home", "publish"}
    BY IdleJob DEF Holding
  <2>3. Idle.out = j.out /\ Idle.batch = j.batch /\ Idle.pend = j.pend /\ Idle \in Jobs
    BY <1>1, <1>2, <1>3, IdleJob
  <2>4. UNCHANGED <<mag, l2, live, free_words,
                    alloc_words, list, hint, lock, class, home, free, cursor, stopped, sup>>
    BY <1>1, <1>3
  <2> QED BY <1>2, <1>3, <2>1, <2>2, <2>3, <2>4, QuietCall
<1>4. CASE j.pend # <<>> /\ free_words' = Flushed(j, FALSE) /\ job' = [job EXCEPT ![t] = x]
  <2> DEFINE M == ToSet(j.pend)
             q == <<s>>
  <2>1. /\ s \in Spans /\ class[s] = j.class /\ j.class \in Classes /\ ~Tiled(s)
        /\ M \in SUBSET Objects /\ \A r \in M : In(r, "pend", t)
        /\ free_words' \in [Spans -> SUBSET Nat] /\ Bits'
        /\ \A r \in Objects : InWord(free_words, r)' <=> InWord(free_words, r) \/ r \in M
        /\ \A r \in Objects : InWord(alloc_words, r)' <=> InWord(alloc_words, r)
    BY <1>1, <1>4, PendingWord
  <2>2. x = [Idle EXCEPT !.at = "home", !.class = j.class, !.todo = q]
    OBVIOUS
  <2> HIDE DEF s, x
  <2>3. q \in Seq(Spans) /\ Len(q) = 1 /\ q[1] = s
    BY <2>1, OneStack
  <2> HIDE DEF q
  <2>4. /\ x \in Jobs /\ x.at = "home" /\ x.out = <<>> /\ x.batch = <<>> /\ x.pend = <<>>
        /\ x.todo = q /\ x.class = j.class
    BY <2>1, <2>2, <2>3, IdleJob DEF Jobs, Places, ThreadPlaces
  <2>5. CallFine(t, x, mag[t])
    BY <1>2, <2>1, <2>3, <2>4, HintFine
  <2>6. \A v : Tiled(v)' <=> Tiled(v)
    <3>1. x.at \notin Holding
      BY <2>4 DEF Holding
    <3> QED BY <1>1, <1>2, <1>4, <2>4, <3>1, SpansCalm
  <2>7. ASSUME ~Reclaiming PROVE Hints'
    <3>1. Hints
      BY <2>7, OfHeap
    <3>2. \A y \in Cells : hint'[y] # NO_SPAN => hint'[y] \in ToSet(list'[y])
      BY <1>1, <3>1 DEF Hints
    <3>3. \A y \in Cells : ToSet(list[y]) \subseteq ToSet(list'[y])
      BY <1>1
    <3>4. \A v \in Spans : class[v] \in Classes /\ ~Tiled(v) => class'[v] = class[v] /\ ~Tiled(v)'
      BY <1>1, <2>6
    <3>5. PICK z, w : z = x /\ w = s /\ z.todo[1] = w
      BY <2>3, <2>4
    <3>6. class'[w] = z.class /\ ~Tiled(w)' /\ z \in Jobs /\ job' = [job EXCEPT ![t] = z]
      BY <1>1, <1>4, <2>1, <2>4, <2>6, <3>5
    <3>7. z.at = "home" => class'[z.todo[1]] = z.class /\ ~Tiled(z.todo[1])'
      BY <3>5, <3>6
    <3>8. z.at # "publish"
      BY <2>4, <3>5
    <3> QED BY <3>1, <3>2, <3>3, <3>4, <3>6, <3>7, <3>8, HintsStep
  <2>8. MovedTo(t, x, mag[t], M, "free", NoThread)
    <3>1. \A r \in Objects : r \in M => In(r, "pend", t)
      BY <2>1
    <3>2. ToSet(<<>>) = {}
      BY EmptyStack
    <3> QED BY <1>1, <1>2, <2>1, <2>4, <3>1, <3>2 DEF MovedTo, Moved, In
  <2>9. Target("free", NoThread, t) /\ \A r \in M : Held(r, t)
    BY <2>1, HeldBy DEF Target
  <2>10. /\ UNCHANGED <<alloc_words, list, lock, class, home, free, cursor, stopped, sup>>
         /\ hint' \in [Cells -> Spans \cup {NO_SPAN}] /\ SlabsFine' /\ live' \in SUBSET Objects
         /\ mag[t] \in [Classes -> Seq(Objects)] /\ mag' = [mag EXCEPT ![t] = mag[t]]
    BY <1>1, OfHeap, SlabsSame, CallNow DEF Types
  <2>11. x.at \notin Holding
    BY <2>4 DEF Holding
  <2> HIDE DEF M
  <2> QED BY <1>2, <1>4, <2>1, <2>4, <2>5, <2>7, <2>8, <2>9, <2>10, <2>11, CalmMove
<1> QED BY <1>1, <1>3, <1>4

\* A step of a call about its hint.
LEMMA HintMove ==
  ASSUME HeapInv, NEW t \in Threads, NEW x \in Jobs, job' = [job EXCEPT ![t] = x],
         CallFine(t, x, mag[t]), x.out = <<>>, x.batch = <<>>, x.pend = <<>>,
         UNCHANGED <<mag, l2, live, free_words, alloc_words, list, lock, class, home, free, cursor,
                     stopped, sup>>,
         hint' \in [Cells -> Spans \cup {NO_SPAN}], ~Reclaiming => Hints',
         job[t].at \in {"home", "publish"}, x.at \notin Holding
  PROVE  HeapInv'
<1> DEFINE M == {}
<1>1. job[t].out = <<>> /\ job[t].batch = <<>> /\ job[t].pend = <<>>
  BY IdleEmpty
<1>2. MovedTo(t, x, mag[t], M, "live", NoThread)
  BY <1>1, WordsSame, SlabsSame DEF MovedTo, Moved
<1>3. Target("live", NoThread, t) /\ \A r \in M : Held(r, t)
  BY DEF Target
<1>4. /\ UNCHANGED <<alloc_words, list, lock, class, home, free, cursor, stopped, sup>>
      /\ SlabsFine' /\ live' \in SUBSET Objects /\ free_words' \in [Spans -> SUBSET Nat] /\ Bits'
      /\ mag[t] \in [Classes -> Seq(Objects)] /\ mag' = [mag EXCEPT ![t] = mag[t]]
      /\ job[t].at # "tile"
  BY OfHeap, SlabsSame, WordsSame, CallNow DEF Types
<1> HIDE DEF M
<1> QED BY <1>2, <1>3, <1>4, CalmMove

\* What a thread that is about to publish a hint knows.
LEMMA HintCell ==
  ASSUME HeapInv, NEW t \in Threads, job[t].at \in {"home", "publish"}
  PROVE  /\ job[t] \in Jobs /\ job[t].todo \in Seq(Spans) /\ Len(job[t].todo) = 1
         /\ Head(job[t].todo) = job[t].todo[1] /\ job[t].todo[1] \in Spans
         /\ job[t].class \in Classes /\ <<job[t].shard, job[t].class>> \in Cells
<1> DEFINE j == job[t]
<1>1. j \in Jobs /\ Shape(t, j, mag[t])
  BY CallNow
<1>2. j.todo \in Seq(Spans) /\ j.shard \in Shards
  BY <1>1, OfJob
<1>3. Len(j.todo) = 1 /\ j.class \in Classes
  BY <1>1 DEF Shape
<1>4. Head(j.todo) = j.todo[1] /\ j.todo[1] \in Spans
  <2> HIDE DEF j
  <2> QED BY <1>2, <1>3
<1> QED BY <1>1, <1>2, <1>3, <1>4 DEF Cells, Shards

\* ReadHome preserves the invariant.
LEMMA ReadHomeSafe ==
  ASSUME HeapInv, NEW t \in Threads, ReadHome(t), UNCHANGED sup
  PROVE  HeapInv'
<1> DEFINE j == job[t]
           s == j.todo[1]
           h == HomeShard(s)
           x == [j EXCEPT !.at = "publish", !.shard = h]
<1>1. /\ j \in Jobs /\ j.todo \in Seq(Spans) /\ Len(j.todo) = 1
      /\ Head(j.todo) = s /\ s \in Spans /\ j.class \in Classes
  BY HintCell DEF ReadHome, At
<1>2. /\ j.at = "home" /\ job' = [job EXCEPT ![t] = x]
      /\ UNCHANGED <<mag, l2, live, free_words, alloc_words, list, hint, lock, class, home, free, cursor,
                     stopped, sup>>
  BY <1>1 DEF ReadHome, At, Goto, table, arena, bitmaps
<1>3. j.out = <<>> /\ j.batch = <<>> /\ j.pend = <<>> /\ MagsFine(mag[t])
  BY <1>2, IdleEmpty, CallNow
<1>4. h \in Shards
  BY <1>1, ShardTypes, OfHeap
<1> HIDE DEF h
<1>5. /\ x \in Jobs /\ x.at = "publish" /\ x.out = <<>> /\ x.batch = <<>> /\ x.pend = <<>>
      /\ x.todo = j.todo /\ x.class = j.class /\ x.shard = h
  BY <1>1, <1>3, <1>4 DEF Jobs, Places, ThreadPlaces
<1> HIDE DEF x
<1>6. CallFine(t, x, mag[t])
  BY <1>1, <1>3, <1>5, HintFine
<1>7. x.at \notin Holding
  BY <1>5 DEF Holding
<1>8. ASSUME ~Reclaiming PROVE Hints'
  <2>1. Hints
    BY <1>8, OfHeap
  <2>2. class[s] = j.class /\ ~Tiled(s)
    BY <1>2, <2>1 DEF Hints
  <2>3. s \in ToSet(list[<<h, j.class>>])
    BY <1>1, <2>2, OfHeap DEF Lists, h
  <2>4. \A y \in Cells : hint'[y] # NO_SPAN => hint'[y] \in ToSet(list'[y])
    BY <1>2, <2>1 DEF Hints
  <2>5. \A y \in Cells : ToSet(list[y]) \subseteq ToSet(list'[y])
    BY <1>2
  <2>6. \A v \in Spans : class[v] \in Classes /\ ~Tiled(v) => class'[v] = class[v] /\ ~Tiled(v)'
    BY <1>2, <1>5, <1>7, SpansCalm
  <2>7. x.at # "home" /\ x.todo[1] \in ToSet(list'[<<x.shard, x.class>>])
    BY <1>2, <1>5, <2>3
  <2> QED BY <1>2, <1>5, <2>1, <2>4, <2>5, <2>6, <2>7, HintsStep
<1>9. hint' \in [Cells -> Spans \cup {NO_SPAN}]
  BY <1>2, OfHeap DEF Types
<1>10. UNCHANGED <<mag, l2, live, free_words, alloc_words, list, lock, class, home, free, cursor,
                   stopped, sup>>
  BY <1>2
<1> QED BY <1>2, <1>5, <1>6, <1>7, <1>8, <1>9, <1>10, HintMove

\* PublishHint preserves the invariant.
LEMMA PublishHintSafe ==
  ASSUME HeapInv, NEW t \in Threads, PublishHint(t), UNCHANGED sup
  PROVE  HeapInv'
<1> DEFINE j == job[t]
           s == j.todo[1]
           x == <<j.shard, j.class>>
<1>1. /\ j \in Jobs /\ j.todo \in Seq(Spans) /\ Len(j.todo) = 1
      /\ Head(j.todo) = s /\ s \in Spans /\ x \in Cells
  BY HintCell DEF PublishHint, At
<1>2. /\ j.at = "publish" /\ job' = [job EXCEPT ![t] = Idle] /\ hint' = [hint EXCEPT ![x] = s]
      /\ UNCHANGED <<mag, l2, live, free_words, alloc_words, list, lock, class, home, free, cursor,
                     stopped, sup>>
  BY <1>1 DEF PublishHint, At, Goto, table, arena, bitmaps
<1>3. hint \in [Cells -> Spans \cup {NO_SPAN}]
  BY OfHeap DEF Types
<1>4. CallFine(t, Idle, mag[t])
  BY CallNow, IdleFine, IdleJob
<1>5. Idle.at \notin Holding /\ Idle.at # "home" /\ Idle.at # "publish" /\ j.at # "tile"
  BY <1>2, IdleJob DEF Holding
<1> HIDE DEF x
<1>6. hint' \in [Cells -> Spans \cup {NO_SPAN}]
  BY <1>1, <1>2, <1>3
<1>7. ASSUME ~Reclaiming PROVE Hints'
  <2>1. Hints
    BY <1>7, OfHeap
  <2>2. s \in ToSet(list[x])
    BY <1>2, <2>1 DEF Hints, x
  <2>3. ASSUME NEW y \in Cells, hint'[y] # NO_SPAN PROVE hint'[y] \in ToSet(list'[y])
    <3>1. hint[y] # NO_SPAN => hint[y] \in ToSet(list[y])
      BY <2>1 DEF Hints
    <3> QED BY <1>1, <1>2, <1>3, <2>2, <2>3, <3>1
  <2>4. \A y \in Cells : ToSet(list[y]) \subseteq ToSet(list'[y])
    BY <1>2
  <2>5. \A v \in Spans : class[v] \in Classes /\ ~Tiled(v) => class'[v] = class[v] /\ ~Tiled(v)'
    BY <1>2, <1>5, IdleJob, SpansCalm
  <2>6. Idle \in Jobs
    BY IdleJob
  <2> QED BY <1>2, <1>5, <2>1, <2>3, <2>4, <2>5, <2>6, HintsStep
<1> QED BY <1>2, <1>4, <1>5, <1>6, <1>7, IdleJob, HintMove

-----------------------------------------------------------------------------
(* Refills *)

\* What the other threads and the supervisor rely on while t is at work.
OthersKeep(t) ==
  /\ \A u \in Threads \ {t} :
       /\ job[u].at \in Holding => lock'[Cell(u)] = lock[Cell(u)]
       /\ job[u].at = "clear" => alloc_words'[job[u].todo[1]] = alloc_words[job[u].todo[1]]
  /\ job[Sweeper].at \in {"walk", "retire"} =>
       /\ lock'[SweptCell] = lock[SweptCell]
       /\ job[Sweeper].todo # <<>> =>
            alloc_words'[job[Sweeper].todo[1]] = alloc_words[job[Sweeper].todo[1]]

\* A refill of another thread is untouched.
LEMMA RefillingKeeps ==
  ASSUME NEW u \in Threads, Refilling(u), job'[u] = job[u], UNCHANGED <<list, class, home>>,
         job[u].at \in Holding => lock'[Cell(u)] = lock[Cell(u)],
         job[u].at = "clear" => alloc_words'[job[u].todo[1]] = alloc_words[job[u].todo[1]]
  PROVE  Refilling(u)'
<1>1. Cell(u)' = Cell(u)
  BY DEF Cell
<1> QED BY <1>1 DEF Refilling, HomeShard

\* The supervisor's walk is untouched.
LEMMA SweepsKeep ==
  ASSUME Sweeps, job'[Sweeper] = job[Sweeper], UNCHANGED <<list, class, free>>,
         job[Sweeper].at \in {"walk", "retire"} =>
           /\ lock'[SweptCell] = lock[SweptCell]
           /\ job[Sweeper].todo # <<>> =>
                alloc_words'[job[Sweeper].todo[1]] = alloc_words[job[Sweeper].todo[1]]
  PROVE  Sweeps'
<1> DEFINE j == job[Sweeper]
<1>1. SweptCell' = SweptCell /\ job'[Sweeper] = j
  BY DEF SweptCell
<1>2. /\ j.at \in {"idle", "walk", "retire", "file"}
      /\ j.out = <<>> /\ j.batch = <<>> /\ j.pend = <<>>
      /\ j.taken \subseteq {s \in Spans : class[s] = Large} \ free
      /\ j.at = "idle" => j.taken = {}
      /\ j.at \in {"walk", "retire"} =>
           /\ j.class \in Classes /\ lock[SweptCell] = Sweeper
           /\ Distinct(j.todo) /\ ToSet(j.todo) \subseteq ToSet(list[SweptCell])
      /\ j.at = "walk" /\ j.todo # <<>> =>
           j.k <= Cardinality({i \in alloc_words[j.todo[1]] : WordOf(i) < j.word})
      /\ j.at = "retire" =>
           j.todo # <<>> /\ j.k = 0 /\ alloc_words[j.todo[1]] = 0 .. Slots[j.class] - 1
  BY DEF Sweeps
<1> HIDE DEF j
<1>3. CASE j.at \in {"walk", "retire"}
  <2>1. lock'[SweptCell] = Sweeper
    BY <1>2, <1>3 DEF j
  <2>2. CASE j.todo # <<>>
    <3>1. alloc_words'[j.todo[1]] = alloc_words[j.todo[1]]
      BY <1>3, <2>2 DEF j
    <3> QED BY <1>1, <1>2, <2>1, <3>1 DEF Sweeps
  <2>3. CASE j.todo = <<>>
    BY <1>1, <1>2, <2>1, <2>3 DEF Sweeps
  <2> QED BY <2>2, <2>3
<1>4. CASE j.at \notin {"walk", "retire"}
  BY <1>1, <1>2, <1>4 DEF Sweeps
<1> QED BY <1>3, <1>4

\* A step of t that moves no span between classes, lists and pool.
LEMMA RefillStep ==
  ASSUME HeapInv, NEW t \in Threads, NEW x \in Jobs, NEW m \in [Classes -> Seq(Objects)],
         job' = [job EXCEPT ![t] = x], mag' = [mag EXCEPT ![t] = m], CallFine(t, x, m),
         SlabsFine', Bits', live' \in SUBSET Objects,
         alloc_words' \in [Spans -> SUBSET Nat], free_words' \in [Spans -> SUBSET Nat],
         lock' \in [Cells -> Threads \cup {Sweeper, NoThread}],
         UNCHANGED <<list, hint, class, home, free, cursor, stopped, sup>>,
         job[t].at # "tile", x.at \notin {"tile", "home", "publish"},
         OthersKeep(t), Refilling(t)',
         NEW M, NEW k, NEW a, NEW N, NEW l, NEW b, Carried(t, x, m, M, k, a, N, l, b)
  PROVE  HeapInv'
<1>1. /\ job'[t] = x /\ job'[Sweeper] = job[Sweeper]
      /\ \A u \in Threads : u # t => job'[u] = job[u]
  BY JobStep, OfHeap
<1>2. \A s : Tiled(s)' <=> Tiled(s)
  BY TiledSame, OfHeap
<1>3. ASSUME NEW u \in Threads PROVE Refilling(u)'
  <2>1. CASE u = t
    BY <2>1
  <2>2. CASE u # t
    <3>1. /\ job[u].at \in Holding => lock'[Cell(u)] = lock[Cell(u)]
          /\ job[u].at = "clear" => alloc_words'[job[u].todo[1]] = alloc_words[job[u].todo[1]]
      BY <2>2 DEF OthersKeep
    <3>2. Refilling(u) /\ job'[u] = job[u]
      BY <1>1, <2>2, OfHeap
    <3> QED BY <3>1, <3>2, RefillingKeeps
  <2> QED BY <2>1, <2>2
<1>4. Lists'
  BY <1>2, ListsSame, OfHeap
<1>5. Sweeps'
  <2>1. job[Sweeper].at \in {"walk", "retire"} =>
          /\ lock'[SweptCell] = lock[SweptCell]
          /\ job[Sweeper].todo # <<>> =>
               alloc_words'[job[Sweeper].todo[1]] = alloc_words[job[Sweeper].todo[1]]
    BY DEF OthersKeep
  <2> QED BY <1>1, <2>1, SweepsKeep, OfHeap
<1>6. ASSUME ~Reclaiming PROVE Hints'
  <2>1. Hints
    BY <1>6, OfHeap
  <2>2. \A y \in Cells : hint'[y] # NO_SPAN => hint'[y] \in ToSet(list'[y])
    BY <2>1 DEF Hints
  <2>3. \A y \in Cells : ToSet(list[y]) \subseteq ToSet(list'[y])
    OBVIOUS
  <2>4. \A s \in Spans : class[s] \in Classes /\ ~Tiled(s) => class'[s] = class[s] /\ ~Tiled(s)'
    BY <1>2
  <2> QED BY <2>1, <2>2, <2>3, <2>4, HintsStep
<1>7. Partition'
  BY <1>2, ExistsSame, MoveSets DEF Carried
<1>8. /\ Shape(t, x, m) /\ Distinct(x.out) /\ Distinct(x.batch) /\ Distinct(x.pend)
      /\ \A c \in Classes : Distinct(m[c]) /\ OfClass(m[c], c)
  BY DEF CallFine, MagsFine
<1>9. /\ l2' \in [Cpus -> [Classes -> Seq(Objects)]]
      /\ \A p \in Cpus, c \in Classes :
           Distinct(l2'[p][c]) /\ OfClass(l2'[p][c], c) /\ Len(l2'[p][c]) <= L2Cap
  BY DEF SlabsFine, Distinct, OfClass
<1>10. /\ list' \in [Cells -> Seq(Spans)] /\ hint' \in [Cells -> Spans \cup {NO_SPAN}]
       /\ class' \in [Spans -> Classes \cup {Large, Unassigned}]
       /\ home' \in [Spans -> 0 .. HomeMod - 1] /\ free' \in SUBSET Spans
       /\ cursor' \in 0 .. NumSpans /\ stopped' = stopped /\ sup' = sup
  BY OfHeap DEF Types
<1> QED BY <1>3, <1>4, <1>5, <1>6, <1>7, <1>8, <1>9, <1>10, HeapStep

\* A step of t in which no object moves.
LEMMA RefillCall ==
  ASSUME HeapInv, NEW t \in Threads, NEW x \in Jobs, job' = [job EXCEPT ![t] = x],
         CallFine(t, x, mag[t]), x.out = job[t].out, x.batch = job[t].batch, x.pend = job[t].pend,
         lock' \in [Cells -> Threads \cup {Sweeper, NoThread}],
         UNCHANGED <<mag, l2, live, alloc_words, free_words,
                     list, hint, class, home, free, cursor, stopped, sup>>,
         job[t].at # "tile", x.at \notin {"tile", "home", "publish"},
         OthersKeep(t), Refilling(t)'
  PROVE  HeapInv'
<1> DEFINE M == {}
<1>1. /\ SlabsFine' /\ Bits' /\ live' \in SUBSET Objects
      /\ alloc_words' \in [Spans -> SUBSET Nat] /\ free_words' \in [Spans -> SUBSET Nat]
      /\ mag[t] \in [Classes -> Seq(Objects)] /\ mag' = [mag EXCEPT ![t] = mag[t]]
  BY OfHeap, WordsSame, SlabsSame, CallNow DEF Types
<1>2. Moved(t, x, mag[t], M, "live", NoThread, M, "live", NoThread)
  BY WordsSame, SlabsSame DEF Moved
<1>3. M \cap M = {} /\ \A r \in M \cup M : Held(r, t)
  OBVIOUS
<1> HIDE DEF M
<1>4. Carried(t, x, mag[t], M, "live", NoThread, M, "live", NoThread)
  BY <1>2, <1>3 DEF Carried, Target
<1>5. UNCHANGED <<list, hint, class, home, free, cursor, stopped, sup>>
  OBVIOUS
<1> QED BY <1>1, <1>4, <1>5, RefillStep

\* A thread in a refill.
LEMMA InRefill ==
  ASSUME HeapInv, NEW t \in Threads, job[t].at \in Holding
  PROVE  /\ job[t] \in Jobs /\ job[t].class \in Classes /\ Cell(t) \in Cells /\ lock[Cell(t)] = t
         /\ Allocates(t, job[t].class) /\ job[t].via \in {"mag", "slab"}
         /\ OfClass(job[t].out, job[t].class) /\ Len(job[t].out) <= WantOf(job[t])
         /\ job[t].via = "mag" => mag[t][job[t].class] = <<>>
         /\ job[t].batch = <<>> /\ job[t].pend = <<>>
         /\ job[t].out \in Seq(Objects) /\ Distinct(job[t].out) /\ job[t].todo \in Seq(Spans)
         /\ MagsFine(mag[t])
<1> DEFINE j == job[t]
<1>1. j \in Jobs /\ Shape(t, j, mag[t]) /\ CallFine(t, j, mag[t]) /\ MagsFine(mag[t])
  BY CallNow
<1>2. /\ j.class \in Classes /\ Allocates(t, j.class) /\ j.via \in {"mag", "slab"}
      /\ OfClass(j.out, j.class) /\ Len(j.out) <= WantOf(j)
      /\ j.via = "mag" => mag[t][j.class] = <<>>
  BY <1>1 DEF Shape
<1>3. j.batch = <<>> /\ j.pend = <<>>
  BY <1>1 DEF Shape, Holding, Freeing
<1>4. Cell(t) \in Cells
  BY <1>2, ShardTypes, OfHeap DEF Cell, Cells, Shards
<1>5. lock[Cell(t)] = t
  BY OfHeap DEF Refilling
<1>6. j.out \in Seq(Objects) /\ Distinct(j.out) /\ j.todo \in Seq(Spans)
  BY <1>1, OfJob DEF CallFine
<1> QED BY <1>1, <1>2, <1>3, <1>4, <1>5, <1>6

\* A call x that is still in a refill, for the same class.
LEMMA RefillFine ==
  ASSUME NEW t \in Threads, NEW x \in Jobs, NEW m, MagsFine(m), x.at \in Holding,
         x.class \in Classes, Allocates(t, x.class), x.via \in {"mag", "slab"},
         OfClass(x.out, x.class), Len(x.out) <= WantOf(x), x.via = "mag" => m[x.class] = <<>>,
         x.batch = <<>>, x.pend = <<>>, Distinct(x.out),
         x.at = "clear" => /\ x.todo # <<>> /\ IsFiniteSet(x.taken)
                           /\ x.taken \subseteq 0 .. Slots[x.class] - 1
                           /\ Len(x.out) + Cardinality(x.taken) <= WantOf(x),
         x.at = "tile" => Len(x.todo) = 1
  PROVE  CallFine(t, x, m)
<1>1. Shape(t, x, m)
  BY DEF Shape, MagsFine, Holding, Freeing, ThreadPlaces
<1> QED BY <1>1, EmptyStack DEF CallFine

\* The holder of a lock is the only one.
LEMMA OthersHold ==
  ASSUME HeapInv, NEW t \in Threads, NEW x \in Cells, lock[x] \in {t, NoThread}
  PROVE  /\ \A u \in Threads \ {t} : job[u].at \in Holding => Cell(u) # x /\ Cell(u) \in Cells
         /\ job[Sweeper].at \in {"walk", "retire"} => SweptCell # x
<1>1. ASSUME NEW u \in Threads \ {t}, job[u].at \in Holding PROVE Cell(u) # x /\ Cell(u) \in Cells
  BY <1>1, InRefill, Constants
<1>2. ASSUME job[Sweeper].at \in {"walk", "retire"} PROVE SweptCell # x
  BY <1>2, OfHeap, Constants DEF Sweeps
<1> QED BY <1>1, <1>2

\* Taking a free lock takes it from nobody.
LEMMA LockTaken ==
  ASSUME HeapInv, NEW t \in Threads, NEW x \in Cells, lock[x] \in {t, NoThread},
         NEW e \in {t, NoThread}, lock' = [lock EXCEPT ![x] = e], UNCHANGED alloc_words
  PROVE  /\ OthersKeep(t) /\ lock' \in [Cells -> Threads \cup {Sweeper, NoThread}]
         /\ lock'[x] = e
<1>1. lock \in [Cells -> Threads \cup {Sweeper, NoThread}]
  BY OfHeap DEF Types
<1>2. /\ lock' \in [Cells -> Threads \cup {Sweeper, NoThread}] /\ lock'[x] = e
      /\ \A y : y # x => lock'[y] = lock[y]
  BY <1>1
<1>3. /\ \A u \in Threads \ {t} : job[u].at \in Holding => Cell(u) # x
      /\ job[Sweeper].at \in {"walk", "retire"} => SweptCell # x
  BY OthersHold
<1> QED BY <1>2, <1>3 DEF OthersKeep

\* The other locks are kept.
LEMMA LockKept ==
  ASSUME HeapInv, NEW t \in Threads, UNCHANGED <<lock, alloc_words>>
  PROVE  OthersKeep(t) /\ lock' \in [Cells -> Threads \cup {Sweeper, NoThread}]
BY OfHeap DEF OthersKeep, Types

\* RefillBatch preserves the invariant.
LEMMA RefillBatchSafe ==
  ASSUME HeapInv, NEW t \in Threads, NEW c \in Classes, <<t, c>> \in Producers,
         RefillBatch(t, c), UNCHANGED sup
  PROVE  HeapInv'
<1> DEFINE x == [Idle EXCEPT !.at = "take", !.class = c]
           y == <<Shard(t), c>>
<1>1. /\ job[t].at = "idle" /\ mag[t][c] = <<>> /\ lock[y] = NoThread
      /\ lock' = [lock EXCEPT ![y] = t] /\ job' = [job EXCEPT ![t] = x]
      /\ UNCHANGED <<mag, l2, live, alloc_words, free_words,
                     list, hint, class, home, free, cursor, stopped, sup>>
  BY DEF RefillBatch, At, Goto, bitmaps, table, arena
<1>2. /\ x \in Jobs /\ x.at = "take" /\ x.class = c /\ x.via = "mag"
      /\ x.out = <<>> /\ x.batch = <<>> /\ x.pend = <<>>
  BY IdleJob DEF Jobs, Places, ThreadPlaces, Holding
<1>3. y \in Cells
  BY ShardTypes, OfHeap DEF Cells, Shards
<1> HIDE DEF x, y
<1>4. OthersKeep(t) /\ lock' \in [Cells -> Threads \cup {Sweeper, NoThread}] /\ lock'[y] = t
  BY <1>1, <1>3, LockTaken
<1>5. CallFine(t, x, mag[t])
  <2>1. OfClass(<<>>, c) /\ Len(<<>>) <= WantOf(x) /\ Distinct(<<>>)
    BY Constants, EmptyStack DEF OfClass, WantOf
  <2>2. Allocates(t, c) /\ MagsFine(mag[t]) /\ x.at \in Holding
    BY <1>2, CallNow DEF Allocates, Holding
  <2> QED BY <1>1, <1>2, <2>1, <2>2, RefillFine
<1>6. job'[t] = x /\ Cell(t)' = y
  BY <1>1, <1>2, JobStep, OfHeap DEF Cell, y
<1>7. Refilling(t)'
  BY <1>2, <1>4, <1>6 DEF Refilling
<1>8. x.out = job[t].out /\ x.batch = job[t].batch /\ x.pend = job[t].pend
  BY <1>1, <1>2, IdleEmpty
<1>9. job[t].at # "tile" /\ x.at \notin {"tile", "home", "publish"}
  BY <1>1, <1>2
<1> QED BY <1>1, <1>2, <1>4, <1>5, <1>7, <1>8, <1>9, RefillCall

\* RefillL2 preserves the invariant.
LEMMA RefillL2Safe ==
  ASSUME HeapInv, NEW t \in Threads, RefillL2(t), UNCHANGED sup
  PROVE  HeapInv'
<1> DEFINE j == job[t]
           x == [j EXCEPT !.at = "take"]
           y == Cell(t)
<1>1. /\ j.at = "miss" /\ lock[y] = NoThread
      /\ lock' = [lock EXCEPT ![y] = t] /\ job' = [job EXCEPT ![t] = x]
      /\ UNCHANGED <<mag, l2, live, alloc_words, free_words,
                     list, hint, class, home, free, cursor, stopped, sup>>
  BY DEF RefillL2, At, Goto, bitmaps, table, arena
<1>2. j \in Jobs /\ Shape(t, j, mag[t]) /\ MagsFine(mag[t])
  BY CallNow
<1>3. /\ j.class \in Classes /\ Allocates(t, j.class) /\ j.via \in {"mag", "slab"}
      /\ OfClass(j.out, j.class) /\ Len(j.out) <= WantOf(j)
      /\ j.via = "mag" => mag[t][j.class] = <<>>
  BY <1>1, <1>2 DEF Shape
<1>4. j.out = <<>> /\ j.batch = <<>> /\ j.pend = <<>>
  BY <1>1, IdleEmpty
<1>5. /\ x \in Jobs /\ x.at = "take" /\ x.class = j.class /\ x.via = j.via
      /\ x.out = j.out /\ x.batch = j.batch /\ x.pend = j.pend
  BY <1>2 DEF Jobs, Places, ThreadPlaces, Holding
<1>6. y \in Cells
  BY <1>3, ShardTypes, OfHeap DEF Cells, Shards, Cell
<1> HIDE DEF x, y
<1>7. OthersKeep(t) /\ lock' \in [Cells -> Threads \cup {Sweeper, NoThread}] /\ lock'[y] = t
  BY <1>1, <1>6, LockTaken
<1>8. WantOf(x) = WantOf(j) /\ x.at \in Holding
  BY <1>5 DEF WantOf, Holding
<1>9. CallFine(t, x, mag[t])
  BY <1>2, <1>3, <1>4, <1>5, <1>8, EmptyStack, RefillFine
<1>10. job'[t] = x /\ Cell(t)' = y
  BY <1>1, <1>5, JobStep, OfHeap DEF Cell, y
<1>11. Refilling(t)'
  BY <1>5, <1>7, <1>10 DEF Refilling
<1>12. j.at # "tile" /\ x.at \notin {"tile", "home", "publish"}
  BY <1>1, <1>5
<1> QED BY <1>1, <1>5, <1>7, <1>9, <1>11, <1>12, RefillCall

\* The next place of a refill that goes on with the lock.
LEMMA RefillGoes ==
  ASSUME HeapInv, NEW t \in Threads, job[t].at \in Holding, job[t].at # "tile",
         NEW x \in Jobs, job' = [job EXCEPT ![t] = x], x.at \in {"take", "scan", "carve", "done"},
         x.class = job[t].class, x.via = job[t].via, x.out = job[t].out,
         x.batch = job[t].batch, x.pend = job[t].pend,
         x.at = "scan" => ToSet(x.todo) \subseteq ToSet(list[Cell(t)]),
         UNCHANGED <<mag, l2, live, alloc_words, free_words,
                     list, hint, lock, class, home, free, cursor, stopped, sup>>
  PROVE  HeapInv'
<1> DEFINE j == job[t]
<1>1. /\ j.class \in Classes /\ Cell(t) \in Cells /\ lock[Cell(t)] = t
      /\ Allocates(t, j.class) /\ j.via \in {"mag", "slab"}
      /\ OfClass(j.out, j.class) /\ Len(j.out) <= WantOf(j)
      /\ j.via = "mag" => mag[t][j.class] = <<>>
      /\ j.batch = <<>> /\ j.pend = <<>> /\ Distinct(j.out) /\ MagsFine(mag[t])
  BY InRefill
<1>2. WantOf(x) = WantOf(j) /\ x.at \in Holding
  BY DEF WantOf, Holding
<1>3. CallFine(t, x, mag[t])
  BY <1>1, <1>2, RefillFine
<1>4. job'[t] = x /\ Cell(t)' = Cell(t)
  BY JobStep, OfHeap DEF Cell
<1>5. Refilling(t)'
  BY <1>1, <1>4 DEF Refilling
<1>6. OthersKeep(t) /\ lock' \in [Cells -> Threads \cup {Sweeper, NoThread}]
  BY LockKept
<1>7. x.at \notin {"tile", "home", "publish"}
  OBVIOUS
<1>8. UNCHANGED <<mag, l2, live, alloc_words, free_words,
                  list, hint, class, home, free, cursor, stopped, sup>>
  OBVIOUS
<1> QED BY <1>3, <1>5, <1>6, <1>7, <1>8, RefillCall

\* A span that is being tiled has its cell's lock held.
LEMMA TiledHeld ==
  ASSUME HeapInv, NEW s \in Spans, Tiled(s)
  PROVE  \E u \in Threads : /\ job[u].at = "tile" /\ job[u].todo[1] = s
                            /\ class[s] = job[u].class /\ HomeShard(s) = Shard(u)
                            /\ class[s] \in Classes /\ Cell(u) = <<HomeShard(s), class[s]>>
                            /\ lock[Cell(u)] = u
<1>1. PICK u \in Threads : job[u].at = "tile" /\ job[u].todo[1] = s
  BY DEF Tiled
<1>2. class[s] = job[u].class /\ HomeShard(s) = Shard(u)
  BY <1>1, OfHeap DEF Refilling
<1>3. job[u].class \in Classes /\ lock[Cell(u)] = u
  BY <1>1, InRefill DEF Holding
<1> QED BY <1>1, <1>2, <1>3 DEF Cell

\* A usable hint is a span of the cell: without reclaim because hints are, and
\* with one shard per class because the span can have no other home.
LEMMA HintedSpan ==
  ASSUME HeapInv, Regime, NEW t \in Threads, job[t].at = "take",
         HintUsable(job[t].class, hint[Cell(t)])
  PROVE  hint[Cell(t)] \in ToSet(list[Cell(t)])
<1> DEFINE c == job[t].class
           h == hint[Cell(t)]
<1>1. /\ c \in Classes /\ Cell(t) \in Cells /\ lock[Cell(t)] = t /\ Allocates(t, c)
      /\ Cell(t) = <<Shard(t), c>>
  BY InRefill DEF Holding, Cell
<1>2. Slots[c] <= WordSlots /\ h # NO_SPAN /\ class[h] = c
  BY DEF HintUsable
<1>3. h \in Spans
  BY <1>1, <1>2, OfHeap DEF Types
<1>4. CASE ~Reclaiming
  BY <1>1, <1>2, <1>4, OfHeap DEF Hints
<1>5. CASE Reclaiming
  <2>1. OneShard
    BY <1>5 DEF Regime
  <2>2. /\ h \in ToSet(list[<<HomeShard(h), c>>]) \/ Tiled(h)
        /\ \E u \in Threads : Allocates(u, c) /\ HomeShard(h) = Shard(u)
    BY <1>1, <1>2, <1>3, OfHeap DEF Lists
  <2>3. HomeShard(h) = Shard(t)
    BY <1>1, <1>2, <2>1, <2>2 DEF OneShard
  <2>4. ~Tiled(h)
    <3> SUFFICES ASSUME Tiled(h) PROVE FALSE
      OBVIOUS
    <3> HIDE DEF h
    <3>1. PICK u \in Threads : job[u].at = "tile" /\ Cell(u) = <<HomeShard(h), class[h]>> /\ lock[Cell(u)] = u
      BY <1>3, TiledHeld
    <3>2. Cell(u) = Cell(t)
      BY <1>1, <1>2, <2>3, <3>1
    <3> QED BY <1>1, <3>1, <3>2
  <2> QED BY <1>1, <2>2, <2>3, <2>4
<1> QED BY <1>4, <1>5

\* CentralTake preserves the invariant.
LEMMA CentralTakeSafe ==
  ASSUME HeapInv, Regime, NEW t \in Threads, CentralTake(t), UNCHANGED sup
  PROVE  HeapInv'
<1> DEFINE j == job[t]
           y == Cell(t)
           h == hint[y]
           order == IF HintUsable(j.class, h) THEN <<h>> \o RemoveFirst(list[y], h) ELSE list[y]
           x == [j EXCEPT !.at = "scan", !.todo = order, !.word = 0, !.start = Len(j.out)]
<1>1. /\ j.at = "take" /\ job' = [job EXCEPT ![t] = x]
      /\ UNCHANGED <<mag, l2, live, alloc_words, free_words,
                     list, hint, lock, class, home, free, cursor, stopped, sup>>
  BY DEF CentralTake, At, Goto, bitmaps, table, arena
<1>2. j \in Jobs /\ y \in Cells /\ j.out \in Seq(Objects)
  BY <1>1, InRefill DEF Holding
<1>3. list[y] \in Seq(Spans) /\ Distinct(list[y])
  BY <1>2, OfHeap DEF Types, Lists
<1>4. order \in Seq(Spans) /\ ToSet(order) \subseteq ToSet(list[y])
  <2>1. CASE HintUsable(j.class, h)
    <3>1. h \in ToSet(list[y])
      BY <1>1, <2>1, HintedSpan
    <3>2. h \in Spans
      BY <1>3, <3>1, StackType
    <3> DEFINE p == <<h>>
               q == RemoveFirst(list[y], h)
    <3>3. p \in Seq(Spans) /\ ToSet(p) = {h}
      BY <3>2, OneStack
    <3>4. q \in Seq(Spans) /\ ToSet(q) = ToSet(list[y]) \ {h}
      BY <1>3, RemoveStack
    <3> HIDE DEF p, q
    <3>5. p \o q \in Seq(Spans) /\ ToSet(p \o q) = ToSet(p) \cup ToSet(q)
      BY <3>3, <3>4, JoinStack
    <3>6. order = p \o q
      BY <2>1 DEF p, q
    <3> QED BY <3>1, <3>3, <3>4, <3>5, <3>6
  <2>2. CASE ~HintUsable(j.class, h)
    BY <1>3, <2>2
  <2> QED BY <2>1, <2>2
<1> HIDE DEF order
<1>5. Len(j.out) \in Nat
  BY <1>2
<1>6. /\ x \in Jobs /\ x.at = "scan" /\ x.todo = order /\ x.class = j.class /\ x.via = j.via
      /\ x.out = j.out /\ x.batch = j.batch /\ x.pend = j.pend
  BY <1>2, <1>4, <1>5 DEF Jobs, Places, ThreadPlaces, Holding
<1> HIDE DEF x
<1>7. j.at \in Holding /\ j.at # "tile"
  BY <1>1 DEF Holding
<1> QED BY <1>1, <1>4, <1>6, <1>7, RefillGoes

\* ScanEnd preserves the invariant.
LEMMA ScanEndSafe ==
  ASSUME HeapInv, NEW t \in Threads, ScanEnd(t), UNCHANGED sup
  PROVE  HeapInv'
<1> DEFINE j == job[t]
<1>1. PICK e \in {"done", "carve"} :
      /\ j.at = "scan"
      /\ job' = [job EXCEPT ![t] = [j EXCEPT !.at = e, !.todo = <<>>, !.word = 0]]
      /\ UNCHANGED <<mag, l2, live, alloc_words, free_words,
                     list, hint, lock, class, home, free, cursor, stopped, sup>>
  BY DEF ScanEnd, At, Goto, bitmaps, table, arena
<1> DEFINE x == [j EXCEPT !.at = e, !.todo = <<>>, !.word = 0]
<1>2. j \in Jobs /\ j.at \in Holding /\ j.at # "tile"
  BY <1>1, InRefill DEF Holding
<1>3. /\ x \in Jobs /\ x.at = e /\ x.class = j.class /\ x.via = j.via
      /\ x.out = j.out /\ x.batch = j.batch /\ x.pend = j.pend
  BY <1>2, EmptyStack DEF Jobs, Places, ThreadPlaces, Holding
<1>4. job' = [job EXCEPT ![t] = x]
  BY <1>1
<1> HIDE DEF x
<1>5. x.at \in {"take", "scan", "carve", "done"} /\ x.at # "scan"
  BY <1>3
<1> QED BY <1>1, <1>2, <1>3, <1>4, <1>5, RefillGoes

\* CarveFail preserves the invariant.
LEMMA CarveFailSafe ==
  ASSUME HeapInv, NEW t \in Threads, CarveFail(t), UNCHANGED sup
  PROVE  HeapInv'
<1> DEFINE j == job[t]
           x == [j EXCEPT !.at = "done"]
<1>1. /\ j.at = "carve" /\ job' = [job EXCEPT ![t] = x]
      /\ UNCHANGED <<mag, l2, live, alloc_words, free_words,
                     list, hint, lock, class, home, free, cursor, stopped, sup>>
  BY DEF CarveFail, At, Goto, bitmaps, table, arena
<1>2. j \in Jobs /\ j.at \in Holding /\ j.at # "tile"
  BY <1>1, InRefill DEF Holding
<1>3. /\ x \in Jobs /\ x.at = "done" /\ x.class = j.class /\ x.via = j.via
      /\ x.out = j.out /\ x.batch = j.batch /\ x.pend = j.pend
  BY <1>2 DEF Jobs, Places, ThreadPlaces, Holding
<1> HIDE DEF x
<1> QED BY <1>1, <1>2, <1>3, RefillGoes

\* Nobody else works on a span of the cell whose lock t holds.
LEMMA OwnSpan ==
  ASSUME HeapInv, NEW t \in Threads, job[t].at \in Holding, NEW s \in ToSet(list[Cell(t)])
  PROVE  /\ s \in Spans /\ class[s] = job[t].class /\ HomeShard(s) = Shard(t) /\ ~Tiled(s)
         /\ \A u \in Threads \ {t} : job[u].at = "clear" => job[u].todo[1] # s
         /\ job[Sweeper].at \in {"walk", "retire"} /\ job[Sweeper].todo # <<>> =>
              job[Sweeper].todo[1] # s
<1>1. Cell(t) \in Cells /\ lock[Cell(t)] = t /\ Cell(t) = <<Shard(t), job[t].class>>
  BY InRefill DEF Cell
<1>2. list[Cell(t)] \in Seq(Spans)
  BY <1>1, OfHeap DEF Types
<1>3. s \in Spans
  BY <1>2, StackType
<1>4. class[s] = Cell(t)[2] /\ HomeShard(s) = Cell(t)[1] /\ ~Tiled(s)
  BY <1>1, OfHeap DEF Lists
<1>5. Cell(t)[1] = Shard(t) /\ Cell(t)[2] = job[t].class
  BY <1>1
<1>6. ASSUME NEW y \in Cells, s \in ToSet(list[y]) PROVE y = Cell(t)
  <2>1. class[s] = y[2] /\ HomeShard(s) = y[1]
    BY <1>6, OfHeap DEF Lists
  <2>2. y = <<y[1], y[2]>>
    BY DEF Cells
  <2> QED BY <1>1, <1>4, <1>5, <2>1, <2>2
<1>7. ASSUME NEW u \in Threads \ {t}, job[u].at = "clear" PROVE job[u].todo[1] # s
  <2>1. Cell(u) \in Cells /\ lock[Cell(u)] = u /\ job[u].todo \in Seq(Spans)
    BY <1>7, InRefill DEF Holding
  <2>2. job[u].todo # <<>> /\ ToSet(job[u].todo) \subseteq ToSet(list[Cell(u)])
    BY <1>7, OfHeap DEF Shape, Refilling
  <2>3. job[u].todo[1] \in ToSet(list[Cell(u)])
    BY <2>1, <2>2, StackType
  <2> QED BY <1>1, <1>6, <2>1, <2>3
<1>8. ASSUME job[Sweeper].at \in {"walk", "retire"}, job[Sweeper].todo # <<>>
      PROVE  job[Sweeper].todo[1] # s
  <2>1. /\ job[Sweeper].class \in Classes /\ lock[SweptCell] = Sweeper
        /\ ToSet(job[Sweeper].todo) \subseteq ToSet(list[SweptCell])
    BY <1>8, OfHeap DEF Sweeps
  <2>2. job[Sweeper] \in Jobs
    BY OfHeap DEF Types
  <2>3. job[Sweeper].todo \in Seq(Spans) /\ SweptCell \in Cells
    BY <2>1, <2>2, OfJob DEF SweptCell, Cells, Shards
  <2>4. job[Sweeper].todo[1] \in ToSet(list[SweptCell])
    BY <1>8, <2>1, <2>3, StackType
  <2> QED BY <1>1, <1>6, <2>1, <2>3, <2>4, Constants
<1> QED BY <1>3, <1>4, <1>5, <1>7, <1>8

\* Word w of free_words of span s is folded into alloc_words: g are the free slots
\* there, F the objects that move.
Folded(s, c, w, g, F) ==
  /\ g = (alloc_words[s] \cup free_words[s]) \cap WordMask(c, w)
  /\ alloc_words' = [alloc_words EXCEPT ![s] = (@ \ WordMask(c, w)) \cup g]
  /\ free_words' = [free_words EXCEPT ![s] = SwappedWord(s, WordMask(c, w))]
  /\ F = {r \in Objects : r[1] = c /\ r[2] = s /\ r[3] \in free_words[s] \cap WordMask(c, w)}

FoldDone(s, c, w, g, F) ==
  /\ alloc_words' \in [Spans -> SUBSET Nat] /\ free_words' \in [Spans -> SUBSET Nat] /\ Bits'
  /\ \A r \in Objects : InWord(alloc_words, r)' <=> InWord(alloc_words, r) \/ r \in F
  /\ \A r \in Objects : InWord(free_words, r)' <=> InWord(free_words, r) /\ r \notin F
  /\ \A r \in F : r \in Objects /\ In(r, "free", NoThread)
  /\ \A v \in Spans : v # s => alloc_words'[v] = alloc_words[v] /\ free_words'[v] = free_words[v]
  /\ alloc_words'[s] = alloc_words[s] \cup (free_words[s] \cap WordMask(c, w))
  /\ free_words'[s] = free_words[s] \ WordMask(c, w)
  /\ g \subseteq alloc_words'[s] /\ g \subseteq 0 .. Slots[c] - 1

\* A fold moves the word's objects from free_words to alloc_words and nothing else.
LEMMA FoldWord ==
  ASSUME HeapInv, NEW s \in Spans, NEW c \in Classes, class[s] = c, NEW w \in Nat, NEW g, NEW F,
         Folded(s, c, w, g, F), UNCHANGED class
  PROVE  FoldDone(s, c, w, g, F)
<1> DEFINE m == WordMask(c, w)
<1>1. /\ alloc_words \in [Spans -> SUBSET Nat] /\ free_words \in [Spans -> SUBSET Nat]
      /\ alloc_words[s] \subseteq Nat /\ free_words[s] \subseteq Nat
  BY OfHeap DEF Types
<1>2. alloc_words[s] \cup free_words[s] \subseteq 0 .. Slots[c] - 1
  BY OfHeap DEF Bits, SlotsOf
<1> HIDE DEF m
<1>3. /\ alloc_words' = [alloc_words EXCEPT ![s] = (alloc_words[s] \ m) \cup g]
      /\ free_words' = [free_words EXCEPT ![s] = free_words[s] \ m]
      /\ g = (alloc_words[s] \cup free_words[s]) \cap m
      /\ F = {r \in Objects : r[1] = c /\ r[2] = s /\ r[3] \in free_words[s] \cap m}
  BY <1>1 DEF SwappedWord, Folded, m
<1>4. /\ alloc_words'[s] = alloc_words[s] \cup (free_words[s] \cap m)
      /\ free_words'[s] = free_words[s] \ m
      /\ \A v \in Spans : v # s => alloc_words'[v] = alloc_words[v] /\ free_words'[v] = free_words[v]
  BY <1>1, <1>3
<1>5. alloc_words' \in [Spans -> SUBSET Nat] /\ free_words' \in [Spans -> SUBSET Nat]
  <2>1. (alloc_words[s] \ m) \cup g \in SUBSET Nat /\ free_words[s] \ m \in SUBSET Nat
    BY <1>1, <1>3
  <2> QED BY <1>1, <1>3, <2>1
<1>6. Bits'
  <2> SUFFICES ASSUME NEW v \in Spans
               PROVE  alloc_words'[v] \cup free_words'[v] \subseteq SlotsOf(v)'
    BY DEF Bits
  <2>1. SlotsOf(v)' = SlotsOf(v) /\ alloc_words[v] \cup free_words[v] \subseteq SlotsOf(v)
    BY OfHeap DEF SlotsOf, Bits
  <2>2. CASE v = s
    BY <1>4, <2>1, <2>2
  <2>3. CASE v # s
    BY <1>4, <2>1, <2>3
  <2> QED BY <2>2, <2>3
<1>7. ASSUME NEW r \in Objects
      PROVE  /\ InWord(alloc_words, r)' <=> InWord(alloc_words, r) \/ r \in F
             /\ InWord(free_words, r)' <=> InWord(free_words, r) /\ r \notin F
  <2>1. r[2] \in Spans
    BY ObjectParts
  <2>2. CASE r[2] = s
    <3>1. r \in F <=> r[1] = c /\ r[3] \in free_words[s] /\ r[3] \in m
      BY <1>3, <2>2
    <3> QED BY <1>4, <2>2, <3>1 DEF InWord
  <2>3. CASE r[2] # s
    <3>1. r \notin F
      BY <1>3, <2>3
    <3> QED BY <1>4, <2>1, <2>3, <3>1 DEF InWord
  <2> QED BY <2>2, <2>3
<1>8. ASSUME NEW r \in F PROVE r \in Objects /\ In(r, "free", NoThread)
  <2>1. r \in Objects /\ InWord(free_words, r)
    BY <1>3 DEF InWord
  <2> QED BY <2>1, IsIn, OfHeap
<1>9. g \subseteq alloc_words'[s] /\ g \subseteq 0 .. Slots[c] - 1
  BY <1>2, <1>3, <1>4
<1> QED BY <1>4, <1>5, <1>6, <1>7, <1>8, <1>9 DEF m, FoldDone

\* A scan goes on with the next word or the next span.
LEMMA NextWordGoes ==
  ASSUME NEW j \in Jobs, j.todo # <<>>, NEW x, x = NextWord(j)
  PROVE  /\ x \in Jobs /\ x.at = "scan" /\ x.class = j.class /\ x.via = j.via /\ x.out = j.out
         /\ x.batch = j.batch /\ x.pend = j.pend /\ ToSet(x.todo) \subseteq ToSet(j.todo)
<1>1. j.todo \in Seq(Spans) /\ j.word \in Nat
  BY OfJob
<1>2. Tail(j.todo) \in Seq(Spans) /\ ToSet(Tail(j.todo)) \subseteq ToSet(j.todo)
  BY <1>1, TailStack
<1>3. CASE j.word + 1 < NumWords(j.class)
  <2>1. x = [j EXCEPT !.at = "scan", !.word = j.word + 1, !.taken = {}]
    BY <1>3 DEF NextWord
  <2>2. j.word + 1 \in Nat
    BY <1>1
  <2> QED BY <2>1, <2>2 DEF Jobs, Places, ThreadPlaces, Holding
<1>4. CASE ~(j.word + 1 < NumWords(j.class))
  <2> DEFINE q == Tail(j.todo)
  <2>1. x = [j EXCEPT !.at = "scan", !.word = 0, !.taken = {}, !.todo = q]
    BY <1>4 DEF NextWord
  <2>2. q \in Seq(Spans) /\ ToSet(q) \subseteq ToSet(j.todo)
    BY <1>2
  <2> HIDE DEF q
  <2>3. /\ x \in Jobs /\ x.at = "scan" /\ x.class = j.class /\ x.via = j.via /\ x.out = j.out
        /\ x.batch = j.batch /\ x.pend = j.pend /\ x.todo = q
    <3>1. x \in Jobs
      <4>1. 0 \in Nat /\ {} \in SUBSET Nat /\ "scan" \in Places
        BY DEF Places, ThreadPlaces, Holding
      <4> QED BY <2>1, <2>2, <4>1 DEF Jobs
    <3> QED BY <2>1, <3>1 DEF Jobs
  <2> QED BY <2>2, <2>3
<1> QED BY <1>3, <1>4

\* ScanFold preserves the invariant.
LEMMA ScanFoldSafe ==
  ASSUME HeapInv, NEW t \in Threads, ScanFold(t), UNCHANGED sup
  PROVE  HeapInv'
<1> DEFINE j == job[t]
           s == Head(j.todo)
           m == WordMask(j.class, j.word)
           g == (alloc_words[s] \cup free_words[s]) \cap m
           n == Want(t) - Len(j.out)
           x == IF g = {} THEN NextWord(j) ELSE [j EXCEPT !.at = "clear", !.taken = Lowest(g, n)]
           F == {r \in Objects : r[1] = j.class /\ r[2] = s /\ r[3] \in free_words[s] \cap m}
<1>1. /\ j.at = "scan" /\ j.todo # <<>> /\ Len(j.out) # Want(t)
      /\ alloc_words' = [alloc_words EXCEPT ![s] = (@ \ m) \cup g]
      /\ free_words' = [free_words EXCEPT ![s] = SwappedWord(s, m)]
      /\ job' = [job EXCEPT ![t] = x]
      /\ UNCHANGED <<mag, l2, live, list, hint, lock, class, home, free, cursor, stopped, sup>>
  BY DEF ScanFold, ScanOver, At, Goto, table, arena
<1>2. /\ j.at \in Holding /\ j \in Jobs /\ j.class \in Classes /\ Cell(t) \in Cells /\ lock[Cell(t)] = t
      /\ Allocates(t, j.class) /\ j.via \in {"mag", "slab"}
      /\ OfClass(j.out, j.class) /\ Len(j.out) <= WantOf(j)
      /\ j.via = "mag" => mag[t][j.class] = <<>>
      /\ j.batch = <<>> /\ j.pend = <<>> /\ j.out \in Seq(Objects) /\ Distinct(j.out)
      /\ j.todo \in Seq(Spans) /\ MagsFine(mag[t]) /\ j.word \in Nat
  BY <1>1, InRefill, OfJob DEF Holding
<1>3. ToSet(j.todo) \subseteq ToSet(list[Cell(t)])
  BY <1>1, OfHeap DEF Refilling
<1>4. s = j.todo[1] /\ s \in ToSet(j.todo) /\ s \in ToSet(list[Cell(t)]) /\ s \in Spans
  BY <1>1, <1>2, <1>3, StackType
<1>5. Want(t) = WantOf(j)
  BY DEF Want, WantOf
<1>6. class[s] = j.class
  BY <1>2, <1>4, OwnSpan
<1> HIDE DEF s, x, F
<1>7. /\ alloc_words' \in [Spans -> SUBSET Nat] /\ free_words' \in [Spans -> SUBSET Nat] /\ Bits'
      /\ \A r \in Objects : InWord(alloc_words, r)' <=> InWord(alloc_words, r) \/ r \in F
      /\ \A r \in Objects : InWord(free_words, r)' <=> InWord(free_words, r) /\ r \notin F
      /\ \A r \in F : r \in Objects /\ In(r, "free", NoThread)
      /\ \A v \in Spans : v # s => alloc_words'[v] = alloc_words[v] /\ free_words'[v] = free_words[v]
      /\ g \subseteq alloc_words'[s] /\ g \subseteq 0 .. Slots[j.class] - 1
  <2> DEFINE c == j.class
             w == j.word
  <2>1. /\ c \in Classes /\ class[s] = c /\ w \in Nat /\ s \in Spans
        /\ Folded(s, c, w, g, F) /\ UNCHANGED class
    BY <1>1, <1>2, <1>4, <1>6 DEF F, Folded
  <2> HIDE DEF g, w, c
  <2>2. FoldDone(s, c, w, g, F)
    BY <2>1, FoldWord
  <2> QED BY <2>2 DEF c, FoldDone
<1>8. OthersKeep(t) /\ lock' \in [Cells -> Threads \cup {Sweeper, NoThread}]
  <2>1. /\ \A u \in Threads \ {t} : job[u].at = "clear" => job[u].todo[1] # s
        /\ job[Sweeper].at \in {"walk", "retire"} /\ job[Sweeper].todo # <<>> =>
             job[Sweeper].todo[1] # s
    BY <1>2, <1>4, OwnSpan
  <2>2. \A v : v # s => alloc_words'[v] = alloc_words[v]
    BY <1>1, OfHeap DEF Types
  <2>3. lock \in [Cells -> Threads \cup {Sweeper, NoThread}]
    BY OfHeap DEF Types
  <2> QED BY <1>1, <2>1, <2>2, <2>3 DEF OthersKeep
<1>9. /\ x \in Jobs /\ x.at \in {"scan", "clear"} /\ x.class = j.class /\ x.via = j.via
      /\ x.out = j.out /\ x.batch = j.batch /\ x.pend = j.pend
      /\ ToSet(x.todo) \subseteq ToSet(j.todo)
      /\ x.at = "clear" => /\ x.todo = j.todo /\ IsFiniteSet(x.taken) /\ x.taken \subseteq g
                           /\ Len(x.out) + Cardinality(x.taken) <= WantOf(j)
  <2>1. CASE g = {}
    <3>1. x = NextWord(j)
      BY <2>1 DEF x
    <3> QED BY <1>1, <1>2, <3>1, NextWordGoes
  <2>2. CASE g # {}
    <3>1. x = [j EXCEPT !.at = "clear", !.taken = Lowest(g, n)]
      BY <2>2 DEF x
    <3>2. n \in Nat /\ Len(j.out) \in Nat /\ WantOf(j) = Len(j.out) + n
      BY <1>1, <1>2, <1>5, Constants DEF WantOf
    <3>3. IsFiniteSet(g) /\ g \in SUBSET Nat
      <4> DEFINE e == Slots[j.class] - 1
                 R == 0 .. e
      <4>1. e \in Int
        BY <1>2, Constants
      <4>2. g \subseteq R /\ g \subseteq Nat
        BY <1>7
      <4> HIDE DEF e, g
      <4>3. IsFiniteSet(R)
        BY <4>1, FS_Interval
      <4> HIDE DEF R
      <4>4. IsFiniteSet(g)
        BY <4>2, <4>3, FS_Subset
      <4> QED BY <4>2, <4>4
    <3> HIDE DEF g, n
    <3>4. /\ Lowest(g, n) \subseteq g /\ IsFiniteSet(Lowest(g, n))
          /\ Cardinality(Lowest(g, n)) \in Nat /\ Cardinality(Lowest(g, n)) <= n
      BY <3>2, <3>3, LowestFew
    <3>5. Lowest(g, n) \in SUBSET Nat
      BY <3>3, <3>4
    <3>6. /\ x \in Jobs /\ x.at = "clear" /\ x.class = j.class /\ x.via = j.via
          /\ x.out = j.out /\ x.batch = j.batch /\ x.pend = j.pend /\ x.todo = j.todo
          /\ x.taken = Lowest(g, n)
      BY <1>2, <3>1, <3>5 DEF Jobs, Places, ThreadPlaces, Holding
    <3>7. Len(j.out) + Cardinality(Lowest(g, n)) <= WantOf(j)
      BY <3>2, <3>4
    <3> QED BY <3>4, <3>6, <3>7
  <2> QED BY <2>1, <2>2
<1>10. CallFine(t, x, mag[t])
  <2>1. WantOf(x) = WantOf(j) /\ x.at \in Holding /\ x.at # "tile"
    BY <1>9 DEF WantOf, Holding
  <2>2. x.at = "clear" => /\ x.todo # <<>> /\ IsFiniteSet(x.taken)
                          /\ x.taken \subseteq 0 .. Slots[x.class] - 1
                          /\ Len(x.out) + Cardinality(x.taken) <= WantOf(x)
    BY <1>1, <1>7, <1>9, <2>1
  <2> QED BY <1>2, <1>9, <2>1, <2>2, RefillFine
<1>11. job'[t] = x /\ Cell(t)' = Cell(t)
  BY <1>1, <1>9, JobStep, OfHeap DEF Cell
<1>12. Refilling(t)'
  <2>1. ToSet(x.todo) \subseteq ToSet(list'[Cell(t)])
    BY <1>1, <1>3, <1>9
  <2>2. x.at = "clear" => x.taken \subseteq alloc_words'[x.todo[1]]
    BY <1>4, <1>7, <1>9
  <2>3. x.at # "tile" /\ lock'[Cell(t)] = t
    BY <1>1, <1>2, <1>9
  <2> QED BY <1>11, <2>1, <2>2, <2>3 DEF Refilling
<1> DEFINE N == {}
<1>13. Moved(t, x, mag[t], F, "alloc", NoThread, N, "live", NoThread)
  <2> SUFFICES ASSUME NEW r \in Objects
               PROVE  /\ InWord(alloc_words, r)' <=> (InWord(alloc_words, r) /\ r \notin F) \/ r \in F
                      /\ InWord(free_words, r)' <=> InWord(free_words, r) /\ r \notin F
                      /\ r \in live' <=> r \in live /\ r \notin F
                      /\ r \in ToSet(mag[t][r[1]]) <=> r \in ToSet(mag[t][r[1]]) /\ r \notin F
                      /\ r \in ToSet(x.out) <=> r \in ToSet(job[t].out) /\ r \notin F
                      /\ r \in ToSet(x.batch) <=> r \in ToSet(job[t].batch) /\ r \notin F
                      /\ r \in ToSet(x.pend) <=> r \in ToSet(job[t].pend) /\ r \notin F
                      /\ \A p \in Cpus : r \in ToSet(l2'[p][r[1]]) <=>
                                            r \in ToSet(l2[p][r[1]]) /\ r \notin F
    BY DEF Moved
  <2>1. /\ InWord(alloc_words, r)' <=> InWord(alloc_words, r) \/ r \in F
        /\ InWord(free_words, r)' <=> InWord(free_words, r) /\ r \notin F
        /\ live' = live /\ l2' = l2 /\ x.out = job[t].out /\ x.batch = job[t].batch
        /\ x.pend = job[t].pend
    BY <1>1, <1>7, <1>9
  <2>2. CASE r \in F
    <3>1. In(r, "free", NoThread)
      BY <1>7, <2>2
    <3> QED BY <2>1, <2>2, <3>1 DEF In
  <2>3. CASE r \notin F
    BY <2>1, <2>3
  <2> QED BY <2>2, <2>3
<1>14. F \cap N = {} /\ \A r \in F \cup N : Held(r, t)
  BY <1>7, HeldBy
<1> HIDE DEF N
<1>15. Carried(t, x, mag[t], F, "alloc", NoThread, N, "live", NoThread)
  BY <1>13, <1>14 DEF Carried, Target
<1>16. /\ UNCHANGED <<list, hint, class, home, free, cursor, stopped, sup>>
       /\ mag[t] \in [Classes -> Seq(Objects)] /\ mag' = [mag EXCEPT ![t] = mag[t]]
       /\ SlabsFine' /\ live' \in SUBSET Objects
       /\ j.at # "tile" /\ x.at \notin {"tile", "home", "publish"}
  BY <1>1, <1>9, CallNow, SlabsSame, OfHeap DEF Types
<1> QED BY <1>1, <1>7, <1>8, <1>9, <1>10, <1>12, <1>15, <1>16, RefillStep

\* The slots T of span s leave alloc_words: M are their objects.
Cleared(s, c, T, M) ==
  /\ T \subseteq alloc_words[s]
  /\ alloc_words' = [alloc_words EXCEPT ![s] = @ \ T]
  /\ M = {r \in Objects : r[1] = c /\ r[2] = s /\ r[3] \in T}

ClearDone(s, T, M) ==
  /\ alloc_words' \in [Spans -> SUBSET Nat] /\ free_words' \in [Spans -> SUBSET Nat] /\ Bits'
  /\ \A r \in Objects : InWord(alloc_words, r)' <=> InWord(alloc_words, r) /\ r \notin M
  /\ \A r \in Objects : InWord(free_words, r)' <=> InWord(free_words, r)
  /\ \A r \in M : r \in Objects /\ In(r, "alloc", NoThread)
  /\ \A v \in Spans : v # s => alloc_words'[v] = alloc_words[v]
  /\ alloc_words'[s] = alloc_words[s] \ T

\* Clearing the taken slots removes just their objects from alloc_words.
LEMMA ClearWord ==
  ASSUME HeapInv, NEW s \in Spans, NEW c \in Classes, class[s] = c, NEW T, NEW M,
         Cleared(s, c, T, M), UNCHANGED <<class, free_words>>
  PROVE  ClearDone(s, T, M)
<1>1. /\ alloc_words \in [Spans -> SUBSET Nat] /\ free_words \in [Spans -> SUBSET Nat]
      /\ alloc_words[s] \subseteq Nat
  BY OfHeap DEF Types
<1>2. /\ alloc_words' = [alloc_words EXCEPT ![s] = alloc_words[s] \ T] /\ T \subseteq alloc_words[s]
      /\ M = {r \in Objects : r[1] = c /\ r[2] = s /\ r[3] \in T}
  BY <1>1 DEF Cleared
<1>3. alloc_words' \in [Spans -> SUBSET Nat]
  <2>1. alloc_words[s] \ T \in SUBSET Nat
    BY <1>1
  <2> QED BY <1>1, <1>2, <2>1
<1>4. /\ alloc_words'[s] = alloc_words[s] \ T
      /\ \A v \in Spans : v # s => alloc_words'[v] = alloc_words[v]
  BY <1>1, <1>2
<1>5. Bits'
  <2> SUFFICES ASSUME NEW v \in Spans
               PROVE  alloc_words'[v] \cup free_words'[v] \subseteq SlotsOf(v)'
    BY DEF Bits
  <2>1. SlotsOf(v)' = SlotsOf(v) /\ alloc_words[v] \cup free_words[v] \subseteq SlotsOf(v)
    BY OfHeap DEF SlotsOf, Bits
  <2>2. CASE v = s
    BY <1>4, <2>1, <2>2
  <2>3. CASE v # s
    BY <1>4, <2>1, <2>3
  <2> QED BY <2>2, <2>3
<1>6. ASSUME NEW r \in Objects
      PROVE  InWord(alloc_words, r)' <=> InWord(alloc_words, r) /\ r \notin M
  <2>1. r[2] \in Spans
    BY ObjectParts
  <2>2. CASE r[2] = s
    <3>1. r \in M <=> r[1] = c /\ r[3] \in T
      BY <1>2, <2>2
    <3> QED BY <1>4, <2>2, <3>1 DEF InWord
  <2>3. CASE r[2] # s
    <3>1. r \notin M
      BY <1>2, <2>3
    <3> QED BY <1>4, <2>1, <2>3, <3>1 DEF InWord
  <2> QED BY <2>2, <2>3
<1>7. ASSUME NEW r \in M PROVE r \in Objects /\ In(r, "alloc", NoThread)
  <2>1. r \in Objects /\ InWord(alloc_words, r)
    BY <1>2 DEF InWord
  <2> QED BY <2>1, IsIn, OfHeap
<1>8. \A r \in Objects : InWord(free_words, r)' <=> InWord(free_words, r)
  BY DEF InWord
<1> QED BY <1>1, <1>3, <1>4, <1>5, <1>6, <1>7, <1>8 DEF ClearDone

\* ScanClear preserves the invariant.
LEMMA ScanClearSafe ==
  ASSUME HeapInv, NEW t \in Threads, ScanClear(t), UNCHANGED sup
  PROVE  HeapInv'
<1> DEFINE j == job[t]
           c == j.class
           T == j.taken
           s == Head(j.todo)
           q == [i \in 1 .. Cardinality(T) |-> <<c, s, Nth(T, i)>>]
           y == [j EXCEPT !.out = j.out \o q]
           x == NextWord(y)
           M == {r \in Objects : r[1] = c /\ r[2] = s /\ r[3] \in T}
<1>1. /\ j.at = "clear" /\ alloc_words' = [alloc_words EXCEPT ![s] = @ \ T]
      /\ UNCHANGED <<mag, l2, live, free_words, list, hint, lock, class, home, free, cursor, stopped, sup>>
  BY DEF ScanClear, At, table, arena
<1>2. /\ j.at \in Holding /\ j \in Jobs /\ c \in Classes /\ Cell(t) \in Cells /\ lock[Cell(t)] = t
      /\ Allocates(t, c) /\ j.via \in {"mag", "slab"}
      /\ OfClass(j.out, c) /\ Len(j.out) <= WantOf(j)
      /\ j.via = "mag" => mag[t][c] = <<>>
      /\ j.batch = <<>> /\ j.pend = <<>> /\ j.out \in Seq(Objects) /\ Distinct(j.out)
      /\ j.todo \in Seq(Spans) /\ MagsFine(mag[t])
  BY <1>1, InRefill DEF Holding
<1>3. job' = [job EXCEPT ![t] = x]
  BY <1>2 DEF ScanClear, Goto, Jobs
<1>4. /\ j.todo # <<>> /\ IsFiniteSet(T) /\ T \subseteq 0 .. Slots[c] - 1
      /\ Len(j.out) + Cardinality(T) <= WantOf(j)
  BY <1>1, OfHeap DEF Shape
<1>5. ToSet(j.todo) \subseteq ToSet(list[Cell(t)]) /\ T \subseteq alloc_words[j.todo[1]]
  BY <1>1, OfHeap DEF Refilling
<1>6. s = j.todo[1] /\ s \in ToSet(j.todo) /\ s \in ToSet(list[Cell(t)]) /\ s \in Spans
  BY <1>2, <1>4, <1>5, StackType
<1>7. class[s] = c
  BY <1>2, <1>6, OwnSpan
<1> HIDE DEF s, x, y, T, c
<1>8. q \in Seq(Objects) /\ Len(q) = Cardinality(T) /\ Distinct(q) /\ ToSet(q) = {<<c, s, i>> : i \in T}
  BY <1>2, <1>4, <1>6, TakenObjects
<1>9. ToSet(q) = M
  <2>1. ASSUME NEW i \in T PROVE <<c, s, i>> \in Objects
    BY <1>2, <1>4, <1>6, MakeObject
  <2>2. ASSUME NEW r \in Objects PROVE r = <<r[1], r[2], r[3]>>
    BY ObjectParts
  <2> QED BY <1>8, <2>1, <2>2
<1> HIDE DEF q, M
<1>10. ClearDone(s, T, M)
  <2>1. Cleared(s, c, T, M)
    BY <1>1, <1>5, <1>6 DEF Cleared, M
  <2> QED BY <1>1, <1>2, <1>6, <1>7, <2>1, ClearWord
<1>11. /\ \A r \in Objects : InWord(alloc_words, r)' <=> InWord(alloc_words, r) /\ r \notin M
       /\ \A r \in Objects : InWord(free_words, r)' <=> InWord(free_words, r)
       /\ \A r \in M : r \in Objects /\ In(r, "alloc", NoThread)
       /\ \A v \in Spans : v # s => alloc_words'[v] = alloc_words[v]
       /\ alloc_words' \in [Spans -> SUBSET Nat] /\ free_words' \in [Spans -> SUBSET Nat] /\ Bits'
  BY <1>10 DEF ClearDone
<1>12. ToSet(j.out) \cap M = {}
  BY <1>11 DEF In
<1>13. /\ j.out \o q \in Seq(Objects) /\ Len(j.out \o q) = Len(j.out) + Len(q)
       /\ ToSet(j.out \o q) = ToSet(j.out) \cup M /\ Distinct(j.out \o q)
  <2> DEFINE z == j.out
  <2>1. z \in Seq(Objects) /\ q \in Seq(Objects) /\ Distinct(z) /\ Distinct(q) /\ ToSet(q) = M
        /\ ToSet(z) \cap ToSet(q) = {}
    BY <1>2, <1>8, <1>9, <1>12
  <2> HIDE DEF z
  <2>2. /\ z \o q \in Seq(Objects) /\ Len(z \o q) = Len(z) + Len(q)
        /\ ToSet(z \o q) = ToSet(z) \cup ToSet(q) /\ Distinct(z \o q)
    BY <2>1, JoinStack
  <2> QED BY <2>1, <2>2 DEF z
<1> DEFINE w == j.out \o q
<1> HIDE DEF w
<1>14. /\ w \in Seq(Objects) /\ Len(w) <= WantOf(j) /\ ToSet(w) = ToSet(j.out) \cup M /\ Distinct(w)
       /\ OfClass(w, c)
  <2>1. w \in Seq(Objects) /\ Len(w) <= WantOf(j) /\ ToSet(w) = ToSet(j.out) \cup M /\ Distinct(w)
    BY <1>4, <1>8, <1>13 DEF w
  <2>2. \A r \in M : r[1] = c
    BY DEF M
  <2> QED BY <1>2, <2>1, <2>2 DEF OfClass
<1>15. y \in Jobs /\ y.out = w /\ y.class = c /\ y.via = j.via /\ y.batch = j.batch /\ y.pend = j.pend
       /\ y.todo = j.todo
  <2>1. y = [j EXCEPT !.out = w]
    BY DEF y, w
  <2> QED BY <1>2, <1>14, <2>1 DEF Jobs, c
<1>16. /\ x \in Jobs /\ x.at = "scan" /\ x.class = c /\ x.via = j.via /\ x.out = w
       /\ x.batch = <<>> /\ x.pend = <<>> /\ ToSet(x.todo) \subseteq ToSet(j.todo)
  <2>1. x = NextWord(y) /\ y.todo # <<>>
    BY <1>4, <1>15 DEF x
  <2> QED BY <1>2, <1>15, <2>1, NextWordGoes
<1>17. OthersKeep(t) /\ lock' \in [Cells -> Threads \cup {Sweeper, NoThread}]
  <2>1. /\ \A u \in Threads \ {t} : job[u].at = "clear" => job[u].todo[1] # s
        /\ job[Sweeper].at \in {"walk", "retire"} /\ job[Sweeper].todo # <<>> =>
             job[Sweeper].todo[1] # s
    BY <1>2, <1>6, OwnSpan
  <2>2. \A v : v # s => alloc_words'[v] = alloc_words[v]
    BY <1>1, OfHeap DEF Types
  <2>3. lock \in [Cells -> Threads \cup {Sweeper, NoThread}]
    BY OfHeap DEF Types
  <2> QED BY <1>1, <2>1, <2>2, <2>3 DEF OthersKeep
<1>18. CallFine(t, x, mag[t])
  <2>1. WantOf(x) = WantOf(j) /\ x.at \in Holding /\ x.at # "tile" /\ x.at # "clear"
    BY <1>16 DEF WantOf, Holding
  <2> QED BY <1>2, <1>14, <1>16, <2>1, RefillFine
<1>19. job'[t] = x /\ Cell(t)' = Cell(t)
  BY <1>3, <1>16, JobStep, OfHeap DEF Cell, c
<1>20. Refilling(t)'
  <2>1. ToSet(x.todo) \subseteq ToSet(list'[Cell(t)])
    BY <1>1, <1>5, <1>16
  <2>2. x.at = "scan" /\ lock'[Cell(t)] = t
    BY <1>1, <1>2, <1>16
  <2> QED BY <1>19, <2>1, <2>2 DEF Refilling
<1> DEFINE N == {}
<1>21. Moved(t, x, mag[t], M, "out", t, N, "live", NoThread)
  <2> SUFFICES ASSUME NEW r \in Objects
               PROVE  /\ InWord(alloc_words, r)' <=> InWord(alloc_words, r) /\ r \notin M
                      /\ InWord(free_words, r)' <=> InWord(free_words, r) /\ r \notin M
                      /\ r \in live' <=> r \in live /\ r \notin M
                      /\ r \in ToSet(mag[t][r[1]]) <=> r \in ToSet(mag[t][r[1]]) /\ r \notin M
                      /\ r \in ToSet(x.out) <=> (r \in ToSet(job[t].out) /\ r \notin M) \/ r \in M
                      /\ r \in ToSet(x.batch) <=> r \in ToSet(job[t].batch) /\ r \notin M
                      /\ r \in ToSet(x.pend) <=> r \in ToSet(job[t].pend) /\ r \notin M
                      /\ \A p \in Cpus : r \in ToSet(l2'[p][r[1]]) <=>
                                            r \in ToSet(l2[p][r[1]]) /\ r \notin M
    BY DEF Moved
  <2>1. /\ InWord(alloc_words, r)' <=> InWord(alloc_words, r) /\ r \notin M
        /\ InWord(free_words, r)' <=> InWord(free_words, r)
        /\ live' = live /\ l2' = l2 /\ ToSet(x.out) = ToSet(job[t].out) \cup M
        /\ x.batch = job[t].batch /\ x.pend = job[t].pend
    BY <1>1, <1>2, <1>11, <1>14, <1>16
  <2>2. CASE r \in M
    <3>1. In(r, "alloc", NoThread)
      BY <1>11, <2>2
    <3> QED BY <2>1, <2>2, <3>1 DEF In
  <2>3. CASE r \notin M
    BY <2>1, <2>3
  <2> QED BY <2>2, <2>3
<1>22. M \cap N = {} /\ \A r \in M \cup N : Held(r, t)
  BY <1>11, HeldBy
<1> HIDE DEF N
<1>23. Carried(t, x, mag[t], M, "out", t, N, "live", NoThread)
  BY <1>21, <1>22 DEF Carried, Target
<1>24. /\ UNCHANGED <<list, hint, class, home, free, cursor, stopped, sup>>
       /\ mag[t] \in [Classes -> Seq(Objects)] /\ mag' = [mag EXCEPT ![t] = mag[t]]
       /\ SlabsFine' /\ live' \in SUBSET Objects
       /\ j.at # "tile" /\ x.at \notin {"tile", "home", "publish"}
  BY <1>1, <1>16, CallNow, SlabsSame, OfHeap DEF Types
<1> QED BY <1>3, <1>11, <1>16, <1>17, <1>18, <1>20, <1>23, <1>24, RefillStep

\* The leftovers of a refill that go to the slab.
LEMMA PushFine ==
  ASSUME NEW t \in Threads, NEW x \in Jobs, NEW m, MagsFine(m), x.at = "push", x.class \in Classes,
         OfClass(x.out, x.class), x.out # <<>>, Distinct(x.out), x.batch = <<>>, x.pend = <<>>
  PROVE  CallFine(t, x, m)
<1>1. Shape(t, x, m)
  BY DEF Shape, MagsFine, Holding, Freeing, ThreadPlaces
<1> QED BY <1>1, EmptyStack DEF CallFine

\* A refill ends and drops its lock: the objects move as stated.
LEMMA RefillEnds ==
  ASSUME HeapInv, NEW t \in Threads, job[t].at = "done", NEW x \in Jobs,
         NEW m \in [Classes -> Seq(Objects)], x.at \in {"idle", "push"},
         lock' = [lock EXCEPT ![Cell(t)] = NoThread],
         job' = [job EXCEPT ![t] = x], mag' = [mag EXCEPT ![t] = m], CallFine(t, x, m),
         live' \in SUBSET Objects,
         UNCHANGED <<l2, alloc_words, free_words, list, hint, class, home, free, cursor, stopped, sup>>,
         NEW M, NEW k, NEW a, NEW N, NEW l, NEW b, Carried(t, x, m, M, k, a, N, l, b)
  PROVE  HeapInv'
<1>1. Cell(t) \in Cells /\ lock[Cell(t)] = t
  BY InRefill DEF Holding
<1> DEFINE y == Cell(t)
<1>2. y \in Cells /\ lock[y] = t /\ lock' = [lock EXCEPT ![y] = NoThread]
  BY <1>1
<1> HIDE DEF y
<1>3. OthersKeep(t) /\ lock' \in [Cells -> Threads \cup {Sweeper, NoThread}]
  BY <1>2, LockTaken
<1>4. job'[t] = x
  BY JobStep, OfHeap
<1>5. Refilling(t)'
  BY <1>4 DEF Refilling, Holding
<1>6. /\ SlabsFine' /\ Bits'
      /\ alloc_words' \in [Spans -> SUBSET Nat] /\ free_words' \in [Spans -> SUBSET Nat]
      /\ UNCHANGED <<list, hint, class, home, free, cursor, stopped, sup>>
      /\ job[t].at # "tile" /\ x.at \notin {"tile", "home", "publish"}
  BY OfHeap, WordsSame, SlabsSame DEF Types
<1> QED BY <1>3, <1>5, <1>6, RefillStep

Rest(t, x, m, Q, l) ==
  \A r \in Objects :
    /\ r \in ToSet(m[r[1]]) <=> r \in ToSet(mag[t][r[1]]) \/ (r \in Q /\ l = "mag")
    /\ r \in ToSet(x.out) <=> r \in Q /\ l = "out"

\* The first object of a refill goes to the program, the rest Q to place l of t.
LEMMA RefillMoves ==
  ASSUME HeapInv, NEW t \in Threads, job[t].at = "done", NEW x \in Jobs,
         NEW m \in [Classes -> Seq(Objects)], NEW o, NEW Q, NEW l,
         job[t].out # <<>>, o = Head(job[t].out), Q = ToSet(Tail(job[t].out)),
         l \in {"mag", "out"}, live' = live \cup {o},
         Rest(t, x, m, Q, l),
         x.batch = <<>>, x.pend = <<>>, UNCHANGED <<l2, alloc_words, free_words, class>>
  PROVE  /\ Carried(t, x, m, {o}, "live", NoThread, Q, l, t) /\ live' \in SUBSET Objects
<1> DEFINE q == job[t].out
           M == {o}
<1>1. q \in Seq(Objects) /\ Distinct(q) /\ job[t].batch = <<>> /\ job[t].pend = <<>>
  BY InRefill DEF Holding
<1>2. /\ o \in Objects /\ ToSet(q) = Q \cup {o} /\ o \notin Q /\ Q \subseteq Objects
  <2>1. Tail(q) \in Seq(Objects)
    BY <1>1, TailStack
  <2>2. ToSet(Tail(q)) \subseteq Objects
    BY <2>1, StackType
  <2> QED BY <1>1, <2>2, TailStack
<1>3. \A r \in ToSet(q) : In(r, "out", t)
  BY <1>2, IsIn, OfHeap
<1>4. Moved(t, x, m, M, "live", NoThread, Q, l, t)
  <2> SUFFICES ASSUME NEW r \in Objects
               PROVE  /\ InWord(alloc_words, r)' <=> InWord(alloc_words, r) /\ r \notin M /\ r \notin Q
                      /\ InWord(free_words, r)' <=> InWord(free_words, r) /\ r \notin M /\ r \notin Q
                      /\ r \in live' <=> (r \in live /\ r \notin M /\ r \notin Q) \/ r \in M
                      /\ r \in ToSet(m[r[1]]) <=>
                           (r \in ToSet(mag[t][r[1]]) /\ r \notin M /\ r \notin Q) \/ (r \in Q /\ l = "mag")
                      /\ r \in ToSet(x.out) <=>
                           (r \in ToSet(job[t].out) /\ r \notin M /\ r \notin Q) \/ (r \in Q /\ l = "out")
                      /\ r \in ToSet(x.batch) <=> r \in ToSet(job[t].batch) /\ r \notin M /\ r \notin Q
                      /\ r \in ToSet(x.pend) <=> r \in ToSet(job[t].pend) /\ r \notin M /\ r \notin Q
                      /\ \A p \in Cpus : r \in ToSet(l2'[p][r[1]]) <=>
                                            r \in ToSet(l2[p][r[1]]) /\ r \notin M /\ r \notin Q
    BY DEF Moved
  <2>1. /\ InWord(alloc_words, r)' <=> InWord(alloc_words, r)
        /\ InWord(free_words, r)' <=> InWord(free_words, r)
        /\ live' = live \cup {o} /\ l2' = l2 /\ x.batch = job[t].batch /\ x.pend = job[t].pend
        /\ r \notin ToSet(x.batch) /\ r \notin ToSet(x.pend)
    BY <1>1, EmptyStack DEF InWord
  <2>2. CASE r \in ToSet(q)
    <3>1. In(r, "out", t)
      BY <1>3, <2>2
    <3>2. /\ ~InWord(alloc_words, r) /\ ~InWord(free_words, r) /\ r \notin live
          /\ r \notin ToSet(mag[t][r[1]]) /\ \A p \in Cpus : r \notin ToSet(l2[p][r[1]])
      BY <3>1 DEF In
    <3> QED BY <1>2, <2>1, <2>2, <3>2 DEF Rest
  <2>3. CASE r \notin ToSet(q)
    BY <1>2, <2>1, <2>3 DEF Rest
  <2> QED BY <2>2, <2>3
<1>5. M \cap Q = {} /\ \A r \in M \cup Q : Held(r, t)
  <2>1. M \cap Q = {} /\ M \cup Q = ToSet(q) /\ ToSet(q) \subseteq Objects
    BY <1>2
  <2> QED BY <1>3, <2>1, HeldBy
<1>6. Target("live", NoThread, t) /\ Target(l, t, t)
  BY DEF Target
<1>7. live' \in SUBSET Objects
  BY <1>2, OfHeap DEF Types
<1> QED BY <1>4, <1>5, <1>6, <1>7 DEF Carried

\* RefillDone preserves the invariant.
LEMMA RefillDoneSafe ==
  ASSUME HeapInv, NEW t \in Threads, RefillDone(t), UNCHANGED sup
  PROVE  HeapInv'
<1> DEFINE j == job[t]
           q == j.out
           c == j.class
           x == IF j.via = "slab" /\ Len(q) > 1
                THEN [Idle EXCEPT !.at = "push", !.class = c, !.out = Tail(q)] ELSE Idle
           m == mag'[t]
<1>1. /\ j.at = "done" /\ lock' = [lock EXCEPT ![Cell(t)] = NoThread]
      /\ live' = IF q = <<>> THEN live ELSE live \cup {Head(q)}
      /\ mag' = IF j.via = "mag" /\ q # <<>> THEN [mag EXCEPT ![t][c] = Reverse(Tail(q))] ELSE mag
      /\ job' = [job EXCEPT ![t] = x]
      /\ UNCHANGED <<l2, alloc_words, free_words, list, hint, class, home, free, cursor, stopped, sup>>
  BY DEF RefillDone, At, Goto, bitmaps, table, arena
<1>2. /\ j \in Jobs /\ c \in Classes /\ j.via \in {"mag", "slab"}
      /\ OfClass(q, c) /\ Len(q) <= WantOf(j) /\ (j.via = "mag" => mag[t][c] = <<>>)
      /\ j.batch = <<>> /\ j.pend = <<>> /\ q \in Seq(Objects) /\ Distinct(q) /\ MagsFine(mag[t])
  BY <1>1, InRefill DEF Holding
<1>3. mag[t] \in [Classes -> Seq(Objects)] /\ mag = [mag EXCEPT ![t] = mag[t]]
  BY CallNow
<1> HIDE DEF x
<1>4. CASE q = <<>>
  <2>1. x = Idle /\ mag' = mag /\ live' = live
    BY <1>1, <1>4, EmptyStack DEF x
  <2>2. x \in Jobs /\ x.at = "idle" /\ x.out = <<>> /\ x.batch = <<>> /\ x.pend = <<>>
    BY <2>1, IdleJob
  <2>3. CallFine(t, x, mag[t])
    BY <1>2, <2>2, IdleFine
  <2> DEFINE N == {}
  <2>4. Moved(t, x, mag[t], N, "live", NoThread, N, "live", NoThread)
    BY <1>1, <1>2, <1>4, <2>1, <2>2, WordsSame, SlabsSame DEF Moved
  <2>5. N \cap N = {} /\ \A r \in N \cup N : Held(r, t)
    OBVIOUS
  <2> HIDE DEF N
  <2>6. Carried(t, x, mag[t], N, "live", NoThread, N, "live", NoThread)
    BY <2>4, <2>5 DEF Carried, Target
  <2>7. live' \in SUBSET Objects /\ mag' = [mag EXCEPT ![t] = mag[t]]
    BY <1>3, <2>1, OfHeap DEF Types
  <2> QED BY <1>1, <1>3, <2>2, <2>3, <2>6, <2>7, RefillEnds
<1>5. CASE q # <<>>
  <2> DEFINE o == Head(q)
             u == Tail(q)
             Q == ToSet(u)
             M == {o}
             l == IF j.via = "mag" THEN "mag" ELSE "out"
  <2>1. /\ u \in Seq(Objects) /\ Len(u) = Len(q) - 1 /\ Len(q) \in Nat
        /\ ToSet(q) = Q \cup {o} /\ Distinct(u) /\ o \in Objects
    BY <1>2, <1>5, TailStack
  <2>2. OfClass(u, c)
    BY <1>2, <2>1 DEF OfClass
  <2>3. live' = live \cup {o} /\ o = Head(job[t].out) /\ Q = ToSet(Tail(job[t].out))
    BY <1>1, <1>5
  <2> HIDE DEF o, u
  <2>4. ASSUME j.via = "mag" PROVE HeapInv'
    <3> DEFINE v == Reverse(u)
    <3>1. v \in Seq(Objects) /\ Len(v) = Len(u) /\ ToSet(v) = Q /\ Distinct(v)
      BY <2>1, ReverseStack
    <3>2. mag' = [mag EXCEPT ![t][c] = v] /\ x = Idle
      BY <1>1, <1>5, <2>4 DEF x, u
    <3> HIDE DEF v
    <3>3. OfClass(v, c) /\ Len(v) <= MagCap
      <4>1. Len(q) <= MagCap
        BY <1>2, <2>4 DEF WantOf
      <4> QED BY <2>1, <2>2, <3>1, <4>1, Constants DEF OfClass
    <3>4. /\ m \in [Classes -> Seq(Objects)] /\ mag' = [mag EXCEPT ![t] = m] /\ MagsFine(m)
          /\ m[c] = v /\ \A d \in Classes : d # c => m[d] = mag[t][d]
      <4>1. v \in Seq(Objects) /\ Distinct(v) /\ c \in Classes
        BY <1>2, <3>1
      <4>2. mag' = [mag EXCEPT ![t][c] = v]
        BY <3>2
      <4> HIDE DEF c, m
      <4>3. /\ mag'[t] \in [Classes -> Seq(Objects)] /\ mag' = [mag EXCEPT ![t] = mag'[t]]
            /\ MagsFine(mag'[t]) /\ mag'[t][c] = v
            /\ \A d \in Classes : d # c => mag'[t][d] = mag[t][d]
        BY <3>3, <4>1, <4>2, MagSet
      <4> QED BY <4>3 DEF m
    <3>5. x \in Jobs /\ x.at = "idle" /\ x.out = <<>> /\ x.batch = <<>> /\ x.pend = <<>>
      BY <3>2, IdleJob
    <3>6. CallFine(t, x, m)
      BY <3>4, <3>5, IdleFine
    <3>7. Rest(t, x, m, Q, "mag")
      <4> SUFFICES ASSUME NEW r \in Objects
                   PROVE  /\ r \in ToSet(m[r[1]]) <=> r \in ToSet(mag[t][r[1]]) \/ r \in Q
                          /\ r \notin ToSet(x.out)
        BY DEF Rest
      <4>1. r \notin ToSet(x.out)
        BY <3>5, EmptyStack
      <4>2. CASE r[1] = c
        <5>1. m[r[1]] = v /\ mag[t][r[1]] = <<>>
          BY <1>2, <2>4, <3>4, <4>2
        <5> QED BY <3>1, <4>1, <5>1, EmptyStack
      <4>3. CASE r[1] # c
        <5>1. m[r[1]] = mag[t][r[1]]
          BY <3>4, <4>3, ObjectParts
        <5>2. r \notin Q
          BY <2>2, <4>3 DEF OfClass
        <5> QED BY <4>1, <5>1, <5>2
      <4> QED BY <4>2, <4>3
    <3> HIDE DEF m, Q
    <3>8. Carried(t, x, m, {o}, "live", NoThread, Q, "mag", t) /\ live' \in SUBSET Objects
      BY <1>1, <1>5, <2>3, <3>4, <3>5, <3>7, RefillMoves
    <3>9. Carried(t, x, m, M, "live", NoThread, Q, "mag", t)
      BY <3>8
    <3> HIDE DEF M
    <3> QED BY <1>1, <3>4, <3>5, <3>6, <3>8, <3>9, RefillEnds
  <2>5. ASSUME j.via = "slab" PROVE HeapInv'
    <3>1. mag' = mag /\ mag' = [mag EXCEPT ![t] = mag[t]]
      BY <1>1, <1>3, <2>5
    <3>2. x \in Jobs /\ x.out = u /\ x.batch = <<>> /\ x.pend = <<>> /\ x.at \in {"idle", "push"}
          /\ CallFine(t, x, mag[t])
      <4>1. CASE Len(q) > 1
        <5>1. x = [Idle EXCEPT !.at = "push", !.class = c, !.out = u]
          BY <2>5, <4>1 DEF x, u
        <5>2. u # <<>>
          BY <2>1, <4>1, EmptyStack
        <5>3. /\ x \in Jobs /\ x.at = "push" /\ x.class = c /\ x.out = u
              /\ x.batch = <<>> /\ x.pend = <<>>
          BY <1>2, <2>1, <5>1, IdleJob DEF Jobs, Places, ThreadPlaces
        <5> QED BY <1>2, <2>1, <2>2, <5>2, <5>3, PushFine
      <4>2. CASE ~(Len(q) > 1)
        <5>1. x = Idle
          BY <2>5, <4>2 DEF x
        <5>2. u = <<>>
          <6>1. Len(q) >= 1
            BY <1>2, <1>5, StackType
          <6>2. Len(u) = 0
            <7> HIDE DEF q
            <7> QED BY <2>1, <4>2, <6>1
          <6> QED BY <2>1, <6>2, StackType
        <5>3. x \in Jobs /\ x.at = "idle" /\ x.out = <<>> /\ x.batch = <<>> /\ x.pend = <<>>
          BY <5>1, IdleJob
        <5> QED BY <1>2, <5>2, <5>3, IdleFine
      <4> QED BY <4>1, <4>2
    <3>3. Rest(t, x, mag[t], Q, "out")
      BY <3>2 DEF Rest
    <3> HIDE DEF Q
    <3>4. Carried(t, x, mag[t], {o}, "live", NoThread, Q, "out", t) /\ live' \in SUBSET Objects
      BY <1>1, <1>3, <1>5, <2>3, <3>2, <3>3, RefillMoves
    <3>5. Carried(t, x, mag[t], M, "live", NoThread, Q, "out", t)
      BY <3>4
    <3> HIDE DEF M
    <3> QED BY <1>1, <1>3, <3>1, <3>2, <3>4, <3>5, RefillEnds
  <2> QED BY <1>2, <2>4, <2>5
<1> QED BY <1>4, <1>5

-----------------------------------------------------------------------------
(* Spans come to a class *)

SpanTypes ==
  /\ alloc_words \in [Spans -> SUBSET Nat] /\ free_words \in [Spans -> SUBSET Nat]
  /\ list \in [Cells -> Seq(Spans)] /\ hint \in [Cells -> Spans \cup {NO_SPAN}]
  /\ lock \in [Cells -> Threads \cup {Sweeper, NoThread}]
  /\ class \in [Spans -> Classes \cup {Large, Unassigned}]
  /\ home \in [Spans -> 0 .. HomeMod - 1] /\ free \in SUBSET Spans
  /\ cursor \in 0 .. NumSpans

SpanRules ==
  /\ \A u \in Threads : Refilling(u)
  /\ Lists /\ Sweeps /\ (~Reclaiming => Hints) /\ Bits

\* An object is where it was, or begins to exist as a free slot.
KeptOrBorn(r) ==
  \/ /\ Exists(r)' <=> Exists(r)
     /\ InWord(alloc_words, r)' <=> InWord(alloc_words, r)
     /\ InWord(free_words, r)' <=> InWord(free_words, r)
  \/ ~Exists(r) /\ Exists(r)' /\ InWord(alloc_words, r)' /\ ~InWord(free_words, r)'

\* A step of the holder of a cell's lock that changes spans.
LEMMA SpanStep ==
  ASSUME HeapInv, NEW t \in Threads, NEW x \in Jobs, job' = [job EXCEPT ![t] = x],
         CallFine(t, x, mag[t]), x.out = job[t].out, x.batch = job[t].batch, x.pend = job[t].pend,
         UNCHANGED <<mag, l2, live, stopped, sup>>, SpanTypes', SpanRules',
         \A r \in Objects : KeptOrBorn(r)
  PROVE  HeapInv'
<1>1. job'[t] = x /\ \A u \in Threads : u # t => job'[u] = job[u]
  BY JobStep, OfHeap
<1>2. \A u \in Threads : /\ job'[u].out = job[u].out /\ job'[u].batch = job[u].batch
                         /\ job'[u].pend = job[u].pend
  BY <1>1
<1>3. ASSUME NEW r \in Objects PROVE Same(r) \/ \E k \in Kinds, a \in Agents : In(r, k, a)'
  <2>1. CASE /\ Exists(r)' <=> Exists(r)
             /\ InWord(alloc_words, r)' <=> InWord(alloc_words, r)
             /\ InWord(free_words, r)' <=> InWord(free_words, r)
    BY <1>2, <2>1 DEF Same
  <2>2. CASE ~Exists(r) /\ Exists(r)' /\ InWord(alloc_words, r)' /\ ~InWord(free_words, r)'
    <3>1. In(r, "none", NoThread)
      BY <2>2, IsIn, OfHeap
    <3>2. In(r, "alloc", NoThread)'
      BY <1>2, <2>2, <3>1 DEF In
    <3>3. "alloc" \in Kinds /\ NoThread \in Agents
      BY DEF Kinds, Agents
    <3> QED BY <3>2, <3>3
  <2> QED BY <2>1, <2>2 DEF KeptOrBorn
<1>4. Partition'
  BY <1>3, MoveObjects, OfHeap
<1>5. /\ mag[t] \in [Classes -> Seq(Objects)] /\ mag' = [mag EXCEPT ![t] = mag[t]]
      /\ live' \in SUBSET Objects /\ SlabsFine'
  BY CallNow, SlabsSame, OfHeap DEF Types
<1>6. /\ Shape(t, x, mag[t]) /\ Distinct(x.out) /\ Distinct(x.batch) /\ Distinct(x.pend)
      /\ \A c \in Classes : Distinct(mag[t][c]) /\ OfClass(mag[t][c], c)
  BY DEF CallFine, MagsFine
<1>7. /\ l2' \in [Cpus -> [Classes -> Seq(Objects)]]
      /\ \A p \in Cpus, c \in Classes :
           Distinct(l2'[p][c]) /\ OfClass(l2'[p][c], c) /\ Len(l2'[p][c]) <= L2Cap
  BY <1>5 DEF SlabsFine, Distinct, OfClass
<1>8. /\ alloc_words' \in [Spans -> SUBSET Nat] /\ free_words' \in [Spans -> SUBSET Nat]
      /\ list' \in [Cells -> Seq(Spans)] /\ hint' \in [Cells -> Spans \cup {NO_SPAN}]
      /\ lock' \in [Cells -> Threads \cup {Sweeper, NoThread}]
      /\ class' \in [Spans -> Classes \cup {Large, Unassigned}]
      /\ home' \in [Spans -> 0 .. HomeMod - 1] /\ free' \in SUBSET Spans
      /\ cursor' \in 0 .. NumSpans /\ stopped' = stopped /\ sup' = sup
  BY DEF SpanTypes
<1>9. /\ \A u \in Threads : Refilling(u)'
      /\ Lists' /\ Sweeps' /\ (~Reclaiming => Hints') /\ Bits'
  BY DEF SpanRules
<1> QED BY <1>4, <1>5, <1>6, <1>7, <1>8, <1>9, HeapStep

\* A span without a class: nobody knows it.
LEMMA LooseSpan ==
  ASSUME HeapInv, NEW s \in Spans, class[s] \notin Classes
  PROVE  /\ ~Tiled(s) /\ \A x \in Cells : s \notin ToSet(list[x])
         /\ alloc_words[s] = {} /\ free_words[s] = {}
<1>1. ~Tiled(s)
  BY TiledHeld
<1>2. ASSUME NEW x \in Cells, s \in ToSet(list[x]) PROVE FALSE
  BY <1>2, OfHeap DEF Lists, Cells
<1>3. alloc_words[s] \cup free_words[s] \subseteq {}
  BY OfHeap DEF Bits, SlotsOf
<1> QED BY <1>1, <1>2, <1>3

\* The home a carve stamps leads back to the shard of the thread.
LEMMA HomeFits ==
  ASSUME HomesFit, Types, NEW t \in Threads
  PROVE  HomeStamp(t) \in 0 .. HomeMod - 1 /\ HomeStamp(t) % NumShards = Shard(t)
<1>1. \A a \in Nat, b \in Nat : b > 0 => a % b \in 0 .. b - 1 /\ (a < b => a % b = a)
  OBVIOUS
<1>2. NumShards \in Nat /\ NumShards > 0 /\ HomeMod \in Nat /\ HomeMod > 0 /\ NumShards <= HomeMod
  BY Constants DEF HomesFit
<1>3. ShardId[t] \in Nat /\ Shard(t) = ShardId[t] % NumShards
  BY SubHeapAssumption DEF Shard
<1>4. ShardId[t] % HomeMod \in 0 .. HomeMod - 1 /\ (ShardId[t] % HomeMod) % NumShards = Shard(t)
  BY <1>1, <1>2, <1>3 DEF HomesFit
<1>5. Shard(t) \in Nat /\ Shard(t) < NumShards
  BY <1>1, <1>2, <1>3
<1>6. Shard(t) < HomeMod
  BY <1>2, <1>5
<1>7. Shard(t) % HomeMod = Shard(t) /\ Shard(t) % NumShards = Shard(t)
  BY <1>1, <1>2, <1>5, <1>6
<1>8. CASE job[t].via = "slab"
  <2>1. HomeStamp(t) = ShardId[t] % HomeMod
    BY <1>8 DEF HomeStamp
  <2> QED BY <1>4, <2>1
<1>9. CASE job[t].via # "slab"
  <2>1. HomeStamp(t) = Shard(t)
    BY <1>7, <1>9 DEF HomeStamp
  <2> QED BY <1>2, <1>5, <1>6, <1>7, <2>1
<1> QED BY <1>8, <1>9

\* A span of no class goes to the carving thread's class and home.
LEMMA ClaimSafe ==
  ASSUME HeapInv, HomesFit, NEW t \in Threads, NEW s \in Spans, job[t].at = "carve",
         class[s] \notin Classes, Claim(t, s), free' \subseteq free, s \notin free',
         cursor' \in 0 .. NumSpans, cursor <= cursor', s < cursor', s \notin job[Sweeper].taken,
         UNCHANGED <<mag, l2, alloc_words, free_words, list, hint, lock, stopped, live, sup>>
  PROVE  HeapInv'
<1> DEFINE j == job[t]
           x == [j EXCEPT !.at = "tile", !.todo = <<s>>]
<1>1. /\ class' = [class EXCEPT ![s] = j.class] /\ home' = [home EXCEPT ![s] = HomeStamp(t)]
      /\ job' = [job EXCEPT ![t] = x]
  BY DEF Claim, Goto
<1>2. /\ j \in Jobs /\ j.class \in Classes /\ Cell(t) \in Cells /\ lock[Cell(t)] = t
      /\ Allocates(t, j.class) /\ j.via \in {"mag", "slab"}
      /\ OfClass(j.out, j.class) /\ Len(j.out) <= WantOf(j)
      /\ j.via = "mag" => mag[t][j.class] = <<>>
      /\ j.batch = <<>> /\ j.pend = <<>> /\ Distinct(j.out) /\ MagsFine(mag[t])
  BY InRefill DEF Holding
<1>3. <<s>> \in Seq(Spans) /\ Len(<<s>>) = 1 /\ <<s>>[1] = s
  BY OneStack
<1>4. /\ x \in Jobs /\ x.at = "tile" /\ x.class = j.class /\ x.via = j.via /\ x.out = j.out
      /\ x.batch = j.batch /\ x.pend = j.pend /\ x.todo = <<s>>
  BY <1>2, <1>3 DEF Jobs, Places, ThreadPlaces, Holding
<1> HIDE DEF x
<1>5. /\ job'[t] = x /\ job'[Sweeper] = job[Sweeper]
      /\ \A u \in Threads : u # t => job'[u] = job[u]
  BY <1>1, <1>4, JobStep, OfHeap
<1>6. /\ ~Tiled(s) /\ \A y \in Cells : s \notin ToSet(list[y])
      /\ alloc_words[s] = {} /\ free_words[s] = {}
  BY LooseSpan
<1>7. /\ HomeStamp(t) \in 0 .. HomeMod - 1 /\ HomeStamp(t) % NumShards = Shard(t)
  BY HomeFits, OfHeap
<1>8. /\ class' \in [Spans -> Classes \cup {Large, Unassigned}] /\ home' \in [Spans -> 0 .. HomeMod - 1]
      /\ class'[s] = j.class /\ home'[s] = HomeStamp(t)
      /\ \A v \in Spans : v # s => class'[v] = class[v] /\ home'[v] = home[v]
  BY <1>1, <1>2, <1>7, OfHeap DEF Types
<1>9. /\ HomeShard(s)' = Shard(t) /\ \A v \in Spans : v # s => HomeShard(v)' = HomeShard(v)
  BY <1>7, <1>8 DEF HomeShard
<1>10. \A v : Tiled(v)' <=> Tiled(v) \/ v = s
  <2>1. x.at = "tile" /\ x.todo[1] = s
    BY <1>3, <1>4
  <2> QED BY <1>5, <2>1 DEF Tiled
<1>11. CallFine(t, x, mag[t])
  <2>1. WantOf(x) = WantOf(j) /\ x.at \in Holding
    BY <1>4 DEF WantOf, Holding
  <2> QED BY <1>2, <1>3, <1>4, <2>1, RefillFine
<1>12. SpanTypes'
  BY <1>8, OfHeap DEF SpanTypes, Types
<1>13. ASSUME NEW u \in Threads PROVE Refilling(u)'
  <2>1. CASE u = t
    <3>1. Cell(t)' = Cell(t)
      BY <1>4, <1>5 DEF Cell
    <3>2. Shard(t)' = Shard(t) /\ x.todo[1] = s
      BY <1>3, <1>4 DEF Shard
    <3> QED BY <1>2, <1>4, <1>5, <1>8, <1>9, <2>1, <3>1, <3>2 DEF Refilling, HomeShard
  <2>2. CASE u # t
    <3>1. Refilling(u) /\ job'[u] = job[u] /\ Cell(u)' = Cell(u)
      BY <1>5, <2>2, OfHeap DEF Cell
    <3>2. ASSUME job[u].at = "tile"
          PROVE  /\ class'[job[u].todo[1]] = job[u].class
                 /\ home'[job[u].todo[1]] % NumShards = Shard(u)
      <4>1. /\ class[job[u].todo[1]] = job[u].class /\ HomeShard(job[u].todo[1]) = Shard(u)
        BY <3>1, <3>2 DEF Refilling
      <4>2. job[u].class \in Classes /\ job[u].todo \in Seq(Spans)
        BY <3>2, InRefill DEF Holding
      <4>3. Len(job[u].todo) = 1
        BY <3>2, OfHeap DEF Shape
      <4>4. job[u].todo[1] \in Spans /\ job[u].todo[1] # s
        BY <4>1, <4>2, <4>3
      <4> QED BY <1>8, <4>1, <4>4 DEF HomeShard
    <3> QED BY <3>1, <3>2 DEF Refilling, HomeShard
  <2> QED BY <2>1, <2>2
<1>14. Lists'
  <2>1. \A y \in Cells : Distinct(list'[y])
    BY OfHeap DEF Lists
  <2>2. ASSUME NEW y \in Cells, NEW v \in ToSet(list[y])
        PROVE  class'[v] = y[2] /\ HomeShard(v)' = y[1] /\ ~Tiled(v)'
    <3>1. class[v] = y[2] /\ HomeShard(v) = y[1] /\ ~Tiled(v)
      BY OfHeap DEF Lists
    <3>2. v \in Spans /\ v # s
      <4>1. list[y] \in Seq(Spans)
        BY OfHeap DEF Types
      <4> QED BY <1>6, <4>1, StackType
    <3> QED BY <1>8, <1>9, <1>10, <3>1, <3>2
  <2>3. ASSUME NEW v \in Spans, class'[v] \in Classes
        PROVE  /\ v \in ToSet(list[<<home'[v] % NumShards, class'[v]>>]) \/ Tiled(v)'
               /\ \E u \in Threads : Allocates(u, class'[v]) /\ home'[v] % NumShards = Shard(u)
    <3>1. CASE v = s
      BY <1>2, <1>7, <1>8, <1>10, <3>1
    <3>2. CASE v # s
      <4>1. class'[v] = class[v] /\ home'[v] = home[v]
        BY <1>8, <3>2
      <4>2. /\ v \in ToSet(list[<<HomeShard(v), class[v]>>]) \/ Tiled(v)
            /\ \E u \in Threads : Allocates(u, class[v]) /\ HomeShard(v) = Shard(u)
        BY <2>3, <4>1, OfHeap DEF Lists
      <4> QED BY <1>10, <4>1, <4>2 DEF HomeShard
    <3> QED BY <3>1, <3>2
  <2>4. ASSUME NEW v \in free' PROVE class'[v] = Large
    BY <1>8, OfHeap DEF Lists, Types
  <2>5. ASSUME NEW v \in Spans, v >= cursor' PROVE class'[v] = Unassigned
    <3>1. v \in Nat /\ s \in Nat /\ cursor \in Nat /\ cursor' \in Nat
      BY Constants, OfHeap DEF Types
    <3>2. v >= cursor /\ v # s
      BY <2>5, <3>1
    <3> QED BY <1>8, <3>2, OfHeap DEF Lists
  <2> QED BY <2>1, <2>2, <2>3, <2>4, <2>5 DEF Lists, HomeShard, Distinct
<1>15. Sweeps'
  <2> DEFINE k == job[Sweeper]
  <2>1. k.taken \subseteq {v \in Spans : class'[v] = Large} \ free'
    <3>1. k.taken \subseteq {v \in Spans : class[v] = Large} \ free
      BY OfHeap DEF Sweeps
    <3> QED BY <1>8, <3>1
  <2>2. SweptCell' = SweptCell
    BY <1>5 DEF SweptCell
  <2> QED BY <1>5, <2>1, <2>2, OfHeap DEF Sweeps
<1>16. ASSUME ~Reclaiming PROVE Hints'
  <2>1. Hints
    BY <1>16, OfHeap
  <2>2. \A y \in Cells : hint'[y] # NO_SPAN => hint'[y] \in ToSet(list'[y])
    BY <2>1 DEF Hints
  <2>3. \A y \in Cells : ToSet(list[y]) \subseteq ToSet(list'[y])
    OBVIOUS
  <2>4. \A v \in Spans : class[v] \in Classes /\ ~Tiled(v) => class'[v] = class[v] /\ ~Tiled(v)'
    BY <1>8, <1>10
  <2>5. x.at \notin {"home", "publish"}
    BY <1>4
  <2> QED BY <1>1, <1>4, <2>1, <2>2, <2>3, <2>4, <2>5, HintsStep
<1>17. Bits'
  <2> SUFFICES ASSUME NEW v \in Spans
               PROVE  alloc_words'[v] \cup free_words'[v] \subseteq SlotsOf(v)'
    BY DEF Bits
  <2>1. CASE v = s
    BY <1>6, <2>1
  <2>2. CASE v # s
    BY <1>8, <2>2, OfHeap DEF SlotsOf, Bits
  <2> QED BY <2>1, <2>2
<1>18. ASSUME NEW r \in Objects PROVE KeptOrBorn(r)
  <2>1. r[1] \in Classes /\ r[2] \in Spans
    BY ObjectParts
  <2>2. CASE r[2] = s
    <3>1. ~Exists(r) /\ ~Exists(r)'
      BY <1>10, <2>1, <2>2 DEF Exists
    <3>2. /\ ~InWord(alloc_words, r) /\ ~InWord(free_words, r)
          /\ ~InWord(alloc_words, r)' /\ ~InWord(free_words, r)'
      BY <1>6, <2>2 DEF InWord
    <3> QED BY <3>1, <3>2 DEF KeptOrBorn
  <2>3. CASE r[2] # s
    <3>1. Exists(r)' <=> Exists(r)
      BY <1>8, <1>10, <2>1, <2>3 DEF Exists
    <3>2. /\ InWord(alloc_words, r)' <=> InWord(alloc_words, r)
          /\ InWord(free_words, r)' <=> InWord(free_words, r)
      BY <1>8, <2>1, <2>3 DEF InWord
    <3> QED BY <3>1, <3>2 DEF KeptOrBorn
  <2> QED BY <2>2, <2>3
<1>19. SpanRules'
  BY <1>13, <1>14, <1>15, <1>16, <1>17 DEF SpanRules
<1>20. UNCHANGED <<mag, l2, live, stopped, sup>>
  OBVIOUS
<1> QED BY <1>1, <1>4, <1>11, <1>12, <1>18, <1>19, <1>20, SpanStep

\* CarveReuse preserves the invariant.
LEMMA CarveReuseSafe ==
  ASSUME HeapInv, HomesFit, NEW t \in Threads, CarveReuse(t), UNCHANGED sup
  PROVE  HeapInv'
<1>1. job[t].at = "carve"
      /\ UNCHANGED <<mag, l2, alloc_words, free_words, list, hint, lock, stopped, live, sup>>
      /\ cursor' = cursor
  BY DEF CarveReuse, At, bitmaps
<1>2. PICK s \in free : free' = free \ {s} /\ Claim(t, s)
  BY DEF CarveReuse
<1>3. s \in Spans /\ class[s] = Large
  BY OfHeap DEF Types, Lists
<1>4. s < cursor /\ cursor \in 0 .. NumSpans
  <2>1. cursor \in 0 .. NumSpans /\ cursor \in Nat /\ s \in Nat /\ NumSpans \in Nat
    BY <1>3, Constants, OfHeap DEF Types
  <2>2. ~(s >= cursor)
    BY <1>3, Constants, OfHeap DEF Lists
  <2> QED BY <2>1, <2>2
<1>5. class[s] \notin Classes /\ s \notin job[Sweeper].taken /\ s \notin free' /\ free' \subseteq free
  BY <1>2, <1>3, Constants, OfHeap DEF Sweeps
<1>6. cursor' \in 0 .. NumSpans /\ cursor <= cursor' /\ s < cursor'
  BY <1>1, <1>4, Constants
<1> QED BY <1>1, <1>2, <1>3, <1>5, <1>6, ClaimSafe

\* CarveFresh preserves the invariant.
LEMMA CarveFreshSafe ==
  ASSUME HeapInv, HomesFit, NEW t \in Threads, CarveFresh(t), UNCHANGED sup
  PROVE  HeapInv'
<1> DEFINE s == cursor
<1>1. /\ job[t].at = "carve" /\ s < NumSpans /\ cursor' = s + 1 /\ Claim(t, s)
      /\ UNCHANGED <<mag, l2, alloc_words, free_words, list, hint, lock, stopped, live, sup>>
      /\ free' = free
  BY DEF CarveFresh, At, bitmaps
<1>2. s \in 0 .. NumSpans /\ NumSpans \in Nat
  BY Constants, OfHeap DEF Types
<1>3. s \in Spans
  BY <1>1, <1>2 DEF Spans
<1>4. class[s] = Unassigned
  BY <1>2, <1>3, OfHeap DEF Lists
<1>5. class[s] \notin Classes /\ s \notin job[Sweeper].taken /\ s \notin free' /\ free' \subseteq free
  BY <1>1, <1>4, Constants, OfHeap DEF Sweeps, Lists
<1>6. cursor' \in 0 .. NumSpans /\ cursor <= cursor' /\ s < cursor'
  BY <1>1, <1>2
<1> QED BY <1>1, <1>3, <1>5, <1>6, ClaimSafe

\* The tiled span goes on the list of its cell and all its objects into alloc_words.
LEMMA TileSafe ==
  ASSUME HeapInv, NEW t \in Threads, Tile(t), UNCHANGED sup
  PROVE  HeapInv'
<1> DEFINE j == job[t]
           c == j.class
           s == Head(j.todo)
           z == Cell(t)
           A == 0 .. Slots[c] - 1
           q == <<s>> \o list[z]
           x == [j EXCEPT !.at = "take", !.todo = <<>>, !.again = TRUE]
<1>1. /\ j.at = "tile" /\ alloc_words' = [alloc_words EXCEPT ![s] = @ \cup A]
      /\ list' = IF OnList(s) THEN list ELSE [list EXCEPT ![z] = <<s>> \o @]
      /\ job' = [job EXCEPT ![t] = x]
      /\ UNCHANGED <<mag, l2, live, free_words, hint, lock, class, home, free, cursor, stopped, sup>>
  BY DEF Tile, At, Goto, table, arena
<1>2. /\ j \in Jobs /\ c \in Classes /\ z \in Cells /\ lock[z] = t
      /\ Allocates(t, c) /\ j.via \in {"mag", "slab"}
      /\ OfClass(j.out, c) /\ Len(j.out) <= WantOf(j)
      /\ j.via = "mag" => mag[t][c] = <<>>
      /\ j.batch = <<>> /\ j.pend = <<>> /\ Distinct(j.out) /\ MagsFine(mag[t])
      /\ j.todo \in Seq(Spans)
  BY <1>1, InRefill DEF Holding
<1>3. Len(j.todo) = 1
  BY <1>1, OfHeap DEF Shape
<1>4. s = j.todo[1] /\ s \in Spans
  BY <1>2, <1>3, StackType
<1>5. class[s] = c /\ HomeShard(s) = Shard(t) /\ z = <<Shard(t), c>> /\ Tiled(s)
  BY <1>1, <1>4, OfHeap DEF Refilling, Tiled, Cell
<1>6. \A y \in Cells : s \notin ToSet(list[y])
  BY <1>5, OfHeap DEF Lists
<1>7. list' = [list EXCEPT ![z] = q] /\ list \in [Cells -> Seq(Spans)] /\ list[z] \in Seq(Spans)
  <2>1. ~OnList(s)
    BY <1>6 DEF OnList, Range, ToSet
  <2>2. list \in [Cells -> Seq(Spans)]
    BY OfHeap DEF Types
  <2> QED BY <1>1, <1>2, <2>1, <2>2
<1>8. x \in Jobs /\ x.at = "take" /\ x.class = c /\ x.via = j.via /\ x.out = j.out
      /\ x.batch = j.batch /\ x.pend = j.pend
  BY <1>2, EmptyStack DEF Jobs, Places, ThreadPlaces, Holding
<1>9. /\ job'[t] = x /\ job'[Sweeper] = job[Sweeper]
      /\ \A u \in Threads : u # t => job'[u] = job[u]
  BY <1>1, <1>8, JobStep, OfHeap
<1>10. /\ \A u \in Threads \ {t} : job[u].at \in Holding => Cell(u) # z /\ Cell(u) \in Cells
       /\ job[Sweeper].at \in {"walk", "retire"} => SweptCell # z
  BY <1>2, OthersHold
<1> HIDE DEF s, z, x, c
<1>11. q \in Seq(Spans) /\ ToSet(q) = ToSet(list[z]) \cup {s} /\ Distinct(q)
  <2> DEFINE p == <<s>>
             w == list[z]
  <2>1. p \in Seq(Spans) /\ ToSet(p) = {s} /\ Distinct(p)
    BY <1>4, OneStack
  <2>2. w \in Seq(Spans) /\ Distinct(w) /\ s \notin ToSet(w)
    BY <1>2, <1>6, <1>7, OfHeap DEF Lists
  <2>3. ToSet(p) \cap ToSet(w) = {}
    BY <2>1, <2>2
  <2> HIDE DEF p, w
  <2>4. p \o w \in Seq(Spans) /\ ToSet(p \o w) = ToSet(p) \cup ToSet(w) /\ Distinct(p \o w)
    BY <2>1, <2>2, <2>3, JoinStack
  <2> QED BY <2>1, <2>4 DEF p, w
<1> HIDE DEF q
<1>12. /\ list' \in [Cells -> Seq(Spans)] /\ list'[z] = q
       /\ \A y \in Cells : y # z => list'[y] = list[y]
       /\ \A y \in Cells : ToSet(list[y]) \subseteq ToSet(list'[y])
  BY <1>2, <1>7, <1>11
<1>13. \A v : Tiled(v)' <=> Tiled(v) /\ v # s
  <2>1. ASSUME NEW u \in Threads, job[u].at = "tile", job[u].todo[1] = s PROVE u = t
    <3>1. class[s] = job[u].class /\ HomeShard(s) = Shard(u)
      BY <2>1, OfHeap DEF Refilling
    <3>2. Cell(u) = z
      BY <1>5, <3>1 DEF Cell
    <3>3. lock[Cell(u)] = u
      BY <2>1, InRefill DEF Holding
    <3> QED BY <1>2, <3>2, <3>3
  <2>2. x.at # "tile"
    BY <1>8
  <2> QED BY <1>4, <1>9, <2>1, <2>2 DEF Tiled
<1>14. /\ alloc_words \in [Spans -> SUBSET Nat] /\ alloc_words[s] \subseteq A
       /\ alloc_words' \in [Spans -> SUBSET Nat] /\ alloc_words'[s] = A
       /\ \A v : v # s => alloc_words'[v] = alloc_words[v]
  <2>1. alloc_words \in [Spans -> SUBSET Nat]
    BY OfHeap DEF Types
  <2>2. alloc_words[s] \subseteq A
    BY <1>2, <1>4, <1>5, OfHeap DEF Bits, SlotsOf
  <2>3. A \subseteq Nat
    OBVIOUS
  <2> HIDE DEF A
  <2>4. alloc_words[s] \cup A = A
    BY <2>2
  <2>5. alloc_words' = [alloc_words EXCEPT ![s] = A]
    BY <1>1, <2>1, <2>4, <1>4
  <2>6. A \in SUBSET Nat
    BY <2>3
  <2> QED BY <1>4, <2>1, <2>2, <2>5, <2>6
<1>15. CallFine(t, x, mag[t])
  <2>1. WantOf(x) = WantOf(j) /\ x.at \in Holding /\ x.at \notin {"clear", "tile"}
    BY <1>8 DEF WantOf, Holding
  <2> QED BY <1>2, <1>8, <2>1, RefillFine
<1>16. SpanTypes'
  BY <1>1, <1>12, <1>14, OfHeap DEF SpanTypes, Types
<1>17. ASSUME NEW u \in Threads PROVE Refilling(u)'
  <2>1. CASE u = t
    <3>1. Cell(t)' = z
      BY <1>8, <1>9 DEF Cell, z, c
    <3> QED BY <1>1, <1>2, <1>8, <1>9, <2>1, <3>1 DEF Refilling
  <2>2. CASE u # t
    <3>1. Refilling(u) /\ job'[u] = job[u] /\ Cell(u)' = Cell(u)
      BY <1>9, <2>2, OfHeap DEF Cell
    <3>2. ASSUME job[u].at \in Holding PROVE Cell(u) \in Cells /\ list'[Cell(u)] = list[Cell(u)]
      BY <1>10, <1>12, <2>2, <3>2
    <3>3. ASSUME job[u].at = "clear"
          PROVE  alloc_words'[job[u].todo[1]] = alloc_words[job[u].todo[1]]
      <4>1. /\ job[u].todo \in Seq(Spans) /\ Cell(u) \in Cells
        BY <3>3, InRefill DEF Holding
      <4>2. job[u].todo # <<>> /\ ToSet(job[u].todo) \subseteq ToSet(list[Cell(u)])
        BY <3>3, OfHeap DEF Shape, Refilling
      <4>3. job[u].todo[1] # s
        BY <1>6, <4>1, <4>2, StackType
      <4> QED BY <1>14, <4>3
    <3> QED BY <1>1, <3>1, <3>2, <3>3 DEF Refilling, HomeShard, Holding
  <2> QED BY <2>1, <2>2
<1>18. Lists'
  <2>0. \A v : HomeShard(v)' = HomeShard(v)
    BY <1>1 DEF HomeShard
  <2>1. ASSUME NEW y \in Cells PROVE Distinct(list'[y])
    BY <1>11, <1>12, OfHeap DEF Lists
  <2>2. ASSUME NEW y \in Cells, NEW v \in ToSet(list'[y])
        PROVE  class[v] = y[2] /\ HomeShard(v) = y[1] /\ ~Tiled(v)'
    <3>1. CASE v \in ToSet(list[y])
      BY <1>13, <3>1, OfHeap DEF Lists
    <3>2. CASE v \notin ToSet(list[y])
      <4>1. y = z /\ v = s
        BY <1>11, <1>12, <3>2
      <4>2. z[1] = Shard(t) /\ z[2] = c
        BY <1>5
      <4> QED BY <1>5, <1>13, <4>1, <4>2
    <3> QED BY <3>1, <3>2
  <2>3. ASSUME NEW v \in Spans, class[v] \in Classes
        PROVE  /\ v \in ToSet(list'[<<HomeShard(v), class[v]>>]) \/ Tiled(v)'
               /\ \E u \in Threads : Allocates(u, class[v]) /\ HomeShard(v) = Shard(u)
    <3>1. /\ v \in ToSet(list[<<HomeShard(v), class[v]>>]) \/ Tiled(v)
          /\ \E u \in Threads : Allocates(u, class[v]) /\ HomeShard(v) = Shard(u)
      BY <2>3, OfHeap DEF Lists
    <3>2. CASE v = s
      <4>1. <<HomeShard(v), class[v]>> = z
        BY <1>5, <3>2
      <4>2. v \in ToSet(list'[z])
        BY <1>11, <1>12, <3>2
      <4> QED BY <3>1, <4>1, <4>2
    <3>3. CASE v # s
      <4>1. <<HomeShard(v), class[v]>> \in Cells
        BY <2>3, ShardTypes, OfHeap DEF Cells, Shards
      <4> QED BY <1>12, <1>13, <3>1, <3>3, <4>1
    <3> QED BY <3>2, <3>3
  <2>4. /\ \A v \in free : class[v] = Large
        /\ \A v \in Spans : v >= cursor => class[v] = Unassigned
    BY OfHeap DEF Lists
  <2> QED BY <1>1, <2>0, <2>1, <2>2, <2>3, <2>4 DEF Lists, Distinct
<1>19. Sweeps'
  <2> DEFINE k == job[Sweeper]
  <2>1. SweptCell' = SweptCell
    BY <1>9 DEF SweptCell
  <2>2. k \in Jobs
    BY OfHeap DEF Types
  <2>3. CASE k.at \in {"walk", "retire"}
    <3>1. k.class \in Classes /\ ToSet(k.todo) \subseteq ToSet(list[SweptCell])
      BY <2>3, OfHeap DEF Sweeps
    <3>2. SweptCell \in Cells /\ k.todo \in Seq(Spans)
      BY <2>2, <3>1, OfJob DEF SweptCell, Cells, Shards
    <3>3. list'[SweptCell] = list[SweptCell]
      BY <1>10, <1>12, <2>3, <3>2
    <3>4. ASSUME k.todo # <<>> PROVE alloc_words'[k.todo[1]] = alloc_words[k.todo[1]]
      <4>1. k.todo[1] # s
        BY <1>6, <3>1, <3>2, <3>4, StackType
      <4> QED BY <1>14, <4>1
    <3>5. CASE k.todo = <<>>
      BY <1>1, <1>9, <2>1, <2>3, <3>3, <3>5, OfHeap DEF Sweeps
    <3>6. CASE k.todo # <<>>
      BY <1>1, <1>9, <2>1, <2>3, <3>3, <3>4, <3>6, OfHeap DEF Sweeps
    <3> QED BY <3>5, <3>6
  <2>4. CASE k.at \notin {"walk", "retire"}
    BY <1>1, <1>9, <2>1, <2>4, OfHeap DEF Sweeps
  <2> QED BY <2>3, <2>4
<1>20. ASSUME ~Reclaiming PROVE Hints'
  <2>1. Hints
    BY <1>20, OfHeap
  <2>2. \A y \in Cells : hint'[y] # NO_SPAN => hint'[y] \in ToSet(list'[y])
    BY <1>1, <1>12, <2>1 DEF Hints
  <2>3. \A v \in Spans : class[v] \in Classes /\ ~Tiled(v) => class'[v] = class[v] /\ ~Tiled(v)'
    BY <1>1, <1>13
  <2>4. x.at \notin {"home", "publish"}
    BY <1>8
  <2> QED BY <1>1, <1>8, <1>12, <2>1, <2>2, <2>3, <2>4, HintsStep
<1>21. Bits'
  <2> SUFFICES ASSUME NEW v \in Spans
               PROVE  alloc_words'[v] \cup free_words'[v] \subseteq SlotsOf(v)'
    BY DEF Bits
  <2>1. SlotsOf(v)' = SlotsOf(v) /\ alloc_words[v] \cup free_words[v] \subseteq SlotsOf(v)
    BY <1>1, OfHeap DEF SlotsOf, Bits
  <2>2. CASE v = s
    <3>1. SlotsOf(v) = A
      BY <1>2, <1>5, <2>2 DEF SlotsOf
    <3> HIDE DEF A
    <3> QED BY <1>1, <1>14, <2>1, <2>2, <3>1
  <2>3. CASE v # s
    BY <1>1, <1>14, <2>1, <2>3
  <2> QED BY <2>2, <2>3
<1>22. ASSUME NEW r \in Objects PROVE KeptOrBorn(r)
  <2>1. r[1] \in Classes /\ r[2] \in Spans /\ r[3] \in 0 .. Slots[r[1]] - 1
    BY ObjectParts
  <2>2. CASE r[2] = s /\ r[1] = c
    <3>1. ~Exists(r) /\ Exists(r)'
      BY <1>1, <1>5, <1>13, <2>2 DEF Exists
    <3>2. In(r, "none", NoThread)
      BY <3>1, IsIn, OfHeap
    <3>3. ~InWord(free_words, r)
      BY <3>2 DEF In
    <3>4. InWord(alloc_words, r)' /\ ~InWord(free_words, r)'
      BY <1>1, <1>5, <1>14, <2>1, <2>2, <3>3 DEF InWord
    <3> QED BY <3>1, <3>4 DEF KeptOrBorn
  <2>3. CASE r[2] = s /\ r[1] # c
    BY <1>1, <1>5, <2>3 DEF KeptOrBorn, Exists, InWord
  <2>4. CASE r[2] # s
    <3>1. Exists(r)' <=> Exists(r)
      BY <1>1, <1>13, <2>4 DEF Exists
    <3>2. /\ InWord(alloc_words, r)' <=> InWord(alloc_words, r)
          /\ InWord(free_words, r)' <=> InWord(free_words, r)
      BY <1>1, <1>14, <2>4 DEF InWord
    <3> QED BY <3>1, <3>2 DEF KeptOrBorn
  <2> QED BY <2>2, <2>3, <2>4
<1>23. SpanRules'
  BY <1>17, <1>18, <1>19, <1>20, <1>21 DEF SpanRules
<1>24. UNCHANGED <<mag, l2, live, stopped, sup>>
  BY <1>1
<1> QED BY <1>1, <1>8, <1>15, <1>16, <1>22, <1>23, <1>24, SpanStep

-----------------------------------------------------------------------------
(* The supervisor *)

Sups == [phase : {"nap", "sweep", "final", "gone"}, cell : 0 .. NumCells - 1, stop : BOOLEAN]

\* The supervisor's job changes and no other.
LEMMA OnlySweeper ==
  ASSUME HeapInv, NEW x \in Jobs, job' = [job EXCEPT ![Sweeper] = x]
  PROVE  /\ job' \in [Threads \cup {Sweeper} -> Jobs] /\ job'[Sweeper] = x
         /\ \A u \in Threads : job'[u] = job[u]
         /\ \A v : Tiled(v)' <=> Tiled(v)
<1>1. /\ job' \in [Threads \cup {Sweeper} -> Jobs] /\ job'[Sweeper] = x
      /\ \A u \in Threads : job'[u] = job[u]
  BY JobStep, OfHeap, Constants
<1> QED BY <1>1 DEF Tiled

\* A step of the supervisor.
LEMMA SweepStep ==
  ASSUME HeapInv, NEW x \in Jobs, job' = [job EXCEPT ![Sweeper] = x], UNCHANGED <<mag, live>>,
         SlabsFine', stopped' \in SUBSET Cpus, sup' \in Sups, SpanTypes', SpanRules', Partition'
  PROVE  HeapInv'
<1>1. /\ job' \in [Threads \cup {Sweeper} -> Jobs] /\ \A u \in Threads : job'[u] = job[u]
  BY OnlySweeper
<1>2. l2' \in [Cpus -> [Classes -> Seq(Objects)]]
  BY DEF SlabsFine
<1>3. Types'
  BY <1>1, <1>2, OfHeap DEF Types, SpanTypes, Sups
<1>4. \A u \in Threads : Shape(u, job'[u], mag'[u])
  BY <1>1, OfHeap
<1>5. \A u \in Threads : Shape(u, job[u], mag[u])'
  BY <1>4 DEF Shape
<1>6. ASSUME NEW u \in Threads
      PROVE  /\ \A c \in Classes : Distinct(mag'[u][c]) /\ OfClass(mag'[u][c], c)
             /\ Distinct(job'[u].out) /\ Distinct(job'[u].batch) /\ Distinct(job'[u].pend)
  BY <1>1, OfThread
<1>7. \A p \in Cpus, c \in Classes :
        Distinct(l2'[p][c]) /\ OfClass(l2'[p][c], c) /\ Len(l2'[p][c]) <= L2Cap
  BY DEF SlabsFine, Distinct, OfClass
<1>8. Stacks'
  BY <1>6, <1>7 DEF Stacks, Distinct, OfClass
<1> QED BY <1>3, <1>5, <1>8 DEF HeapInv, SpanRules

\* The supervisor moves no span between classes and lists, only into the pool.
LEMMA SweepCalm ==
  ASSUME HeapInv, NEW x \in Jobs, job' = [job EXCEPT ![Sweeper] = x],
         UNCHANGED <<mag, live, list, hint, class, home, cursor>>, SlabsFine',
         stopped' \in SUBSET Cpus, sup' \in Sups,
         alloc_words' \in [Spans -> SUBSET Nat], free_words' \in [Spans -> SUBSET Nat],
         lock' \in [Cells -> Threads \cup {Sweeper, NoThread}],
         free' \in SUBSET Spans, \A v \in free' : class[v] = Large,
         \A u \in Threads :
           /\ job[u].at \in Holding => lock'[Cell(u)] = lock[Cell(u)]
           /\ job[u].at = "clear" => alloc_words'[job[u].todo[1]] = alloc_words[job[u].todo[1]],
         Sweeps', Bits', Partition'
  PROVE  HeapInv'
<1>1. /\ \A u \in Threads : job'[u] = job[u]
      /\ \A v : Tiled(v)' <=> Tiled(v)
  BY OnlySweeper
<1>2. SpanTypes'
  BY OfHeap DEF SpanTypes, Types
<1>3. ASSUME NEW u \in Threads PROVE Refilling(u)'
  <2>1. /\ job[u].at \in Holding => lock'[Cell(u)] = lock[Cell(u)]
        /\ job[u].at = "clear" => alloc_words'[job[u].todo[1]] = alloc_words[job[u].todo[1]]
    OBVIOUS
  <2> QED BY <1>1, <2>1, RefillingKeeps, OfHeap
<1>4. Lists'
  BY <1>1, OfHeap DEF Lists, HomeShard
<1>5. ~Reclaiming => Hints'
  BY <1>1, OfHeap DEF Hints
<1>6. SpanRules'
  BY <1>3, <1>4, <1>5 DEF SpanRules
<1>7. UNCHANGED <<mag, live>>
  OBVIOUS
<1> QED BY <1>2, <1>6, <1>7, SweepStep

\* Only the supervisor's loop or the set of stopped CPUs changes.
LEMMA StayStep ==
  ASSUME HeapInv, sup' \in Sups, stopped' \in SUBSET Cpus,
         UNCHANGED <<mag, l2, live, alloc_words, free_words, list, hint, lock, class, home,
                     free, cursor, job>>
  PROVE  HeapInv'
<1> DEFINE x == job[Sweeper]
<1>1. x \in Jobs /\ job' = [job EXCEPT ![Sweeper] = x]
  BY OfHeap DEF Types
<1>2. SlabsFine' /\ Bits' /\ free_words' \in [Spans -> SUBSET Nat]
  BY WordsSame, SlabsSame
<1>3. /\ alloc_words' \in [Spans -> SUBSET Nat] /\ free' \in SUBSET Spans
      /\ lock' \in [Cells -> Threads \cup {Sweeper, NoThread}]
      /\ \A v \in free' : class[v] = Large
  BY OfHeap DEF Types, Lists
<1>4. Sweeps'
  BY SweepsSame, OfHeap
<1>5. Partition'
  <2>1. ASSUME NEW r \in Objects PROVE Same(r)
    <3>1. Exists(r)' <=> Exists(r)
      BY DEF Exists, Tiled
    <3> QED BY <3>1 DEF Same, InWord
  <2> QED BY <2>1, MoveObjects, OfHeap
<1>6. \A u \in Threads :
        /\ job[u].at \in Holding => lock'[Cell(u)] = lock[Cell(u)]
        /\ job[u].at = "clear" => alloc_words'[job[u].todo[1]] = alloc_words[job[u].todo[1]]
  OBVIOUS
<1>7. UNCHANGED <<mag, live, list, hint, class, home, cursor>>
  OBVIOUS
<1> HIDE DEF x
<1> QED BY <1>1, <1>2, <1>3, <1>4, <1>5, <1>6, <1>7, SweepCalm

\* The loop of the supervisor stays in its type.
LEMMA LoopTypes ==
  ASSUME HeapInv
  PROVE  /\ sup \in Sups /\ stopped \in SUBSET Cpus
         /\ Wake => sup' \in Sups
         /\ NextCell => sup' \in Sups
<1>0. NumCells \in Nat
  BY SubHeapAssumption, FS_CardinalityType DEF NumCells
<1>1. sup \in Sups /\ stopped \in SUBSET Cpus
  BY OfHeap DEF Types, Sups
<1>2. ASSUME Wake PROVE sup' \in Sups
  BY <1>1, <1>2 DEF Wake, Sups
<1>3. sup.cell \in 0 .. NumCells - 1
  BY <1>1 DEF Sups
<1>4. ASSUME NextCell PROVE sup' \in Sups
  <2>1. CASE sup.cell + 1 < NumCells
    <3>1. sup' = [sup EXCEPT !.cell = sup.cell + 1]
      BY <1>1, <1>4, <2>1 DEF NextCell, Sups
    <3>2. sup.cell + 1 \in 0 .. NumCells - 1
      BY <1>0, <1>3, <2>1
    <3> QED BY <1>1, <3>1, <3>2 DEF Sups
  <2>2. CASE ~(sup.cell + 1 < NumCells)
    <3>1. sup' = [sup EXCEPT !.cell = 0, !.phase = IF sup.phase = "final" THEN "gone" ELSE "nap"]
      BY <1>1, <1>4, <2>2 DEF NextCell, Sups
    <3>2. 0 \in 0 .. NumCells - 1
      BY <1>0, <1>3
    <3> QED BY <1>1, <3>1, <3>2 DEF Sups
  <2> QED BY <2>1, <2>2
<1> QED BY <1>1, <1>2, <1>4

\* The supervisor's loop preserves the invariant.
LEMMA LoopSafe ==
  ASSUME HeapInv, SweepBegin \/ DropSupervisor \/ SweepSkip, UNCHANGED stopped
  PROVE  HeapInv'
<1>1. sup \in Sups /\ stopped \in SUBSET Cpus
  BY LoopTypes
<1>2. sup' \in Sups
  <2>1. CASE SweepBegin
    BY <2>1, LoopTypes DEF SweepBegin
  <2>2. CASE DropSupervisor
    BY <1>1, <2>2 DEF DropSupervisor, Sups
  <2>3. CASE SweepSkip
    BY <2>3, LoopTypes DEF SweepSkip
  <2> QED BY <2>1, <2>2, <2>3
<1>3. UNCHANGED <<mag, l2, live, alloc_words, free_words, list, hint, lock, class, home,
                  free, cursor, job>>
  BY DEF SweepBegin, DropSupervisor, SweepSkip, bitmaps, table, arena
<1>4. stopped' \in SUBSET Cpus
  BY <1>1
<1> QED BY <1>2, <1>3, <1>4, StayStep

\* Seizing and releasing a CPU preserve the invariant.
LEMMA SeizeSafe ==
  ASSUME HeapInv, NEW p \in Cpus, SeizeCpu(p) \/ ReleaseCpu(p), UNCHANGED sup
  PROVE  HeapInv'
<1>1. sup' \in Sups /\ stopped \in SUBSET Cpus
  BY LoopTypes
<1>2. stopped' \in SUBSET Cpus
  BY <1>1 DEF SeizeCpu, ReleaseCpu
<1>3. UNCHANGED <<mag, l2, live, alloc_words, free_words, list, hint, lock, class, home,
                  free, cursor, job>>
  BY DEF SeizeCpu, ReleaseCpu, bitmaps, table
<1> QED BY <1>1, <1>2, <1>3, StayStep

\* The objects of a seized CPU's slab go to their bitmaps.
LEMMA RebalanceSafe ==
  ASSUME HeapInv, NEW p \in Cpus, NEW c \in Classes, RebalanceCapacity(p, c), UNCHANGED sup
  PROVE  HeapInv'
<1> DEFINE o == Last(l2[p][c])
           x == job[Sweeper]
<1>1. /\ l2[p][c] # <<>> /\ l2' = [l2 EXCEPT ![p][c] = Front(@)] /\ Deposit(o)
      /\ UNCHANGED <<mag, live, alloc_words, list, hint, lock, class, home, free, cursor, stopped, sup, job>>
  BY DEF RebalanceCapacity, Top, table, arena
<1>2. /\ o \in Objects /\ o[1] = c /\ In(o, "l2", p)
      /\ SlabsFine'
      /\ \A r \in Objects : \A v \in Cpus :
           r \in ToSet(l2'[v][r[1]]) <=> r \in ToSet(l2[v][r[1]]) /\ r # o
  BY <1>1, SlabPop
<1> HIDE DEF o
<1>3. class[o[2]] = o[1]
  BY <1>2, Pinned
<1>4. /\ free_words' \in [Spans -> SUBSET Nat] /\ Bits'
      /\ \A r \in Objects : InWord(free_words, r)' <=> InWord(free_words, r) \/ r = o
      /\ \A r \in Objects : InWord(alloc_words, r)' <=> InWord(alloc_words, r)
  BY <1>1, <1>2, <1>3, DepositOne
<1>5. x \in Jobs /\ job' = [job EXCEPT ![Sweeper] = x]
  BY <1>1, OfHeap DEF Types
<1>6. /\ alloc_words' \in [Spans -> SUBSET Nat] /\ free' \in SUBSET Spans
      /\ lock' \in [Cells -> Threads \cup {Sweeper, NoThread}]
      /\ (\A v \in free' : class[v] = Large) /\ sup' \in Sups /\ stopped' \in SUBSET Cpus
  BY <1>1, LoopTypes, OfHeap DEF Types, Lists
<1>7. Sweeps'
  BY <1>1, SweepsSame, OfHeap
<1>8. Partition'
  <2>1. \A v : Tiled(v)' <=> Tiled(v)
    BY <1>1 DEF Tiled
  <2>2. ASSUME NEW r \in Objects PROVE Same(r) \/ \E k \in Kinds, a \in Agents : In(r, k, a)'
    <3>1. Exists(r)' <=> Exists(r)
      BY <1>1, <2>1 DEF Exists
    <3>2. CASE r # o
      BY <1>1, <1>2, <1>4, <3>1, <3>2 DEF Same
    <3>3. CASE r = o
      <4>1. In(r, "l2", p)
        BY <1>2, <3>3
      <4>2. In(r, "free", NoThread)'
        BY <1>1, <1>2, <1>4, <3>1, <3>3, <4>1 DEF In
      <4>3. "free" \in Kinds /\ NoThread \in Agents
        BY DEF Kinds, Agents
      <4> QED BY <4>2, <4>3
    <3> QED BY <3>2, <3>3
  <2> QED BY <2>2, MoveObjects, OfHeap
<1>9. \A u \in Threads :
        /\ job[u].at \in Holding => lock'[Cell(u)] = lock[Cell(u)]
        /\ job[u].at = "clear" => alloc_words'[job[u].todo[1]] = alloc_words[job[u].todo[1]]
  BY <1>1
<1>10. UNCHANGED <<mag, live, list, hint, class, home, cursor>>
  BY <1>1
<1> HIDE DEF x
<1> QED BY <1>2, <1>4, <1>5, <1>6, <1>7, <1>8, <1>9, <1>10, SweepCalm

\* The cells of a sweep are cells.
LEMMA CellAtType ==
  ASSUME NEW i \in 0 .. NumCells - 1
  PROVE  CellAt(i) \in Cells
<1> DEFINE n == Cardinality(Classes)
<1>1. n \in Nat /\ n > 0 /\ ExistsBijection(1 .. n, Classes)
  <2>1. IsFiniteSet(Classes) /\ Classes # {}
    BY SubHeapAssumption
  <2>2. n \in Nat /\ ExistsBijection(1 .. n, Classes) /\ n # 0
    BY <2>1, FS_CardinalityType, FS_EmptySet
  <2> QED BY <2>2
<1>2. ClassSeq \in [1 .. n -> Classes]
  <2>1. PICK f : f \in Bijection(1 .. n, Classes)
    BY <1>1 DEF ExistsBijection
  <2>2. f \in [1 .. n -> Classes] /\ IsInjective(f)
    BY <2>1 DEF Bijection, Injection, IsInjective
  <2> QED BY <2>2 DEF ClassSeq, SetToSeq
<1> HIDE DEF n
<1>3. Len(ClassSeq) = n
  BY <1>1, <1>2
<1>4. NumShards \in Nat /\ NumShards > 0 /\ NumCells = NumShards * n
  BY Constants DEF NumCells, n
<1>5. i \in Nat /\ i < NumShards * n
  <2>1. NumShards * n \in Nat
    BY <1>1, <1>4
  <2> QED BY <1>4, <2>1
<1>6. i % n \in 0 .. n - 1 /\ i \div n \in Nat
  BY <1>1, <1>5
<1>7. i \div n < NumShards
  BY <1>1, <1>4, <1>5, SMTT(30)
<1>8. ClassSeq[(i % n) + 1] \in Classes /\ i \div n \in 0 .. NumShards - 1
  BY <1>1, <1>2, <1>4, <1>6, <1>7
<1> QED BY <1>3, <1>8 DEF CellAt, Cells

\* The cell the supervisor walks is its own, and so is each of its spans.
LEMMA InSweep ==
  ASSUME HeapInv, job[Sweeper].at \in {"walk", "retire"}
  PROVE  /\ job[Sweeper] \in Jobs /\ job[Sweeper].class \in Classes /\ job[Sweeper].todo \in Seq(Spans)
         /\ SweptCell \in Cells /\ lock[SweptCell] = Sweeper /\ list[SweptCell] \in Seq(Spans)
         /\ Distinct(job[Sweeper].todo) /\ ToSet(job[Sweeper].todo) \subseteq ToSet(list[SweptCell])
         /\ \A u \in Threads : job[u].at \in Holding => Cell(u) \in Cells /\ Cell(u) # SweptCell
<1>1. job[Sweeper] \in Jobs
  BY OfHeap DEF Types
<1>2. /\ job[Sweeper].class \in Classes /\ lock[SweptCell] = Sweeper
      /\ Distinct(job[Sweeper].todo) /\ ToSet(job[Sweeper].todo) \subseteq ToSet(list[SweptCell])
  BY OfHeap DEF Sweeps
<1>3. SweptCell \in Cells /\ job[Sweeper].todo \in Seq(Spans)
  BY <1>1, <1>2, OfJob DEF SweptCell, Cells, Shards
<1>4. list[SweptCell] \in Seq(Spans)
  BY <1>3, OfHeap DEF Types
<1>5. \A u \in Threads : job[u].at \in Holding => Cell(u) \in Cells /\ Cell(u) # SweptCell
  BY <1>2, InRefill, Constants
<1> QED BY <1>1, <1>2, <1>3, <1>4, <1>5

\* A span the supervisor has still to walk is of its cell, and no thread scans it.
LEMMA SweptSpan ==
  ASSUME HeapInv, job[Sweeper].at \in {"walk", "retire"}, NEW s \in ToSet(job[Sweeper].todo)
  PROVE  /\ s \in Spans /\ s \in ToSet(list[SweptCell]) /\ class[s] = job[Sweeper].class
         /\ HomeShard(s) = job[Sweeper].shard /\ ~Tiled(s)
         /\ \A y \in Cells : s \in ToSet(list[y]) => y = SweptCell
         /\ \A u \in Threads : job[u].at = "clear" => job[u].todo[1] # s
<1>1. /\ SweptCell \in Cells /\ job[Sweeper].todo \in Seq(Spans)
      /\ s \in ToSet(list[SweptCell])
  BY InSweep
<1>2. SweptCell[1] = job[Sweeper].shard /\ SweptCell[2] = job[Sweeper].class
      /\ SweptCell = <<SweptCell[1], SweptCell[2]>>
  BY DEF SweptCell
<1>3. s \in Spans
  BY <1>1, StackType
<1>4. class[s] = SweptCell[2] /\ HomeShard(s) = SweptCell[1] /\ ~Tiled(s)
  BY <1>1, OfHeap DEF Lists
<1>5. ASSUME NEW y \in Cells, s \in ToSet(list[y]) PROVE y = SweptCell
  <2>1. class[s] = y[2] /\ HomeShard(s) = y[1]
    BY <1>5, OfHeap DEF Lists
  <2>2. y = <<y[1], y[2]>>
    BY DEF Cells
  <2> QED BY <1>2, <1>4, <2>1, <2>2
<1>6. ASSUME NEW u \in Threads, job[u].at = "clear" PROVE job[u].todo[1] # s
  <2>1. Cell(u) \in Cells /\ Cell(u) # SweptCell /\ job[u].todo \in Seq(Spans)
    BY <1>6, InRefill, InSweep DEF Holding
  <2>2. job[u].todo # <<>> /\ ToSet(job[u].todo) \subseteq ToSet(list[Cell(u)])
    BY <1>6, OfHeap DEF Shape, Refilling
  <2> QED BY <1>5, <2>1, <2>2, StackType
<1> QED BY <1>1, <1>2, <1>3, <1>4, <1>5, <1>6

\* The bitmaps of a span of a class are finite.
LEMMA WordsFinite ==
  ASSUME HeapInv, NEW s \in Spans, class[s] \in Classes
  PROVE  /\ IsFiniteSet(0 .. Slots[class[s]] - 1)
         /\ Cardinality(0 .. Slots[class[s]] - 1) = Slots[class[s]]
         /\ alloc_words[s] \subseteq 0 .. Slots[class[s]] - 1
         /\ free_words[s] \subseteq 0 .. Slots[class[s]] - 1
         /\ \A T \in SUBSET alloc_words[s] : IsFiniteSet(T) /\ Cardinality(T) \in Nat
<1> DEFINE n == Slots[class[s]]
           e == n - 1
           R == 0 .. e
<1>1. n \in Nat /\ n > 0 /\ e \in Int /\ 0 <= e /\ 0 \in Int /\ e - 0 + 1 = n
  BY Constants
<1>2. alloc_words[s] \subseteq R /\ free_words[s] \subseteq R
  BY OfHeap DEF Bits, SlotsOf
<1> HIDE DEF n, e
<1>3. IsFiniteSet(R) /\ Cardinality(R) = n
  <2>1. IsFiniteSet(0 .. e)
    BY <1>1, FS_Interval
  <2>2. Cardinality(0 .. e) = IF 0 > e THEN 0 ELSE e - 0 + 1
    BY <1>1, FS_Interval
  <2> QED BY <1>1, <2>1, <2>2
<1> HIDE DEF R
<1>4. ASSUME NEW T \in SUBSET alloc_words[s] PROVE IsFiniteSet(T) /\ Cardinality(T) \in Nat
  <2>1. T \in SUBSET R
    BY <1>2
  <2> QED BY <1>3, <2>1, FS_Subset, FS_CardinalityType
<1> QED BY <1>2, <1>3, <1>4 DEF R, e, n

\* The supervisor moves no object.
LEMMA SweepsNoObject ==
  ASSUME HeapInv, NEW x \in Jobs, job' = [job EXCEPT ![Sweeper] = x],
         UNCHANGED <<mag, l2, live, alloc_words, free_words, class>>
  PROVE  Partition'
<1>1. /\ \A u \in Threads : job'[u] = job[u]
      /\ \A v : Tiled(v)' <=> Tiled(v)
  BY OnlySweeper
<1>2. ASSUME NEW r \in Objects PROVE Same(r)
  <2>1. Exists(r)' <=> Exists(r)
    BY <1>1 DEF Exists
  <2> QED BY <1>1, <2>1 DEF Same, InWord
<1> QED BY <1>2, MoveObjects, OfHeap

\* SweepCell preserves the invariant.
LEMMA SweepCellSafe ==
  ASSUME HeapInv, SweepCell
  PROVE  HeapInv'
<1> DEFINE y == CellAt(sup.cell)
           q == list[y]
           x == [Idle EXCEPT !.at = "walk", !.class = y[2], !.shard = y[1], !.todo = q]
<1>1. /\ lock[y] = NoThread /\ lock' = [lock EXCEPT ![y] = Sweeper] /\ job' = [job EXCEPT ![Sweeper] = x]
      /\ UNCHANGED <<mag, l2, live, alloc_words, free_words, list, hint, class, home, free,
                     cursor, stopped, sup>>
  BY DEF SweepCell, Goto, bitmaps, table, arena
<1>2. y \in Cells
  <2>1. sup.cell \in 0 .. NumCells - 1
    BY LoopTypes DEF Sups
  <2> QED BY <2>1, CellAtType
<1> HIDE DEF y
<1>3. y[1] \in Shards /\ y[2] \in Classes /\ y = <<y[1], y[2]>>
  BY <1>2 DEF Cells, Shards
<1>4. q \in Seq(Spans) /\ Distinct(q)
  BY <1>2, OfHeap DEF Types, Lists
<1> HIDE DEF q
<1>5. /\ x \in Jobs /\ x.at = "walk" /\ x.class = y[2] /\ x.shard = y[1] /\ x.todo = q
      /\ x.out = <<>> /\ x.batch = <<>> /\ x.pend = <<>> /\ x.taken = {} /\ x.k = 0 /\ x.word = 0
  BY <1>3, <1>4, IdleJob DEF Jobs, Places
<1> HIDE DEF x
<1>6. job'[Sweeper] = x /\ \A v : Tiled(v)' <=> Tiled(v)
  BY <1>1, <1>5, OnlySweeper
<1>7. lock' \in [Cells -> Threads \cup {Sweeper, NoThread}] /\ lock'[y] = Sweeper
      /\ \A z \in Cells : z # y => lock'[z] = lock[z]
  BY <1>1, <1>2, OfHeap DEF Types
<1>8. ASSUME NEW u \in Threads, job[u].at \in Holding PROVE lock'[Cell(u)] = lock[Cell(u)]
  BY <1>1, <1>7, <1>8, InRefill, Constants
<1>9. Sweeps'
  <2>1. SweptCell' = y
    BY <1>3, <1>5, <1>6 DEF SweptCell
  <2>2. ASSUME q # <<>>
        PROVE  0 <= Cardinality({i \in alloc_words[q[1]] : WordOf(i) < 0})
    <3> DEFINE T == {i \in alloc_words[q[1]] : WordOf(i) < 0}
    <3>1. q[1] \in Spans /\ q[1] \in ToSet(list[y])
      BY <1>4, <2>2, StackType DEF q
    <3>2. class[q[1]] \in Classes
      BY <1>2, <1>3, <3>1, OfHeap DEF Lists
    <3>3. T \in SUBSET alloc_words[q[1]]
      OBVIOUS
    <3> HIDE DEF T
    <3>4. Cardinality(T) \in Nat
      BY <3>1, <3>2, <3>3, WordsFinite
    <3>5. 0 <= Cardinality(T)
      BY <3>4
    <3> QED BY <3>5 DEF T
  <2>3. ToSet(q) \subseteq ToSet(list'[y])
    BY <1>1 DEF q
  <2>4. x.at = "walk" /\ x.todo # <<>> =>
          x.k <= Cardinality({i \in alloc_words'[x.todo[1]] : WordOf(i) < x.word})
    BY <1>1, <1>5, <2>2
  <2> QED BY <1>3, <1>4, <1>5, <1>6, <1>7, <2>1, <2>3, <2>4 DEF Sweeps, Distinct, WordOf
<1>10. SlabsFine' /\ Bits' /\ free_words' \in [Spans -> SUBSET Nat]
  BY <1>1, WordsSame, SlabsSame
<1>11. /\ alloc_words' \in [Spans -> SUBSET Nat] /\ free' \in SUBSET Spans
       /\ (\A v \in free' : class[v] = Large) /\ sup' \in Sups /\ stopped' \in SUBSET Cpus
  BY <1>1, LoopTypes, OfHeap DEF Types, Lists
<1>12. Partition'
  BY <1>1, <1>5, <1>6, SweepsNoObject
<1>13. \A u \in Threads :
         /\ job[u].at \in Holding => lock'[Cell(u)] = lock[Cell(u)]
         /\ job[u].at = "clear" => alloc_words'[job[u].todo[1]] = alloc_words[job[u].todo[1]]
  BY <1>1, <1>8
<1>14. UNCHANGED <<mag, live, list, hint, class, home, cursor>>
  BY <1>1
<1> QED BY <1>1, <1>5, <1>7, <1>9, <1>10, <1>11, <1>12, <1>13, <1>14, SweepCalm

\* SweepUnlock preserves the invariant.
LEMMA SweepUnlockSafe ==
  ASSUME HeapInv, SweepUnlock
  PROVE  HeapInv'
<1> DEFINE j == job[Sweeper]
           y == SweptCell
           x == IF j.taken = {} THEN Idle ELSE [Idle EXCEPT !.at = "file", !.taken = j.taken]
<1>1. /\ j.at = "walk" /\ lock' = [lock EXCEPT ![y] = NoThread] /\ job' = [job EXCEPT ![Sweeper] = x]
      /\ NextCell \/ UNCHANGED sup
      /\ UNCHANGED <<mag, l2, live, alloc_words, free_words, list, hint, class, home, free,
                     cursor, stopped>>
  BY DEF SweepUnlock, At, Goto, bitmaps, table, arena, SweptCell
<1>2. j \in Jobs /\ y \in Cells /\ lock[y] = Sweeper
  BY <1>1, InSweep
<1>3. j.taken \in SUBSET Nat /\ j.taken \subseteq {s \in Spans : class[s] = Large} \ free
  BY <1>2, OfJob, OfHeap DEF Sweeps
<1>4. /\ x \in Jobs /\ x.at \in {"idle", "file"} /\ x.taken = j.taken
      /\ x.out = <<>> /\ x.batch = <<>> /\ x.pend = <<>> /\ (x.at = "idle" => x.taken = {})
  <2>1. CASE j.taken = {}
    BY <2>1, IdleJob
  <2>2. CASE j.taken # {}
    <3>1. x = [Idle EXCEPT !.at = "file", !.taken = j.taken]
      BY <2>2
    <3> HIDE DEF x
    <3> QED BY <1>3, <3>1, IdleJob DEF Jobs, Places
  <2> QED BY <2>1, <2>2
<1> HIDE DEF x, y
<1>5. job'[Sweeper] = x /\ \A v : Tiled(v)' <=> Tiled(v)
  BY <1>1, <1>4, OnlySweeper
<1>6. /\ lock' \in [Cells -> Threads \cup {Sweeper, NoThread}]
      /\ \A z \in Cells : z # y => lock'[z] = lock[z]
  BY <1>1, <1>2, OfHeap DEF Types
<1>7. ASSUME NEW u \in Threads, job[u].at \in Holding PROVE lock'[Cell(u)] = lock[Cell(u)]
  BY <1>1, <1>6, <1>7, InSweep DEF y
<1>8. Sweeps'
  BY <1>1, <1>3, <1>4, <1>5 DEF Sweeps
<1>9. SlabsFine' /\ Bits' /\ free_words' \in [Spans -> SUBSET Nat]
  BY <1>1, WordsSame, SlabsSame
<1>10. /\ alloc_words' \in [Spans -> SUBSET Nat] /\ free' \in SUBSET Spans
       /\ (\A v \in free' : class[v] = Large) /\ sup' \in Sups /\ stopped' \in SUBSET Cpus
  BY <1>1, LoopTypes, OfHeap DEF Types, Lists
<1>11. Partition'
  BY <1>1, <1>4, <1>5, SweepsNoObject
<1>12. \A u \in Threads :
         /\ job[u].at \in Holding => lock'[Cell(u)] = lock[Cell(u)]
         /\ job[u].at = "clear" => alloc_words'[job[u].todo[1]] = alloc_words[job[u].todo[1]]
  BY <1>1, <1>7
<1>13. UNCHANGED <<mag, live, list, hint, class, home, cursor>>
  BY <1>1
<1> QED BY <1>1, <1>4, <1>6, <1>8, <1>9, <1>10, <1>11, <1>12, <1>13, SweepCalm

\* SweepFile preserves the invariant.
LEMMA SweepFileSafe ==
  ASSUME HeapInv, SweepFile
  PROVE  HeapInv'
<1> DEFINE j == job[Sweeper]
<1>1. /\ j.at = "file" /\ free' = free \cup j.taken /\ job' = [job EXCEPT ![Sweeper] = Idle]
      /\ NextCell \/ UNCHANGED sup
      /\ UNCHANGED <<mag, l2, live, alloc_words, free_words, list, hint, lock, class, home,
                     cursor, stopped>>
  BY DEF SweepFile, At, Goto, bitmaps, table
<1>2. j.taken \subseteq {s \in Spans : class[s] = Large} \ free
  BY OfHeap DEF Sweeps
<1> DEFINE x == Idle
<1>3. /\ x \in Jobs /\ x.at = "idle" /\ x.taken = {} /\ x.out = <<>> /\ x.batch = <<>> /\ x.pend = <<>>
      /\ job' = [job EXCEPT ![Sweeper] = x]
  BY <1>1, IdleJob
<1> HIDE DEF x
<1>4. job'[Sweeper] = x /\ \A v : Tiled(v)' <=> Tiled(v)
  BY <1>3, OnlySweeper
<1>5. Sweeps'
  BY <1>3, <1>4 DEF Sweeps
<1>6. SlabsFine' /\ Bits' /\ free_words' \in [Spans -> SUBSET Nat]
  BY <1>1, WordsSame, SlabsSame
<1>7. /\ alloc_words' \in [Spans -> SUBSET Nat] /\ free' \in SUBSET Spans
      /\ lock' \in [Cells -> Threads \cup {Sweeper, NoThread}]
      /\ (\A v \in free' : class[v] = Large) /\ sup' \in Sups /\ stopped' \in SUBSET Cpus
  BY <1>1, <1>2, LoopTypes, OfHeap DEF Types, Lists
<1>8. Partition'
  BY <1>1, <1>3, SweepsNoObject
<1>9. \A u \in Threads :
        /\ job[u].at \in Holding => lock'[Cell(u)] = lock[Cell(u)]
        /\ job[u].at = "clear" => alloc_words'[job[u].todo[1]] = alloc_words[job[u].todo[1]]
  BY <1>1
<1>10. UNCHANGED <<mag, live, list, hint, class, home, cursor>>
  BY <1>1
<1> QED BY <1>3, <1>5, <1>6, <1>7, <1>8, <1>9, <1>10, SweepCalm

\* k slots have been counted up to word w of span s, and n with the word whose slots
\* are g.
Counted(s, w, k) == k <= Cardinality({i \in alloc_words[s] : WordOf(i) < w})
CountGrows(s, c, w, g, n) ==
  /\ Cardinality(g) \in Nat
  /\ n <= Cardinality({i \in alloc_words'[s] : WordOf(i) < w + 1})
  /\ n = Slots[c] => alloc_words'[s] = 0 .. Slots[c] - 1

\* The count of a walk never exceeds the free slots up to its word, so that a full
\* count means that every slot is free.
LEMMA SweptCount ==
  ASSUME HeapInv, NEW s \in Spans, NEW c \in Classes, class[s] = c, NEW w \in Nat, NEW g, NEW F,
         Folded(s, c, w, g, F), FoldDone(s, c, w, g, F),
         NEW k \in Nat, Counted(s, w, k), NEW n, n = k + Cardinality(g)
  PROVE  CountGrows(s, c, w, g, n)
<1> DEFINE R == 0 .. Slots[c] - 1
           A == alloc_words'[s]
           S == {i \in alloc_words[s] : WordOf(i) < w}
           U == {i \in A : WordOf(i) < w + 1}
<1>1. /\ A = alloc_words[s] \cup (free_words[s] \cap WordMask(c, w)) /\ g \subseteq A
      /\ g = (alloc_words[s] \cup free_words[s]) \cap WordMask(c, w)
  BY DEF FoldDone, Folded
<1>2. /\ IsFiniteSet(R) /\ Cardinality(R) = Slots[c]
      /\ alloc_words[s] \subseteq R /\ free_words[s] \subseteq R
  BY WordsFinite
<1>3. \A i \in R : i \in Nat /\ WordOf(i) \in Nat
  BY Constants DEF WordOf
<1> HIDE DEF R, A
<1>4. A \in SUBSET R
  BY <1>1, <1>2
<1>5. IsFiniteSet(A) /\ Cardinality(A) <= Cardinality(R) /\ (Cardinality(R) = Cardinality(A) => R = A)
  BY <1>2, <1>4, FS_Subset
<1>6. U \in SUBSET A
  OBVIOUS
<1>7. \A i \in g : WordOf(i) = w
  BY <1>1 DEF WordMask
<1>8. S \subseteq U /\ g \subseteq U /\ S \cap g = {}
  <2>1. ASSUME NEW i \in S PROVE i \in U /\ i \notin g
    <3>1. i \in A /\ WordOf(i) < w /\ WordOf(i) \in Nat
      BY <1>1, <1>2, <1>3
    <3> QED BY <1>7, <3>1
  <2>2. ASSUME NEW i \in g PROVE i \in U
    <3>1. i \in A /\ WordOf(i) = w
      BY <1>1, <1>7
    <3> QED BY <3>1
  <2> QED BY <2>1, <2>2
<1> HIDE DEF S, U
<1>9. IsFiniteSet(U) /\ Cardinality(U) <= Cardinality(A)
  BY <1>5, <1>6, FS_Subset
<1>10. IsFiniteSet(S) /\ IsFiniteSet(g) /\ S \cup g \in SUBSET U
  BY <1>8, <1>9, FS_Subset
<1>11. Cardinality(S \cup g) = Cardinality(S) + Cardinality(g) - Cardinality(S \cap g)
  BY <1>10, FS_Union
<1>12. Cardinality(S \cap g) = 0
  BY <1>8, FS_EmptySet
<1>13. Cardinality(S \cup g) <= Cardinality(U)
  BY <1>9, <1>10, FS_Subset
<1>14. /\ Cardinality(S) \in Nat /\ Cardinality(g) \in Nat /\ Cardinality(U) \in Nat
       /\ Cardinality(A) \in Nat /\ Cardinality(R) \in Nat
  BY <1>2, <1>5, <1>9, <1>10, FS_CardinalityType
<1>15. k <= Cardinality(S)
  BY DEF S, Counted
<1>16. k + Cardinality(g) <= Cardinality(U)
  BY <1>11, <1>12, <1>13, <1>14, <1>15
<1>17. ASSUME k + Cardinality(g) = Slots[c] PROVE A = R
  <2>1. Cardinality(R) <= Cardinality(A)
    BY <1>2, <1>9, <1>14, <1>16, <1>17
  <2>2. Cardinality(R) = Cardinality(A)
    BY <1>5, <1>14, <2>1
  <2> QED BY <1>5, <2>2
<1> QED BY <1>14, <1>16, <1>17 DEF U, A, R, CountGrows

\* SweepFold preserves the invariant.
LEMMA SweepFoldSafe ==
  ASSUME HeapInv, SweepFold
  PROVE  HeapInv'
<1> DEFINE j == job[Sweeper]
           c == j.class
           w == j.word
           s == Head(j.todo)
           m == WordMask(c, w)
           g == (alloc_words[s] \cup free_words[s]) \cap m
           n == j.k + Cardinality(g)
           F == {r \in Objects : r[1] = c /\ r[2] = s /\ r[3] \in free_words[s] \cap m}
           x == IF w + 1 < NumWords(c) THEN [j EXCEPT !.word = w + 1, !.k = n]
                ELSE IF AllFree(n, Slots[c]) THEN [j EXCEPT !.at = "retire", !.word = 0, !.k = 0]
                ELSE [j EXCEPT !.todo = Tail(j.todo), !.word = 0, !.k = 0]
<1>1. /\ j.at = "walk" /\ j.todo # <<>>
      /\ alloc_words' = [alloc_words EXCEPT ![s] = (@ \ m) \cup g]
      /\ free_words' = [free_words EXCEPT ![s] = SwappedWord(s, m)]
      /\ UNCHANGED <<mag, l2, live, list, hint, lock, class, home, free, cursor, stopped, sup>>
  BY DEF SweepFold, SweepOver, At, table, arena
<1>2. /\ j \in Jobs /\ c \in Classes /\ j.todo \in Seq(Spans) /\ w \in Nat /\ j.k \in Nat
      /\ Distinct(j.todo) /\ ToSet(j.todo) \subseteq ToSet(list[SweptCell])
      /\ SweptCell \in Cells /\ lock[SweptCell] = Sweeper
  BY <1>1, InSweep, OfJob
<1>3. job' = [job EXCEPT ![Sweeper] = x]
  BY <1>2 DEF SweepFold, Goto, Jobs
<1>4. /\ s = j.todo[1] /\ s \in ToSet(j.todo)
      /\ Tail(j.todo) \in Seq(Spans) /\ ToSet(Tail(j.todo)) \subseteq ToSet(j.todo)
      /\ s \notin ToSet(Tail(j.todo)) /\ Distinct(Tail(j.todo))
  BY <1>1, <1>2, TailStack
<1>5. j.k <= Cardinality({i \in alloc_words[s] : WordOf(i) < w})
  BY <1>1, <1>4, OfHeap DEF Sweeps
<1> HIDE DEF s
<1>6. /\ s \in Spans /\ class[s] = c
      /\ \A u \in Threads : job[u].at = "clear" => job[u].todo[1] # s
  BY <1>1, <1>4, SweptSpan
<1>7. Folded(s, c, w, g, F)
  BY <1>1 DEF Folded
<1> HIDE DEF c, w, g, F, x, m
<1>8. FoldDone(s, c, w, g, F)
  BY <1>1, <1>2, <1>6, <1>7, FoldWord
<1>9. /\ \A r \in Objects : InWord(alloc_words, r)' <=> InWord(alloc_words, r) \/ r \in F
      /\ \A r \in Objects : InWord(free_words, r)' <=> InWord(free_words, r) /\ r \notin F
      /\ \A r \in F : r \in Objects /\ In(r, "free", NoThread)
      /\ \A v \in Spans : v # s => alloc_words'[v] = alloc_words[v] /\ free_words'[v] = free_words[v]
      /\ alloc_words' \in [Spans -> SUBSET Nat] /\ free_words' \in [Spans -> SUBSET Nat] /\ Bits'
  BY <1>8 DEF FoldDone
<1>10. /\ Cardinality(g) \in Nat
       /\ n <= Cardinality({i \in alloc_words'[s] : WordOf(i) < w + 1})
       /\ n = Slots[c] => alloc_words'[s] = 0 .. Slots[c] - 1
  <2> DEFINE k == j.k
  <2>1. k \in Nat /\ Counted(s, w, k) /\ n = k + Cardinality(g)
    BY <1>2, <1>5 DEF Counted
  <2> HIDE DEF k, n
  <2>2. CountGrows(s, c, w, g, n)
    BY <1>2, <1>6, <1>7, <1>8, <2>1, SweptCount
  <2> QED BY <2>2 DEF CountGrows
<1>11. n \in Nat
  BY <1>2, <1>10
<1> HIDE DEF n
<1>12. /\ x \in Jobs /\ x.class = c /\ x.shard = j.shard /\ x.taken = j.taken
       /\ x.out = j.out /\ x.batch = j.batch /\ x.pend = j.pend
       /\ \/ x.at = "walk" /\ x.todo = j.todo /\ x.word = w + 1 /\ x.k = n
          \/ x.at = "retire" /\ x.todo = j.todo /\ x.k = 0 /\ n = Slots[c]
          \/ x.at = "walk" /\ x.todo = Tail(j.todo) /\ x.word = 0 /\ x.k = 0
  <2>1. CASE w + 1 < NumWords(c)
    <3>1. x = [j EXCEPT !.word = w + 1, !.k = n] /\ w + 1 \in Nat
      BY <1>2, <2>1 DEF x
    <3> QED BY <1>1, <1>2, <1>11, <3>1 DEF Jobs, c
  <2>2. CASE ~(w + 1 < NumWords(c)) /\ AllFree(n, Slots[c])
    <3>1. x = [j EXCEPT !.at = "retire", !.word = 0, !.k = 0] /\ n = Slots[c]
      BY <2>2 DEF x, AllFree
    <3> QED BY <1>1, <1>2, <3>1 DEF Jobs, Places, c
  <2>3. CASE ~(w + 1 < NumWords(c)) /\ ~AllFree(n, Slots[c])
    <3> DEFINE q == Tail(j.todo)
    <3>1. x = [j EXCEPT !.todo = q, !.word = 0, !.k = 0] /\ q \in Seq(Spans)
      BY <1>4, <2>3 DEF x
    <3> HIDE DEF q
    <3>2. /\ x \in Jobs /\ x.class = c /\ x.shard = j.shard /\ x.taken = j.taken
          /\ x.out = j.out /\ x.batch = j.batch /\ x.pend = j.pend
          /\ x.at = "walk" /\ x.todo = q /\ x.word = 0 /\ x.k = 0
      BY <1>1, <1>2, <3>1 DEF Jobs, c
    <3> QED BY <3>2 DEF q
  <2> QED BY <2>1, <2>2, <2>3
<1>13. job'[Sweeper] = x /\ (\A v : Tiled(v)' <=> Tiled(v)) /\ \A u \in Threads : job'[u] = job[u]
  BY <1>3, <1>12, OnlySweeper
<1>14. Partition'
  <2>1. ASSUME NEW r \in Objects PROVE Same(r) \/ \E k \in Kinds, a \in Agents : In(r, k, a)'
    <3>1. Exists(r)' <=> Exists(r)
      BY <1>1, <1>13 DEF Exists
    <3>2. CASE r \notin F
      BY <1>1, <1>9, <1>13, <3>1, <3>2 DEF Same
    <3>3. CASE r \in F
      <4>1. In(r, "free", NoThread)
        BY <1>9, <3>3
      <4>2. In(r, "alloc", NoThread)'
        BY <1>1, <1>9, <1>13, <3>1, <3>3, <4>1 DEF In
      <4>3. "alloc" \in Kinds /\ NoThread \in Agents
        BY DEF Kinds, Agents
      <4> QED BY <4>2, <4>3
    <3> QED BY <3>2, <3>3
  <2> QED BY <2>1, MoveObjects, OfHeap
<1>15. Sweeps'
  <2>1. SweptCell' = SweptCell /\ c = j.class
    BY <1>12, <1>13 DEF SweptCell, c
  <2>2. /\ x.out = <<>> /\ x.batch = <<>> /\ x.pend = <<>>
        /\ x.taken \subseteq {v \in Spans : class'[v] = Large} \ free'
    BY <1>1, <1>12, OfHeap DEF Sweeps
  <2>3. lock'[SweptCell] = Sweeper /\ list'[SweptCell] = list[SweptCell]
    BY <1>1, <1>2
  <2>4. CASE x.at = "walk" /\ x.todo = j.todo /\ x.word = w + 1 /\ x.k = n
    <3>1. x.k <= Cardinality({i \in alloc_words'[x.todo[1]] : WordOf(i) < x.word})
      BY <1>4, <1>10, <2>4
    <3> QED BY <1>2, <1>12, <1>13, <2>1, <2>2, <2>3, <2>4, <3>1 DEF Sweeps, Distinct, WordOf
  <2>5. CASE x.at = "retire" /\ x.todo = j.todo /\ x.k = 0 /\ n = Slots[c]
    <3>1. x.todo # <<>> /\ alloc_words'[x.todo[1]] = 0 .. Slots[x.class] - 1
      BY <1>1, <1>4, <1>10, <1>12, <2>5
    <3> QED BY <1>2, <1>12, <1>13, <2>1, <2>2, <2>3, <2>5, <3>1 DEF Sweeps, Distinct
  <2>6. CASE x.at = "walk" /\ x.todo = Tail(j.todo) /\ x.word = 0 /\ x.k = 0
    <3> DEFINE q == Tail(j.todo)
    <3>1. q \in Seq(Spans) /\ ToSet(q) \subseteq ToSet(j.todo) /\ s \notin ToSet(q) /\ Distinct(q)
      BY <1>4
    <3>2. x.todo = q
      BY <2>6
    <3> HIDE DEF q
    <3>3. ASSUME q # <<>>
          PROVE  0 <= Cardinality({i \in alloc_words'[q[1]] : WordOf(i) < 0})
      <4> DEFINE T == {i \in alloc_words'[q[1]] : WordOf(i) < 0}
      <4>1. q[1] \in Spans /\ q[1] # s /\ q[1] \in ToSet(j.todo)
        BY <3>1, <3>3, StackType
      <4>2. class[q[1]] = j.class
        BY <1>1, <4>1, SweptSpan
      <4>3. T \in SUBSET alloc_words[q[1]]
        BY <1>9, <4>1
      <4> HIDE DEF T
      <4>4. Cardinality(T) \in Nat
        BY <1>2, <2>1, <4>1, <4>2, <4>3, WordsFinite
      <4>5. 0 <= Cardinality(T)
        BY <4>4
      <4> QED BY <4>5 DEF T
    <3>4. x.todo # <<>> => x.k <= Cardinality({i \in alloc_words'[x.todo[1]] : WordOf(i) < x.word})
      BY <2>6, <3>2, <3>3
    <3> QED BY <1>2, <1>12, <1>13, <2>1, <2>2, <2>3, <2>6, <3>1, <3>2, <3>4 DEF Sweeps, Distinct, WordOf
  <2> QED BY <1>12, <2>4, <2>5, <2>6
<1>16. SlabsFine'
  BY <1>1, SlabsSame
<1>17. /\ free' \in SUBSET Spans /\ lock' \in [Cells -> Threads \cup {Sweeper, NoThread}]
       /\ (\A v \in free' : class[v] = Large) /\ sup' \in Sups /\ stopped' \in SUBSET Cpus
  BY <1>1, LoopTypes, OfHeap DEF Types, Lists
<1>18. \A u \in Threads :
         /\ job[u].at \in Holding => lock'[Cell(u)] = lock[Cell(u)]
         /\ job[u].at = "clear" => alloc_words'[job[u].todo[1]] = alloc_words[job[u].todo[1]]
  <2>1. \A v : v # s => alloc_words'[v] = alloc_words[v]
    BY <1>1, OfHeap DEF Types
  <2> QED BY <1>1, <1>6, <2>1
<1>19. UNCHANGED <<mag, live, list, hint, class, home, cursor>>
  BY <1>1
<1> QED BY <1>3, <1>9, <1>12, <1>14, <1>15, <1>16, <1>17, <1>18, <1>19, SweepCalm

\* The walk goes on with the next span.
LEMMA WalkOn ==
  ASSUME HeapInv, NEW q \in Seq(Spans), q # <<>>, class[q[1]] \in Classes,
         NEW T \in SUBSET alloc_words[q[1]]
  PROVE  0 <= Cardinality(T)
<1>1. q[1] \in Spans
  BY StackType
<1>2. Cardinality(T) \in Nat
  BY <1>1, WordsFinite
<1> QED BY <1>2

\* A span with a late deposit is left where it is.
LEMMA SweepSpare ==
  ASSUME HeapInv, SweepRetire, free_words[Head(job[Sweeper].todo)] # {}
  PROVE  HeapInv'
<1> DEFINE j == job[Sweeper]
           q == Tail(j.todo)
           x == [j EXCEPT !.at = "walk", !.todo = q]
<1>1. /\ j.at = "retire" /\ job' = [job EXCEPT ![Sweeper] = [j EXCEPT !.at = "walk", !.todo = Tail(@)]]
      /\ UNCHANGED <<mag, l2, live, alloc_words, free_words, list, hint, lock, class, home, free,
                     cursor, stopped, sup>>
  BY DEF SweepRetire, At, Goto, bitmaps, table, arena
<1>2. /\ j \in Jobs /\ j.class \in Classes /\ j.todo \in Seq(Spans) /\ j.k \in Nat /\ j.word \in Nat
      /\ Distinct(j.todo) /\ ToSet(j.todo) \subseteq ToSet(list[SweptCell])
      /\ SweptCell \in Cells /\ lock[SweptCell] = Sweeper
  BY <1>1, InSweep, OfJob
<1>3. j.todo # <<>> /\ j.k = 0
  BY <1>1, OfHeap DEF Sweeps
<1>4. q \in Seq(Spans) /\ ToSet(q) \subseteq ToSet(j.todo) /\ Distinct(q)
  BY <1>2, <1>3, TailStack
<1>5. job' = [job EXCEPT ![Sweeper] = x]
  BY <1>1, <1>2 DEF Jobs
<1> HIDE DEF q
<1>6. /\ x \in Jobs /\ x.class = j.class /\ x.shard = j.shard /\ x.taken = j.taken
      /\ x.out = j.out /\ x.batch = j.batch /\ x.pend = j.pend
      /\ x.at = "walk" /\ x.todo = q /\ x.k = 0
  BY <1>2, <1>3, <1>4 DEF Jobs, Places
<1> HIDE DEF x
<1>7. job'[Sweeper] = x /\ (\A v : Tiled(v)' <=> Tiled(v)) /\ \A u \in Threads : job'[u] = job[u]
  BY <1>5, <1>6, OnlySweeper
<1>8. ASSUME q # <<>>
      PROVE  0 <= Cardinality({i \in alloc_words[q[1]] : WordOf(i) < x.word})
  <2> DEFINE T == {i \in alloc_words[q[1]] : WordOf(i) < x.word}
  <2>1. q[1] \in ToSet(j.todo)
    BY <1>4, <1>8, StackType
  <2>2. class[q[1]] \in Classes
    BY <1>1, <1>2, <2>1, SweptSpan
  <2>3. T \in SUBSET alloc_words[q[1]]
    OBVIOUS
  <2> HIDE DEF T
  <2>4. 0 <= Cardinality(T)
    BY <1>4, <1>8, <2>2, <2>3, WalkOn
  <2> QED BY <2>4 DEF T
<1>9. Sweeps'
  <2>1. SweptCell' = SweptCell
    BY <1>6, <1>7 DEF SweptCell
  <2>2. /\ x.out = <<>> /\ x.batch = <<>> /\ x.pend = <<>>
        /\ x.taken \subseteq {v \in Spans : class'[v] = Large} \ free'
    BY <1>1, <1>6, OfHeap DEF Sweeps
  <2>3. x.todo # <<>> => x.k <= Cardinality({i \in alloc_words'[x.todo[1]] : WordOf(i) < x.word})
    BY <1>1, <1>6, <1>8
  <2>4. lock'[SweptCell] = Sweeper /\ ToSet(q) \subseteq ToSet(list'[SweptCell])
    BY <1>1, <1>2, <1>4
  <2>5. /\ x.at = "walk" /\ x.class \in Classes /\ Distinct(x.todo)
        /\ lock'[SweptCell'] = Sweeper /\ ToSet(x.todo) \subseteq ToSet(list'[SweptCell'])
    BY <1>2, <1>4, <1>6, <2>1, <2>4
  <2> QED BY <1>7, <2>2, <2>3, <2>5 DEF Sweeps, Distinct, WordOf
<1>10. SlabsFine' /\ Bits' /\ free_words' \in [Spans -> SUBSET Nat]
  BY <1>1, WordsSame, SlabsSame
<1>11. /\ alloc_words' \in [Spans -> SUBSET Nat] /\ free' \in SUBSET Spans
       /\ lock' \in [Cells -> Threads \cup {Sweeper, NoThread}]
       /\ (\A v \in free' : class[v] = Large) /\ sup' \in Sups /\ stopped' \in SUBSET Cpus
  BY <1>1, LoopTypes, OfHeap DEF Types, Lists
<1>12. Partition'
  BY <1>1, <1>5, <1>6, SweepsNoObject
<1>13. \A u \in Threads :
         /\ job[u].at \in Holding => lock'[Cell(u)] = lock[Cell(u)]
         /\ job[u].at = "clear" => alloc_words'[job[u].todo[1]] = alloc_words[job[u].todo[1]]
  BY <1>1
<1>14. UNCHANGED <<mag, live, list, hint, class, home, cursor>>
  BY <1>1
<1> QED BY <1>5, <1>6, <1>9, <1>10, <1>11, <1>12, <1>13, <1>14, SweepCalm

\* A span all of whose slots are free, with no late deposit, leaves its list and class.
LEMMA SweepRetires ==
  ASSUME HeapInv, Reclaiming, SweepRetire, free_words[Head(job[Sweeper].todo)] = {}
  PROVE  HeapInv'
<1> DEFINE j == job[Sweeper]
           c == j.class
           s == Head(j.todo)
           z == SweptCell
           q == Tail(j.todo)
           T == j.taken \cup {s}
           x == [j EXCEPT !.at = "walk", !.todo = q, !.taken = T]
           p == RemoveFirst(list[z], s)
<1>1. /\ j.at = "retire"
      /\ list' = [list EXCEPT ![z] = RemoveFirst(@, s)]
      /\ hint' = [hint EXCEPT ![z] = IF @ = s THEN NO_SPAN ELSE @]
      /\ class' = [class EXCEPT ![s] = Large] /\ home' = [home EXCEPT ![s] = 0]
      /\ alloc_words' = [alloc_words EXCEPT ![s] = {}] /\ free_words' = [free_words EXCEPT ![s] = {}]
      /\ job' = [job EXCEPT ![Sweeper] = [[j EXCEPT !.at = "walk", !.todo = Tail(@)] EXCEPT !.taken = @ \cup {s}]]
      /\ UNCHANGED <<mag, l2, live, lock, free, cursor, stopped, sup>>
  BY DEF SweepRetire, At, Goto, arena, SweptCell
<1>2. /\ j \in Jobs /\ c \in Classes /\ j.todo \in Seq(Spans) /\ j.taken \in SUBSET Nat
      /\ Distinct(j.todo) /\ ToSet(j.todo) \subseteq ToSet(list[z])
      /\ z \in Cells /\ lock[z] = Sweeper /\ list[z] \in Seq(Spans) /\ z[2] = c
      /\ \A u \in Threads : job[u].at \in Holding => Cell(u) \in Cells /\ Cell(u) # z
  BY <1>1, InSweep, OfJob DEF SweptCell
<1>3. j.todo # <<>> /\ j.k = 0 /\ alloc_words[j.todo[1]] = 0 .. Slots[c] - 1
  BY <1>1, OfHeap DEF Sweeps
<1>4. /\ s = j.todo[1] /\ s \in ToSet(j.todo) /\ q \in Seq(Spans) /\ ToSet(q) \subseteq ToSet(j.todo)
      /\ s \notin ToSet(q) /\ Distinct(q)
  BY <1>2, <1>3, TailStack
<1>5. job' = [job EXCEPT ![Sweeper] = x]
  BY <1>1, <1>2 DEF Jobs
<1>6. alloc_words[s] = 0 .. Slots[c] - 1 /\ free_words[s] = {}
  BY <1>3, <1>4
<1> HIDE DEF s, q
<1>7. /\ s \in Spans /\ s \in ToSet(list[z]) /\ class[s] = c /\ HomeShard(s) = j.shard /\ ~Tiled(s)
      /\ \A y \in Cells : s \in ToSet(list[y]) => y = z
      /\ \A u \in Threads : job[u].at = "clear" => job[u].todo[1] # s
  BY <1>1, <1>4, SweptSpan
<1>8. T \in SUBSET Nat
  BY <1>2, <1>7, Constants
<1> HIDE DEF T
<1>9. /\ x \in Jobs /\ x.class = j.class /\ x.shard = j.shard /\ x.taken = T
      /\ x.out = j.out /\ x.batch = j.batch /\ x.pend = j.pend
      /\ x.at = "walk" /\ x.todo = q /\ x.k = 0
  BY <1>2, <1>3, <1>4, <1>8 DEF Jobs, Places
<1> HIDE DEF x, z
<1>10. job'[Sweeper] = x /\ (\A v : Tiled(v)' <=> Tiled(v)) /\ \A u \in Threads : job'[u] = job[u]
  BY <1>5, <1>9, OnlySweeper
<1>11. p \in Seq(Spans) /\ Distinct(p) /\ ToSet(p) = ToSet(list[z]) \ {s}
  <2> DEFINE w == list[z]
  <2>1. w \in Seq(Spans) /\ Distinct(w)
    BY <1>2, OfHeap DEF Lists
  <2> HIDE DEF w
  <2>2. RemoveFirst(w, s) \in Seq(Spans) /\ Distinct(RemoveFirst(w, s))
        /\ ToSet(RemoveFirst(w, s)) = ToSet(w) \ {s}
    BY <2>1, RemoveStack
  <2> QED BY <2>2 DEF w
<1> HIDE DEF p
<1>12. /\ list' \in [Cells -> Seq(Spans)] /\ list'[z] = p
       /\ \A y \in Cells : y # z => list'[y] = list[y]
       /\ \A y \in Cells : ToSet(list'[y]) = ToSet(list[y]) \ {s}
  <2>1. list \in [Cells -> Seq(Spans)]
    BY OfHeap DEF Types
  <2>2. list' = [list EXCEPT ![z] = p]
    BY <1>1, <1>2, <2>1 DEF p
  <2>3. list' \in [Cells -> Seq(Spans)] /\ list'[z] = p /\ \A y \in Cells : y # z => list'[y] = list[y]
    BY <1>2, <1>11, <2>1, <2>2
  <2>4. \A y \in Cells : y # z => s \notin ToSet(list[y])
    BY <1>7
  <2> QED BY <1>11, <2>3, <2>4
<1>13. /\ alloc_words' \in [Spans -> SUBSET Nat] /\ alloc_words'[s] = {}
       /\ free_words' \in [Spans -> SUBSET Nat] /\ free_words'[s] = {}
       /\ \A v : v # s => alloc_words'[v] = alloc_words[v] /\ free_words'[v] = free_words[v]
  BY <1>1, <1>7, OfHeap DEF Types
<1>14. /\ class' \in [Spans -> Classes \cup {Large, Unassigned}] /\ class'[s] = Large
       /\ home' \in [Spans -> 0 .. HomeMod - 1]
       /\ \A v : v # s => class'[v] = class[v] /\ home'[v] = home[v] /\ HomeShard(v)' = HomeShard(v)
  <2>1. /\ class' \in [Spans -> Classes \cup {Large, Unassigned}] /\ class'[s] = Large
        /\ home' \in [Spans -> 0 .. HomeMod - 1]
        /\ \A v : v # s => class'[v] = class[v] /\ home'[v] = home[v]
    <3>1. 0 \in 0 .. HomeMod - 1
      BY Constants
    <3> QED BY <1>1, <1>7, <3>1, OfHeap DEF Types
  <2> QED BY <2>1 DEF HomeShard
<1>15. s \notin free /\ s < cursor
  <2>1. \A v \in free : class[v] = Large
    BY OfHeap DEF Lists
  <2>2. \A v \in Spans : v >= cursor => class[v] = Unassigned
    BY OfHeap DEF Lists
  <2>3. cursor \in Nat /\ s \in Nat
    BY <1>7, Constants, OfHeap DEF Types
  <2>4. ~(s >= cursor)
    BY <1>2, <1>7, <2>2, Constants
  <2> QED BY <1>2, <1>7, <2>1, <2>3, <2>4, Constants
<1>16. SpanTypes'
  <2>1. hint' \in [Cells -> Spans \cup {NO_SPAN}]
    BY <1>1, <1>2, OfHeap DEF Types
  <2> QED BY <1>1, <1>12, <1>13, <1>14, <2>1, OfHeap DEF SpanTypes, Types
<1>17. ASSUME NEW u \in Threads PROVE Refilling(u)'
  <2>1. Refilling(u) /\ job'[u] = job[u] /\ Cell(u)' = Cell(u)
    BY <1>10, OfHeap DEF Cell
  <2>2. ASSUME job[u].at \in Holding PROVE list'[Cell(u)] = list[Cell(u)]
    BY <1>2, <1>12, <2>2
  <2>3. ASSUME job[u].at = "clear" PROVE alloc_words'[job[u].todo[1]] = alloc_words[job[u].todo[1]]
    BY <1>7, <1>13, <2>3
  <2>4. ASSUME job[u].at = "tile"
        PROVE  class'[job[u].todo[1]] = class[job[u].todo[1]]
               /\ HomeShard(job[u].todo[1])' = HomeShard(job[u].todo[1])
    <3> DEFINE v == job[u].todo[1]
    <3>1. v # s
      BY <1>7, <2>4 DEF Tiled
    <3>2. job'[u].todo[1] = v
      BY <1>10
    <3>3. home'[v] = home[v] /\ class'[v] = class[v]
      BY <1>14, <3>1
    <3> QED BY <3>2, <3>3 DEF HomeShard
  <2> QED BY <1>1, <2>1, <2>2, <2>3, <2>4 DEF Refilling, Holding
<1>18. Lists'
  <2>1. ASSUME NEW y \in Cells PROVE Distinct(list'[y])
    BY <1>11, <1>12, OfHeap DEF Lists
  <2>2. ASSUME NEW y \in Cells, NEW v \in ToSet(list'[y])
        PROVE  class'[v] = y[2] /\ HomeShard(v)' = y[1] /\ ~Tiled(v)'
    <3>1. v \in ToSet(list[y]) /\ v # s
      BY <1>12
    <3> QED BY <1>10, <1>14, <3>1, OfHeap DEF Lists
  <2>3. ASSUME NEW v \in Spans, class'[v] \in Classes
        PROVE  /\ v \in ToSet(list'[<<HomeShard(v)', class'[v]>>]) \/ Tiled(v)'
               /\ \E t \in Threads : Allocates(t, class'[v]) /\ HomeShard(v)' = Shard(t)
    <3>1. v # s /\ class'[v] = class[v] /\ HomeShard(v)' = HomeShard(v)
      BY <1>14, <2>3, Constants
    <3>2. /\ v \in ToSet(list[<<HomeShard(v), class[v]>>]) \/ Tiled(v)
          /\ \E t \in Threads : Allocates(t, class[v]) /\ HomeShard(v) = Shard(t)
      BY <2>3, <3>1, OfHeap DEF Lists
    <3>3. <<HomeShard(v), class[v]>> \in Cells
      <4>1. home[v] \in Nat
        BY OfHeap, Constants DEF Types
      <4>2. HomeShard(v) \in 0 .. NumShards - 1
        BY <4>1, Constants DEF HomeShard
      <4> QED BY <2>3, <3>1, <4>2 DEF Cells
    <3> QED BY <1>10, <1>12, <3>1, <3>2, <3>3
  <2>4. ASSUME NEW v \in free' PROVE class'[v] = Large
    BY <1>1, <1>14, <1>15, OfHeap DEF Lists
  <2>5. ASSUME NEW v \in Spans, v >= cursor' PROVE class'[v] = Unassigned
    <3>1. v >= cursor
      BY <1>1, <2>5
    <3>2. class[v] = Unassigned
      BY <3>1, OfHeap DEF Lists
    <3> QED BY <1>2, <1>7, <1>14, <3>2, Constants
  <2> QED BY <2>1, <2>2, <2>3, <2>4, <2>5 DEF Lists, Distinct, Shard, Allocates
<1>19. Sweeps'
  <2>1. SweptCell' = z
    BY <1>9, <1>10 DEF SweptCell, z
  <2>2. /\ x.out = <<>> /\ x.batch = <<>> /\ x.pend = <<>>
        /\ j.taken \subseteq {v \in Spans : class[v] = Large} \ free
    BY <1>9, OfHeap DEF Sweeps
  <2>3. x.taken \subseteq {v \in Spans : class'[v] = Large} \ free'
    BY <1>1, <1>7, <1>9, <1>14, <1>15, <2>2 DEF T
  <2>4. ASSUME q # <<>>
        PROVE  0 <= Cardinality({i \in alloc_words'[q[1]] : WordOf(i) < x.word})
    <3> DEFINE Y == {i \in alloc_words'[q[1]] : WordOf(i) < x.word}
    <3>1. q[1] \in ToSet(j.todo) /\ q[1] # s
      BY <1>4, <2>4, StackType
    <3>2. class[q[1]] \in Classes
      BY <1>1, <1>2, <3>1, SweptSpan
    <3>3. Y \in SUBSET alloc_words[q[1]]
      BY <1>13, <3>1
    <3> HIDE DEF Y
    <3>4. 0 <= Cardinality(Y)
      BY <1>4, <2>4, <3>2, <3>3, WalkOn
    <3> QED BY <3>4 DEF Y
  <2>5. x.todo # <<>> => x.k <= Cardinality({i \in alloc_words'[x.todo[1]] : WordOf(i) < x.word})
    BY <1>9, <2>4
  <2>6. lock'[z] = Sweeper /\ ToSet(q) \subseteq ToSet(list'[z])
    BY <1>1, <1>2, <1>4, <1>12
  <2>7. /\ x.at = "walk" /\ x.class \in Classes /\ Distinct(x.todo)
        /\ lock'[SweptCell'] = Sweeper /\ ToSet(x.todo) \subseteq ToSet(list'[SweptCell'])
    BY <1>2, <1>4, <1>9, <2>1, <2>6
  <2> QED BY <1>10, <2>2, <2>3, <2>5, <2>7 DEF Sweeps, Distinct, WordOf
<1>20. Bits'
  <2>1. ASSUME NEW v \in Spans PROVE alloc_words'[v] \cup free_words'[v] \subseteq SlotsOf(v)'
    <3>1. CASE v = s
      BY <1>13, <3>1
    <3>2. CASE v # s
      BY <1>13, <1>14, <3>2, OfHeap DEF Bits, SlotsOf
    <3> QED BY <3>1, <3>2
  <2> QED BY <2>1 DEF Bits
<1>21. Partition'
  <2>1. ASSUME NEW r \in Objects PROVE Same(r) \/ \E k \in Kinds, a \in Agents : In(r, k, a)'
    <3>0. r[1] \in Classes /\ r[2] \in Spans /\ r[3] \in 0 .. Slots[r[1]] - 1
      BY ObjectParts
    <3>1. CASE r[2] # s
      <4>1. Exists(r)' <=> Exists(r)
        BY <1>10, <1>14, <3>1 DEF Exists
      <4>2. /\ InWord(alloc_words, r)' <=> InWord(alloc_words, r)
            /\ InWord(free_words, r)' <=> InWord(free_words, r)
        BY <1>13, <1>14, <3>1 DEF InWord
      <4> QED BY <1>1, <1>10, <4>1, <4>2 DEF Same
    <3>2. CASE r[2] = s
      <4>1. PICK k \in {"alloc", "none"} : In(r, k, NoThread)
        <5>1. CASE r[1] = c
          <6>1. InWord(alloc_words, r)
            BY <1>6, <1>7, <3>0, <3>2, <5>1 DEF InWord
          <6> QED BY <6>1, IsIn, OfHeap
        <5>2. CASE r[1] # c
          <6>1. ~Exists(r)
            BY <1>7, <3>2, <5>2 DEF Exists
          <6> QED BY <6>1, IsIn, OfHeap
        <5> QED BY <5>1, <5>2
      <4>2. ~Exists(r)' /\ ~InWord(alloc_words, r)' /\ ~InWord(free_words, r)'
        BY <1>14, <3>0, <3>2, Constants DEF Exists, InWord
      <4>3. In(r, "none", NoThread)'
        BY <1>1, <1>10, <4>1, <4>2 DEF In
      <4>4. "none" \in Kinds /\ NoThread \in Agents
        BY DEF Kinds, Agents
      <4> QED BY <4>3, <4>4
    <3> QED BY <3>1, <3>2
  <2> QED BY <2>1, MoveObjects, OfHeap
<1>22. SlabsFine' /\ sup' \in Sups /\ stopped' \in SUBSET Cpus
  BY <1>1, SlabsSame, LoopTypes
<1>23. SpanRules'
  BY <1>17, <1>18, <1>19, <1>20 DEF SpanRules
<1>24. UNCHANGED <<mag, live>>
  BY <1>1
<1> QED BY <1>5, <1>9, <1>16, <1>21, <1>22, <1>23, <1>24, SweepStep

\* SweepRetire preserves the invariant.
LEMMA SweepRetireSafe ==
  ASSUME HeapInv, Reclaiming, SweepRetire
  PROVE  HeapInv'
BY SweepSpare, SweepRetires

-----------------------------------------------------------------------------
(* The invariant is inductive *)

\* The invariant holds initially.
LEMMA InitInv == ASSUME Init PROVE HeapInv
<1>1. /\ mag = [t \in Threads |-> [c \in Classes |-> <<>>]]
      /\ l2 = [p \in Cpus |-> [c \in Classes |-> <<>>]]
      /\ alloc_words = [s \in Spans |-> {}] /\ free_words = [s \in Spans |-> {}]
      /\ list = [x \in Cells |-> <<>>] /\ hint = [x \in Cells |-> NO_SPAN]
      /\ lock = [x \in Cells |-> NoThread] /\ class = [s \in Spans |-> Unassigned]
      /\ home = [s \in Spans |-> 0] /\ free = {} /\ cursor = 0 /\ stopped = {} /\ live = {}
      /\ job = [t \in Threads \cup {Sweeper} |-> Idle]
      /\ sup = [phase |-> "nap", cell |-> 0, stop |-> FALSE]
  BY DEF Init
<1>2. /\ \A t \in Threads, c \in Classes : mag[t][c] = <<>>
      /\ \A p \in Cpus, c \in Classes : l2[p][c] = <<>>
      /\ \A s \in Spans : alloc_words[s] = {} /\ free_words[s] = {} /\ class[s] = Unassigned
      /\ \A x \in Cells : list[x] = <<>> /\ hint[x] = NO_SPAN
      /\ \A t \in Threads \cup {Sweeper} : job[t] = Idle
  BY <1>1
<1>3. ToSet(<<>>) = {} /\ Distinct(<<>>) /\ Len(<<>>) = 0 /\ \A c : OfClass(<<>>, c)
  BY EmptyStack DEF OfClass
<1>4. <<>> \in Seq(Objects) /\ <<>> \in Seq(Spans)
  BY EmptyStack
<1>5. Types
  <2>1. mag \in [Threads -> [Classes -> Seq(Objects)]] /\ l2 \in [Cpus -> [Classes -> Seq(Objects)]]
    BY <1>1, <1>4
  <2>2. alloc_words \in [Spans -> SUBSET Nat] /\ free_words \in [Spans -> SUBSET Nat]
    BY <1>1
  <2>3. list \in [Cells -> Seq(Spans)] /\ hint \in [Cells -> Spans \cup {NO_SPAN}]
        /\ lock \in [Cells -> Threads \cup {Sweeper, NoThread}]
        /\ class \in [Spans -> Classes \cup {Large, Unassigned}]
    BY <1>1, <1>4
  <2>4. home \in [Spans -> 0 .. HomeMod - 1] /\ free \in SUBSET Spans /\ cursor \in 0 .. NumSpans
        /\ stopped \in SUBSET Cpus /\ live \in SUBSET Objects
    BY <1>1, Constants
  <2>5. job \in [Threads \cup {Sweeper} -> Jobs]
    BY <1>1, IdleJob
  <2>6. NumCells \in Nat /\ NumCells > 0
    <3> DEFINE n == Cardinality(Classes)
    <3>1. n \in Nat /\ n # 0
      BY SubHeapAssumption, FS_CardinalityType, FS_EmptySet
    <3> HIDE DEF n
    <3>2. NumShards * n \in Nat /\ NumShards * n > 0
      BY <3>1, Constants, SMTT(30)
    <3> QED BY <3>2 DEF NumCells, n
  <2>7. 0 \in 0 .. NumCells - 1
    BY <2>6
  <2>8. sup \in [phase : {"nap", "sweep", "final", "gone"}, cell : 0 .. NumCells - 1, stop : BOOLEAN]
    BY <1>1, <2>7
  <2> QED BY <2>1, <2>2, <2>3, <2>4, <2>5, <2>8 DEF Types
<1>6. \A s : ~Tiled(s)
  BY <1>2, IdleJob DEF Tiled
<1>7. ASSUME NEW t \in Threads PROVE Shape(t, job[t], mag[t]) /\ Refilling(t)
  <2>1. job[t] = Idle
    BY <1>2
  <2>2. \A c \in Classes : Len(mag[t][c]) <= MagCap
    BY <1>2, <1>3, Constants
  <2> QED BY <2>1, <2>2, IdleJob DEF Shape, Refilling, ThreadPlaces, Holding, Freeing
<1>8. Lists
  <2>1. \A s \in Spans : class[s] \notin Classes
    BY <1>2, Constants
  <2> QED BY <1>1, <1>2, <1>3, <2>1 DEF Lists
<1>9. Sweeps
  BY <1>2, IdleJob DEF Sweeps
<1>10. Hints
  BY <1>2, IdleJob DEF Hints
<1>11. Bits
  BY <1>2 DEF Bits
<1>12. Stacks
  <2>1. \A t \in Threads : Distinct(job[t].out) /\ Distinct(job[t].batch) /\ Distinct(job[t].pend)
    BY <1>2, <1>3, IdleJob
  <2> QED BY <1>2, <1>3, <2>1, Constants DEF Stacks
<1>13. Partition
  <2>1. ASSUME NEW o \in Objects PROVE In(o, "none", NoThread)
    <3>0. o[1] \in Classes /\ o[2] \in Spans
      BY ObjectParts
    <3>1. ~Exists(o) /\ ~InWord(alloc_words, o) /\ ~InWord(free_words, o)
      BY <1>2, <3>0, Constants DEF Exists, InWord
    <3>2. /\ \A t \in Threads : ToSet(mag[t][o[1]]) = {} /\ ToSet(job[t].out) = {}
                                /\ ToSet(job[t].batch) = {} /\ ToSet(job[t].pend) = {}
          /\ \A p \in Cpus : ToSet(l2[p][o[1]]) = {}
      BY <1>2, <1>3, <3>0, IdleJob
    <3> QED BY <1>1, <3>1, <3>2 DEF In
  <2>2. "none" \in Kinds /\ NoThread \in Agents
    BY DEF Kinds, Agents
  <2> QED BY <2>1, <2>2 DEF Partition
<1> QED BY <1>5, <1>7, <1>8, <1>9, <1>10, <1>11, <1>12, <1>13 DEF HeapInv

\* Every step of the threads of the program.
LEMMA WorkSafe ==
  ASSUME HeapInv, Regime, NEW t \in Threads, Work(t)
  PROVE  HeapInv'
<1>1. UNCHANGED sup /\ HomesFit
  BY DEF Work, Regime
<1>2. CASE Alloc(t)
  <2>1. CASE \E c \in Classes : <<t, c>> \in Producers /\ (TryPop(t, c) \/ RefillBatch(t, c))
    BY <1>1, <2>1, TryPopSafe, RefillBatchSafe
  <2>2. CASE \E c \in Classes, p \in Cpus : <<t, c>> \in SlabUsers /\ (PopL2(t, c, p) \/ MissL2(t, c, p))
    BY <1>1, <2>2, PopL2Safe, MissL2Safe
  <2>3. CASE RefillL2(t) \/ CentralTake(t) \/ ScanFold(t) \/ ScanClear(t) \/ ScanEnd(t)
    BY <1>1, <2>3, RefillL2Safe, CentralTakeSafe, ScanFoldSafe, ScanClearSafe, ScanEndSafe
  <2>4. CASE CarveReuse(t) \/ CarveFresh(t) \/ CarveFail(t) \/ Tile(t) \/ RefillDone(t)
    BY <1>1, <2>4, CarveReuseSafe, CarveFreshSafe, CarveFailSafe, TileSafe, RefillDoneSafe
  <2>5. CASE \E p \in Cpus : PushRest(t, p)
    BY <1>1, <2>5, PushRestSafe
  <2> QED BY <1>2, <2>1, <2>2, <2>3, <2>4, <2>5 DEF Alloc
<1>3. CASE Dealloc(t)
  <2>1. CASE \E o \in live : TryPush(t, o) \/ DrainThenPush(t, o)
    BY <1>1, <2>1, TryPushSafe, DrainThenPushSafe
  <2>2. CASE \E o \in live : <<t, o[1]>> \in SlabUsers /\ DeallocClass(t, o)
    BY <1>1, <2>2, DeallocClassSafe
  <2>3. ASSUME NEW p \in Cpus, BatchLocal(t, p) \/ OneLocal(t, p) PROVE HeapInv'
    <3>1. job[t].at \in Freeing /\ FreeLocal(t, p, job[t].at)
      BY <2>3 DEF BatchLocal, OneLocal, At, Freeing
    <3> QED BY <1>1, <3>1, FreeLocalSafe
  <2>4. ASSUME NEW p \in Cpus, DrainPop(t, p) \/ DrainEnd(t, p) PROVE HeapInv'
    BY <1>1, <2>4, DrainPopSafe, DrainEndSafe
  <2>5. CASE OneRemote(t) \/ OneEnd(t) \/ BatchRemote(t) \/ BatchFlush(t) \/ ReadHome(t) \/ PublishHint(t)
    BY <1>1, <2>5, OneRemoteSafe, OneEndSafe, BatchRemoteSafe, BatchFlushSafe, ReadHomeSafe, PublishHintSafe
  <2> QED BY <1>3, <2>1, <2>2, <2>3, <2>4, <2>5 DEF Dealloc
<1>4. CASE Exit(t)
  BY <1>1, <1>4, FlushAllSafe, FlushNextSafe DEF Exit
<1> QED BY <1>2, <1>3, <1>4 DEF Work

\* Every step of the supervisor.
LEMMA SuperviseSafe ==
  ASSUME HeapInv, Supervise
  PROVE  HeapInv'
<1>1. Reclaiming
  BY DEF Supervise
<1>2. CASE SweepBegin \/ SweepSkip
  <2>1. UNCHANGED stopped
    BY <1>2 DEF SweepBegin, SweepSkip, arena
  <2> QED BY <1>2, <2>1, LoopSafe
<1>3. CASE SweepCell \/ SweepFold \/ SweepRetire \/ SweepUnlock \/ SweepFile
  BY <1>1, <1>3, SweepCellSafe, SweepFoldSafe, SweepRetireSafe, SweepUnlockSafe, SweepFileSafe
<1> QED BY <1>2, <1>3 DEF Supervise

\* Every step preserves the invariant.
LEMMA StepInv ==
  ASSUME HeapInv, Regime, [Next]_vars
  PROVE  HeapInv'
<1>1. CASE Supervise
  BY <1>1, SuperviseSafe
<1>2. CASE DropSupervisor
  <2>1. UNCHANGED stopped
    BY <1>2 DEF DropSupervisor, arena
  <2> QED BY <1>2, <2>1, LoopSafe
<1>3. CASE Seize /\ UNCHANGED sup
  BY <1>3, SeizeSafe, RebalanceSafe DEF Seize
<1>4. CASE \E t \in Threads : Work(t)
  BY <1>4, WorkSafe
<1>5. CASE UNCHANGED vars
  <2>1. UNCHANGED <<mag, l2, live, alloc_words, free_words, list, hint, lock, class, home,
                    free, cursor, job>>
    BY <1>5 DEF vars
  <2>2. sup' \in Sups /\ stopped' \in SUBSET Cpus
    BY <1>5, LoopTypes DEF vars
  <2> QED BY <2>1, <2>2, StayStep
<1> QED BY <1>1, <1>2, <1>3, <1>4, <1>5 DEF Next

-----------------------------------------------------------------------------
(* What the invariant says of the heap *)

\* Whoever owns slot o[3] of o's span is the one place where o is: w names a place
\* of kind k of thread or CPU a.
Owns(w, o, k, a) ==
  \/ k = "alloc" /\ w = <<"alloc">>
  \/ k = "free" /\ w = <<"free">>
  \/ k = "live" /\ w = <<"live", o[1]>>
  \/ k = "mag" /\ \E n \in DOMAIN mag[a][o[1]] : mag[a][o[1]][n] = o /\ w = <<"mag", a, o[1], n>>
  \/ k = "l2" /\ \E n \in DOMAIN l2[a][o[1]] : l2[a][o[1]][n] = o /\ w = <<"l2", a, o[1], n>>
  \/ k = "out" /\ \E n \in DOMAIN job[a].out : job[a].out[n] = o /\ w = <<"out", a, n>>
  \/ k = "batch" /\ \E n \in DOMAIN job[a].batch : job[a].batch[n] = o /\ w = <<"batch", a, n>>
  \/ k = "pend" /\ \E n \in DOMAIN job[a].pend : job[a].pend[n] = o /\ w = <<"pend", a, n>>

\* The object at a place of a sequence is in it, and determined by its span and slot.
LEMMA AtPlace ==
  ASSUME NEW q \in Seq(Objects), NEW n \in DOMAIN q, NEW s, NEW i, q[n][2] = s, q[n][3] = i
  PROVE  q[n] \in Objects /\ q[n] \in ToSet(q) /\ q[n] = <<q[n][1], s, i>>
<1>1. q[n] \in Objects /\ q[n] \in ToSet(q)
  BY DEF ToSet
<1> QED BY <1>1, ObjectParts

\* An object that is somewhere is of the class of its span.
LEMMA HeldIs ==
  ASSUME HeapInv, NEW s, NEW i, NEW r \in Objects, r[2] = s, r[3] = i, NEW k, NEW a, In(r, k, a), k # "none"
  PROVE  r = <<class[s], s, i>>
<1>1. class[s] = r[1]
  BY Pinned
<1> QED BY <1>1, ObjectParts

\* Every owner of a slot is at the place where the slot's object is.
LEMMA OwnerPlace ==
  ASSUME HeapInv, NEW s \in Spans, NEW i, NEW w \in Owners(s, i)
  PROVE  LET o == <<class[s], s, i>>
         IN  o \in Objects /\ \E k \in Kinds, a \in Agents : In(o, k, a) /\ Owns(w, o, k, a)
<1> DEFINE o == <<class[s], s, i>>
           At1(q) == {n \in DOMAIN q : q[n][2] = s /\ q[n][3] = i}
<1>0. /\ o[1] = class[s] /\ o[2] = s /\ o[3] = i /\ NoThread \in Agents
      /\ (\A t \in Threads : t \in Agents) /\ (\A p \in Cpus : p \in Agents)
      /\ {"alloc", "free", "live", "mag", "l2", "out", "batch", "pend"} \subseteq Kinds
  BY DEF Agents, Kinds
<1> DEFINE Goal == o \in Objects /\ \E k \in Kinds, a \in Agents : In(o, k, a) /\ Owns(w, o, k, a)
<1>a. ASSUME NEW k, k \in {"alloc", "free", "live", "mag", "l2", "out", "batch", "pend"}, NEW a \in Agents,
             o \in Objects, In(o, k, a), Owns(w, o, k, a)
      PROVE  Goal
  BY <1>0, <1>a
<1>1. ASSUME i \in alloc_words[s], w = <<"alloc">> PROVE Goal
  <2>1. class[s] \in Classes /\ i \in 0 .. Slots[class[s]] - 1
    BY <1>1, OfHeap DEF Bits, SlotsOf
  <2>2. o \in Objects
    BY <2>1, MakeObject
  <2>3. In(o, "alloc", NoThread)
    BY <1>0, <1>1, <2>2, IsIn, OfHeap DEF InWord
  <2> QED BY <1>0, <1>1, <1>a, <2>2, <2>3 DEF Owns
<1>2. ASSUME i \in free_words[s], w = <<"free">> PROVE Goal
  <2>1. class[s] \in Classes /\ i \in 0 .. Slots[class[s]] - 1
    BY <1>2, OfHeap DEF Bits, SlotsOf
  <2>2. o \in Objects
    BY <2>1, MakeObject
  <2>3. In(o, "free", NoThread)
    BY <1>0, <1>2, <2>2, IsIn, OfHeap DEF InWord
  <2> QED BY <1>0, <1>2, <1>a, <2>2, <2>3 DEF Owns
<1>3. ASSUME NEW r \in live, r[2] = s, r[3] = i, w = <<"live", r[1]>> PROVE Goal
  <2>1. r \in Objects
    BY OfHeap DEF Types
  <2>2. In(r, "live", NoThread)
    BY <2>1, IsIn, OfHeap
  <2>3. r = o
    BY <1>3, <2>1, <2>2, HeldIs
  <2> QED BY <1>0, <1>3, <1>a, <2>1, <2>2, <2>3 DEF Owns
<1>4. ASSUME NEW t \in Threads, NEW c \in Classes, NEW n \in At1(mag[t][c]), w = <<"mag", t, c, n>>
      PROVE  Goal
  <2> DEFINE q == mag[t][c]
             r == q[n]
  <2>1. q \in Seq(Objects) /\ OfClass(q, c)
    BY OfThread
  <2>2. n \in DOMAIN q /\ q[n][2] = s /\ q[n][3] = i
    OBVIOUS
  <2> HIDE DEF q
  <2>3. r \in Objects /\ r \in ToSet(q)
    BY <2>1, <2>2, AtPlace
  <2>4. r[1] = c
    BY <2>1, <2>3 DEF OfClass
  <2>5. In(r, "mag", t)
    BY <2>3, <2>4, IsIn, OfHeap DEF q
  <2>6. r = o
    BY <2>2, <2>3, <2>5, HeldIs
  <2>7. Owns(w, r, "mag", t)
    BY <1>4, <2>2, <2>4 DEF Owns, q
  <2> QED BY <1>0, <1>a, <2>3, <2>5, <2>6, <2>7
<1>5. ASSUME NEW p \in Cpus, NEW c \in Classes, NEW n \in At1(l2[p][c]), w = <<"l2", p, c, n>>
      PROVE  Goal
  <2> DEFINE q == l2[p][c]
             r == q[n]
  <2>1. q \in Seq(Objects) /\ OfClass(q, c)
    BY OfHeap DEF Types, Stacks
  <2>2. n \in DOMAIN q /\ q[n][2] = s /\ q[n][3] = i
    OBVIOUS
  <2> HIDE DEF q
  <2>3. r \in Objects /\ r \in ToSet(q)
    BY <2>1, <2>2, AtPlace
  <2>4. r[1] = c
    BY <2>1, <2>3 DEF OfClass
  <2>5. In(r, "l2", p)
    BY <2>3, <2>4, IsIn, OfHeap DEF q
  <2>6. r = o
    BY <2>2, <2>3, <2>5, HeldIs
  <2>7. Owns(w, r, "l2", p)
    BY <1>5, <2>2, <2>4 DEF Owns, q
  <2> QED BY <1>0, <1>a, <2>3, <2>5, <2>6, <2>7
<1>6. ASSUME NEW t \in Threads, NEW n \in At1(job[t].out), w = <<"out", t, n>> PROVE Goal
  <2> DEFINE q == job[t].out
             r == q[n]
  <2>1. q \in Seq(Objects)
    BY OfThread, OfJob
  <2>2. n \in DOMAIN q /\ q[n][2] = s /\ q[n][3] = i
    OBVIOUS
  <2> HIDE DEF q
  <2>3. r \in Objects /\ r \in ToSet(q)
    BY <2>1, <2>2, AtPlace
  <2>5. In(r, "out", t)
    BY <2>3, IsIn, OfHeap DEF q
  <2>6. r = o
    BY <2>2, <2>3, <2>5, HeldIs
  <2>7. Owns(w, r, "out", t)
    BY <1>6, <2>2 DEF Owns, q
  <2> QED BY <1>0, <1>a, <2>3, <2>5, <2>6, <2>7
<1>7. ASSUME NEW t \in Threads, NEW n \in At1(job[t].batch), w = <<"batch", t, n>> PROVE Goal
  <2> DEFINE q == job[t].batch
             r == q[n]
  <2>1. q \in Seq(Objects)
    BY OfThread, OfJob
  <2>2. n \in DOMAIN q /\ q[n][2] = s /\ q[n][3] = i
    OBVIOUS
  <2> HIDE DEF q
  <2>3. r \in Objects /\ r \in ToSet(q)
    BY <2>1, <2>2, AtPlace
  <2>5. In(r, "batch", t)
    BY <2>3, IsIn, OfHeap DEF q
  <2>6. r = o
    BY <2>2, <2>3, <2>5, HeldIs
  <2>7. Owns(w, r, "batch", t)
    BY <1>7, <2>2 DEF Owns, q
  <2> QED BY <1>0, <1>a, <2>3, <2>5, <2>6, <2>7
<1>8. ASSUME NEW t \in Threads, NEW n \in At1(job[t].pend), w = <<"pend", t, n>> PROVE Goal
  <2> DEFINE q == job[t].pend
             r == q[n]
  <2>1. q \in Seq(Objects)
    BY OfThread, OfJob
  <2>2. n \in DOMAIN q /\ q[n][2] = s /\ q[n][3] = i
    OBVIOUS
  <2> HIDE DEF q
  <2>3. r \in Objects /\ r \in ToSet(q)
    BY <2>1, <2>2, AtPlace
  <2>5. In(r, "pend", t)
    BY <2>3, IsIn, OfHeap DEF q
  <2>6. r = o
    BY <2>2, <2>3, <2>5, HeldIs
  <2>7. Owns(w, r, "pend", t)
    BY <1>8, <2>2 DEF Owns, q
  <2> QED BY <1>0, <1>a, <2>3, <2>5, <2>6, <2>7
<1>9. \/ i \in alloc_words[s] /\ w = <<"alloc">>
      \/ i \in free_words[s] /\ w = <<"free">>
      \/ \E r \in live : r[2] = s /\ r[3] = i /\ w = <<"live", r[1]>>
      \/ \E t \in Threads, c \in Classes : \E n \in At1(mag[t][c]) : w = <<"mag", t, c, n>>
      \/ \E p \in Cpus, c \in Classes : \E n \in At1(l2[p][c]) : w = <<"l2", p, c, n>>
      \/ \E t \in Threads : \E n \in At1(job[t].out) : w = <<"out", t, n>>
      \/ \E t \in Threads : \E n \in At1(job[t].batch) : w = <<"batch", t, n>>
      \/ \E t \in Threads : \E n \in At1(job[t].pend) : w = <<"pend", t, n>>
  BY SMTT(30) DEF Owners
<1> HIDE DEF Goal
<1>10. Goal
  BY <1>1, <1>2, <1>3, <1>4, <1>5, <1>6, <1>7, <1>8, <1>9
<1> QED BY <1>10 DEF Goal

\* An object has one place.
LEMMA OnePlace ==
  ASSUME HeapInv, NEW o \in Objects, NEW k \in Kinds, NEW a \in Agents, In(o, k, a),
         NEW w, Owns(w, o, k, a), NEW l \in Kinds, NEW b \in Agents, In(o, l, b),
         NEW v, Owns(v, o, l, b)
  PROVE  w = v
<1>0. o[1] \in Classes
  BY ObjectParts
<1>1. k = l
  BY DEF In, Kinds, Owns
<1>2. CASE k \in {"alloc", "free", "live"}
  BY <1>1, <1>2 DEF Owns
<1>3. CASE k = "mag"
  <2>1. a \in Threads /\ a = b
    BY <1>1, <1>3 DEF In
  <2> DEFINE q == mag[a][o[1]]
  <2>2. q \in Seq(Objects) /\ Distinct(q)
    BY <1>0, <2>1, OfThread
  <2>3. PICK m \in DOMAIN q : q[m] = o /\ w = <<"mag", a, o[1], m>>
    BY <1>3 DEF Owns
  <2>4. PICK n \in DOMAIN q : q[n] = o /\ v = <<"mag", a, o[1], n>>
    BY <1>1, <1>3, <2>1 DEF Owns
  <2> HIDE DEF q
  <2>5. m = n
    BY <2>2, <2>3, <2>4 DEF Distinct
  <2> QED BY <2>3, <2>4, <2>5
<1>4. CASE k = "l2"
  <2>1. a \in Cpus /\ a = b
    BY <1>1, <1>4 DEF In
  <2> DEFINE q == l2[a][o[1]]
  <2>2. q \in Seq(Objects) /\ Distinct(q)
    BY <1>0, <2>1, OfHeap DEF Types, Stacks
  <2>3. PICK m \in DOMAIN q : q[m] = o /\ w = <<"l2", a, o[1], m>>
    BY <1>4 DEF Owns
  <2>4. PICK n \in DOMAIN q : q[n] = o /\ v = <<"l2", a, o[1], n>>
    BY <1>1, <1>4, <2>1 DEF Owns
  <2> HIDE DEF q
  <2>5. m = n
    BY <2>2, <2>3, <2>4 DEF Distinct
  <2> QED BY <2>3, <2>4, <2>5
<1>5. CASE k = "out"
  <2>1. a \in Threads /\ a = b
    BY <1>1, <1>5 DEF In
  <2> DEFINE q == job[a].out
  <2>2. q \in Seq(Objects) /\ Distinct(q)
    BY <2>1, OfThread, OfJob
  <2>3. PICK m \in DOMAIN q : q[m] = o /\ w = <<"out", a, m>>
    BY <1>5 DEF Owns
  <2>4. PICK n \in DOMAIN q : q[n] = o /\ v = <<"out", a, n>>
    BY <1>1, <1>5, <2>1 DEF Owns
  <2> HIDE DEF q
  <2>5. m = n
    BY <2>2, <2>3, <2>4 DEF Distinct
  <2> QED BY <2>3, <2>4, <2>5
<1>6. CASE k = "batch"
  <2>1. a \in Threads /\ a = b
    BY <1>1, <1>6 DEF In
  <2> DEFINE q == job[a].batch
  <2>2. q \in Seq(Objects) /\ Distinct(q)
    BY <2>1, OfThread, OfJob
  <2>3. PICK m \in DOMAIN q : q[m] = o /\ w = <<"batch", a, m>>
    BY <1>6 DEF Owns
  <2>4. PICK n \in DOMAIN q : q[n] = o /\ v = <<"batch", a, n>>
    BY <1>1, <1>6, <2>1 DEF Owns
  <2> HIDE DEF q
  <2>5. m = n
    BY <2>2, <2>3, <2>4 DEF Distinct
  <2> QED BY <2>3, <2>4, <2>5
<1>7. CASE k = "pend"
  <2>1. a \in Threads /\ a = b
    BY <1>1, <1>7 DEF In
  <2> DEFINE q == job[a].pend
  <2>2. q \in Seq(Objects) /\ Distinct(q)
    BY <2>1, OfThread, OfJob
  <2>3. PICK m \in DOMAIN q : q[m] = o /\ w = <<"pend", a, m>>
    BY <1>7 DEF Owns
  <2>4. PICK n \in DOMAIN q : q[n] = o /\ v = <<"pend", a, n>>
    BY <1>1, <1>7, <2>1 DEF Owns
  <2> HIDE DEF q
  <2>5. m = n
    BY <2>2, <2>3, <2>4 DEF Distinct
  <2> QED BY <2>3, <2>4, <2>5
<1>8. CASE k = "none"
  BY <1>8 DEF Owns
<1> QED BY <1>2, <1>3, <1>4, <1>5, <1>6, <1>7, <1>8 DEF Kinds

\* An object in exactly one place has at most one owner.
LEMMA OneOwner == ASSUME HeapInv PROVE NoDoubleHandOut
<1> SUFFICES ASSUME NEW s \in Spans, NEW i \in 0 .. MaxSlots - 1,
                    NEW w \in Owners(s, i), NEW v \in Owners(s, i)
             PROVE  w = v
  BY DEF NoDoubleHandOut
<1> DEFINE o == <<class[s], s, i>>
<1>1. o \in Objects /\ \E k \in Kinds, a \in Agents : In(o, k, a) /\ Owns(w, o, k, a)
  BY OwnerPlace
<1>2. \E k \in Kinds, a \in Agents : In(o, k, a) /\ Owns(v, o, k, a)
  BY OwnerPlace
<1> HIDE DEF o
<1>3. PICK k \in Kinds, a \in Agents : In(o, k, a) /\ Owns(w, o, k, a)
  BY <1>1
<1>4. PICK l \in Kinds, b \in Agents : In(o, l, b) /\ Owns(v, o, l, b)
  BY <1>2
<1> QED BY <1>1, <1>3, <1>4, OnePlace

\* The places of a sequence that hold slot i of span s.
PlacesOf(q, s, i) == {n \in DOMAIN q : q[n][2] = s /\ q[n][3] = i}

\* The places that own a slot.
LEMMA InOwners ==
  ASSUME NEW s, NEW i
  PROVE  /\ i \in alloc_words[s] => <<"alloc">> \in Owners(s, i)
         /\ i \in free_words[s] => <<"free">> \in Owners(s, i)
         /\ \A r \in live : r[2] = s /\ r[3] = i => <<"live", r[1]>> \in Owners(s, i)
         /\ \A t \in Threads, c \in Classes : \A n \in PlacesOf(mag[t][c], s, i) :
              <<"mag", t, c, n>> \in Owners(s, i)
         /\ \A p \in Cpus, c \in Classes : \A n \in PlacesOf(l2[p][c], s, i) :
              <<"l2", p, c, n>> \in Owners(s, i)
         /\ \A t \in Threads : \A n \in PlacesOf(job[t].out, s, i) : <<"out", t, n>> \in Owners(s, i)
         /\ \A t \in Threads : \A n \in PlacesOf(job[t].batch, s, i) : <<"batch", t, n>> \in Owners(s, i)
         /\ \A t \in Threads : \A n \in PlacesOf(job[t].pend, s, i) : <<"pend", t, n>> \in Owners(s, i)
<1>1. i \in alloc_words[s] => <<"alloc">> \in Owners(s, i)
  BY DEF Owners, PlacesOf
<1>2. i \in free_words[s] => <<"free">> \in Owners(s, i)
  BY DEF Owners, PlacesOf
<1>3. \A r \in live : r[2] = s /\ r[3] = i => <<"live", r[1]>> \in Owners(s, i)
  BY DEF Owners, PlacesOf
<1>4. ASSUME NEW t \in Threads, NEW c \in Classes, NEW n \in PlacesOf(mag[t][c], s, i)
      PROVE  <<"mag", t, c, n>> \in Owners(s, i)
  <2> DEFINE N == PlacesOf(mag[t][c], s, i)
             R == {<<"mag", t, c, k>> : k \in N}
             W == {{<<"mag", a, b, k>> : k \in PlacesOf(mag[a][b], s, i)} : a \in Threads, b \in Classes}
  <2>1. <<"mag", t, c, n>> \in R /\ R \in W
    OBVIOUS
  <2>2. UNION W \subseteq Owners(s, i)
    BY DEF Owners, PlacesOf
  <2> HIDE DEF R, W
  <2> QED BY <2>1, <2>2
<1>5. ASSUME NEW p \in Cpus, NEW c \in Classes, NEW n \in PlacesOf(l2[p][c], s, i)
      PROVE  <<"l2", p, c, n>> \in Owners(s, i)
  <2> DEFINE N == PlacesOf(l2[p][c], s, i)
             R == {<<"l2", p, c, k>> : k \in N}
             W == {{<<"l2", a, b, k>> : k \in PlacesOf(l2[a][b], s, i)} : a \in Cpus, b \in Classes}
  <2>1. <<"l2", p, c, n>> \in R /\ R \in W
    OBVIOUS
  <2>2. UNION W \subseteq Owners(s, i)
    BY DEF Owners, PlacesOf
  <2> HIDE DEF R, W
  <2> QED BY <2>1, <2>2
<1>6. \A t \in Threads : \A n \in PlacesOf(job[t].out, s, i) : <<"out", t, n>> \in Owners(s, i)
  BY DEF Owners, PlacesOf
<1>7. \A t \in Threads : \A n \in PlacesOf(job[t].batch, s, i) : <<"batch", t, n>> \in Owners(s, i)
  BY DEF Owners, PlacesOf
<1>8. \A t \in Threads : \A n \in PlacesOf(job[t].pend, s, i) : <<"pend", t, n>> \in Owners(s, i)
  BY DEF Owners, PlacesOf
<1> QED BY <1>1, <1>2, <1>3, <1>4, <1>5, <1>6, <1>7, <1>8

\* An object in exactly one place has an owner.
LEMMA SomeOwner == ASSUME HeapInv PROVE NoLostObject
<1> SUFFICES ASSUME NEW x \in Cells, NEW s \in Range(list[x]), NEW i \in 0 .. Slots[x[2]] - 1
             PROVE  Owners(s, i) # {}
  BY DEF NoLostObject
<1> DEFINE c == x[2]
           o == <<c, s, i>>
<1>1. c \in Classes /\ s \in ToSet(list[x]) /\ s \in Spans
  <2>1. list[x] \in Seq(Spans) /\ s \in ToSet(list[x])
    BY OfHeap DEF Types, Range, ToSet
  <2> QED BY <2>1, StackType DEF Cells
<1>2. class[s] = c /\ ~Tiled(s)
  BY <1>1, OfHeap DEF Lists
<1>3. o \in Objects /\ o[1] = c /\ o[2] = s /\ o[3] = i
  BY <1>1, MakeObject
<1>4. PICK k \in Kinds, a \in Agents : In(o, k, a)
  BY <1>3, OfHeap DEF Partition
<1> HIDE DEF o
<1>5. k # "none"
  BY <1>2, <1>3, <1>4 DEF In, Exists
<1>a. ASSUME NEW q \in Seq(Objects), o \in ToSet(q) PROVE \E n : n \in PlacesOf(q, s, i)
  <2>1. PICK n \in 1 .. Len(q) : q[n] = o
    BY <1>a, InStack
  <2> QED BY <1>3, <2>1 DEF PlacesOf
<1>6. CASE k \in {"alloc", "free"}
  <2>1. i \in alloc_words[s] \/ i \in free_words[s]
    BY <1>3, <1>4, <1>6 DEF In, InWord
  <2> QED BY <2>1, InOwners
<1>7. CASE k = "live"
  <2>1. o \in live
    BY <1>4, <1>7 DEF In
  <2> QED BY <1>3, <2>1, InOwners
<1>8. CASE k = "mag"
  <2>1. a \in Threads /\ o \in ToSet(mag[a][c])
    BY <1>3, <1>4, <1>8 DEF In, Exists
  <2>2. mag[a][c] \in Seq(Objects)
    BY <1>1, <2>1, OfThread
  <2>3. PICK n : n \in PlacesOf(mag[a][c], s, i)
    BY <1>a, <2>1, <2>2
  <2> QED BY <1>1, <2>1, <2>3, InOwners
<1>9. CASE k = "l2"
  <2>1. a \in Cpus /\ o \in ToSet(l2[a][c])
    BY <1>3, <1>4, <1>9 DEF In, Exists
  <2>2. l2[a][c] \in Seq(Objects)
    BY <1>1, <2>1, OfHeap DEF Types
  <2>3. PICK n : n \in PlacesOf(l2[a][c], s, i)
    BY <1>a, <2>1, <2>2
  <2> QED BY <1>1, <2>1, <2>3, InOwners
<1>10. CASE k = "out"
  <2>1. a \in Threads /\ o \in ToSet(job[a].out) /\ job[a].out \in Seq(Objects)
    BY <1>4, <1>10, OfThread, OfJob DEF In
  <2>2. PICK n : n \in PlacesOf(job[a].out, s, i)
    BY <1>a, <2>1
  <2> QED BY <2>1, <2>2, InOwners
<1>11. CASE k = "batch"
  <2>1. a \in Threads /\ o \in ToSet(job[a].batch) /\ job[a].batch \in Seq(Objects)
    BY <1>4, <1>11, OfThread, OfJob DEF In
  <2>2. PICK n : n \in PlacesOf(job[a].batch, s, i)
    BY <1>a, <2>1
  <2> QED BY <2>1, <2>2, InOwners
<1>12. CASE k = "pend"
  <2>1. a \in Threads /\ o \in ToSet(job[a].pend) /\ job[a].pend \in Seq(Objects)
    BY <1>4, <1>12, OfThread, OfJob DEF In
  <2>2. PICK n : n \in PlacesOf(job[a].pend, s, i)
    BY <1>a, <2>1
  <2> QED BY <2>1, <2>2, InOwners
<1> QED BY <1>5, <1>6, <1>7, <1>8, <1>9, <1>10, <1>11, <1>12 DEF Kinds

\* The invariant implies the type invariant.
LEMMA HeapTypes == ASSUME HeapInv PROVE TypeOK
<1>1. \A t \in Threads, c \in Classes : Len(mag[t][c]) <= MagCap
  BY OfThread
<1> QED BY <1>1, OfHeap DEF TypeOK, Types, Bits, Stacks

\* An object that is somewhere is of the class of its span.
LEMMA Pins == ASSUME HeapInv PROVE ClassPinned
<1> SUFFICES ASSUME NEW o \in HeldObjects PROVE class[o[2]] = o[1]
  BY DEF ClassPinned
<1>1. CASE o \in live
  <2>1. o \in Objects
    BY <1>1, OfHeap DEF Types
  <2> QED BY <1>1, <2>1, IsIn, Pinned, OfHeap
<1>2. ASSUME NEW t \in Threads, NEW c \in Classes, o \in ToSet(mag[t][c]) PROVE class[o[2]] = o[1]
  <2>1. mag[t][c] \in Seq(Objects) /\ OfClass(mag[t][c], c)
    BY OfThread
  <2>2. o \in Objects /\ o[1] = c
    BY <1>2, <2>1, StackType DEF OfClass
  <2>3. In(o, "mag", t)
    BY <1>2, <2>2, IsIn, OfHeap
  <2> QED BY <2>2, <2>3, Pinned
<1>3. ASSUME NEW t \in Threads, o \in ToSet(job[t].out) \cup ToSet(job[t].batch) \cup ToSet(job[t].pend)
      PROVE  class[o[2]] = o[1]
  <2>1. job[t].out \in Seq(Objects) /\ job[t].batch \in Seq(Objects) /\ job[t].pend \in Seq(Objects)
    BY OfThread, OfJob
  <2>2. o \in Objects
    BY <1>3, <2>1, StackType
  <2>3. In(o, "out", t) \/ In(o, "batch", t) \/ In(o, "pend", t)
    BY <1>3, <2>2, IsIn, OfHeap
  <2> QED BY <2>2, <2>3, Pinned
<1>4. ASSUME NEW p \in Cpus, NEW c \in Classes, o \in ToSet(l2[p][c]) PROVE class[o[2]] = o[1]
  <2>1. l2[p][c] \in Seq(Objects) /\ OfClass(l2[p][c], c)
    BY OfHeap DEF Types, Stacks
  <2>2. o \in Objects /\ o[1] = c
    BY <1>4, <2>1, StackType DEF OfClass
  <2>3. In(o, "l2", p)
    BY <1>4, <2>2, IsIn, OfHeap
  <2> QED BY <2>2, <2>3, Pinned
<1>5. \A q : Range(q) = ToSet(q)
  BY DEF Range, ToSet
<1>6. \/ o \in live
      \/ \E t \in Threads, c \in Classes : o \in ToSet(mag[t][c])
      \/ \E t \in Threads : o \in ToSet(job[t].out) \cup ToSet(job[t].batch) \cup ToSet(job[t].pend)
      \/ \E p \in Cpus, c \in Classes : o \in ToSet(l2[p][c])
  <2>1. CASE \E q \in UNION {Cached(t) : t \in Threads} : o \in Range(q)
    <3>1. PICK t \in Threads : \E q \in Cached(t) : o \in Range(q)
      BY <2>1
    <3>2. PICK q \in Cached(t) : o \in ToSet(q)
      BY <1>5, <3>1
    <3>3. (\E c \in Classes : q = mag[t][c]) \/ q = job[t].out \/ q = job[t].batch \/ q = job[t].pend
      BY <3>2 DEF Cached
    <3> QED BY <3>2, <3>3
  <2>2. CASE \E p \in Cpus, c \in Classes : o \in Range(l2[p][c])
    BY <1>5, <2>2
  <2> QED BY <2>1, <2>2 DEF HeldObjects
<1> QED BY <1>1, <1>2, <1>3, <1>4, <1>6

\* The invariant's lists agree with the span table.
LEMMA Agree == ASSUME HeapInv PROVE ListsAgree
<1> SUFFICES ASSUME NEW x \in Cells
             PROVE  /\ IsInjective(list[x])
                    /\ \A s \in Range(list[x]) :
                         /\ class[s] = x[2] /\ HomeShard(s) = x[1] /\ s \notin free
                         /\ \A y \in Cells : y # x => s \notin Range(list[y])
  BY DEF ListsAgree
<1>1. \A y \in Cells : list[y] \in Seq(Spans) /\ Distinct(list[y]) /\ Range(list[y]) = ToSet(list[y])
  BY OfHeap DEF Types, Lists, Range, ToSet
<1>2. IsInjective(list[x])
  BY <1>1 DEF IsInjective, Distinct
<1>3. ASSUME NEW s \in ToSet(list[x])
      PROVE  /\ class[s] = x[2] /\ HomeShard(s) = x[1] /\ s \notin free
             /\ \A y \in Cells : y # x => s \notin ToSet(list[y])
  <2>1. class[s] = x[2] /\ HomeShard(s) = x[1]
    BY OfHeap DEF Lists
  <2>2. x[2] \in Classes /\ x = <<x[1], x[2]>>
    BY DEF Cells
  <2>3. s \notin free
    BY <2>1, <2>2, Constants, OfHeap DEF Lists
  <2>4. ASSUME NEW y \in Cells, s \in ToSet(list[y]) PROVE y = x
    <3>1. class[s] = y[2] /\ HomeShard(s) = y[1]
      BY <2>4, OfHeap DEF Lists
    <3>2. y = <<y[1], y[2]>>
      BY DEF Cells
    <3> QED BY <2>1, <2>2, <3>1, <3>2
  <2> QED BY <2>1, <2>3, <2>4
<1> QED BY <1>1, <1>2, <1>3

\* A scan's spans are on the list of the cell whose lock it holds.
LEMMA Scans == ASSUME HeapInv PROVE OwnerScans
<1> SUFFICES ASSUME NEW t \in Threads, At(t, "clear") PROVE Head(job[t].todo) \in Range(list[Cell(t)])
  BY DEF OwnerScans
<1>1. job[t].at = "clear" /\ job[t].todo \in Seq(Spans) /\ job[t].todo # <<>>
  BY OfThread, OfJob, OfHeap DEF At, Shape
<1>2. ToSet(job[t].todo) \subseteq ToSet(list[Cell(t)])
  BY <1>1, OfHeap DEF Refilling
<1>3. Range(list[Cell(t)]) = ToSet(list[Cell(t)])
  BY DEF Range, ToSet
<1> QED BY <1>1, <1>2, <1>3, TailStack

-----------------------------------------------------------------------------
(* The final sweep *)

\* A held lock is held by a thread in a refill of the cell, or by the supervisor
\* that walks it.
Locked ==
  \A x \in Cells :
    /\ lock[x] \in Threads => job[lock[x]].at \in Holding /\ Cell(lock[x]) = x
    /\ lock[x] = Sweeper => job[Sweeper].at \in {"walk", "retire"} /\ SweptCell = x

\* The supervisor naps and ends between cells, and walks the cell it is at.
Loop ==
  /\ sup.phase \in {"nap", "gone"} => job[Sweeper].at = "idle" /\ sup.cell = 0
  /\ job[Sweeper].at \in {"walk", "retire"} => SweptCell = CellAt(sup.cell)

\* A span of class c has an object outside its bitmaps.
Busy(s, c)   == alloc_words[s] \cup free_words[s] # 0 .. Slots[c] - 1
CellClean(x) == \A s \in ToSet(list[x]) : Busy(s, x[2])

\* While nobody else works, the spans a walk has passed are busy and its count is exact.
Walked ==
  LET j == job[Sweeper] IN
  /\ j.at \in {"walk", "retire"} =>
       \A s \in ToSet(list[SweptCell]) \ ToSet(j.todo) : Busy(s, j.class)
  /\ j.at = "walk" /\ j.todo # <<>> =>
       /\ j.k = Cardinality({i \in alloc_words[j.todo[1]] : WordOf(i) < j.word})
       /\ \A i \in free_words[j.todo[1]] : WordOf(i) >= j.word
  /\ j.at = "retire" => j.word = 0 /\ free_words[j.todo[1]] = {}
  /\ j.at = "file" => Cardinality(j.taken) = ReclaimCap \/ CellClean(CellAt(sup.cell))

SweptClean ==
  \A i \in 0 .. NumCells - 1 : sup.phase = "gone" \/ i < sup.cell => CellClean(CellAt(i))

FinalSweep == calm => sup.phase \in {"final", "gone"} /\ Quiet /\ Walked /\ SweptClean

SweepInv == Locked /\ Loop /\ FinalSweep

\* The jobs of the others stay.
Others(t) == \A u \in Threads \cup {Sweeper} : u # t => job'[u] = job[u]

\* A step of a thread that takes and drops no lock.
LEMMA LocksStay ==
  ASSUME Locked, NEW t \in Threads, Others(t), UNCHANGED lock,
         job[t].at \in Holding => job'[t].at \in Holding /\ job'[t].class = job[t].class
  PROVE  Locked'
<1>1. job'[Sweeper] = job[Sweeper] /\ SweptCell' = SweptCell
  BY Constants DEF Others, SweptCell
<1>2. ASSUME NEW x \in Cells, lock[x] \in Threads
      PROVE  job'[lock[x]].at \in Holding /\ <<Shard(lock[x]), job'[lock[x]].class>> = x
  <2>1. job[lock[x]].at \in Holding /\ <<Shard(lock[x]), job[lock[x]].class>> = x
    BY <1>2 DEF Locked, Cell
  <2> QED BY <1>2, <2>1 DEF Others
<1>3. ASSUME NEW x \in Cells, lock[x] = Sweeper PROVE job[Sweeper].at \in {"walk", "retire"} /\ SweptCell = x
  BY <1>3 DEF Locked
<1> QED BY <1>1, <1>2, <1>3 DEF Locked, Cell, Shard

\* A refill takes a lock that was free.
LEMMA LockGained ==
  ASSUME HeapInv, Locked, NEW t \in Threads, Others(t), job[t].at \notin Holding,
         NEW z \in Cells, lock[z] = NoThread, lock' = [lock EXCEPT ![z] = t],
         job'[t].at \in Holding, <<Shard(t), job'[t].class>> = z
  PROVE  Locked'
<1>1. job'[Sweeper] = job[Sweeper] /\ SweptCell' = SweptCell /\ t # Sweeper
  BY Constants DEF Others, SweptCell
<1>2. lock'[z] = t /\ \A x \in Cells : x # z => lock'[x] = lock[x]
  BY OfHeap DEF Types
<1>3. ASSUME NEW x \in Cells, lock'[x] \in Threads
      PROVE  job'[lock'[x]].at \in Holding /\ <<Shard(lock'[x]), job'[lock'[x]].class>> = x
  <2>1. CASE x = z
    BY <1>2, <2>1
  <2>2. CASE x # z
    <3>1. lock'[x] = lock[x] /\ lock[x] \in Threads
      BY <1>2, <1>3, <2>2
    <3>2. job[lock[x]].at \in Holding /\ <<Shard(lock[x]), job[lock[x]].class>> = x
      BY <3>1 DEF Locked, Cell
    <3>3. lock[x] # t
      BY <3>2
    <3> QED BY <3>1, <3>2, <3>3 DEF Others
  <2> QED BY <2>1, <2>2
<1>4. ASSUME NEW x \in Cells, lock'[x] = Sweeper PROVE job[Sweeper].at \in {"walk", "retire"} /\ SweptCell = x
  BY <1>1, <1>2, <1>4 DEF Locked
<1> QED BY <1>1, <1>3, <1>4 DEF Locked, Cell, Shard

\* A refill drops its lock.
LEMMA LockDropped ==
  ASSUME HeapInv, Locked, NEW t \in Threads, Others(t), job[t].at \in Holding,
         lock' = [lock EXCEPT ![Cell(t)] = NoThread]
  PROVE  Locked'
<1> DEFINE z == Cell(t)
<1>1. job'[Sweeper] = job[Sweeper] /\ SweptCell' = SweptCell /\ t # Sweeper
  BY Constants DEF Others, SweptCell
<1>2. z \in Cells /\ lock' = [lock EXCEPT ![z] = NoThread]
  BY InRefill
<1>3. \A x \in Cells : lock[x] = t => x = z
  BY DEF Locked
<1> HIDE DEF z
<1>4. lock'[z] = NoThread /\ \A x \in Cells : x # z => lock'[x] = lock[x]
  BY <1>2, OfHeap DEF Types
<1>5. ASSUME NEW x \in Cells, lock'[x] \in Threads
      PROVE  job'[lock'[x]].at \in Holding /\ <<Shard(lock'[x]), job'[lock'[x]].class>> = x
  <2>1. x # z
    BY <1>4, <1>5, Constants
  <2>2. lock'[x] = lock[x] /\ lock[x] \in Threads /\ lock[x] # t
    BY <1>3, <1>4, <1>5, <2>1
  <2>3. job[lock[x]].at \in Holding /\ <<Shard(lock[x]), job[lock[x]].class>> = x
    BY <2>2 DEF Locked, Cell
  <2> QED BY <2>2, <2>3 DEF Others
<1>6. ASSUME NEW x \in Cells, lock'[x] = Sweeper PROVE job[Sweeper].at \in {"walk", "retire"} /\ SweptCell = x
  <2>1. x # z /\ lock[x] = Sweeper
    BY <1>4, <1>6, Constants
  <2> QED BY <2>1 DEF Locked
<1> QED BY <1>1, <1>5, <1>6 DEF Locked, Cell, Shard

\* A step with a new job, or none.
LEMMA NewJob ==
  ASSUME HeapInv, NEW t \in Threads \cup {Sweeper}, NEW y, Goto(t, y)
  PROVE  Others(t) /\ job'[t] = y
BY OfHeap DEF Types, Goto, Others

\* A step that leaves all jobs.
LEMMA SameJob ==
  ASSUME NEW t, UNCHANGED job
  PROVE  Others(t) /\ job'[t] = job[t]
BY DEF Others

\* The steps of a thread outside a refill.
LEMMA OutsideLocked ==
  ASSUME HeapInv, Locked, NEW t \in Threads, job[t].at \notin Holding, UNCHANGED lock,
         (\E y : Goto(t, y)) \/ UNCHANGED job
  PROVE  Locked' /\ Others(t)
<1>1. Others(t)
  BY NewJob, SameJob
<1> QED BY <1>1, LocksStay

\* The steps of a thread in a refill that keeps its lock.
LEMMA InsideLocked ==
  ASSUME HeapInv, Locked, NEW t \in Threads, NEW y, Goto(t, y), UNCHANGED lock,
         y.at \in Holding, y.class = job[t].class
  PROVE  Locked' /\ Others(t)
<1>1. Others(t) /\ job'[t] = y
  BY NewJob
<1> QED BY <1>1, LocksStay

\* The next word is scanned under the same lock.
LEMMA NextWordScans ==
  ASSUME NEW j \in Jobs
  PROVE  NextWord(j).at = "scan" /\ NextWord(j).class = j.class
BY DEF NextWord, Jobs

\* A refill takes the lock of its cell.
LEMMA RefillLocked ==
  ASSUME HeapInv, Locked, NEW t \in Threads,
         (\E c \in Classes : RefillBatch(t, c)) \/ RefillL2(t)
  PROVE  Locked' /\ Others(t)
<1>1. ASSUME NEW c \in Classes, RefillBatch(t, c) PROVE Locked' /\ Others(t)
  <2> DEFINE y == [Idle EXCEPT !.at = "take", !.class = c]
             z == <<Shard(t), c>>
  <2>1. /\ job[t].at = "idle" /\ lock[z] = NoThread /\ lock' = [lock EXCEPT ![z] = t]
        /\ Goto(t, y)
    BY <1>1 DEF RefillBatch, At
  <2>2. y.at = "take" /\ y.class = c
    BY IdleJob DEF Jobs
  <2>3. z \in Cells
    BY ShardTypes, OfHeap DEF Cells, Shards
  <2>4. z = <<Shard(t), y.class>>
    BY <2>2
  <2> HIDE DEF y, z
  <2>5. Others(t) /\ job'[t] = y
    BY <2>1, NewJob
  <2>6. job[t].at \notin Holding /\ job'[t].at \in Holding /\ <<Shard(t), job'[t].class>> = z
    BY <2>1, <2>2, <2>4, <2>5 DEF Holding
  <2> QED BY <2>1, <2>3, <2>5, <2>6, LockGained
<1>2. CASE RefillL2(t)
  <2> DEFINE y == [job[t] EXCEPT !.at = "take"]
             z == Cell(t)
  <2>1. /\ job[t].at = "miss" /\ lock[z] = NoThread /\ lock' = [lock EXCEPT ![z] = t]
        /\ Goto(t, y)
    BY <1>2 DEF RefillL2, At
  <2>2. job[t] \in Jobs /\ job[t].class \in Classes
    BY <2>1, OfThread DEF Shape
  <2>3. y.at = "take" /\ y.class = job[t].class
    BY <2>2 DEF Jobs
  <2>4. z \in Cells /\ z = <<Shard(t), y.class>>
    BY <2>2, <2>3, ShardTypes, OfHeap DEF Cells, Shards, Cell
  <2> HIDE DEF y, z
  <2>5. Others(t) /\ job'[t] = y
    BY <2>1, NewJob
  <2>6. job[t].at \notin Holding /\ job'[t].at \in Holding /\ <<Shard(t), job'[t].class>> = z
    BY <2>1, <2>3, <2>4, <2>5 DEF Holding
  <2> QED BY <2>1, <2>4, <2>5, <2>6, LockGained
<1> QED BY <1>1, <1>2

\* A refill keeps its lock while it scans and carves.
LEMMA ScanLocked ==
  ASSUME HeapInv, Locked, NEW t \in Threads,
         CentralTake(t) \/ ScanFold(t) \/ ScanClear(t) \/ ScanEnd(t)
         \/ CarveReuse(t) \/ CarveFresh(t) \/ CarveFail(t) \/ Tile(t)
  PROVE  Locked' /\ Others(t)
<1> DEFINE j == job[t]
<1>0. j \in Jobs
  BY OfThread
<1>1. UNCHANGED lock
  BY DEF CentralTake, ScanFold, ScanClear, ScanEnd, CarveReuse, CarveFresh, CarveFail, Tile
<1>2. ASSUME NEW y, Goto(t, y), y.at \in Holding, y.class = j.class PROVE Locked' /\ Others(t)
  BY <1>1, <1>2, InsideLocked
<1>3. CASE CentralTake(t)
  <2> DEFINE x == Cell(t)
             h == hint[x]
             order == IF HintUsable(j.class, h) THEN <<h>> \o RemoveFirst(list[x], h) ELSE list[x]
             n == Len(j.out)
             y == [j EXCEPT !.at = "scan", !.todo = order, !.word = 0, !.start = n]
  <2>1. Goto(t, y)
    BY <1>3 DEF CentralTake
  <2> HIDE DEF order, n
  <2>2. y.at = "scan" /\ y.class = j.class
    BY <1>0 DEF Jobs
  <2> HIDE DEF y
  <2> QED BY <1>2, <2>1, <2>2 DEF Holding
<1>4. CASE ScanFold(t)
  <2> DEFINE s == Head(j.todo)
             m == WordMask(j.class, j.word)
             g == (alloc_words[s] \cup free_words[s]) \cap m
             a == Lowest(g, Want(t) - Len(j.out))
             y == IF g = {} THEN NextWord(j) ELSE [j EXCEPT !.at = "clear", !.taken = a]
  <2>1. Goto(t, y)
    BY <1>4 DEF ScanFold
  <2> HIDE DEF g, a
  <2>2. NextWord(j).at = "scan" /\ NextWord(j).class = j.class
    BY <1>0, NextWordScans
  <2>3. y.at \in {"scan", "clear"} /\ y.class = j.class
    BY <1>0, <2>2 DEF Jobs
  <2> HIDE DEF y
  <2> QED BY <1>2, <2>1, <2>3 DEF Holding
<1>5. CASE ScanClear(t)
  <2> DEFINE s == Head(j.todo)
             objs == [i \in 1 .. Cardinality(j.taken) |-> <<j.class, s, Nth(j.taken, i)>>]
             q == j.out \o objs
             k == [j EXCEPT !.out = q]
             y == NextWord(k)
  <2>1. Goto(t, y)
    BY <1>5 DEF ScanClear
  <2>2. q \in Seq(Objects)
    <3>1. /\ j.at = "clear" /\ j.class \in Classes /\ j.todo \in Seq(Spans) /\ j.out \in Seq(Objects)
      <4>1. j.at = "clear" /\ j.at \in Holding
        BY <1>5 DEF ScanClear, At, Holding
      <4> QED BY <4>1, InRefill
    <3>2. j.todo # <<>> /\ IsFiniteSet(j.taken) /\ j.taken \in SUBSET (0 .. Slots[j.class] - 1)
      BY <3>1, OfThread DEF Shape
    <3>3. s \in Spans
      BY <3>1, <3>2, TailStack
    <3> DEFINE T == j.taken
               c == j.class
    <3>4. T \in SUBSET (0 .. Slots[c] - 1) /\ IsFiniteSet(T) /\ c \in Classes
      BY <3>1, <3>2
    <3> HIDE DEF T, c, s
    <3>5. [i \in 1 .. Cardinality(T) |-> <<c, s, Nth(T, i)>>] \in Seq(Objects)
      BY <3>3, <3>4, TakenObjects
    <3>6. objs \in Seq(Objects)
      BY <3>5 DEF T, c
    <3> HIDE DEF objs
    <3> QED BY <3>1, <3>6, JoinStack
  <2> HIDE DEF q
  <2>3. k \in Jobs /\ k.class = j.class
    BY <1>0, <2>2 DEF Jobs
  <2> HIDE DEF k
  <2>4. y.at = "scan" /\ y.class = k.class
    BY <2>3, NextWordScans
  <2> HIDE DEF y
  <2> QED BY <1>2, <2>1, <2>3, <2>4 DEF Holding
<1>6. CASE ScanEnd(t)
  <2> DEFINE enough == \/ Len(j.out) = Want(t)
                       \/ j.via = "slab" /\ j.out # <<>>
                       \/ j.again /\ (j.via = "slab" \/ Len(j.out) = j.start)
             e == IF enough THEN "done" ELSE "carve"
             y == [j EXCEPT !.at = e, !.todo = <<>>, !.word = 0]
  <2>1. Goto(t, y)
    BY <1>6 DEF ScanEnd
  <2>2. e \in {"done", "carve"}
    OBVIOUS
  <2> HIDE DEF e
  <2>3. y.at = e /\ y.class = j.class
    BY <1>0 DEF Jobs
  <2> HIDE DEF y
  <2> QED BY <1>2, <2>1, <2>2, <2>3 DEF Holding
<1>7. CASE CarveReuse(t) \/ CarveFresh(t)
  <2>1. PICK s : Claim(t, s)
    BY <1>7 DEF CarveReuse, CarveFresh
  <2> DEFINE y == [j EXCEPT !.at = "tile", !.todo = <<s>>]
  <2>2. Goto(t, y)
    BY <2>1 DEF Claim
  <2>3. y.at = "tile" /\ y.class = j.class
    BY <1>0 DEF Jobs
  <2> HIDE DEF y
  <2> QED BY <1>2, <2>2, <2>3 DEF Holding
<1>8. CASE CarveFail(t)
  <2> DEFINE y == [j EXCEPT !.at = "done"]
  <2>1. Goto(t, y)
    BY <1>8 DEF CarveFail
  <2>2. y.at = "done" /\ y.class = j.class
    BY <1>0 DEF Jobs
  <2> HIDE DEF y
  <2> QED BY <1>2, <2>1, <2>2 DEF Holding
<1>9. CASE Tile(t)
  <2> DEFINE y == [j EXCEPT !.at = "take", !.todo = <<>>, !.again = TRUE]
  <2>1. Goto(t, y)
    BY <1>9 DEF Tile
  <2>2. y.at = "take" /\ y.class = j.class
    BY <1>0 DEF Jobs
  <2> HIDE DEF y
  <2> QED BY <1>2, <2>1, <2>2 DEF Holding
<1> QED BY <1>3, <1>4, <1>5, <1>6, <1>7, <1>8, <1>9

\* The steps of a thread that holds no lock.
LEMMA FreeLocked ==
  ASSUME HeapInv, Locked, NEW t \in Threads,
         \/ Dealloc(t) \/ Exit(t)
         \/ \E c \in Classes : TryPop(t, c)
         \/ \E c \in Classes, p \in Cpus : PopL2(t, c, p) \/ MissL2(t, c, p)
         \/ \E p \in Cpus : PushRest(t, p)
  PROVE  Locked' /\ Others(t)
<1> DEFINE Quick == job[t].at \notin Holding /\ UNCHANGED lock /\ ((\E y : Goto(t, y)) \/ UNCHANGED job)
<1>1. ASSUME NEW c \in Classes, TryPop(t, c) PROVE Quick
  BY <1>1 DEF TryPop, At, Holding
<1>2. ASSUME NEW c \in Classes, NEW p \in Cpus, PopL2(t, c, p) \/ MissL2(t, c, p) PROVE Quick
  BY <1>2 DEF PopL2, MissL2, At, Holding
<1>3. ASSUME NEW p \in Cpus, PushRest(t, p) PROVE Quick
  BY <1>3 DEF PushRest, At, Holding
<1>4. ASSUME NEW o, TryPush(t, o) \/ DrainThenPush(t, o) \/ DeallocClass(t, o) PROVE Quick
  BY <1>4 DEF TryPush, DrainThenPush, DeallocClass, At, Holding
<1>5. ASSUME NEW p \in Cpus, BatchLocal(t, p) \/ OneLocal(t, p) PROVE Quick
  <2>1. job[t].at \notin Holding /\ \E b : FreeLocal(t, p, b)
    BY <1>5 DEF BatchLocal, OneLocal, At, Holding
  <2> QED BY <2>1 DEF FreeLocal
<1>6. ASSUME NEW p \in Cpus, DrainPop(t, p) \/ DrainEnd(t, p) PROVE Quick
  BY <1>6 DEF DrainPop, DrainEnd, At, Holding
<1>7. ASSUME OneRemote(t) \/ OneEnd(t) \/ BatchRemote(t) \/ BatchFlush(t) PROVE Quick
  BY <1>7 DEF OneRemote, OneEnd, BatchRemote, BatchFlush, At, Holding
<1>8. ASSUME ReadHome(t) \/ PublishHint(t) \/ Exit(t) PROVE Quick
  BY <1>8 DEF ReadHome, PublishHint, Exit, FlushAll, FlushNext, At, Holding
<1> HIDE DEF Quick
<1>9. Quick
  BY <1>1, <1>2, <1>3, <1>4, <1>5, <1>6, <1>7, <1>8 DEF Dealloc
<1>10. job[t].at \notin Holding /\ UNCHANGED lock /\ ((\E y : Goto(t, y)) \/ UNCHANGED job)
  BY <1>9 DEF Quick
<1> QED BY <1>10, OutsideLocked

\* Locks are held by who works in the cell, whatever a thread does.
LEMMA WorkLocked ==
  ASSUME HeapInv, Locked, NEW t \in Threads, Work(t)
  PROVE  Locked' /\ Others(t)
<1>1. CASE RefillDone(t)
  <2>1. /\ job[t].at \in Holding /\ lock' = [lock EXCEPT ![Cell(t)] = NoThread]
        /\ \E y : Goto(t, y)
    BY <1>1 DEF RefillDone, At, Holding
  <2>2. Others(t)
    BY <2>1, NewJob
  <2> QED BY <2>1, <2>2, LockDropped
<1>2. CASE (\E c \in Classes : RefillBatch(t, c)) \/ RefillL2(t)
  BY <1>2, RefillLocked
<1>3. CASE \/ CentralTake(t) \/ ScanFold(t) \/ ScanClear(t) \/ ScanEnd(t)
           \/ CarveReuse(t) \/ CarveFresh(t) \/ CarveFail(t) \/ Tile(t)
  BY <1>3, ScanLocked
<1>4. CASE \/ Dealloc(t) \/ Exit(t)
           \/ \E c \in Classes : TryPop(t, c)
           \/ \E c \in Classes, p \in Cpus : PopL2(t, c, p) \/ MissL2(t, c, p)
           \/ \E p \in Cpus : PushRest(t, p)
  BY <1>4, FreeLocked
<1> QED BY <1>1, <1>2, <1>3, <1>4 DEF Work, Alloc

\* Every cell is visited by a sweep.
LEMMA AllCells ==
  ASSUME NEW x \in Cells
  PROVE  \E i \in 0 .. NumCells - 1 : CellAt(i) = x
<1> DEFINE n == Cardinality(Classes)
<1>1. n \in Nat /\ n > 0 /\ ExistsBijection(1 .. n, Classes) /\ IsFiniteSet(Classes)
  <2>1. IsFiniteSet(Classes) /\ Classes # {}
    BY SubHeapAssumption
  <2>2. n \in Nat /\ ExistsBijection(1 .. n, Classes) /\ n # 0
    BY <2>1, FS_CardinalityType, FS_EmptySet
  <2> QED BY <2>1, <2>2
<1>2. ClassSeq \in [1 .. n -> Classes] /\ IsInjective(ClassSeq)
  <2>1. PICK f : f \in Bijection(1 .. n, Classes)
    BY <1>1 DEF ExistsBijection
  <2>2. f \in [1 .. n -> Classes] /\ IsInjective(f)
    BY <2>1 DEF Bijection, Injection, IsInjective
  <2> QED BY <2>2 DEF ClassSeq, SetToSeq
<1>3. ClassSeq \in Surjection(1 .. n, Classes)
  <2> DEFINE D == 1 .. n
  <2>1. ClassSeq \in Injection(D, Classes)
    BY <1>2 DEF Injection
  <2>2. Cardinality(D) = n
    <3>1. n \in Int /\ 1 \in Int /\ n - 1 + 1 = n /\ ~(1 > n)
      BY <1>1
    <3> HIDE DEF n
    <3>2. Cardinality(1 .. n) = IF 1 > n THEN 0 ELSE n - 1 + 1
      BY <3>1, FS_Interval
    <3> QED BY <3>1, <3>2
  <2> HIDE DEF D
  <2>3. ClassSeq \in Surjection(D, Classes)
    BY <1>1, <2>1, <2>2, FS_Injection
  <2> QED BY <2>3 DEF D
<1>4. PICK k \in 1 .. n : ClassSeq[k] = x[2]
  BY <1>3 DEF Surjection, Cells
<1> HIDE DEF n
<1>5. Len(ClassSeq) = n
  BY <1>1, <1>2
<1>6. NumShards \in Nat /\ NumShards > 0 /\ NumCells = NumShards * n
  BY Constants DEF NumCells, n
<1> DEFINE r == x[1]
           a == k - 1
           i == r * n + a
<1>7. r \in Nat /\ r <= NumShards - 1 /\ x = <<r, x[2]>>
  BY <1>6 DEF Cells
<1>8. a \in Nat /\ a < n /\ a + 1 = k
  BY <1>1
<1> HIDE DEF r, a
<1>9. i \in Nat /\ i % n = a /\ i \div n = r
  BY <1>1, <1>7, <1>8, SMTT(60)
<1>10. i < NumCells
  <2>1. r * n <= (NumShards - 1) * n
    BY <1>1, <1>6, <1>7, SMTT(30)
  <2>2. (NumShards - 1) * n = NumShards * n - n
    BY <1>1, <1>6, SMTT(30)
  <2>3. r * n \in Nat /\ NumShards * n \in Nat /\ (NumShards - 1) * n \in Int
    BY <1>1, <1>6, <1>7
  <2> QED BY <1>1, <1>6, <1>8, <2>1, <2>2, <2>3
<1> HIDE DEF i
<1>11. i \in 0 .. NumCells - 1
  <2>1. NumCells \in Nat
    BY <1>1, <1>6
  <2> QED BY <1>9, <1>10, <2>1
<1>12. CellAt(i) = <<i \div n, ClassSeq[(i % n) + 1]>>
  BY <1>5 DEF CellAt
<1>13. CellAt(i) = x
  BY <1>4, <1>7, <1>8, <1>9, <1>12
<1> QED BY <1>11, <1>13

\* The slots of a span are in its words.
LEMMA WordsCover ==
  ASSUME NEW c \in Classes, NEW i \in 0 .. Slots[c] - 1
  PROVE  WordOf(i) \in Nat /\ WordOf(i) < NumWords(c) /\ NumWords(c) \in Nat
<1> DEFINE b == Slots[c]
           W == WordSlots
           q == i \div W
           d == b + W - 1
           p == d \div W
<1>1. b \in Nat /\ W \in Nat /\ W > 0 /\ i \in Nat /\ i < b
  BY Constants
<1>2. q = WordOf(i) /\ p = NumWords(c)
  BY DEF WordOf, NumWords
<1> HIDE DEF b, W
<1>3. q \in Nat /\ W * q <= i
  BY <1>1, SMTT(30)
<1>4. d \in Nat /\ d >= i + W
  BY <1>1
<1> HIDE DEF d
<1>5. p \in Nat /\ d < W * p + W
  BY <1>1, <1>4, SMTT(30)
<1> HIDE DEF q, p
<1>6. ASSUME p <= q PROVE FALSE
  <2>1. W * p <= W * q
    BY <1>1, <1>3, <1>5, <1>6, SMTT(30)
  <2>2. W * p \in Nat /\ W * q \in Nat
    BY <1>1, <1>3, <1>5
  <2> QED BY <1>1, <1>3, <1>4, <1>5, <2>1, <2>2
<1>7. q < p
  BY <1>3, <1>5, <1>6
<1> QED BY <1>2, <1>3, <1>5, <1>7

\* The lists of a cell shrink, and its spans keep their free slots.
Kept(x) ==
  /\ ToSet(list'[x]) \subseteq ToSet(list[x])
  /\ \A s \in ToSet(list'[x]) : alloc_words'[s] \cup free_words'[s] = alloc_words[s] \cup free_words[s]

\* A cell that is clean stays clean while its spans keep their free slots.
LEMMA CleanStays ==
  ASSUME NEW x, Kept(x), CellClean(x)
  PROVE  CellClean(x)'
BY DEF Kept, CellClean, Busy

\* While the supervisor stays at its cell, what it has cleaned stays clean.
LEMMA SweptStays ==
  ASSUME SweptClean, UNCHANGED sup, \A x \in Cells : Kept(x)
  PROVE  SweptClean'
<1> SUFFICES ASSUME NEW i \in 0 .. NumCells - 1, sup.phase = "gone" \/ i < sup.cell
             PROVE  CellClean(CellAt(i))'
  BY DEF SweptClean
<1> DEFINE x == CellAt(i)
<1>1. x \in Cells /\ CellClean(x)
  BY CellAtType DEF SweptClean
<1> HIDE DEF x
<1>2. CellClean(x)'
  BY <1>1, CleanStays
<1> QED BY <1>2 DEF x, CellAt

\* On to the next cell from one that is clean.
LEMMA NextClean ==
  ASSUME HeapInv, SweptClean, sup.phase = "final", NextCell, CellClean(CellAt(sup.cell)),
         UNCHANGED <<list, alloc_words, free_words>>
  PROVE  SweptClean' /\ sup'.phase \in {"final", "gone"}
<1>1. /\ sup \in Sups /\ sup.cell \in 0 .. NumCells - 1 /\ NumCells \in Nat
  <2>1. sup \in Sups
    BY LoopTypes
  <2>2. NumCells \in Nat
    BY SubHeapAssumption, FS_CardinalityType DEF NumCells
  <2> QED BY <2>1, <2>2 DEF Sups
<1>2. \A i \in 0 .. NumCells - 1 : i <= sup.cell => CellClean(CellAt(i))
  <2> SUFFICES ASSUME NEW i \in 0 .. NumCells - 1, i <= sup.cell PROVE CellClean(CellAt(i))
    OBVIOUS
  <2>1. i < sup.cell \/ i = sup.cell
    BY <1>1
  <2> QED BY <2>1 DEF SweptClean
<1>3. \A i \in 0 .. NumCells - 1 : CellClean(CellAt(i)) => CellClean(CellAt(i))'
  BY DEF CellClean, Busy, CellAt
<1>4. CASE sup.cell + 1 < NumCells
  <2>1. sup'.cell = sup.cell + 1 /\ sup'.phase = "final"
    BY <1>1, <1>4 DEF NextCell, Sups
  <2>2. \A i \in 0 .. NumCells - 1 : i < sup.cell + 1 => i <= sup.cell
    BY <1>1
  <2> QED BY <1>2, <1>3, <2>1, <2>2 DEF SweptClean
<1>5. CASE ~(sup.cell + 1 < NumCells)
  <2>1. sup'.phase = "gone"
    BY <1>1, <1>5 DEF NextCell, Sups
  <2>2. \A i \in 0 .. NumCells - 1 : i <= sup.cell
    BY <1>1, <1>5
  <2> QED BY <1>2, <1>3, <2>1, <2>2 DEF SweptClean
<1> QED BY <1>4, <1>5

\* A step of the supervisor that takes and drops no lock.
LEMMA SweepKeepsLocks ==
  ASSUME Locked, \A u \in Threads : job'[u] = job[u], UNCHANGED lock,
         job[Sweeper].at \in {"walk", "retire"} =>
           job'[Sweeper].at \in {"walk", "retire"} /\ SweptCell' = SweptCell
  PROVE  Locked'
<1>1. ASSUME NEW x \in Cells, lock[x] \in Threads
      PROVE  job'[lock[x]].at \in Holding /\ <<Shard(lock[x]), job'[lock[x]].class>> = x
  <2>1. job[lock[x]].at \in Holding /\ <<Shard(lock[x]), job[lock[x]].class>> = x
    BY <1>1 DEF Locked, Cell
  <2> QED BY <1>1, <2>1
<1>2. ASSUME NEW x \in Cells, lock[x] = Sweeper
      PROVE  job'[Sweeper].at \in {"walk", "retire"} /\ SweptCell' = x
  <2>1. job[Sweeper].at \in {"walk", "retire"} /\ SweptCell = x
    BY <1>2 DEF Locked
  <2> QED BY <2>1
<1> QED BY <1>1, <1>2 DEF Locked, Cell, Shard

\* The supervisor takes the lock of a cell, or drops it.
LEMMA SweepTakesLock ==
  ASSUME HeapInv, Locked, \A u \in Threads : job'[u] = job[u], NEW z \in Cells,
         \/ lock' = [lock EXCEPT ![z] = Sweeper] /\ job[Sweeper].at = "idle"
            /\ job'[Sweeper].at \in {"walk", "retire"} /\ SweptCell' = z
         \/ lock' = [lock EXCEPT ![z] = NoThread] /\ SweptCell = z
  PROVE  Locked'
<1>1. \A x \in Cells : x # z => lock'[x] = lock[x]
  BY OfHeap DEF Types
<1>2. lock'[z] \notin Threads /\ (lock'[z] = Sweeper => job'[Sweeper].at \in {"walk", "retire"} /\ SweptCell' = z)
  BY OfHeap, Constants DEF Types
<1>3. ASSUME NEW x \in Cells, lock'[x] \in Threads
      PROVE  job'[lock'[x]].at \in Holding /\ <<Shard(lock'[x]), job'[lock'[x]].class>> = x
  <2>1. x # z /\ lock'[x] = lock[x]
    BY <1>1, <1>2, <1>3
  <2>2. job[lock[x]].at \in Holding /\ <<Shard(lock[x]), job[lock[x]].class>> = x
    BY <1>3, <2>1 DEF Locked, Cell
  <2> QED BY <1>3, <2>1, <2>2
<1>4. ASSUME NEW x \in Cells, lock'[x] = Sweeper
      PROVE  job'[Sweeper].at \in {"walk", "retire"} /\ SweptCell' = x
  <2>1. CASE x = z
    BY <1>2, <1>4, <2>1
  <2>2. CASE x # z
    <3>1. job[Sweeper].at \in {"walk", "retire"} /\ SweptCell = x
      BY <1>1, <1>4, <2>2 DEF Locked
    <3> QED BY <2>2, <3>1
  <2> QED BY <2>1, <2>2
<1> QED BY <1>3, <1>4 DEF Locked, Cell, Shard

\* The supervisor's own steps do not disturb the threads.
LEMMA QuietStays ==
  ASSUME \A u \in Threads : job'[u] = job[u], Quiet
  PROVE  Quiet'
BY DEF Quiet, InCall

\* While nobody works, no thread holds a lock.
LEMMA QuietUnlocked ==
  ASSUME HeapInv, Locked, Quiet, job[Sweeper].at = "idle", NEW x \in Cells
  PROVE  lock[x] = NoThread
<1>1. lock[x] \in Threads \cup {Sweeper, NoThread}
  BY OfHeap DEF Types
<1>2. lock[x] # Sweeper
  BY DEF Locked
<1>3. ASSUME lock[x] \in Threads PROVE FALSE
  <2>1. job[lock[x]].at \in Holding
    BY <1>3 DEF Locked
  <2>2. job[lock[x]].at \in {"idle", "miss", "exited"}
    BY <1>3 DEF Quiet, InCall
  <2> QED BY <2>1, <2>2 DEF Holding
<1> QED BY <1>1, <1>2, <1>3

\* Nothing of a span has been counted before its first word.
LEMMA NothingCounted ==
  ASSUME HeapInv, NEW s \in Spans
  PROVE  /\ 0 = Cardinality({i \in alloc_words[s] : WordOf(i) < 0})
         /\ \A i \in free_words[s] : WordOf(i) >= 0
<1>1. \A i \in Nat : WordOf(i) \in Nat
  BY Constants DEF WordOf
<1>2. alloc_words[s] \subseteq Nat /\ free_words[s] \subseteq Nat
  BY OfHeap DEF Types
<1>3. {i \in alloc_words[s] : WordOf(i) < 0} = {}
  BY <1>1, <1>2
<1> QED BY <1>1, <1>2, <1>3, FS_EmptySet

\* A sweep begins; the final one is calm if nobody is in a call.
LEMMA BeginSwept ==
  ASSUME HeapInv, SweepInv, SweepBegin, calm' = (calm \/ (sup.phase = "nap" /\ sup.stop /\ Quiet))
  PROVE  SweepInv'
<1>1. /\ sup.phase = "nap" /\ Wake /\ UNCHANGED <<list, lock, job, alloc_words, free_words>>
  BY DEF SweepBegin, bitmaps
<1>2. sup \in Sups
  BY LoopTypes
<1>3. /\ sup'.cell = sup.cell /\ sup'.phase \in {"sweep", "final"}
      /\ sup.stop => sup'.phase = "final"
  BY <1>1, <1>2 DEF Wake, Sups
<1>4. job[Sweeper].at = "idle" /\ sup.cell = 0
  BY <1>1 DEF SweepInv, Loop
<1>5. Locked'
  BY <1>1 DEF SweepInv, Locked, Cell, SweptCell, Shard
<1>6. Loop'
  BY <1>1, <1>3, <1>4 DEF Loop
<1>7. ASSUME calm' PROVE sup'.phase \in {"final", "gone"} /\ Quiet' /\ Walked' /\ SweptClean'
  <2>1. ~calm
    BY <1>1 DEF SweepInv, FinalSweep
  <2>2. sup.stop /\ Quiet
    BY <1>7, <2>1
  <2>3. sup'.phase = "final" /\ Quiet'
    BY <1>1, <1>3, <2>2, QuietStays
  <2>4. Walked'
    BY <1>1, <1>4 DEF Walked
  <2>5. SweptClean'
    BY <1>3, <1>4, <2>3 DEF SweptClean
  <2> QED BY <2>3, <2>4, <2>5
<1> QED BY <1>5, <1>6, <1>7 DEF SweepInv, FinalSweep

\* A cell is locked and its list is walked.
LEMMA CellSwept ==
  ASSUME HeapInv, SweepInv, SweepCell, calm' = (calm \/ (sup.phase = "nap" /\ sup.stop /\ Quiet))
  PROVE  SweepInv'
<1> DEFINE y == CellAt(sup.cell)
           q == list[y]
           x == [Idle EXCEPT !.at = "walk", !.class = y[2], !.shard = y[1], !.todo = q]
<1>1. /\ sup.phase \in {"sweep", "final"} /\ job[Sweeper].at = "idle"
      /\ lock[y] = NoThread /\ lock' = [lock EXCEPT ![y] = Sweeper] /\ job' = [job EXCEPT ![Sweeper] = x]
      /\ UNCHANGED <<alloc_words, free_words, list, sup>>
  BY DEF SweepCell, Sweeping, At, Goto, bitmaps
<1>2. y \in Cells
  <2>1. sup.cell \in 0 .. NumCells - 1
    BY LoopTypes DEF Sups
  <2> QED BY <2>1, CellAtType
<1>0. y = CellAt(sup.cell)
  OBVIOUS
<1> HIDE DEF y
<1>3. y[1] \in Shards /\ y[2] \in Classes /\ y = <<y[1], y[2]>>
  BY <1>2 DEF Cells, Shards
<1>4. q \in Seq(Spans)
  BY <1>2, OfHeap DEF Types
<1> HIDE DEF q
<1>5. /\ x \in Jobs /\ x.at = "walk" /\ x.class = y[2] /\ x.shard = y[1] /\ x.todo = q
      /\ x.k = 0 /\ x.word = 0
  BY <1>3, <1>4, IdleJob DEF Jobs, Places
<1> HIDE DEF x
<1>6. job'[Sweeper] = x /\ \A u \in Threads : job'[u] = job[u]
  BY <1>1, <1>5, OnlySweeper
<1>7. SweptCell' = y
  BY <1>3, <1>5, <1>6 DEF SweptCell
<1>8. Locked'
  BY <1>1, <1>2, <1>5, <1>6, <1>7, SweepTakesLock DEF SweepInv
<1>9. Loop'
  <2>1. CellAt(sup.cell)' = y
    BY <1>0, <1>1 DEF CellAt
  <2> QED BY <1>1, <1>7, <2>1 DEF Loop
<1>10. ASSUME calm' PROVE sup'.phase \in {"final", "gone"} /\ Quiet' /\ Walked' /\ SweptClean'
  <2>1. calm /\ Quiet /\ SweptClean /\ sup.phase \in {"final", "gone"}
    BY <1>1, <1>10 DEF SweepInv, FinalSweep
  <2>2. Quiet'
    BY <1>6, <2>1, QuietStays
  <2>3. \A z \in Cells : Kept(z)
    BY <1>1 DEF Kept
  <2>4. SweptClean'
    BY <1>1, <2>1, <2>3, SweptStays
  <2>5. ToSet(list'[y]) \ ToSet(q) = {}
    BY <1>1 DEF q
  <2>6. ASSUME q # <<>>
        PROVE  /\ 0 = Cardinality({i \in alloc_words[q[1]] : WordOf(i) < 0})
               /\ \A i \in free_words[q[1]] : WordOf(i) >= 0
    <3> DEFINE s == q[1]
    <3>1. s \in Spans
      BY <1>4, <2>6, StackType
    <3> HIDE DEF s
    <3>2. /\ 0 = Cardinality({i \in alloc_words[s] : WordOf(i) < 0})
          /\ \A i \in free_words[s] : WordOf(i) >= 0
      BY <3>1, NothingCounted
    <3> QED BY <3>2 DEF s
  <2>7. x.todo # <<>> =>
          /\ x.k = Cardinality({i \in alloc_words'[x.todo[1]] : WordOf(i) < x.word})
          /\ \A i \in free_words'[x.todo[1]] : WordOf(i) >= x.word
    BY <1>1, <1>5, <2>6
  <2>8. Walked'
    BY <1>5, <1>6, <1>7, <2>5, <2>7 DEF Walked, WordOf
  <2> QED BY <1>1, <2>1, <2>2, <2>4, <2>8
<1> QED BY <1>8, <1>9, <1>10 DEF SweepInv, FinalSweep

\* A cell is skipped only when somebody works.
LEMMA SkipSwept ==
  ASSUME HeapInv, SweepInv, SweepSkip, calm' = (calm \/ (sup.phase = "nap" /\ sup.stop /\ Quiet))
  PROVE  SweepInv'
<1>1. /\ sup.phase \in {"sweep", "final"} /\ job[Sweeper].at = "idle"
      /\ lock[CellAt(sup.cell)] # NoThread /\ NextCell /\ UNCHANGED <<lock, job>>
  BY DEF SweepSkip, Sweeping, At
<1>2. CellAt(sup.cell) \in Cells
  <2>1. sup.cell \in 0 .. NumCells - 1
    BY LoopTypes DEF Sups
  <2> QED BY <2>1, CellAtType
<1>3. Locked'
  BY <1>1 DEF SweepInv, Locked, Cell, SweptCell, Shard
<1>4. sup'.phase \in {"nap", "gone"} => sup'.cell = 0
  BY <1>1, LoopTypes DEF NextCell, Sups
<1>5. Loop'
  BY <1>1, <1>4 DEF Loop
<1>6. ~calm'
  <2>1. ASSUME calm PROVE FALSE
    BY <1>1, <1>2, <2>1, QuietUnlocked DEF SweepInv, FinalSweep
  <2> QED BY <1>1, <2>1
<1> QED BY <1>3, <1>5, <1>6 DEF SweepInv, FinalSweep

\* While nobody deposits, the count of a walk is exact: k slots up to word w of span s,
\* and nothing is left to fold there.
Exact(s, w, k) ==
  /\ k = Cardinality({i \in alloc_words[s] : WordOf(i) < w})
  /\ \A i \in free_words[s] : WordOf(i) >= w
ExactNext(s, c, w, n) ==
  /\ n = Cardinality({i \in alloc_words'[s] : WordOf(i) < w + 1})
  /\ \A i \in free_words'[s] : WordOf(i) >= w + 1
  /\ alloc_words'[s] \cup free_words'[s] = alloc_words[s] \cup free_words[s]
  /\ ~(w + 1 < NumWords(c)) =>
       /\ free_words'[s] = {}
       /\ n # Slots[c] => alloc_words'[s] \cup free_words'[s] # 0 .. Slots[c] - 1

\* An exact count stays exact with the next word, and decides after the last one.
LEMMA SweptExact ==
  ASSUME HeapInv, NEW s \in Spans, NEW c \in Classes, class[s] = c, NEW w \in Nat, NEW g, NEW F,
         Folded(s, c, w, g, F), FoldDone(s, c, w, g, F),
         NEW k \in Nat, Exact(s, w, k), NEW n, n = k + Cardinality(g)
  PROVE  ExactNext(s, c, w, n)
<1> DEFINE R == 0 .. Slots[c] - 1
           A == alloc_words'[s]
           B == free_words'[s]
           S == {i \in alloc_words[s] : WordOf(i) < w}
           U == {i \in A : WordOf(i) < w + 1}
<1>1. /\ A = alloc_words[s] \cup (free_words[s] \cap WordMask(c, w)) /\ g \subseteq A
      /\ B = free_words[s] \ WordMask(c, w)
      /\ g = (alloc_words[s] \cup free_words[s]) \cap WordMask(c, w)
  BY DEF FoldDone, Folded
<1>2. /\ IsFiniteSet(R) /\ Cardinality(R) = Slots[c]
      /\ alloc_words[s] \subseteq R /\ free_words[s] \subseteq R
  BY WordsFinite
<1>3. \A i \in R : WordOf(i) \in Nat /\ WordOf(i) < NumWords(c) /\ NumWords(c) \in Nat
  BY WordsCover
<1>4. \A i \in R : i \in WordMask(c, w) <=> WordOf(i) = w
  BY DEF WordMask
<1>5. (\A i \in free_words[s] : WordOf(i) >= w) /\ k = Cardinality(S)
  BY DEF Exact
<1> HIDE DEF R, A, B
<1>6. ASSUME NEW i \in B PROVE WordOf(i) >= w + 1
  <2>1. i \in free_words[s] /\ i \in R /\ i \notin WordMask(c, w)
    BY <1>1, <1>2
  <2>2. WordOf(i) \in Nat /\ WordOf(i) >= w /\ WordOf(i) # w
    BY <1>3, <1>4, <1>5, <2>1
  <2> HIDE DEF WordOf
  <2> QED BY <2>2
<1>7. A \cup B = alloc_words[s] \cup free_words[s] /\ A \in SUBSET R /\ B \subseteq R
  BY <1>1, <1>2
<1>8. U = S \cup g /\ S \cap g = {}
  <2>1. ASSUME NEW i \in U PROVE i \in S \cup g
    <3>1. i \in A /\ i \in R /\ WordOf(i) < w + 1 /\ WordOf(i) \in Nat
      BY <1>3, <1>7
    <3>2. CASE i \in WordMask(c, w)
      BY <1>1, <3>1, <3>2
    <3>3. CASE i \notin WordMask(c, w)
      <4>1. i \in alloc_words[s] /\ WordOf(i) # w
        BY <1>1, <1>4, <3>1, <3>3
      <4>2. WordOf(i) < w
        BY <3>1, <4>1
      <4> QED BY <4>1, <4>2
    <3> QED BY <3>2, <3>3
  <2>2. ASSUME NEW i \in S PROVE i \in U /\ i \notin g
    <3>1. i \in A /\ i \in R /\ WordOf(i) < w /\ WordOf(i) \in Nat
      BY <1>1, <1>2, <1>3
    <3>2. WordOf(i) < w + 1 /\ WordOf(i) # w
      BY <3>1
    <3> QED BY <1>1, <1>4, <3>1, <3>2
  <2>3. ASSUME NEW i \in g PROVE i \in U
    <3>1. i \in A /\ i \in R /\ WordOf(i) = w
      BY <1>1, <1>2, <1>4
    <3>2. WordOf(i) < w + 1
      BY <3>1
    <3> QED BY <3>1, <3>2
  <2> QED BY <2>1, <2>2, <2>3
<1>9. U \in SUBSET A
  OBVIOUS
<1>u. ~(w + 1 < NumWords(c)) => U = A /\ B = {}
  <2> SUFFICES ASSUME ~(w + 1 < NumWords(c)) PROVE U = A /\ B = {}
    OBVIOUS
  <2>1. \A i \in R : WordOf(i) < w + 1
    <3> SUFFICES ASSUME NEW i \in R PROVE WordOf(i) < w + 1
      OBVIOUS
    <3>1. WordOf(i) \in Nat /\ WordOf(i) < NumWords(c) /\ NumWords(c) \in Nat
      BY <1>3
    <3> QED BY <3>1
  <2>2. \A i \in R : ~(WordOf(i) >= w + 1)
    <3> SUFFICES ASSUME NEW i \in R PROVE ~(WordOf(i) >= w + 1)
      OBVIOUS
    <3>1. WordOf(i) \in Nat /\ WordOf(i) < w + 1
      BY <1>3, <2>1
    <3> QED BY <3>1
  <2>3. U = A
    BY <1>7, <2>1
  <2>4. B = {}
    BY <1>6, <1>7, <2>2
  <2> QED BY <2>3, <2>4
<1> HIDE DEF S, U
<1>10. IsFiniteSet(A) /\ Cardinality(A) \in Nat
  BY <1>2, <1>7, FS_Subset, FS_CardinalityType
<1>11. IsFiniteSet(U)
  BY <1>9, <1>10, FS_Subset
<1>12. IsFiniteSet(S) /\ IsFiniteSet(g)
  <2>1. S \in SUBSET U /\ g \in SUBSET U
    BY <1>8
  <2> QED BY <1>11, <2>1, FS_Subset
<1>13. Cardinality(S \cup g) = Cardinality(S) + Cardinality(g) - Cardinality(S \cap g)
  BY <1>12, FS_Union
<1>14. Cardinality(S \cap g) = 0
  BY <1>8, FS_EmptySet
<1>15. Cardinality(S) \in Nat /\ Cardinality(g) \in Nat
  BY <1>12, FS_CardinalityType
<1>16. n = Cardinality(U)
  BY <1>5, <1>8, <1>13, <1>14, <1>15
<1>17. ASSUME ~(w + 1 < NumWords(c)), n # Slots[c] PROVE A \cup B # R
  <2>1. U = A /\ B = {}
    BY <1>17, <1>u
  <2>2. Cardinality(A) # Cardinality(R)
    BY <1>2, <1>16, <1>17, <2>1
  <2> QED BY <2>1, <2>2
<1> QED BY <1>6, <1>7, <1>16, <1>17, <1>u DEF U, A, B, R, ExactNext

\* The supervisor counts a word: a span whose count is short is left behind busy.
LEMMA FoldSwept ==
  ASSUME HeapInv, SweepInv, SweepFold, calm' = (calm \/ (sup.phase = "nap" /\ sup.stop /\ Quiet))
  PROVE  SweepInv'
<1> DEFINE j == job[Sweeper]
           c == j.class
           w == j.word
           s == Head(j.todo)
           m == WordMask(c, w)
           g == (alloc_words[s] \cup free_words[s]) \cap m
           n == j.k + Cardinality(g)
           F == {r \in Objects : r[1] = c /\ r[2] = s /\ r[3] \in free_words[s] \cap m}
           x == IF w + 1 < NumWords(c) THEN [j EXCEPT !.word = w + 1, !.k = n]
                ELSE IF AllFree(n, Slots[c]) THEN [j EXCEPT !.at = "retire", !.word = 0, !.k = 0]
                ELSE [j EXCEPT !.todo = Tail(j.todo), !.word = 0, !.k = 0]
<1>1. /\ j.at = "walk" /\ j.todo # <<>>
      /\ alloc_words' = [alloc_words EXCEPT ![s] = (@ \ m) \cup g]
      /\ free_words' = [free_words EXCEPT ![s] = SwappedWord(s, m)]
      /\ UNCHANGED <<list, lock, class, sup>>
  BY DEF SweepFold, SweepOver, At, table
<1>2. /\ j \in Jobs /\ c \in Classes /\ j.todo \in Seq(Spans) /\ w \in Nat /\ j.k \in Nat
      /\ Distinct(j.todo) /\ SweptCell \in Cells /\ list[SweptCell] \in Seq(Spans)
      /\ SweptCell[2] = c
  BY <1>1, InSweep, OfJob DEF SweptCell
<1>3. job' = [job EXCEPT ![Sweeper] = x]
  BY <1>2 DEF SweepFold, Goto, Jobs
<1> DEFINE q == Tail(j.todo)
<1>4. /\ s = j.todo[1] /\ s \in ToSet(j.todo) /\ q \in Seq(Spans)
      /\ ToSet(j.todo) = ToSet(q) \cup {s} /\ s \notin ToSet(q)
  BY <1>1, <1>2, TailStack
<1> HIDE DEF s
<1>6. s \in Spans /\ class[s] = c
  BY <1>1, <1>4, SweptSpan
<1>7. Folded(s, c, w, g, F)
  BY <1>1 DEF Folded
<1> HIDE DEF c, w, g, F, x, m, q
<1>8. FoldDone(s, c, w, g, F)
  BY <1>1, <1>2, <1>6, <1>7, FoldWord
<1>9. \A v \in Spans : v # s => alloc_words'[v] = alloc_words[v] /\ free_words'[v] = free_words[v]
  BY <1>8 DEF FoldDone
<1>10. Cardinality(g) \in Nat
  <2> DEFINE k == j.k
  <2>1. k \in Nat /\ Counted(s, w, k) /\ n = k + Cardinality(g)
    BY <1>1, <1>2, <1>4, OfHeap DEF Counted, Sweeps, w
  <2> HIDE DEF k, n
  <2>2. CountGrows(s, c, w, g, n)
    BY <1>2, <1>6, <1>7, <1>8, <2>1, SweptCount
  <2> QED BY <2>2 DEF CountGrows
<1>11. n \in Nat
  BY <1>2, <1>10
<1>e. n = j.k + Cardinality(g)
  OBVIOUS
<1> HIDE DEF n
<1>12. /\ x \in Jobs /\ x.class = c /\ x.shard = j.shard
       /\ \/ w + 1 < NumWords(c) /\ x.at = "walk" /\ x.todo = j.todo /\ x.word = w + 1 /\ x.k = n
          \/ ~(w + 1 < NumWords(c)) /\ x.at = "retire" /\ x.todo = j.todo /\ x.word = 0
          \/ ~(w + 1 < NumWords(c)) /\ x.at = "walk" /\ x.todo = q /\ x.word = 0 /\ x.k = 0 /\ n # Slots[c]
  <2>1. CASE w + 1 < NumWords(c)
    <3>1. x = [j EXCEPT !.word = w + 1, !.k = n] /\ w + 1 \in Nat
      BY <1>2, <2>1 DEF x
    <3> QED BY <1>1, <1>2, <1>11, <2>1, <3>1 DEF Jobs, c
  <2>2. CASE ~(w + 1 < NumWords(c)) /\ AllFree(n, Slots[c])
    <3>1. x = [j EXCEPT !.at = "retire", !.word = 0, !.k = 0]
      BY <2>2 DEF x
    <3> QED BY <1>1, <1>2, <2>2, <3>1 DEF Jobs, Places, c
  <2>3. CASE ~(w + 1 < NumWords(c)) /\ ~AllFree(n, Slots[c])
    <3>1. x = [j EXCEPT !.todo = q, !.word = 0, !.k = 0] /\ n # Slots[c]
      BY <2>3 DEF x, AllFree, q
    <3>2. /\ x \in Jobs /\ x.class = c /\ x.shard = j.shard
          /\ x.at = "walk" /\ x.todo = q /\ x.word = 0 /\ x.k = 0
      BY <1>1, <1>2, <1>4, <3>1 DEF Jobs, c
    <3> QED BY <2>3, <3>1, <3>2
  <2> QED BY <2>1, <2>2, <2>3
<1>13. job'[Sweeper] = x /\ \A u \in Threads : job'[u] = job[u]
  BY <1>3, <1>12, OnlySweeper
<1>14. SweptCell' = SweptCell /\ c = j.class /\ x.at \in {"walk", "retire"}
  BY <1>12, <1>13 DEF SweptCell, c
<1>15. Locked'
  BY <1>1, <1>13, <1>14, SweepKeepsLocks DEF SweepInv
<1>16. Loop'
  <2>1. sup.phase \notin {"nap", "gone"} /\ SweptCell = CellAt(sup.cell)
    BY <1>1 DEF SweepInv, Loop
  <2>2. CellAt(sup.cell)' = CellAt(sup.cell)
    BY <1>1 DEF CellAt
  <2> QED BY <1>1, <1>14, <2>1, <2>2 DEF Loop
<1>17. ASSUME calm' PROVE sup'.phase \in {"final", "gone"} /\ Quiet' /\ Walked' /\ SweptClean'
  <2>0. sup.phase # "nap"
    BY <1>1 DEF SweepInv, Loop
  <2>1. Quiet /\ Walked /\ SweptClean /\ sup.phase \in {"final", "gone"}
    BY <1>17, <2>0 DEF SweepInv, FinalSweep
  <2>2. Quiet'
    BY <1>13, <2>1, QuietStays
  <2>3. ExactNext(s, c, w, n)
    <3> DEFINE k == j.k
    <3>1. k \in Nat /\ Exact(s, w, k) /\ n = k + Cardinality(g)
      BY <1>1, <1>2, <1>4, <1>e, <2>1 DEF Walked, Exact, w
    <3> HIDE DEF k
    <3> QED BY <1>2, <1>6, <1>7, <1>8, <3>1, SweptExact
  <2>4. \A v \in Spans : alloc_words'[v] \cup free_words'[v] = alloc_words[v] \cup free_words[v]
    BY <1>9, <2>3 DEF ExactNext
  <2>5. \A z \in Cells : Kept(z)
    <3>1. \A z \in Cells : list[z] \in Seq(Spans) /\ list'[z] = list[z]
      BY <1>1, OfHeap DEF Types
    <3>2. \A z \in Cells : ToSet(list[z]) \subseteq Spans
      BY <3>1, StackType
    <3> QED BY <2>4, <3>1, <3>2 DEF Kept
  <2>6. SweptClean'
    BY <1>1, <2>1, <2>5, SweptStays
  <2>7. \A v \in ToSet(list[SweptCell]) \ ToSet(j.todo) :
          alloc_words'[v] \cup free_words'[v] # 0 .. Slots[c] - 1
    <3>1. ToSet(list[SweptCell]) \subseteq Spans
      BY <1>2, StackType
    <3> QED BY <1>1, <1>14, <2>1, <2>4, <3>1 DEF Walked, Busy
  <2>8. \A v \in ToSet(list'[SweptCell]) \ ToSet(x.todo) :
          alloc_words'[v] \cup free_words'[v] # 0 .. Slots[x.class] - 1
    <3>1. CASE x.todo = j.todo
      BY <1>1, <1>12, <2>7, <3>1
    <3>2. CASE x.todo = q /\ n # Slots[c] /\ ~(w + 1 < NumWords(c))
      <4>1. alloc_words'[s] \cup free_words'[s] # 0 .. Slots[c] - 1
        BY <2>3, <3>2 DEF ExactNext
      <4> QED BY <1>1, <1>4, <1>12, <2>7, <3>2, <4>1
    <3> QED BY <1>12, <3>1, <3>2
  <2>9. x.at = "walk" /\ x.todo # <<>> =>
          /\ x.k = Cardinality({i \in alloc_words'[x.todo[1]] : WordOf(i) < x.word})
          /\ \A i \in free_words'[x.todo[1]] : WordOf(i) >= x.word
    <3>1. CASE x.todo = j.todo /\ x.word = w + 1 /\ x.k = n
      BY <1>4, <2>3, <3>1 DEF ExactNext
    <3>2. CASE x.at = "retire"
      BY <3>2
    <3>3. CASE x.todo = q /\ x.word = 0 /\ x.k = 0
      <4>1. ASSUME q # <<>>
            PROVE  /\ 0 = Cardinality({i \in alloc_words'[q[1]] : WordOf(i) < 0})
                   /\ \A i \in free_words'[q[1]] : WordOf(i) >= 0
        <5> DEFINE v == q[1]
        <5>1. v \in Spans /\ v # s
          BY <1>4, <4>1, StackType
        <5> HIDE DEF v
        <5>2. /\ 0 = Cardinality({i \in alloc_words[v] : WordOf(i) < 0})
              /\ \A i \in free_words[v] : WordOf(i) >= 0
          BY <5>1, NothingCounted
        <5> QED BY <1>9, <5>1, <5>2 DEF v
      <4> QED BY <3>3, <4>1
    <3> QED BY <1>12, <3>1, <3>2, <3>3
  <2>10. x.at = "retire" => x.word = 0 /\ free_words'[x.todo[1]] = {}
    BY <1>4, <1>12, <2>3 DEF ExactNext
  <2>11. Walked'
    BY <1>13, <1>14, <2>8, <2>9, <2>10 DEF Walked, Busy, WordOf
  <2> QED BY <1>1, <2>1, <2>2, <2>6, <2>11
<1> QED BY <1>15, <1>16, <1>17 DEF SweepInv, FinalSweep

\* A retired span leaves its list, and a spared one has a deposit of somebody at work.
LEMMA RetireSwept ==
  ASSUME HeapInv, SweepInv, SweepRetire, calm' = (calm \/ (sup.phase = "nap" /\ sup.stop /\ Quiet))
  PROVE  SweepInv'
<1> DEFINE j == job[Sweeper]
           c == j.class
           s == Head(j.todo)
           z == SweptCell
           q == Tail(j.todo)
           T == IF free_words[s] # {} THEN j.taken ELSE j.taken \cup {s}
           x == [j EXCEPT !.at = "walk", !.todo = q, !.taken = T]
           p == RemoveFirst(list[z], s)
<1>0. j.at = "retire"
  BY DEF SweepRetire, At
<1>1. /\ j \in Jobs /\ c \in Classes /\ j.todo \in Seq(Spans) /\ j.taken \in SUBSET Nat /\ Distinct(j.todo)
      /\ z \in Cells /\ list[z] \in Seq(Spans)
  BY <1>0, InSweep, OfJob
<1>2. j.todo # <<>> /\ j.k = 0
  BY <1>0, OfHeap DEF Sweeps
<1>3. /\ s = j.todo[1] /\ s \in ToSet(j.todo) /\ q \in Seq(Spans)
      /\ ToSet(j.todo) = ToSet(q) \cup {s} /\ s \notin ToSet(q)
  BY <1>1, <1>2, TailStack
<1>4. /\ job' = [job EXCEPT ![Sweeper] = x] /\ UNCHANGED <<lock, sup>>
      /\ free_words[s] = {} =>
           /\ list' = [list EXCEPT ![z] = p]
           /\ alloc_words' = [alloc_words EXCEPT ![s] = {}] /\ free_words' = [free_words EXCEPT ![s] = {}]
  BY <1>1 DEF SweepRetire, Goto, SweptCell, Jobs
<1> HIDE DEF s, q
<1>5. s \in Spans /\ \A y \in Cells : s \in ToSet(list[y]) => y = z
  BY <1>0, <1>3, SweptSpan
<1>6. T \in SUBSET Nat
  BY <1>1, <1>5, Constants
<1> HIDE DEF T
<1>7. /\ x \in Jobs /\ x.class = c /\ x.shard = j.shard /\ x.word = j.word
      /\ x.at = "walk" /\ x.todo = q /\ x.k = 0
  BY <1>1, <1>2, <1>3, <1>6 DEF Jobs, Places
<1> HIDE DEF x
<1>8. job'[Sweeper] = x /\ \A u \in Threads : job'[u] = job[u]
  BY <1>4, <1>7, OnlySweeper
<1>9. SweptCell' = z
  BY <1>7, <1>8 DEF SweptCell
<1>10. Locked'
  BY <1>4, <1>7, <1>8, <1>9, SweepKeepsLocks DEF SweepInv
<1>11. Loop'
  <2>1. sup.phase \notin {"nap", "gone"} /\ z = CellAt(sup.cell)
    BY <1>0 DEF SweepInv, Loop
  <2>2. CellAt(sup.cell)' = CellAt(sup.cell)
    BY <1>4 DEF CellAt
  <2> QED BY <1>4, <1>9, <2>1, <2>2 DEF Loop
<1> DEFINE L == list[z]
<1>12. ASSUME calm' PROVE sup'.phase \in {"final", "gone"} /\ Quiet' /\ Walked' /\ SweptClean'
  <2>0. sup.phase # "nap"
    BY <1>0 DEF SweepInv, Loop
  <2>1. Quiet /\ Walked /\ SweptClean /\ sup.phase \in {"final", "gone"}
    BY <1>12, <2>0 DEF SweepInv, FinalSweep
  <2>2. Quiet'
    BY <1>8, <2>1, QuietStays
  <2>3. j.word = 0 /\ free_words[s] = {}
    BY <1>0, <1>3, <2>1 DEF Walked
  <2>4. ToSet(p) = ToSet(L) \ {s} /\ L \in Seq(Spans)
    <3>1. L \in Seq(Spans) /\ Distinct(L)
      BY <1>1, OfHeap DEF Lists
    <3> HIDE DEF L
    <3>2. ToSet(RemoveFirst(L, s)) = ToSet(L) \ {s}
      BY <3>1, RemoveStack
    <3> QED BY <3>1, <3>2 DEF L
  <2>5. /\ list'[z] = p /\ \A y \in Cells : y # z => list'[y] = list[y]
    BY <1>1, <1>4, <2>3, OfHeap DEF Types
  <2>6. \A v \in Spans : v # s => alloc_words'[v] = alloc_words[v] /\ free_words'[v] = free_words[v]
    BY <1>4, <2>3, OfHeap DEF Types
  <2> HIDE DEF z, p
  <2>7. \A y \in Cells : ToSet(list'[y]) = ToSet(list[y]) \ {s} /\ ToSet(list[y]) \subseteq Spans
    <3>1. \A y \in Cells : ToSet(list[y]) \subseteq Spans
      BY StackType, OfHeap DEF Types
    <3>2. ASSUME NEW y \in Cells PROVE ToSet(list'[y]) = ToSet(list[y]) \ {s}
      <4>1. CASE y = z
        BY <2>4, <2>5, <4>1
      <4>2. CASE y # z
        BY <1>5, <2>5, <4>2
      <4> QED BY <4>1, <4>2
    <3> QED BY <3>1, <3>2
  <2>8. \A y \in Cells : Kept(y)
    <3>1. ASSUME NEW y \in Cells, NEW v \in ToSet(list'[y])
          PROVE  v \in ToSet(list[y]) /\ v \in Spans /\ v # s
      BY <2>7
    <3> QED BY <2>6, <3>1 DEF Kept
  <2>9. SweptClean'
    BY <1>4, <2>1, <2>8, SweptStays
  <2>10. \A v \in ToSet(list'[z]) \ ToSet(q) : alloc_words'[v] \cup free_words'[v] # 0 .. Slots[c] - 1
    <3> SUFFICES ASSUME NEW v \in ToSet(list'[z]) \ ToSet(q)
                 PROVE  alloc_words'[v] \cup free_words'[v] # 0 .. Slots[c] - 1
      OBVIOUS
    <3>1. v \in ToSet(list[z]) \ ToSet(j.todo) /\ v \in Spans /\ v # s
      BY <1>1, <1>3, <2>7
    <3>2. alloc_words[v] \cup free_words[v] # 0 .. Slots[c] - 1
      BY <1>0, <2>1, <3>1 DEF Walked, Busy, z
    <3> QED BY <2>6, <3>1, <3>2
  <2>11. ASSUME q # <<>>
         PROVE  /\ 0 = Cardinality({i \in alloc_words'[q[1]] : WordOf(i) < 0})
                /\ \A i \in free_words'[q[1]] : WordOf(i) >= 0
    <3> DEFINE v == q[1]
    <3>1. v \in Spans /\ v # s
      BY <1>3, <2>11, StackType
    <3> HIDE DEF v
    <3>2. /\ 0 = Cardinality({i \in alloc_words[v] : WordOf(i) < 0})
          /\ \A i \in free_words[v] : WordOf(i) >= 0
      BY <3>1, NothingCounted
    <3> QED BY <2>6, <3>1, <3>2 DEF v
  <2>12. x.at = "walk" /\ x.todo # <<>> =>
           /\ x.k = Cardinality({i \in alloc_words'[x.todo[1]] : WordOf(i) < x.word})
           /\ \A i \in free_words'[x.todo[1]] : WordOf(i) >= x.word
    BY <1>7, <2>3, <2>11
  <2>13. Walked'
    BY <1>7, <1>8, <1>9, <2>10, <2>12 DEF Walked, Busy, WordOf
  <2> QED BY <1>4, <2>1, <2>2, <2>9, <2>13
<1> QED BY <1>10, <1>11, <1>12 DEF SweepInv, FinalSweep

\* The lock is dropped: unless the batch is full, the cell is clean.
LEMMA UnlockSwept ==
  ASSUME HeapInv, SweepInv, SweepUnlock, calm' = (calm \/ (sup.phase = "nap" /\ sup.stop /\ Quiet))
  PROVE  SweepInv'
<1> DEFINE j == job[Sweeper]
           z == SweptCell
           x == IF j.taken = {} THEN Idle ELSE [Idle EXCEPT !.at = "file", !.taken = j.taken]
<1>1. /\ j.at = "walk" /\ (j.todo = <<>> \/ Cardinality(j.taken) = ReclaimCap)
      /\ lock' = [lock EXCEPT ![z] = NoThread] /\ job' = [job EXCEPT ![Sweeper] = x]
      /\ (j.taken = {} => NextCell) /\ (j.taken # {} => UNCHANGED sup)
      /\ UNCHANGED <<alloc_words, free_words, list>>
  BY DEF SweepUnlock, SweepOver, At, Goto, bitmaps, SweptCell
<1>2. j \in Jobs /\ z \in Cells /\ j.taken \in SUBSET Nat /\ z[2] = j.class
  BY <1>1, InSweep, OfJob DEF SweptCell
<1>3. /\ x \in Jobs /\ x.taken = j.taken
      /\ j.taken = {} => x.at = "idle"
      /\ j.taken # {} => x.at = "file"
  <2>1. CASE j.taken = {}
    BY <2>1, IdleJob
  <2>2. CASE j.taken # {}
    <3>1. x = [Idle EXCEPT !.at = "file", !.taken = j.taken]
      BY <2>2
    <3> HIDE DEF x
    <3> QED BY <1>2, <2>2, <3>1, IdleJob DEF Jobs, Places
  <2> QED BY <2>1, <2>2
<1> HIDE DEF x
<1>4. job'[Sweeper] = x /\ \A u \in Threads : job'[u] = job[u]
  BY <1>1, <1>3, OnlySweeper
<1>5. Locked'
  <2>1. lock' = [lock EXCEPT ![z] = NoThread] /\ SweptCell = z
    BY <1>1
  <2> HIDE DEF z
  <2> QED BY <1>2, <1>4, <2>1, SweepTakesLock DEF SweepInv
<1>6. sup.phase \notin {"nap", "gone"} /\ z = CellAt(sup.cell)
  BY <1>1 DEF SweepInv, Loop
<1>7. Loop'
  <2>1. NextCell => (sup'.phase \in {"nap", "gone"} => sup'.cell = 0)
    BY <1>6, LoopTypes DEF NextCell, Sups
  <2> QED BY <1>1, <1>3, <1>4, <1>6, <2>1 DEF Loop
<1>8. ASSUME calm' PROVE sup'.phase \in {"final", "gone"} /\ Quiet' /\ Walked' /\ SweptClean'
  <2>1. Quiet /\ Walked /\ SweptClean /\ sup.phase = "final"
    BY <1>6, <1>8 DEF SweepInv, FinalSweep
  <2>2. Quiet'
    BY <1>4, <2>1, QuietStays
  <2>3. j.todo = <<>> => CellClean(CellAt(sup.cell))
    <3> SUFFICES ASSUME j.todo = <<>> PROVE CellClean(z)
      BY <1>6
    <3>1. ToSet(j.todo) = {}
      BY EmptyStack
    <3>2. \A s \in ToSet(list[z]) : Busy(s, j.class)
      BY <1>1, <2>1, <3>1 DEF Walked
    <3> QED BY <1>2, <3>2 DEF CellClean
  <2>4. CASE j.taken = {}
    <3>1. Cardinality(j.taken) # ReclaimCap
      BY <2>4, SubHeapAssumption, FS_EmptySet
    <3>2. CellClean(CellAt(sup.cell)) /\ NextCell
      BY <1>1, <2>3, <2>4, <3>1
    <3>3. SweptClean' /\ sup'.phase \in {"final", "gone"}
      BY <1>1, <2>1, <3>2, NextClean
    <3>4. Walked'
      BY <1>3, <1>4, <2>4 DEF Walked
    <3> QED BY <2>2, <3>3, <3>4
  <2>5. CASE j.taken # {}
    <3>1. UNCHANGED sup /\ x.at = "file" /\ x.taken = j.taken
      BY <1>1, <1>3, <2>5
    <3>2. \A y \in Cells : Kept(y)
      BY <1>1 DEF Kept
    <3>3. SweptClean'
      BY <2>1, <3>1, <3>2, SweptStays
    <3>4. UNCHANGED <<sup, list, alloc_words, free_words>>
      BY <1>1, <3>1
    <3>5. CellClean(CellAt(sup.cell)) => CellClean(CellAt(sup.cell))'
      BY <3>4 DEF CellAt, CellClean, Busy
    <3>6. Walked'
      BY <1>1, <1>4, <2>3, <3>1, <3>5 DEF Walked
    <3> QED BY <2>1, <2>2, <3>1, <3>3, <3>6
  <2> QED BY <2>4, <2>5
<1> QED BY <1>5, <1>7, <1>8 DEF SweepInv, FinalSweep

\* The spans are filed, and a cell that gave a full batch is walked again.
LEMMA FileSwept ==
  ASSUME HeapInv, SweepInv, SweepFile, calm' = (calm \/ (sup.phase = "nap" /\ sup.stop /\ Quiet))
  PROVE  SweepInv'
<1> DEFINE j == job[Sweeper]
           x == Idle
<1>1. /\ j.at = "file" /\ job' = [job EXCEPT ![Sweeper] = x]
      /\ (Cardinality(j.taken) = ReclaimCap => UNCHANGED sup)
      /\ (Cardinality(j.taken) # ReclaimCap => NextCell)
      /\ UNCHANGED <<alloc_words, free_words, list, lock>>
  BY DEF SweepFile, At, Goto, Again, bitmaps
<1>2. x \in Jobs /\ x.at = "idle"
  BY IdleJob
<1> HIDE DEF x
<1>3. job'[Sweeper] = x /\ \A u \in Threads : job'[u] = job[u]
  BY <1>1, <1>2, OnlySweeper
<1>4. Locked'
  BY <1>1, <1>3, SweepKeepsLocks DEF SweepInv
<1>5. sup.phase \notin {"nap", "gone"}
  BY <1>1 DEF SweepInv, Loop
<1>6. Loop'
  <2>1. NextCell => (sup'.phase \in {"nap", "gone"} => sup'.cell = 0)
    BY <1>5, LoopTypes DEF NextCell, Sups
  <2> QED BY <1>1, <1>2, <1>3, <1>5, <2>1 DEF Loop
<1>7. ASSUME calm' PROVE sup'.phase \in {"final", "gone"} /\ Quiet' /\ Walked' /\ SweptClean'
  <2>1. Quiet /\ Walked /\ SweptClean /\ sup.phase = "final"
    BY <1>5, <1>7 DEF SweepInv, FinalSweep
  <2>2. Quiet'
    BY <1>3, <2>1, QuietStays
  <2>3. Walked'
    BY <1>2, <1>3 DEF Walked
  <2>4. CASE Cardinality(j.taken) = ReclaimCap
    <3>1. UNCHANGED sup
      BY <1>1, <2>4
    <3>2. \A y \in Cells : Kept(y)
      BY <1>1 DEF Kept
    <3>3. SweptClean'
      BY <2>1, <3>1, <3>2, SweptStays
    <3> QED BY <2>1, <2>2, <2>3, <3>1, <3>3
  <2>5. CASE Cardinality(j.taken) # ReclaimCap
    <3>1. CellClean(CellAt(sup.cell)) /\ NextCell
      BY <1>1, <2>1, <2>5 DEF Walked
    <3>2. SweptClean' /\ sup'.phase \in {"final", "gone"}
      BY <1>1, <2>1, <3>1, NextClean
    <3> QED BY <2>2, <2>3, <3>2
  <2> QED BY <2>4, <2>5
<1> QED BY <1>4, <1>6, <1>7 DEF SweepInv, FinalSweep

\* The sweep's invariant holds at the start.
LEMMA InitSwept == ASSUME Init PROVE SweepInv
<1>1. /\ lock = [x \in Cells |-> NoThread] /\ job = [t \in Threads \cup {Sweeper} |-> Idle]
      /\ sup = [phase |-> "nap", cell |-> 0, stop |-> FALSE] /\ ~calm
  BY DEF Init
<1>2. Locked
  BY <1>1, Constants DEF Locked
<1>3. job[Sweeper].at = "idle" /\ sup.cell = 0
  BY <1>1, IdleJob
<1>4. Loop
  BY <1>3 DEF Loop
<1> QED BY <1>1, <1>2, <1>4 DEF SweepInv, FinalSweep

\* Every step preserves the sweep's invariant.
LEMMA StepSwept ==
  ASSUME HeapInv, SweepInv, [Next]_vars
  PROVE  SweepInv'
<1>1. CASE Supervise
  <2>1. calm' = (calm \/ (sup.phase = "nap" /\ sup.stop /\ Quiet))
    BY <1>1 DEF Supervise
  <2> QED BY <1>1, <2>1, BeginSwept, CellSwept, SkipSwept, FoldSwept, RetireSwept, UnlockSwept,
             FileSwept DEF Supervise
<1>2. CASE DropSupervisor /\ calm' = FALSE
  <2>1. /\ sup' = [sup EXCEPT !.stop = TRUE] /\ UNCHANGED <<lock, job>>
    BY <1>2 DEF DropSupervisor
  <2>2. sup'.phase = sup.phase /\ sup'.cell = sup.cell
    BY <2>1, LoopTypes DEF Sups
  <2>3. Locked' /\ Loop'
    BY <2>1, <2>2 DEF SweepInv, Locked, Loop, Cell, SweptCell, Shard, CellAt
  <2> QED BY <1>2, <2>3 DEF SweepInv, FinalSweep
<1>3. CASE Seize /\ UNCHANGED sup /\ calm' = FALSE
  <2>1. UNCHANGED <<lock, job>>
    BY <1>3 DEF Seize, SeizeCpu, ReleaseCpu, RebalanceCapacity
  <2>2. Locked' /\ Loop'
    BY <1>3, <2>1 DEF SweepInv, Locked, Loop, Cell, SweptCell, Shard, CellAt
  <2> QED BY <1>3, <2>2 DEF SweepInv, FinalSweep
<1>4. ASSUME NEW t \in Threads, Work(t) PROVE SweepInv'
  <2>1. UNCHANGED sup /\ calm' = FALSE
    BY <1>4 DEF Work
  <2>2. Locked' /\ Others(t)
    BY <1>4, WorkLocked DEF SweepInv
  <2>3. job'[Sweeper] = job[Sweeper]
    BY <2>2, Constants DEF Others
  <2>4. Loop'
    BY <2>1, <2>3 DEF SweepInv, Loop, SweptCell, CellAt
  <2> QED BY <2>1, <2>2, <2>4 DEF SweepInv, FinalSweep
<1>5. CASE UNCHANGED vars
  <2>1. UNCHANGED <<lock, job, sup, calm, list, alloc_words, free_words>>
    BY <1>5 DEF vars
  <2>2. Locked' /\ Loop'
    BY <2>1 DEF SweepInv, Locked, Loop, Cell, SweptCell, Shard, CellAt
  <2>3. FinalSweep => FinalSweep'
    <3>1. Quiet => Quiet'
      BY <2>1, QuietStays
    <3>2. SweptClean => SweptClean'
      <4>1. \A y \in Cells : Kept(y)
        BY <2>1 DEF Kept
      <4> QED BY <2>1, <4>1, SweptStays
    <3>3. Walked => Walked'
      BY <2>1 DEF Walked, SweptCell, Busy, CellClean, WordOf, CellAt
    <3> QED BY <2>1, <3>1, <3>2, <3>3 DEF FinalSweep
  <2> QED BY <2>2, <2>3 DEF SweepInv
<1> QED BY <1>1, <1>2, <1>3, <1>4, <1>5 DEF Next

\* At the end of a calm final sweep every cell is clean.
LEMMA SweptAll == ASSUME SweepInv PROVE NothingStranded
<1> SUFFICES ASSUME sup.phase = "gone", calm, NEW x \in Cells, NEW s \in Range(list[x])
             PROVE  alloc_words[s] \cup free_words[s] # 0 .. Slots[x[2]] - 1
  BY DEF NothingStranded
<1>1. PICK i \in 0 .. NumCells - 1 : CellAt(i) = x
  BY AllCells
<1>2. CellClean(x)
  BY <1>1 DEF SweepInv, FinalSweep, SweptClean
<1>3. s \in ToSet(list[x])
  BY DEF Range, ToSet
<1> QED BY <1>2, <1>3 DEF CellClean, Busy

-----------------------------------------------------------------------------
(* The theorems *)

\* The inductive invariant holds in every state of the heap (subheap.rs, magazine.rs,
\* meta.rs), for any number of threads, shards, CPUs, classes and spans.
THEOREM HeapInvariant == ASSUME Regime PROVE Spec => []HeapInv
<1>1. Init => HeapInv
  BY InitInv
<1>2. HeapInv /\ [Next]_vars => HeapInv'
  BY StepInv
<1> QED BY <1>1, <1>2, PTL DEF Spec

\* The shared state stays in its type: a bit is set only for a slot of its span's class,
\* no magazine outgrows MAG_CAP and no slab its limit (magazine.rs:217-225, subheap.rs:438-447).
THEOREM TypeCorrect == ASSUME Regime PROVE Spec => []TypeOK
<1>1. HeapInv => TypeOK
  BY HeapTypes
<1> QED BY <1>1, HeapInvariant, PTL

\* No slot has two owners: no object is handed out twice, by whatever interleaving of
\* refills, lock-free deposits, flushes, rebalances and reclaims (subheap.rs, meta.rs).
THEOREM HandOutOnce == ASSUME Regime PROVE Spec => []NoDoubleHandOut
<1>1. HeapInv => NoDoubleHandOut
  BY OneOwner
<1> QED BY <1>1, HeapInvariant, PTL

\* No free is lost (meta.rs:148-153): every slot of a span on an active list has an owner.
THEOREM NothingLost == ASSUME Regime PROVE Spec => []NoLostObject
<1>1. HeapInv => NoLostObject
  BY SomeOwner
<1> QED BY <1>1, HeapInvariant, PTL

\* An object that anybody holds or caches pins the class of its span, so that a free
\* computes its slot with the size it was carved with (subheap.rs:940-980).
THEOREM PinnedClass == ASSUME Regime PROVE Spec => []ClassPinned
<1>1. HeapInv => ClassPinned
  BY Pins
<1> QED BY <1>1, HeapInvariant, PTL

\* The span table agrees with the active lists, and no listed span is in the pool
\* (subheap.rs:810-860, reclaim_cell).
THEOREM TableAndLists == ASSUME Regime PROVE Spec => []ListsAgree
<1>1. HeapInv => ListsAgree
  BY Agree
<1> QED BY <1>1, HeapInvariant, PTL

\* A bitmap is scanned and cleared only by the holder of the lock of the cell that lists
\* its span (meta.rs:73-74).
THEOREM ScansOwnSpan == ASSUME Regime PROVE Spec => []OwnerScans
<1>1. HeapInv => OwnerScans
  BY Scans
<1> QED BY <1>1, HeapInvariant, PTL

\* A final sweep that nobody disturbs strands no wholly free span with a class, however
\* many cells, spans and words there are and however small a batch (supervisor.rs:144,
\* subheap.rs reclaim_empty_spans and reclaim_cell).
THEOREM NoneStranded == ASSUME Regime PROVE Spec => []NothingStranded
<1>1. Init => HeapInv /\ SweepInv
  BY InitInv, InitSwept
<1>2. HeapInv /\ SweepInv /\ [Next]_vars => HeapInv' /\ SweepInv'
  BY StepInv, StepSwept
<1>3. HeapInv /\ SweepInv => NothingStranded
  BY SweptAll
<1> QED BY <1>1, <1>2, <1>3, PTL DEF Spec
=============================================================================
