------------------------------ MODULE SpanPool ------------------------------
(***************************************************************************)
(* The coalescing index of free span runs (toccata-core/src/spanpool.rs).  *)
(*                                                                         *)
(* A pool is a record with the fields of the Rust struct.  Every access is *)
(* made under the large-allocator mutex, so an operation is a function     *)
(* from the pool before it to the pool after it; SpanArena runs them from  *)
(* concurrent threads.  A bitmap word is the set of its one bits, in       *)
(* 0..WordBits-1 (WordBits is 64 in the code; a small value makes the      *)
(* second level of the bitmap matter on small pools).                      *)
(***************************************************************************)
EXTENDS Integers, FiniteSetsExt

CONSTANTS
  NumSpans,    \* spans of the grid, SpanPool::num_spans
  WordBits     \* bits of a bitmap word

ASSUME NumSpansAssumption == NumSpans \in Nat \ {0}
ASSUME WordBitsAssumption == WordBits \in Nat \ {0}

Spans  == 0 .. NumSpans - 1
Counts == 1 .. NumSpans          \* length of a run; bucket 0 is unused
NO_SPAN == -1
Link_t == Spans \cup {NO_SPAN}   \* a link of a bucket's stack

Bits    == 0 .. WordBits - 1
L0Words == (NumSpans + WordBits) \div WordBits      \* ceil((NumSpans+1)/WordBits)
L1Words == (L0Words + WordBits - 1) \div WordBits

Run(h, c) == h .. h + c - 1

PoolType ==
  [bucket_head : [Counts -> Link_t],
   next        : [Spans -> Link_t],
   prev        : [Spans -> Link_t],
   head_count  : [Spans -> 0 .. NumSpans],
   tail_count  : [Spans -> 0 .. NumSpans],
   l0          : [0 .. L0Words - 1 -> SUBSET Bits],
   l1          : [0 .. L1Words - 1 -> SUBSET Bits]]

PoolNew ==
  [bucket_head |-> [c \in Counts |-> NO_SPAN],
   next        |-> [s \in Spans |-> NO_SPAN],
   prev        |-> [s \in Spans |-> NO_SPAN],
   head_count  |-> [s \in Spans |-> 0],
   tail_count  |-> [s \in Spans |-> 0],
   l0          |-> [w \in 0 .. L0Words - 1 |-> {}],
   l1          |-> [w \in 0 .. L1Words - 1 |-> {}]]

-----------------------------------------------------------------------------
(* The two-level occupancy bitmap over bucket indices. *)

BitSet(p, c) ==
  LET w == c \div WordBits
      v == w \div WordBits
  IN  [p EXCEPT !.l0 = [p.l0 EXCEPT ![w] = p.l0[w] \cup {c % WordBits}],
                !.l1 = [p.l1 EXCEPT ![v] = p.l1[v] \cup {w % WordBits}]]

\* Mutant: the summary bit of an emptied word stays set.
BitClearL0(p, c) ==
  LET w == c \div WordBits
  IN  [p EXCEPT !.l0 = [p.l0 EXCEPT ![w] = p.l0[w] \ {c % WordBits}]]

BitClear(p, c) ==
  LET w    == c \div WordBits
      v    == w \div WordBits
      left == p.l0[w] \ {c % WordBits}
  IN  [p EXCEPT !.l0 = [p.l0 EXCEPT ![w] = left],
                !.l1 = IF left = {}
                       THEN [p.l1 EXCEPT ![v] = p.l1[v] \ {w % WordBits}]
                       ELSE p.l1]

\* Mutant: the largest bucket is taken.
FindLastSet(p, c) ==
  LET set == {b \in c .. NumSpans : b % WordBits \in p.l0[b \div WordBits]}
  IN  IF set = {} THEN NO_SPAN ELSE Max(set)

\* The lowest bucket >= c whose bit is set, or NO_SPAN.  Min(word) is
\* trailing_zeros of the word.
FindFirstSetGe(p, c) ==
  LET w       == c \div WordBits
      masked  == {b \in p.l0[w] : b >= c % WordBits}
      lw      == w \div WordBits
      above   == {b \in p.l1[lw] : b > w % WordBits}
      later   == {li \in lw + 1 .. L1Words - 1 : p.l1[li] # {}}
      InWord(nw) == nw * WordBits + Min(p.l0[nw])
  IN  CASE c >= L0Words * WordBits -> NO_SPAN
        [] c < L0Words * WordBits /\ masked # {} -> w * WordBits + Min(masked)
        [] c < L0Words * WordBits /\ masked = {} /\ above # {} ->
             InWord(lw * WordBits + Min(above))
        [] c < L0Words * WordBits /\ masked = {} /\ above = {} /\ later # {} ->
             InWord(Min(later) * WordBits + Min(p.l1[Min(later)]))
        [] OTHER -> NO_SPAN

-----------------------------------------------------------------------------
(* The bucket stacks and the boundary tags. *)

\* Push the run [h, h+c) on the stack of bucket c and stamp its tags.
Link(p, h, c) ==
  LET old == p.bucket_head[c]
      q   == [p EXCEPT
                !.next = [p.next EXCEPT ![h] = old],
                !.prev = [s \in Spans |-> IF s = old THEN h
                                          ELSE IF s = h THEN NO_SPAN
                                          ELSE p.prev[s]],
                !.bucket_head = [p.bucket_head EXCEPT ![c] = h],
                !.head_count = [p.head_count EXCEPT ![h] = c],
                !.tail_count = [p.tail_count EXCEPT ![h + c - 1] = c]]
  IN  BitSet(q, c)

\* Take the run [h, h+c) out of its stack, wherever it is, and clear its tags.
Unlink(p, h, c) ==
  LET before == p.prev[h]
      after  == p.next[h]
      q == [p EXCEPT
              !.next = [s \in Spans |-> IF s = h THEN NO_SPAN
                                        ELSE IF s = before THEN after
                                        ELSE p.next[s]],
              !.prev = [s \in Spans |-> IF s = h THEN NO_SPAN
                                        ELSE IF s = after THEN before
                                        ELSE p.prev[s]],
              !.bucket_head = IF before = NO_SPAN 
                              THEN [p.bucket_head EXCEPT ![c] = after]
                              ELSE p.bucket_head,
              !.head_count = [p.head_count EXCEPT ![h] = 0],
              !.tail_count = [p.tail_count EXCEPT ![h + c - 1] = 0]]
  IN  IF before = NO_SPAN /\ after = NO_SPAN THEN BitClear(q, c) ELSE q

\* Mutants: the tail of a larger run is dropped, or filed one span too low.
PoolAllocNoTail(p, n) ==
  LET m    == IF n \in Counts THEN FindFirstSetGe(p, n) ELSE NO_SPAN
      head == p.bucket_head[m]
  IN  IF m = NO_SPAN THEN [head |-> NO_SPAN, pool |-> p]
      ELSE [head |-> head, pool |-> Unlink(p, head, m)]

PoolAllocOverlap(p, n) ==
  LET m    == IF n \in Counts THEN FindFirstSetGe(p, n) ELSE NO_SPAN
      head == p.bucket_head[m]
      q    == Unlink(p, head, m)
  IN  IF m = NO_SPAN THEN [head |-> NO_SPAN, pool |-> p]
      ELSE [head |-> head,
            pool |-> IF m > n THEN Link(q, head + n - 1, m - n + 1) ELSE q]

\* SpanPool::alloc: the head of a run of n spans (NO_SPAN for None) and the
\* pool after it; the tail of a larger run is filed again.
PoolAlloc(p, n) ==
  LET m    == IF n \in Counts THEN FindFirstSetGe(p, n) ELSE NO_SPAN
      head == p.bucket_head[m]
      q    == Unlink(p, head, m)
  IN  IF m = NO_SPAN
      THEN [head |-> NO_SPAN, pool |-> p]
      ELSE [head |-> head, pool |-> IF m > n THEN Link(q, head + n, m - n) ELSE q]

\* Mutant: a free run on that side is not merged.
NoMerge(p, h, c) == [pool |-> p, head |-> h, count |-> c]

\* The right neighbour of [h, h+c) is consumed if it is a free run's head.
MergeRight(p, h, c) ==
  LET right == h + c
      rc    == IF right < NumSpans THEN p.head_count[right] ELSE 0
  IN  IF rc # 0
      THEN [pool |-> Unlink(p, right, rc), head |-> h, count |-> c + rc]
      ELSE [pool |-> p, head |-> h, count |-> c]

\* The left neighbour of [h, h+c) is consumed if a free run's tail is at h-1.
MergeLeft(p, h, c) ==
  LET lc == IF h > 0 THEN p.tail_count[h - 1] ELSE 0
  IN  IF lc # 0
      THEN [pool |-> Unlink(p, h - lc, lc), head |-> h - lc, count |-> c + lc]
      ELSE [pool |-> p, head |-> h, count |-> c]

\* SpanPool::free: coalesce with the neighbours, then file the run.
PoolFree(p, head, count) ==
  LET r == MergeRight(p, head, count)
      l == MergeLeft(r.pool, r.head, r.count)
  IN  Link(l.pool, l.head, l.count)

-----------------------------------------------------------------------------
(* What a pool holds, and when it is well formed. *)

IsHead(p, h) == p.head_count[h] # 0

\* The spans of the free runs of p.
FreeSpans(p) ==
  {s \in Spans : \E h \in Spans : /\ IsHead(p, h)
                                  /\ h <= s
                                  /\ s < h + p.head_count[h]}

\* The tag at a run's head and the tag at its tail agree, both ways.
TagsAgree(p) ==
  /\ \A h \in Spans : IsHead(p, h) =>
        /\ h + p.head_count[h] <= NumSpans
        /\ p.tail_count[h + p.head_count[h] - 1] = p.head_count[h]
  /\ \A t \in Spans : p.tail_count[t] # 0 =>
        /\ p.tail_count[t] <= t + 1
        /\ p.head_count[t - p.tail_count[t] + 1] = p.tail_count[t]

\* Two free runs neither overlap nor touch (every free coalesces).
RunsApart(p) ==
  \A g, h \in Spans :
     IsHead(p, g) /\ IsHead(p, h) /\ g < h => g + p.head_count[g] < h

\* Next and prev are inverse, stay within a bucket, and start at its head.
StacksAgree(p) ==
  /\ \A h \in Spans : p.next[h] # NO_SPAN =>
        /\ IsHead(p, h)
        /\ p.head_count[p.next[h]] = p.head_count[h]
        /\ p.prev[p.next[h]] = h
  /\ \A h \in Spans : p.prev[h] # NO_SPAN =>
        /\ IsHead(p, h)
        /\ p.head_count[p.prev[h]] = p.head_count[h]
        /\ p.next[p.prev[h]] = h
  /\ \A c \in Counts : p.bucket_head[c] # NO_SPAN =>
        /\ p.head_count[p.bucket_head[c]] = c
        /\ p.prev[p.bucket_head[c]] = NO_SPAN
  /\ \A h \in Spans : IsHead(p, h) /\ p.prev[h] = NO_SPAN =>
        p.bucket_head[p.head_count[h]] = h

\* A bit of l0 is set exactly for a non-empty bucket, a bit of l1 exactly for
\* a non-empty word of l0.
BitsAgree(p) ==
  /\ \A w \in 0 .. L0Words - 1, b \in Bits :
        b \in p.l0[w] <=> /\ w * WordBits + b \in Counts
                          /\ p.bucket_head[w * WordBits + b] # NO_SPAN
  /\ \A v \in 0 .. L1Words - 1, b \in Bits :
        b \in p.l1[v] <=> /\ v * WordBits + b \in 0 .. L0Words - 1
                          /\ p.l0[v * WordBits + b] # {}

PoolOK(p) ==
  /\ p \in PoolType
  /\ TagsAgree(p)
  /\ RunsApart(p)
  /\ StacksAgree(p)
  /\ BitsAgree(p)
=============================================================================
