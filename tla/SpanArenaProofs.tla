-------------------------- MODULE SpanArenaProofs --------------------------
(***************************************************************************)
(* The arena hands every span to at most one owner and loses none, its     *)
(* table and counter describe the runs that are held, and it implements    *)
(* the best-fit allocator of RunAllocator, for any number of threads and   *)
(* spans and any word size; before that, what the operations of the span   *)
(* pool do to a well-formed pool.                                          *)
(***************************************************************************)
EXTENDS SpanArena, WellFoundedInduction, FiniteSetTheorems, TLAPS

-----------------------------------------------------------------------------
(* The span pool. *)

\* A non-empty set of naturals has a minimum, and Min is it.
LEMMA MinNat ==
  ASSUME NEW S \in SUBSET Nat, S # {}
  PROVE  /\ Min(S) \in S
         /\ \A y \in S : Min(S) <= y
<1> DEFINE R == {ss \in Nat \X Nat : ss[1] < ss[2]}
<1>1. IsWellFoundedOn(R, Nat)
  BY NatLessThanWellFounded DEF OpToRel
<1> HIDE DEF R
<1>2. PICK x \in S : \A y \in S : ~(<<y, x>> \in R)
  BY <1>1, WFMin
<1>3. \A y \in S : x <= y
  <2> TAKE y \in S
  <2>1. ~(<<y, x>> \in R)
    BY <1>2
  <2>2. y \in Nat /\ x \in Nat
    OBVIOUS
  <2> QED
    BY <2>1, <2>2 DEF R
<1> QED
  BY <1>3 DEF Min

-----------------------------------------------------------------------------
(* Division by the word size. *)

\* A number is the word it is in, times the word size, plus its bit.
LEMMA WordAndBit ==
  ASSUME NEW a \in Nat
  PROVE  /\ a \div WordBits \in Nat
         /\ a % WordBits \in Bits
         /\ a = (a \div WordBits) * WordBits + (a % WordBits)
  BY WordBitsAssumption DEF Bits

\* A number determines its word and its bit.
LEMMA WordBitUnique ==
  ASSUME NEW w \in Nat, NEW b \in Bits, NEW v \in Nat, NEW d \in Bits,
         w * WordBits + b = v * WordBits + d
  PROVE  w = v /\ b = d
<1>1. \A x \in Nat, y \in Bits : (x * WordBits + y) \div WordBits = x
  BY WordBitsAssumption DEF Bits
<1>2. w = v
  BY <1>1
<1> QED
  BY <1>2, WordBitsAssumption DEF Bits

\* A later word holds greater numbers.
LEMMA WordsAscend ==
  ASSUME NEW w \in Nat, NEW v \in Nat, w < v, NEW b \in Bits, NEW d \in Bits
  PROVE  w * WordBits + b < v * WordBits + d
<1>1. (w + 1) * WordBits <= v * WordBits
  BY WordBitsAssumption
<1> QED
  BY <1>1, WordBitsAssumption DEF Bits

\* The word of a bucket and the summary word of a word are in range.
LEMMA BucketWord ==
  ASSUME NEW c \in 0 .. NumSpans
  PROVE  c \div WordBits \in 0 .. L0Words - 1
<1>1. c \div WordBits <= NumSpans \div WordBits
  BY WordBitsAssumption, NumSpansAssumption
<1>2. (NumSpans + WordBits) \div WordBits = NumSpans \div WordBits + 1
  BY WordBitsAssumption, NumSpansAssumption
<1>3. c \div WordBits \in Nat
  BY WordAndBit, NumSpansAssumption
<1>4. NumSpans \div WordBits \in Nat
  BY WordAndBit, NumSpansAssumption
<1> QED
  BY <1>1, <1>2, <1>3, <1>4 DEF L0Words

\* The word of l1 a word of l0 belongs to, and its bit there.
LEMMA SummaryWord ==
  /\ L0Words \in Nat \ {0}
  /\ L1Words \in Nat
  /\ \A w \in 0 .. L0Words - 1 : w \div WordBits \in 0 .. L1Words - 1
<1>1. L0Words \in Nat \ {0}
  <2>1. 0 \div WordBits \in 0 .. L0Words - 1
    BY BucketWord, NumSpansAssumption
  <2>2. (NumSpans + WordBits) \div WordBits \in Nat
    BY WordAndBit, NumSpansAssumption, WordBitsAssumption
  <2> QED
    BY <2>1, <2>2 DEF L0Words
<1> DEFINE m == L0Words - 1
<1>2. m \in Nat
  BY <1>1
<1>3. L1Words = (m + WordBits) \div WordBits
  <2>1. L0Words + WordBits - 1 = m + WordBits
    BY <1>1, WordBitsAssumption
  <2> QED
    BY <2>1 DEF L1Words
<1> HIDE DEF m
<1>4. (m + WordBits) \div WordBits = m \div WordBits + 1
  BY <1>2, WordBitsAssumption
<1>5. m \div WordBits \in Nat
  BY <1>2, WordAndBit
<1>6. ASSUME NEW w \in 0 .. m PROVE w \div WordBits \in 0 .. L1Words - 1
  <2>1. w \div WordBits <= m \div WordBits
    BY <1>2, WordBitsAssumption
  <2>2. w \div WordBits \in Nat
    BY <1>2, WordAndBit
  <2> QED
    BY <1>3, <1>4, <1>5, <2>1, <2>2
<1> QED
  BY <1>1, <1>3, <1>4, <1>5, <1>6 DEF m

-----------------------------------------------------------------------------
(* The fields of a pool after the bitmap and the stack operations. *)

\* BitSet and BitClear change the bitmap and nothing else.
LEMMA BitSetFields ==
  ASSUME NEW p \in PoolType, NEW c \in Counts
  PROVE  LET q == BitSet(p, c)
             w == c \div WordBits
             v == w \div WordBits
         IN  /\ q.next = p.next /\ q.prev = p.prev /\ q.bucket_head = p.bucket_head
             /\ q.head_count = p.head_count /\ q.tail_count = p.tail_count
             /\ q.l0 = [p.l0 EXCEPT ![w] = p.l0[w] \cup {c % WordBits}]
             /\ q.l1 = [p.l1 EXCEPT ![v] = p.l1[v] \cup {w % WordBits}]
  BY DEF BitSet, PoolType

\* The two levels of the bitmap after bit_clear, word by word.
LEMMA BitClearFields ==
  ASSUME NEW p \in PoolType, NEW c \in Counts
  PROVE  LET q == BitClear(p, c)
             w == c \div WordBits
             v == w \div WordBits
             left == p.l0[w] \ {c % WordBits}
         IN  /\ q.next = p.next /\ q.prev = p.prev /\ q.bucket_head = p.bucket_head
             /\ q.head_count = p.head_count /\ q.tail_count = p.tail_count
             /\ q.l0 = [p.l0 EXCEPT ![w] = left]
             /\ q.l1 = IF left = {} THEN [p.l1 EXCEPT ![v] = p.l1[v] \ {w % WordBits}]
                       ELSE p.l1
  BY DEF BitClear, PoolType

-----------------------------------------------------------------------------
(* The two halves of BitsAgree, over the bitmap levels on their own. *)

L0For(l0, bh) ==
  \A w \in 0 .. L0Words - 1, b \in Bits :
     b \in l0[w] <=> w * WordBits + b \in Counts /\ bh[w * WordBits + b] # NO_SPAN

L1For(l1, l0) ==
  \A v \in 0 .. L1Words - 1, b \in Bits :
     b \in l1[v] <=> v * WordBits + b \in 0 .. L0Words - 1 /\ l0[v * WordBits + b] # {}

\* BitsAgree is one statement about each level of the bitmap.
LEMMA BitsAgreeHalves ==
  ASSUME NEW p
  PROVE  BitsAgree(p) <=> L0For(p.l0, p.bucket_head) /\ L1For(p.l1, p.l0)
  BY DEF BitsAgree, L0For, L1For

L0Type == [0 .. L0Words - 1 -> SUBSET Bits]
L1Type == [0 .. L1Words - 1 -> SUBSET Bits]

\* The bit of bucket c is set or cleared as its stack's head changes.
L0Step(l0, m0, bh, bh2, c) ==
  /\ \A d \in Counts : d # c => bh2[d] = bh[d]
  /\ \A w \in 0 .. L0Words - 1 : w # c \div WordBits => m0[w] = l0[w]
  /\ m0[c \div WordBits] = IF bh2[c] # NO_SPAN
                           THEN l0[c \div WordBits] \cup {c % WordBits}
                           ELSE l0[c \div WordBits] \ {c % WordBits}

\* The summary bit of word w0 is set or cleared as the word changes.
L1Step(l1, m1, l0, m0, w0) ==
  /\ \A w \in 0 .. L0Words - 1 : w # w0 => m0[w] = l0[w]
  /\ \A v \in 0 .. L1Words - 1 : v # w0 \div WordBits => m1[v] = l1[v]
  /\ m1[w0 \div WordBits] = IF m0[w0] # {}
                            THEN l1[w0 \div WordBits] \cup {w0 % WordBits}
                            ELSE l1[w0 \div WordBits] \ {w0 % WordBits}

\* Setting or clearing the bit of bucket c follows a change of its stack's head.
LEMMA L0Change ==
  ASSUME NEW l0 \in L0Type, NEW m0 \in L0Type,
         NEW bh \in [Counts -> Link_t], NEW bh2 \in [Counts -> Link_t],
         NEW c \in Counts, L0For(l0, bh), L0Step(l0, m0, bh, bh2, c)
  PROVE  L0For(m0, bh2)
<1> DEFINE w0 == c \div WordBits
           b0 == c % WordBits
<1>1. w0 \in 0 .. L0Words - 1 /\ b0 \in Bits /\ c = w0 * WordBits + b0
  BY BucketWord, WordAndBit, NumSpansAssumption DEF Counts
<1>2. /\ m0[w0] = IF bh2[c] # NO_SPAN THEN l0[w0] \cup {b0} ELSE l0[w0] \ {b0}
      /\ \A w \in 0 .. L0Words - 1 : w # w0 => m0[w] = l0[w]
      /\ \A d \in Counts : d # c => bh2[d] = bh[d]
  BY DEF L0Step
<1> HIDE DEF w0, b0
<1>3. ASSUME NEW w \in 0 .. L0Words - 1, NEW b \in Bits
      PROVE  b \in m0[w] <=> w * WordBits + b \in Counts /\ bh2[w * WordBits + b] # NO_SPAN
  <2>1. b \in l0[w] <=> w * WordBits + b \in Counts /\ bh[w * WordBits + b] # NO_SPAN
    BY DEF L0For
  <2>2. CASE w = w0 /\ b = b0
    <3>1. w * WordBits + b = c
      BY <1>1, <2>2
    <3> QED
      BY <1>2, <2>2, <3>1
  <2>3. CASE ~(w = w0 /\ b = b0)
    <3>1. w * WordBits + b # c
      <4>1. w \in Nat /\ w0 \in Nat
        BY <1>1
      <4> QED
        BY <1>1, <2>3, <4>1, WordBitUnique
    <3>2. b \in m0[w] <=> b \in l0[w]
      BY <1>2, <2>3
    <3> QED
      BY <1>2, <2>1, <3>1, <3>2
  <2> QED
    BY <2>2, <2>3
<1> QED
  BY <1>3 DEF L0For

\* Setting or clearing the summary bit of word w0 follows a change of the word.
LEMMA L1Change ==
  ASSUME NEW l0 \in L0Type, NEW m0 \in L0Type, NEW l1 \in L1Type, NEW m1 \in L1Type,
         NEW w0 \in 0 .. L0Words - 1, L1For(l1, l0), L1Step(l1, m1, l0, m0, w0)
  PROVE  L1For(m1, m0)
<1> DEFINE v0 == w0 \div WordBits
           b0 == w0 % WordBits
<1>1. v0 \in 0 .. L1Words - 1 /\ b0 \in Bits /\ w0 = v0 * WordBits + b0
  BY SummaryWord, WordAndBit
<1>2. /\ m1[v0] = IF m0[w0] # {} THEN l1[v0] \cup {b0} ELSE l1[v0] \ {b0}
      /\ \A v \in 0 .. L1Words - 1 : v # v0 => m1[v] = l1[v]
      /\ \A w \in 0 .. L0Words - 1 : w # w0 => m0[w] = l0[w]
  BY DEF L1Step
<1> HIDE DEF v0, b0
<1>3. ASSUME NEW v \in 0 .. L1Words - 1, NEW b \in Bits
      PROVE  b \in m1[v] <=> v * WordBits + b \in 0 .. L0Words - 1 /\ m0[v * WordBits + b] # {}
  <2>1. b \in l1[v] <=> v * WordBits + b \in 0 .. L0Words - 1 /\ l0[v * WordBits + b] # {}
    BY DEF L1For
  <2>2. CASE v = v0 /\ b = b0
    <3>1. v * WordBits + b = w0
      BY <1>1, <2>2
    <3> QED
      BY <1>2, <2>2, <3>1
  <2>3. CASE ~(v = v0 /\ b = b0)
    <3>1. v * WordBits + b # w0
      <4>1. v \in Nat /\ v0 \in Nat
        BY <1>1
      <4> QED
        BY <1>1, <2>3, <4>1, WordBitUnique
    <3>2. b \in m1[v] <=> b \in l1[v]
      BY <1>2, <2>3
    <3> QED
      BY <1>2, <2>1, <3>1, <3>2
  <2> QED
    BY <2>2, <2>3
<1> QED
  BY <1>3 DEF L1For

-----------------------------------------------------------------------------
(* Link and Unlink, field by field; both keep the bitmap in step. *)

\* bit_set keeps the bitmap exact when bucket c becomes non-empty
\* (spanpool.rs:97-101).
LEMMA BitSetOK ==
  ASSUME NEW p \in PoolType, NEW c \in Counts, NEW bh \in [Counts -> Link_t],
         NEW x \in Link_t, x # NO_SPAN, p.bucket_head = [bh EXCEPT ![c] = x],
         L0For(p.l0, bh), L1For(p.l1, p.l0)
  PROVE  BitSet(p, c) \in PoolType /\ BitsAgree(BitSet(p, c))
<1> DEFINE q == BitSet(p, c)
           w == c \div WordBits
<1>0. p.l0 \in L0Type /\ p.l1 \in L1Type /\ p.bucket_head \in [Counts -> Link_t]
  BY DEF PoolType, L0Type, L1Type
<1>1. /\ q.l0 = [p.l0 EXCEPT ![w] = p.l0[w] \cup {c % WordBits}]
      /\ q.l1 = [p.l1 EXCEPT ![w \div WordBits] = p.l1[w \div WordBits] \cup {w % WordBits}]
      /\ q.bucket_head = p.bucket_head
      /\ q = [p EXCEPT !.l0 = q.l0, !.l1 = q.l1]
  BY DEF BitSet, PoolType
<1>2. w \in 0 .. L0Words - 1 /\ c % WordBits \in Bits
  BY BucketWord, WordAndBit, NumSpansAssumption DEF Counts
<1> HIDE DEF q
<1>3. q.l0 \in L0Type
  <2>1. p.l0[w] \cup {c % WordBits} \in SUBSET Bits
    BY <1>0, <1>2 DEF L0Type
  <2> HIDE DEF w
  <2> QED
    BY <1>0, <1>1, <1>2, <2>1 DEF L0Type
<1>4. L0For(q.l0, p.bucket_head)
  <2>1. \A d \in Counts : d # c => p.bucket_head[d] = bh[d]
    OBVIOUS
  <2>2. q.l0[c \div WordBits] = p.l0[c \div WordBits] \cup {c % WordBits}
    BY <1>0, <1>1, <1>2 DEF L0Type
  <2>3. \A u \in 0 .. L0Words - 1 : u # c \div WordBits => q.l0[u] = p.l0[u]
    BY <1>0, <1>1 DEF L0Type
  <2>4. p.bucket_head[c] # NO_SPAN
    OBVIOUS
  <2>5. L0Step(p.l0, q.l0, bh, p.bucket_head, c)
    BY <2>1, <2>2, <2>3, <2>4 DEF L0Step
  <2> QED
    BY <1>0, <1>3, <2>5, L0Change
<1>5. q.l0[w] # {} /\ \A u \in 0 .. L0Words - 1 : u # w => q.l0[u] = p.l0[u]
  BY <1>0, <1>1, <1>2, ZenonT(60) DEF L0Type
<1> HIDE DEF w
<1>6. w \div WordBits \in 0 .. L1Words - 1 /\ w % WordBits \in Bits
  BY <1>2, SummaryWord, WordAndBit
<1>7. q.l1 \in L1Type
  <2>1. p.l1[w \div WordBits] \cup {w % WordBits} \in SUBSET Bits
    BY <1>0, <1>6 DEF L1Type
  <2> QED
    BY <1>0, <1>1, <1>6, <2>1 DEF L1Type
<1>8. L1For(q.l1, q.l0)
  <2>1. q.l1[w \div WordBits] = p.l1[w \div WordBits] \cup {w % WordBits}
    BY <1>0, <1>1, <1>6 DEF L1Type
  <2>2. \A v \in 0 .. L1Words - 1 : v # w \div WordBits => q.l1[v] = p.l1[v]
    BY <1>0, <1>1 DEF L1Type
  <2>3. L1Step(p.l1, q.l1, p.l0, q.l0, w)
    BY <1>5, <2>1, <2>2 DEF L1Step
  <2> QED
    BY <1>0, <1>2, <1>3, <1>7, <2>3, L1Change
<1>9. BitsAgree(q)
  BY <1>1, <1>4, <1>8, BitsAgreeHalves
<1>10. q \in PoolType
  BY <1>1, <1>3, <1>7 DEF PoolType, L0Type, L1Type
<1> QED
  BY <1>9, <1>10 DEF q

\* bit_clear keeps the bitmap exact when bucket c becomes empty
\* (spanpool.rs:104-110).
LEMMA BitClearOK ==
  ASSUME NEW p \in PoolType, NEW c \in Counts, NEW bh \in [Counts -> Link_t],
         p.bucket_head = [bh EXCEPT ![c] = NO_SPAN],
         L0For(p.l0, bh), L1For(p.l1, p.l0)
  PROVE  BitClear(p, c) \in PoolType /\ BitsAgree(BitClear(p, c))
<1> DEFINE q == BitClear(p, c)
           w == c \div WordBits
<1>0. p.l0 \in L0Type /\ p.l1 \in L1Type /\ p.bucket_head \in [Counts -> Link_t]
  BY DEF PoolType, L0Type, L1Type
<1>1. /\ q.l0 = [p.l0 EXCEPT ![w] = p.l0[w] \ {c % WordBits}]
      /\ q.l1 = IF p.l0[w] \ {c % WordBits} = {}
                THEN [p.l1 EXCEPT ![w \div WordBits] = p.l1[w \div WordBits] \ {w % WordBits}]
                ELSE p.l1
      /\ q.bucket_head = p.bucket_head
      /\ q = [p EXCEPT !.l0 = q.l0, !.l1 = q.l1]
  BY DEF BitClear, PoolType
<1>2. w \in 0 .. L0Words - 1 /\ c % WordBits \in Bits
  BY BucketWord, WordAndBit, NumSpansAssumption DEF Counts
<1> HIDE DEF q
<1>3. q.l0 \in L0Type
  BY <1>0, <1>1, <1>2 DEF L0Type
<1>4. L0For(q.l0, p.bucket_head)
  <2>1. \A d \in Counts : d # c => p.bucket_head[d] = bh[d]
    OBVIOUS
  <2>2. q.l0[c \div WordBits] = p.l0[c \div WordBits] \ {c % WordBits}
    BY <1>0, <1>1, <1>2 DEF L0Type
  <2>3. \A u \in 0 .. L0Words - 1 : u # c \div WordBits => q.l0[u] = p.l0[u]
    BY <1>0, <1>1 DEF L0Type
  <2>4. p.bucket_head[c] = NO_SPAN
    OBVIOUS
  <2>5. L0Step(p.l0, q.l0, bh, p.bucket_head, c)
    BY <2>1, <2>2, <2>3, <2>4 DEF L0Step
  <2> QED
    BY <1>0, <1>3, <2>5, L0Change
<1>5. /\ q.l0[w] = p.l0[w] \ {c % WordBits}
      /\ \A u \in 0 .. L0Words - 1 : u # w => q.l0[u] = p.l0[u]
  BY <1>0, <1>1, <1>2 DEF L0Type
<1> HIDE DEF w
<1>6. /\ w \div WordBits \in 0 .. L1Words - 1 /\ w % WordBits \in Bits
      /\ w = (w \div WordBits) * WordBits + (w % WordBits)
  BY <1>2, SummaryWord, WordAndBit
<1>7. q.l1 \in L1Type
  BY <1>0, <1>1, <1>6, ZenonT(60) DEF L1Type
<1>8. L1For(q.l1, q.l0)
  <2>1. q.l0[w] = {} => q.l1[w \div WordBits] = p.l1[w \div WordBits] \ {w % WordBits}
    BY <1>0, <1>1, <1>5, <1>6 DEF L1Type
  <2>2. q.l0[w] # {} => q.l1[w \div WordBits] = p.l1[w \div WordBits] \cup {w % WordBits}
    <3>1. SUFFICES ASSUME q.l0[w] # {}
                   PROVE  w % WordBits \in p.l1[w \div WordBits]
      BY <1>1, <1>5
    <3>2. p.l0[w] # {}
      BY <1>5, <3>1
    <3> QED
      BY <1>2, <1>6, <3>2 DEF L1For
  <2>3. \A v \in 0 .. L1Words - 1 : v # w \div WordBits => q.l1[v] = p.l1[v]
    BY <1>0, <1>1 DEF L1Type
  <2>4. L1Step(p.l1, q.l1, p.l0, q.l0, w)
    BY <1>5, <2>1, <2>2, <2>3 DEF L1Step
  <2> QED
    BY <1>0, <1>2, <1>3, <1>7, <2>4, L1Change
<1>9. BitsAgree(q)
  BY <1>1, <1>4, <1>8, BitsAgreeHalves
<1>10. q \in PoolType
  BY <1>1, <1>3, <1>7 DEF PoolType, L0Type, L1Type
<1> QED
  BY <1>9, <1>10 DEF q

\* The fields of the pool after link, entry by entry (spanpool.rs:151-164).
LEMMA LinkFields ==
  ASSUME NEW p \in PoolType, BitsAgree(p),
         NEW h \in Spans, NEW c \in Counts, h + c <= NumSpans
  PROVE  LET q   == Link(p, h, c)
             old == p.bucket_head[c]
         IN  /\ q \in PoolType
             /\ BitsAgree(q)
             /\ q.next = [p.next EXCEPT ![h] = old]
             /\ q.prev = [s \in Spans |-> IF s = old THEN h ELSE IF s = h THEN NO_SPAN
                                          ELSE p.prev[s]]
             /\ q.bucket_head = [p.bucket_head EXCEPT ![c] = h]
             /\ q.head_count = [p.head_count EXCEPT ![h] = c]
             /\ q.tail_count = [p.tail_count EXCEPT ![h + c - 1] = c]
<1> DEFINE old == p.bucket_head[c]
           r == [p EXCEPT
                   !.next = [p.next EXCEPT ![h] = old],
                   !.prev = [s \in Spans |-> IF s = old THEN h
                                             ELSE IF s = h THEN NO_SPAN
                                             ELSE p.prev[s]],
                   !.bucket_head = [p.bucket_head EXCEPT ![c] = h],
                   !.head_count = [p.head_count EXCEPT ![h] = c],
                   !.tail_count = [p.tail_count EXCEPT ![h + c - 1] = c]]
<1>1. Link(p, h, c) = BitSet(r, c)
  BY DEF Link
<1>2. h \in Link_t /\ h # NO_SPAN /\ NO_SPAN \in Link_t /\ c \in 0 .. NumSpans /\ h + c - 1 \in Spans
  BY NumSpansAssumption DEF Link_t, Spans, NO_SPAN, Counts
<1>3. r \in PoolType
  BY <1>2 DEF PoolType
<1>4. /\ r.next = [p.next EXCEPT ![h] = old]
      /\ r.prev = [s \in Spans |-> IF s = old THEN h ELSE IF s = h THEN NO_SPAN
                                   ELSE p.prev[s]]
      /\ r.bucket_head = [p.bucket_head EXCEPT ![c] = h]
      /\ r.head_count = [p.head_count EXCEPT ![h] = c]
      /\ r.tail_count = [p.tail_count EXCEPT ![h + c - 1] = c]
      /\ r.l0 = p.l0 /\ r.l1 = p.l1
  BY DEF PoolType
<1>5. p.bucket_head \in [Counts -> Link_t]
  BY DEF PoolType
<1>6. L0For(p.l0, p.bucket_head) /\ L1For(p.l1, p.l0)
  BY BitsAgreeHalves
<1> HIDE DEF r
<1>7. BitSet(r, c) \in PoolType /\ BitsAgree(BitSet(r, c))
  BY <1>2, <1>3, <1>4, <1>5, <1>6, BitSetOK
<1> DEFINE q == BitSet(r, c)
<1>8. /\ q.next = r.next /\ q.prev = r.prev /\ q.bucket_head = r.bucket_head
      /\ q.head_count = r.head_count /\ q.tail_count = r.tail_count
  BY <1>3, BitSetFields
<1>9. Link(p, h, c) = q
  BY <1>1
<1> HIDE DEF q
<1> QED
  BY <1>4, <1>7, <1>8, <1>9 DEF q

\* NextWithout and PrevWithout are the links of a stack that h has left.
NextWithout(p, h) == [s \in Spans |-> IF s = h THEN NO_SPAN
                                      ELSE IF s = p.prev[h] THEN p.next[h] ELSE p.next[s]]
PrevWithout(p, h) == [s \in Spans |-> IF s = h THEN NO_SPAN
                                      ELSE IF s = p.next[h] THEN p.prev[h] ELSE p.prev[s]]
HeadWithout(p, h, c) == IF p.prev[h] = NO_SPAN THEN [p.bucket_head EXCEPT ![c] = p.next[h]]
                                               ELSE p.bucket_head

\* The fields of the pool after unlink, entry by entry (spanpool.rs:169-189).
LEMMA UnlinkFields ==
  ASSUME NEW p, PoolOK(p), NEW h \in Spans, NEW c \in Counts, p.head_count[h] = c
  PROVE  LET q == Unlink(p, h, c)
         IN  /\ q \in PoolType
             /\ BitsAgree(q)
             /\ q.next = NextWithout(p, h)
             /\ q.prev = PrevWithout(p, h)
             /\ q.bucket_head = HeadWithout(p, h, c)
             /\ q.head_count = [p.head_count EXCEPT ![h] = 0]
             /\ q.tail_count = [p.tail_count EXCEPT ![h + c - 1] = 0]
<1> DEFINE r == [p EXCEPT
                   !.next = NextWithout(p, h),
                   !.prev = PrevWithout(p, h),
                   !.bucket_head = HeadWithout(p, h, c),
                   !.head_count = [p.head_count EXCEPT ![h] = 0],
                   !.tail_count = [p.tail_count EXCEPT ![h + c - 1] = 0]]
<1>1. Unlink(p, h, c) = IF p.prev[h] = NO_SPAN /\ p.next[h] = NO_SPAN THEN BitClear(r, c) ELSE r
  BY DEF Unlink, NextWithout, PrevWithout, HeadWithout
<1>2. p \in PoolType /\ TagsAgree(p) /\ StacksAgree(p) /\ BitsAgree(p)
  BY DEF PoolOK
<1>3. /\ p.next[h] \in Link_t /\ p.prev[h] \in Link_t /\ NO_SPAN \in Link_t
      /\ 0 \in 0 .. NumSpans /\ p.bucket_head \in [Counts -> Link_t]
  BY <1>2, NumSpansAssumption DEF PoolType, Link_t
<1>4. /\ NextWithout(p, h) \in [Spans -> Link_t]
      /\ PrevWithout(p, h) \in [Spans -> Link_t]
      /\ HeadWithout(p, h, c) \in [Counts -> Link_t]
      /\ [p.head_count EXCEPT ![h] = 0] \in [Spans -> 0 .. NumSpans]
      /\ [p.tail_count EXCEPT ![h + c - 1] = 0] \in [Spans -> 0 .. NumSpans]
  <2>1. NextWithout(p, h) \in [Spans -> Link_t]
    BY <1>2, <1>3 DEF PoolType, NextWithout
  <2>2. PrevWithout(p, h) \in [Spans -> Link_t]
    BY <1>2, <1>3 DEF PoolType, PrevWithout
  <2>3. HeadWithout(p, h, c) \in [Counts -> Link_t]
    BY <1>3 DEF HeadWithout
  <2>4. /\ [p.head_count EXCEPT ![h] = 0] \in [Spans -> 0 .. NumSpans]
        /\ [p.tail_count EXCEPT ![h + c - 1] = 0] \in [Spans -> 0 .. NumSpans]
    BY <1>2, <1>3 DEF PoolType
  <2> QED
    BY <2>1, <2>2, <2>3, <2>4
<1>5. r \in PoolType
  BY <1>2, <1>4 DEF PoolType
<1>6. /\ r.next = NextWithout(p, h) /\ r.prev = PrevWithout(p, h)
      /\ r.bucket_head = HeadWithout(p, h, c)
      /\ r.head_count = [p.head_count EXCEPT ![h] = 0]
      /\ r.tail_count = [p.tail_count EXCEPT ![h + c - 1] = 0]
      /\ r.l0 = p.l0 /\ r.l1 = p.l1
  BY <1>2 DEF PoolType
<1>7. L0For(p.l0, p.bucket_head) /\ L1For(p.l1, p.l0)
  BY <1>2, BitsAgreeHalves
<1> HIDE DEF r
<1>8. CASE p.prev[h] = NO_SPAN /\ p.next[h] = NO_SPAN
  <2>1. r.bucket_head = [p.bucket_head EXCEPT ![c] = NO_SPAN]
    BY <1>6, <1>8 DEF HeadWithout
  <2>2. BitClear(r, c) \in PoolType /\ BitsAgree(BitClear(r, c))
    BY <1>3, <1>5, <1>6, <1>7, <2>1, BitClearOK
  <2> DEFINE q == BitClear(r, c)
  <2>3. /\ q.next = r.next /\ q.prev = r.prev /\ q.bucket_head = r.bucket_head
        /\ q.head_count = r.head_count /\ q.tail_count = r.tail_count
    BY <1>5, BitClearFields
  <2>4. Unlink(p, h, c) = q
    BY <1>1, <1>8
  <2> HIDE DEF q
  <2> QED
    BY <1>6, <2>2, <2>3, <2>4 DEF q
<1>9. CASE ~(p.prev[h] = NO_SPAN /\ p.next[h] = NO_SPAN)
  <2>1. Unlink(p, h, c) = r
    BY <1>1, <1>9
  <2>2. \A d \in Counts : r.bucket_head[d] # NO_SPAN <=> p.bucket_head[d] # NO_SPAN
    <3>1. CASE p.prev[h] = NO_SPAN
      <4>1. IsHead(p, h)
        BY DEF IsHead, Counts
      <4>2. p.bucket_head[c] = h
        BY <1>2, <3>1, <4>1 DEF StacksAgree
      <4>3. h # NO_SPAN
        BY DEF Spans, NO_SPAN
      <4>4. r.bucket_head = [p.bucket_head EXCEPT ![c] = p.next[h]]
        BY <1>6, <3>1 DEF HeadWithout
      <4> QED
        BY <1>3, <1>9, <3>1, <4>2, <4>3, <4>4
    <3>2. CASE p.prev[h] # NO_SPAN
      BY <1>6, <3>2 DEF HeadWithout
    <3> QED
      BY <3>1, <3>2
  <2>3. L0For(r.l0, r.bucket_head)
    BY <1>6, <1>7, <2>2 DEF L0For
  <2>4. BitsAgree(r)
    BY <1>6, <1>7, <2>3, BitsAgreeHalves
  <2> QED
    BY <1>5, <1>6, <2>1, <2>4
<1> QED
  BY <1>8, <1>9

-----------------------------------------------------------------------------
(* Link and Unlink keep the pool well formed. *)

\* The run [h, h+c) neither overlaps nor touches a free run of p.
RunApart(p, h, c) ==
  \A g \in Spans : IsHead(p, g) => g + p.head_count[g] < h \/ h + c < g

\* Filing a run that touches no free run adds its spans.
LEMMA LinkOK ==
  ASSUME NEW p, PoolOK(p), NEW h \in Spans, NEW c \in Counts, h + c <= NumSpans,
         RunApart(p, h, c)
  PROVE  /\ PoolOK(Link(p, h, c))
         /\ FreeSpans(Link(p, h, c)) = FreeSpans(p) \cup Run(h, c)
<1> DEFINE q == Link(p, h, c)
           old == p.bucket_head[c]
<1>1. p \in PoolType /\ TagsAgree(p) /\ RunsApart(p) /\ StacksAgree(p) /\ BitsAgree(p)
  BY DEF PoolOK
<1>2. /\ q \in PoolType
      /\ BitsAgree(q)
      /\ q.next = [p.next EXCEPT ![h] = old]
      /\ q.prev = [s \in Spans |-> IF s = old THEN h ELSE IF s = h THEN NO_SPAN
                                   ELSE p.prev[s]]
      /\ q.bucket_head = [p.bucket_head EXCEPT ![c] = h]
      /\ q.head_count = [p.head_count EXCEPT ![h] = c]
      /\ q.tail_count = [p.tail_count EXCEPT ![h + c - 1] = c]
  BY <1>1, LinkFields
<1> HIDE DEF q
<1>3. /\ p.next \in [Spans -> Link_t] /\ p.prev \in [Spans -> Link_t]
      /\ p.bucket_head \in [Counts -> Link_t]
      /\ p.head_count \in [Spans -> 0 .. NumSpans]
      /\ p.tail_count \in [Spans -> 0 .. NumSpans]
  BY <1>1 DEF PoolType
<1>4. p.head_count[h] = 0
  BY <1>3, NumSpansAssumption DEF RunApart, IsHead, Spans, Counts
<1>5. p.tail_count[h + c - 1] = 0
  <2> DEFINE t == h + c - 1
             g == t - p.tail_count[t] + 1
  <2>0. t \in Spans /\ p.tail_count[t] \in 0 .. NumSpans
    BY <1>3, NumSpansAssumption, SMTT(30) DEF Spans, Counts
  <2>1. SUFFICES ASSUME p.tail_count[t] # 0 PROVE FALSE
    OBVIOUS
  <2>2. p.tail_count[t] <= t + 1 /\ p.head_count[g] = p.tail_count[t]
    BY <1>1, <2>0, <2>1 DEF TagsAgree
  <2>3. g \in Spans
    BY <2>0, <2>1, <2>2, NumSpansAssumption DEF Spans
  <2>4. g + p.head_count[g] < h \/ h + c < g
    BY <2>1, <2>2, <2>3 DEF RunApart, IsHead
  <2> QED
    BY <2>0, <2>1, <2>2, <2>4, NumSpansAssumption DEF Spans, Counts
<1>6. \A g \in Spans : q.head_count[g] = IF g = h THEN c ELSE p.head_count[g]
  BY <1>2, <1>3
<1>7. \A t \in Spans : q.tail_count[t] = IF t = h + c - 1 THEN c ELSE p.tail_count[t]
  BY <1>2, <1>3
<1>8. TagsAgree(q)
  <2>1. ASSUME NEW g \in Spans, IsHead(q, g)
        PROVE  /\ g + q.head_count[g] <= NumSpans
               /\ q.tail_count[g + q.head_count[g] - 1] = q.head_count[g]
    <3>1. CASE g = h
      <4>1. h + c - 1 \in Spans
        BY NumSpansAssumption DEF Spans, Counts
      <4> QED
        BY <1>6, <1>7, <3>1, <4>1
    <3>2. CASE g # h
      <4>1. q.head_count[g] = p.head_count[g] /\ IsHead(p, g) /\ p.head_count[g] \in 0 .. NumSpans
        BY <1>3, <1>6, <2>1, <3>2 DEF IsHead
      <4>2. /\ g + p.head_count[g] <= NumSpans
            /\ p.tail_count[g + p.head_count[g] - 1] = p.head_count[g]
        BY <1>1, <4>1 DEF TagsAgree
      <4>3. g + p.head_count[g] < h \/ h + c < g
        BY <4>1 DEF RunApart
      <4>4. g + p.head_count[g] - 1 \in Spans /\ g + p.head_count[g] - 1 # h + c - 1
        BY <4>1, <4>2, <4>3, NumSpansAssumption DEF Spans, Counts, IsHead
      <4> QED
        BY <1>7, <4>1, <4>2, <4>4
    <3> QED
      BY <3>1, <3>2
  <2>2. ASSUME NEW t \in Spans, q.tail_count[t] # 0
        PROVE  /\ q.tail_count[t] <= t + 1
               /\ q.head_count[t - q.tail_count[t] + 1] = q.tail_count[t]
    <3>1. CASE t = h + c - 1
      <4>1. t - c + 1 = h /\ c <= t + 1
        BY <3>1 DEF Spans, Counts
      <4> QED
        BY <1>6, <1>7, <3>1, <4>1
    <3>2. CASE t # h + c - 1
      <4>1. q.tail_count[t] = p.tail_count[t] /\ p.tail_count[t] \in 0 .. NumSpans
        BY <1>3, <1>7, <3>2
      <4>2. /\ p.tail_count[t] <= t + 1
            /\ p.head_count[t - p.tail_count[t] + 1] = p.tail_count[t]
        BY <1>1, <2>2, <4>1 DEF TagsAgree
      <4>3. t - p.tail_count[t] + 1 \in Spans
        BY <2>2, <4>1, <4>2, NumSpansAssumption DEF Spans
      <4> QED
        BY <1>4, <1>6, <2>2, <4>1, <4>2, <4>3
    <3> QED
      BY <3>1, <3>2
  <2> QED
    BY <2>1, <2>2 DEF TagsAgree
<1>9. RunsApart(q)
  <2> SUFFICES ASSUME NEW g \in Spans, NEW k \in Spans,
                      IsHead(q, g), IsHead(q, k), g < k
               PROVE  g + q.head_count[g] < k
    BY DEF RunsApart
  <2>0. h \in Int /\ c \in Int /\ c > 0 /\ g \in Int /\ k \in Int
        /\ p.head_count[g] \in Nat /\ p.head_count[k] \in Nat
    <3>1. p.head_count[g] \in 0 .. NumSpans /\ p.head_count[k] \in 0 .. NumSpans
      BY <1>3
    <3> QED
      BY <3>1, NumSpansAssumption DEF Spans, Counts
  <2>1. CASE g = h
    <3>1. IsHead(p, k)
      BY <1>6, <2>0, <2>1 DEF IsHead
    <3>2. k + p.head_count[k] < h \/ h + c < k
      BY <3>1 DEF RunApart
    <3>3. q.head_count[g] = c
      BY <1>6, <2>1
    <3> QED
      BY <2>0, <2>1, <3>2, <3>3
  <2>2. CASE k = h
    <3>1. IsHead(p, g) /\ q.head_count[g] = p.head_count[g]
      BY <1>6, <2>0, <2>2 DEF IsHead
    <3>2. g + p.head_count[g] < h \/ h + c < g
      BY <3>1 DEF RunApart
    <3> QED
      BY <2>0, <2>2, <3>1, <3>2
  <2>3. CASE g # h /\ k # h
    BY <1>1, <1>6, <2>3 DEF RunsApart, IsHead
  <2> QED
    BY <2>1, <2>2, <2>3
<1>10. StacksAgree(q)
  <2>0. /\ h # NO_SPAN /\ h \in Link_t /\ c # 0
        /\ old \in Link_t /\ old # h
        /\ old # NO_SPAN => old \in Spans /\ p.head_count[old] = c /\ p.prev[old] = NO_SPAN
    <3>1. h # NO_SPAN /\ h \in Link_t /\ c # 0
      BY DEF Link_t, Spans, Counts, NO_SPAN
    <3>2. old \in Link_t
      BY <1>3
    <3>3. old # NO_SPAN => old \in Spans /\ p.head_count[old] = c /\ p.prev[old] = NO_SPAN
      BY <1>1, <3>2 DEF StacksAgree, Link_t
    <3> HIDE DEF old
    <3> QED
      BY <1>4, <3>1, <3>2, <3>3
  <2>1. /\ \A g \in Spans : q.next[g] = IF g = h THEN old ELSE p.next[g]
        /\ \A g \in Spans : q.prev[g] = IF g = old THEN h ELSE IF g = h THEN NO_SPAN ELSE p.prev[g]
        /\ \A d \in Counts : q.bucket_head[d] = IF d = c THEN h ELSE p.bucket_head[d]
    BY <1>2, <1>3
  <2>2. \A g \in Spans : /\ p.next[g] # NO_SPAN => p.next[g] \in Spans
                         /\ p.prev[g] # NO_SPAN => p.prev[g] \in Spans
    BY <1>3 DEF Link_t
  <2>3. \A d \in Counts : p.bucket_head[d] # NO_SPAN => p.bucket_head[d] \in Spans
    BY <1>3 DEF Link_t
  <2> HIDE DEF old
  <2>4. \A g \in Spans : q.next[g] # NO_SPAN =>
           /\ IsHead(q, g)
           /\ q.head_count[q.next[g]] = q.head_count[g]
           /\ q.prev[q.next[g]] = g
    <3> SUFFICES ASSUME NEW g \in Spans, q.next[g] # NO_SPAN
                 PROVE  /\ IsHead(q, g)
                        /\ q.head_count[q.next[g]] = q.head_count[g]
                        /\ q.prev[q.next[g]] = g
      OBVIOUS
    <3>1. CASE g = h
      BY <1>6, <2>0, <2>1, <3>1 DEF IsHead
    <3>2. CASE g # h
      <4> DEFINE x == p.next[g]
      <4>1. q.next[g] = x /\ x \in Spans
        BY <2>1, <2>2, <3>2
      <4>2. p.head_count[g] # 0 /\ p.head_count[x] = p.head_count[g] /\ p.prev[x] = g
        BY <1>1, <2>1, <3>2 DEF StacksAgree, IsHead
      <4>3. x # h /\ x # old
        <5>1. g # NO_SPAN
          BY DEF Spans, NO_SPAN
        <5> QED
          BY <1>4, <2>0, <4>1, <4>2, <5>1
      <4> HIDE DEF x
      <4> QED
        BY <1>6, <2>1, <3>2, <4>1, <4>2, <4>3 DEF IsHead
    <3> QED
      BY <3>1, <3>2
  <2>5. \A g \in Spans : q.prev[g] # NO_SPAN =>
           /\ IsHead(q, g)
           /\ q.head_count[q.prev[g]] = q.head_count[g]
           /\ q.next[q.prev[g]] = g
    <3> SUFFICES ASSUME NEW g \in Spans, q.prev[g] # NO_SPAN
                 PROVE  /\ IsHead(q, g)
                        /\ q.head_count[q.prev[g]] = q.head_count[g]
                        /\ q.next[q.prev[g]] = g
      OBVIOUS
    <3>1. CASE g = old
      <4>1. g # NO_SPAN
        BY DEF Spans, NO_SPAN
      <4> QED
        BY <1>6, <2>0, <2>1, <3>1, <4>1 DEF IsHead
    <3>2. CASE g # old
      <4> DEFINE x == p.prev[g]
      <4>1. g # h /\ q.prev[g] = x /\ x \in Spans
        BY <2>1, <2>2, <3>2
      <4>2. p.head_count[g] # 0 /\ p.head_count[x] = p.head_count[g] /\ p.next[x] = g
        BY <1>1, <2>1, <3>2, <4>1 DEF StacksAgree, IsHead
      <4>3. x # h
        BY <1>4, <4>2
      <4> HIDE DEF x
      <4> QED
        BY <1>6, <2>1, <4>1, <4>2, <4>3 DEF IsHead
    <3> QED
      BY <3>1, <3>2
  <2>6. \A d \in Counts : q.bucket_head[d] # NO_SPAN =>
           /\ q.head_count[q.bucket_head[d]] = d
           /\ q.prev[q.bucket_head[d]] = NO_SPAN
    <3>1. \A d \in Counts : d # 0
      BY DEF Counts
    <3> QED
      BY <1>1, <1>4, <1>6, <2>0, <2>1, <2>3, <3>1 DEF StacksAgree, IsHead
  <2>7. \A g \in Spans : IsHead(q, g) /\ q.prev[g] = NO_SPAN =>
           q.bucket_head[q.head_count[g]] = g
    <3> SUFFICES ASSUME NEW g \in Spans, IsHead(q, g), q.prev[g] = NO_SPAN
                 PROVE  q.bucket_head[q.head_count[g]] = g
      OBVIOUS
    <3>1. CASE g = h
      BY <1>6, <2>1, <3>1
    <3>2. CASE g # h
      <4>1. IsHead(p, g) /\ p.prev[g] = NO_SPAN /\ g # old /\ q.head_count[g] = p.head_count[g]
        BY <1>6, <2>0, <2>1, <3>2 DEF IsHead
      <4>2. p.bucket_head[p.head_count[g]] = g
        BY <1>1, <4>1 DEF StacksAgree
      <4>3. p.head_count[g] \in Counts /\ p.head_count[g] # c
        BY <1>3, <4>1, <4>2, NumSpansAssumption DEF IsHead, Counts, old
      <4> QED
        BY <2>1, <4>1, <4>2, <4>3
    <3> QED
      BY <3>1, <3>2
  <2> QED
    BY <2>4, <2>5, <2>6, <2>7 DEF StacksAgree
<1>11. FreeSpans(q) = FreeSpans(p) \cup Run(h, c)
  <2>1. \A s \in Run(h, c) : s \in Spans /\ h <= s /\ s < h + c
    BY NumSpansAssumption DEF Run, Spans, Counts
  <2>2. \A s \in Spans : h <= s /\ s < h + c => s \in Run(h, c)
    BY DEF Run, Spans, Counts
  <2>3. \A g \in Spans : IsHead(q, g) <=> (g = h \/ IsHead(p, g))
    BY <1>6 DEF IsHead, Counts
  <2>4. \A s : s \in FreeSpans(q) => s \in FreeSpans(p) \cup Run(h, c)
    BY <1>6, <2>2, <2>3 DEF FreeSpans
  <2>5. \A s : s \in Run(h, c) => s \in FreeSpans(q)
    BY <1>6, <2>1, <2>3 DEF FreeSpans
  <2>6. \A s : s \in FreeSpans(p) => s \in FreeSpans(q)
    BY <1>4, <1>6, <2>3 DEF FreeSpans, IsHead
  <2> QED
    BY <2>4, <2>5, <2>6
<1> QED
  BY <1>2, <1>8, <1>9, <1>10, <1>11 DEF PoolOK, q

\* Taking out a free run removes its spans, wherever it is in its stack.
LEMMA UnlinkOK ==
  ASSUME NEW p, PoolOK(p), NEW h \in Spans, NEW c \in Counts, p.head_count[h] = c
  PROVE  /\ PoolOK(Unlink(p, h, c))
         /\ FreeSpans(Unlink(p, h, c)) = FreeSpans(p) \ Run(h, c)
         /\ Run(h, c) \subseteq FreeSpans(p)
         /\ h + c <= NumSpans
         /\ \A g \in Spans : Unlink(p, h, c).head_count[g]
                               = IF g = h THEN 0 ELSE p.head_count[g]
<1> DEFINE q == Unlink(p, h, c)
           before == p.prev[h]
           after == p.next[h]
<1>1. p \in PoolType /\ TagsAgree(p) /\ RunsApart(p) /\ StacksAgree(p) /\ BitsAgree(p)
  BY DEF PoolOK
<1>2. /\ q \in PoolType
      /\ BitsAgree(q)
      /\ q.next = NextWithout(p, h)
      /\ q.prev = PrevWithout(p, h)
      /\ q.bucket_head = HeadWithout(p, h, c)
      /\ q.head_count = [p.head_count EXCEPT ![h] = 0]
      /\ q.tail_count = [p.tail_count EXCEPT ![h + c - 1] = 0]
  BY UnlinkFields
<1> HIDE DEF q
<1>3. /\ p.next \in [Spans -> Link_t] /\ p.prev \in [Spans -> Link_t]
      /\ p.bucket_head \in [Counts -> Link_t]
      /\ p.head_count \in [Spans -> 0 .. NumSpans]
      /\ p.tail_count \in [Spans -> 0 .. NumSpans]
  BY <1>1 DEF PoolType
<1>4. c # 0 /\ IsHead(p, h) /\ h # NO_SPAN /\ h \in Int /\ c \in Int /\ c > 0
  BY DEF IsHead, Counts, Spans, NO_SPAN
<1>5. h + c <= NumSpans /\ p.tail_count[h + c - 1] = c
  BY <1>1, <1>4 DEF TagsAgree
<1>6. \A g \in Spans : q.head_count[g] = IF g = h THEN 0 ELSE p.head_count[g]
  BY <1>2, <1>3
<1>7. \A t \in Spans : q.tail_count[t] = IF t = h + c - 1 THEN 0 ELSE p.tail_count[t]
  BY <1>2, <1>3
<1>8. TagsAgree(q)
  <2>1. ASSUME NEW g \in Spans, IsHead(q, g)
        PROVE  /\ g + q.head_count[g] <= NumSpans
               /\ q.tail_count[g + q.head_count[g] - 1] = q.head_count[g]
    <3>1. g # h /\ q.head_count[g] = p.head_count[g] /\ IsHead(p, g) /\ p.head_count[g] \in 0 .. NumSpans
      BY <1>3, <1>6, <2>1 DEF IsHead
    <3>2. /\ g + p.head_count[g] <= NumSpans
          /\ p.tail_count[g + p.head_count[g] - 1] = p.head_count[g]
      BY <1>1, <3>1 DEF TagsAgree
    <3>3. g + p.head_count[g] - 1 \in Spans
      BY <3>1, <3>2, NumSpansAssumption DEF Spans, IsHead
    <3>4. g + p.head_count[g] - 1 # h + c - 1
      BY <1>4, <1>5, <3>1, <3>2, NumSpansAssumption DEF Spans
    <3> QED
      BY <1>7, <3>1, <3>2, <3>3, <3>4
  <2>2. ASSUME NEW t \in Spans, q.tail_count[t] # 0
        PROVE  /\ q.tail_count[t] <= t + 1
               /\ q.head_count[t - q.tail_count[t] + 1] = q.tail_count[t]
    <3>1. t # h + c - 1 /\ q.tail_count[t] = p.tail_count[t] /\ p.tail_count[t] \in 0 .. NumSpans
      BY <1>3, <1>7, <2>2
    <3>2. /\ p.tail_count[t] <= t + 1
          /\ p.head_count[t - p.tail_count[t] + 1] = p.tail_count[t]
      BY <1>1, <2>2, <3>1 DEF TagsAgree
    <3>3. t - p.tail_count[t] + 1 \in Spans
      BY <2>2, <3>1, <3>2, NumSpansAssumption DEF Spans
    <3>4. t - p.tail_count[t] + 1 # h
      BY <1>4, <3>1, <3>2, NumSpansAssumption DEF Spans
    <3> QED
      BY <1>6, <3>1, <3>2, <3>3, <3>4
  <2> QED
    BY <2>1, <2>2 DEF TagsAgree
<1>9. RunsApart(q)
  BY <1>1, <1>6 DEF RunsApart, IsHead
<1>10. StacksAgree(q)
  <2>1. /\ \A g \in Spans : q.next[g] = IF g = h THEN NO_SPAN ELSE IF g = before THEN after ELSE p.next[g]
        /\ \A g \in Spans : q.prev[g] = IF g = h THEN NO_SPAN ELSE IF g = after THEN before ELSE p.prev[g]
    BY <1>2 DEF NextWithout, PrevWithout
  <2>2. \A d \in Counts : q.bucket_head[d] = IF before = NO_SPAN /\ d = c THEN after
                                             ELSE p.bucket_head[d]
    BY <1>2, <1>3 DEF HeadWithout
  <2>3. \A g \in Spans : /\ g # NO_SPAN
                         /\ p.next[g] # NO_SPAN => p.next[g] \in Spans
                         /\ p.prev[g] # NO_SPAN => p.prev[g] \in Spans
    <3>1. \A g \in Spans : g # NO_SPAN
      BY DEF Spans, NO_SPAN
    <3> QED
      BY <1>3, <3>1 DEF Link_t
  <2>4. \A d \in Counts : d # 0 /\ (p.bucket_head[d] # NO_SPAN => p.bucket_head[d] \in Spans)
    <3>1. \A d \in Counts : d # 0
      BY DEF Counts
    <3> QED
      BY <1>3, <3>1 DEF Link_t
  <2>5. after # NO_SPAN => after \in Spans /\ p.head_count[after] = c /\ p.prev[after] = h
    BY <1>1, <2>3 DEF StacksAgree
  <2>6. before # NO_SPAN => before \in Spans /\ p.head_count[before] = c /\ p.next[before] = h
    BY <1>1, <2>3 DEF StacksAgree
  <2>7. before = NO_SPAN => p.bucket_head[c] = h
    BY <1>1, <1>4 DEF StacksAgree
  <2>8. before = p.prev[h] /\ after = p.next[h]
    OBVIOUS
  <2> HIDE DEF before, after
  <2>9. ASSUME NEW g \in Spans, q.next[g] # NO_SPAN
        PROVE  /\ IsHead(q, g)
               /\ q.head_count[q.next[g]] = q.head_count[g]
               /\ q.prev[q.next[g]] = g
    <3>0. g # h /\ g # NO_SPAN
      BY <2>1, <2>3, <2>9
    <3>1. CASE g = before
      <4>1. q.next[g] = after /\ after # NO_SPAN
        BY <2>1, <2>9, <3>0, <3>1
      <4>2. after # h
        BY <2>5, <2>8, <3>0, <3>1, <4>1
      <4> QED
        BY <1>4, <1>6, <2>1, <2>5, <2>6, <3>0, <3>1, <4>1, <4>2 DEF IsHead
    <3>2. CASE g # before
      <4> DEFINE x == p.next[g]
      <4>1. q.next[g] = x /\ x # NO_SPAN /\ x \in Spans
        BY <2>1, <2>3, <2>9, <3>0, <3>2
      <4>2. p.head_count[g] # 0 /\ p.head_count[x] = p.head_count[g] /\ p.prev[x] = g
        BY <1>1, <4>1 DEF StacksAgree, IsHead
      <4>3. x # h /\ x # after
        BY <2>5, <2>8, <3>0, <3>2, <4>1, <4>2
      <4> HIDE DEF x
      <4> QED
        BY <1>6, <2>1, <3>0, <4>1, <4>2, <4>3 DEF IsHead
    <3> QED
      BY <3>1, <3>2
  <2>10. ASSUME NEW g \in Spans, q.prev[g] # NO_SPAN
         PROVE  /\ IsHead(q, g)
                /\ q.head_count[q.prev[g]] = q.head_count[g]
                /\ q.next[q.prev[g]] = g
    <3>0. g # h /\ g # NO_SPAN
      BY <2>1, <2>3, <2>10
    <3>1. CASE g = after
      <4>1. q.prev[g] = before /\ before # NO_SPAN
        BY <2>1, <2>10, <3>0, <3>1
      <4>2. before # h
        BY <2>6, <2>8, <3>0, <3>1, <4>1
      <4> QED
        BY <1>4, <1>6, <2>1, <2>5, <2>6, <3>0, <3>1, <4>1, <4>2 DEF IsHead
    <3>2. CASE g # after
      <4> DEFINE x == p.prev[g]
      <4>1. q.prev[g] = x /\ x # NO_SPAN /\ x \in Spans
        BY <2>1, <2>3, <2>10, <3>0, <3>2
      <4>2. p.head_count[g] # 0 /\ p.head_count[x] = p.head_count[g] /\ p.next[x] = g
        BY <1>1, <4>1 DEF StacksAgree, IsHead
      <4>3. x # h /\ x # before
        BY <2>6, <2>8, <3>0, <3>2, <4>1, <4>2
      <4> HIDE DEF x
      <4> QED
        BY <1>6, <2>1, <3>0, <4>1, <4>2, <4>3 DEF IsHead
    <3> QED
      BY <3>1, <3>2
  <2>11. ASSUME NEW d \in Counts, q.bucket_head[d] # NO_SPAN
         PROVE  /\ q.head_count[q.bucket_head[d]] = d
                /\ q.prev[q.bucket_head[d]] = NO_SPAN
    <3>1. CASE before = NO_SPAN /\ d = c
      <4>1. q.bucket_head[d] = after /\ after # NO_SPAN
        BY <2>2, <2>11, <3>1
      <4>2. after # h
        BY <1>4, <2>5, <2>8, <3>1, <4>1
      <4> QED
        BY <1>6, <2>1, <2>5, <3>1, <4>1, <4>2
    <3>2. CASE ~(before = NO_SPAN /\ d = c)
      <4> DEFINE x == p.bucket_head[d]
      <4>1. q.bucket_head[d] = x /\ x # NO_SPAN /\ x \in Spans
        BY <2>2, <2>4, <2>11, <3>2
      <4>2. p.head_count[x] = d /\ p.prev[x] = NO_SPAN
        BY <1>1, <4>1 DEF StacksAgree
      <4>3. x # h /\ x # after
        BY <1>4, <2>5, <2>8, <3>2, <4>1, <4>2
      <4> HIDE DEF x
      <4> QED
        BY <1>6, <2>1, <4>1, <4>2, <4>3
    <3> QED
      BY <3>1, <3>2
  <2>12. ASSUME NEW g \in Spans, IsHead(q, g), q.prev[g] = NO_SPAN
         PROVE  q.bucket_head[q.head_count[g]] = g
    <3>0. g # h /\ IsHead(p, g) /\ q.head_count[g] = p.head_count[g] /\ p.head_count[g] \in Counts
      <4>1. g # h /\ IsHead(p, g) /\ q.head_count[g] = p.head_count[g] /\ p.head_count[g] \in 0 .. NumSpans
        BY <1>3, <1>6, <2>12 DEF IsHead
      <4> QED
        BY <4>1, NumSpansAssumption DEF IsHead, Counts
    <3>1. CASE g = after
      <4>1. before = NO_SPAN /\ p.head_count[g] = c
        BY <2>1, <2>3, <2>5, <2>12, <3>0, <3>1
      <4> QED
        BY <2>2, <3>0, <3>1, <4>1
    <3>2. CASE g # after
      <4>1. p.prev[g] = NO_SPAN
        BY <2>1, <2>12, <3>0, <3>2
      <4>2. p.bucket_head[p.head_count[g]] = g
        BY <1>1, <3>0, <4>1 DEF StacksAgree
      <4> QED
        BY <2>2, <2>7, <3>0, <4>2
    <3> QED
      BY <3>1, <3>2
  <2> QED
    BY <2>9, <2>10, <2>11, <2>12 DEF StacksAgree
<1>11. Run(h, c) \subseteq FreeSpans(p)
  BY <1>4, <1>5, NumSpansAssumption DEF Run, Spans, FreeSpans
<1>12. FreeSpans(q) = FreeSpans(p) \ Run(h, c)
  <2>0. \A s \in Spans : s \in Run(h, c) <=> h <= s /\ s < h + c
    BY <1>4 DEF Run, Spans
  <2>1. \A g \in Spans : IsHead(q, g) <=> (g # h /\ IsHead(p, g))
    BY <1>6 DEF IsHead
  <2>2. ASSUME NEW s \in FreeSpans(q) PROVE s \in FreeSpans(p) /\ s \notin Run(h, c)
    <3>1. PICK g \in Spans : IsHead(q, g) /\ g <= s /\ s < g + q.head_count[g]
      BY DEF FreeSpans
    <3>2. g # h /\ IsHead(p, g) /\ q.head_count[g] = p.head_count[g]
          /\ p.head_count[g] \in 0 .. NumSpans /\ s \in Spans
      BY <1>3, <1>6, <2>1, <3>1 DEF FreeSpans
    <3>3. s \in FreeSpans(p)
      BY <3>1, <3>2 DEF FreeSpans
    <3>4. g < h => g + p.head_count[g] < h
      BY <1>1, <1>4, <3>2 DEF RunsApart
    <3>5. h < g => h + c < g
      BY <1>1, <1>4, <3>2 DEF RunsApart
    <3>6. ~(h <= s /\ s < h + c)
      BY <1>4, <3>1, <3>2, <3>4, <3>5, NumSpansAssumption DEF Spans
    <3> QED
      BY <2>0, <3>2, <3>3, <3>6
  <2>3. ASSUME NEW s \in FreeSpans(p), s \notin Run(h, c) PROVE s \in FreeSpans(q)
    <3>1. PICK g \in Spans : IsHead(p, g) /\ g <= s /\ s < g + p.head_count[g]
      BY DEF FreeSpans
    <3>2. s \in Spans /\ g # h
      BY <2>0, <2>3, <3>1 DEF FreeSpans
    <3> QED
      BY <1>6, <2>1, <3>1, <3>2 DEF FreeSpans
  <2> QED
    BY <2>2, <2>3
<1> QED
  BY <1>2, <1>5, <1>6, <1>8, <1>9, <1>10, <1>11, <1>12 DEF PoolOK, q

-----------------------------------------------------------------------------
(* The search of the two-level bitmap. *)

\* The lowest set bit of a non-empty word of l0 is that of a non-empty bucket.
LEMMA InWordOK ==
  ASSUME NEW p, PoolOK(p), NEW w \in 0 .. L0Words - 1, NEW S \in SUBSET p.l0[w], S # {}
  PROVE  /\ Min(S) \in S
         /\ \A b \in S : Min(S) <= b
         /\ Min(S) \in Bits
         /\ w * WordBits + Min(S) \in Counts
         /\ p.bucket_head[w * WordBits + Min(S)] # NO_SPAN
<1>1. p.l0 \in [0 .. L0Words - 1 -> SUBSET Bits] /\ BitsAgree(p)
  BY DEF PoolOK, PoolType
<1>2. S \in SUBSET Nat
  <2>1. S \in SUBSET Bits
    BY <1>1
  <2> QED
    BY <2>1, WordBitsAssumption DEF Bits
<1>3. Min(S) \in S /\ \A b \in S : Min(S) <= b
  BY <1>2, MinNat
<1>4. Min(S) \in Bits /\ Min(S) \in p.l0[w]
  BY <1>1, <1>3
<1> QED
  BY <1>1, <1>3, <1>4 DEF BitsAgree

\* The lowest set bit of a non-empty word of l1 is that of a non-empty word.
LEMMA InSummaryOK ==
  ASSUME NEW p, PoolOK(p), NEW v \in 0 .. L1Words - 1, NEW S \in SUBSET p.l1[v], S # {}
  PROVE  /\ Min(S) \in S
         /\ \A b \in S : Min(S) <= b
         /\ Min(S) \in Bits
         /\ v * WordBits + Min(S) \in 0 .. L0Words - 1
         /\ p.l0[v * WordBits + Min(S)] # {}
<1>1. p.l1 \in [0 .. L1Words - 1 -> SUBSET Bits] /\ BitsAgree(p)
  BY DEF PoolOK, PoolType
<1>2. S \in SUBSET Nat
  <2>1. S \in SUBSET Bits
    BY <1>1
  <2> QED
    BY <2>1, WordBitsAssumption DEF Bits
<1>3. Min(S) \in S /\ \A b \in S : Min(S) <= b
  BY <1>2, MinNat
<1>4. Min(S) \in Bits /\ Min(S) \in p.l1[v]
  BY <1>1, <1>3
<1> QED
  BY <1>1, <1>3, <1>4 DEF BitsAgree

\* Every non-empty bucket has its bit set in its word, and its word's bit in
\* the summary.
LEMMA BucketBits ==
  ASSUME NEW p, PoolOK(p), NEW c \in Counts, p.bucket_head[c] # NO_SPAN
  PROVE  LET w == c \div WordBits
         IN  c % WordBits \in p.l0[w] /\ w % WordBits \in p.l1[w \div WordBits]
<1> DEFINE w == c \div WordBits
<1>1. BitsAgree(p)
  BY DEF PoolOK
<1>2. w \in 0 .. L0Words - 1 /\ c % WordBits \in Bits /\ c = w * WordBits + (c % WordBits)
  BY BucketWord, WordAndBit, NumSpansAssumption DEF Counts
<1> HIDE DEF w
<1>3. c % WordBits \in p.l0[w]
  BY <1>1, <1>2 DEF BitsAgree
<1>4. w \div WordBits \in 0 .. L1Words - 1 /\ w % WordBits \in Bits
      /\ w = (w \div WordBits) * WordBits + (w % WordBits)
  BY <1>2, SummaryWord, WordAndBit
<1>5. w % WordBits \in p.l1[w \div WordBits]
  BY <1>1, <1>2, <1>3, <1>4 DEF BitsAgree
<1> QED
  BY <1>3, <1>5 DEF w

\* find_first_set_ge returns the smallest non-empty bucket that is at least n,
\* and NO_SPAN only if there is none.
THEOREM FindFirstSetCorrect ==
  ASSUME NEW p, PoolOK(p), NEW n \in Counts
  PROVE  LET m == FindFirstSetGe(p, n)
         IN  /\ m # NO_SPAN => m \in Counts /\ m >= n /\ p.bucket_head[m] # NO_SPAN
             /\ \A c \in Counts : c >= n /\ p.bucket_head[c] # NO_SPAN
                                  => m # NO_SPAN /\ m <= c
<1> DEFINE w       == n \div WordBits
           lw      == w \div WordBits
           masked  == {b \in p.l0[w] : b >= n % WordBits}
           above   == {b \in p.l1[lw] : b > w % WordBits}
           later   == {li \in lw + 1 .. L1Words - 1 : p.l1[li] # {}}
           m       == FindFirstSetGe(p, n)
<1>1. /\ p.l0 \in [0 .. L0Words - 1 -> SUBSET Bits]
      /\ p.l1 \in [0 .. L1Words - 1 -> SUBSET Bits]
      /\ BitsAgree(p)
  BY DEF PoolOK, PoolType
<1>2. w \in 0 .. L0Words - 1 /\ n % WordBits \in Bits /\ n = w * WordBits + (n % WordBits)
  BY BucketWord, WordAndBit, NumSpansAssumption DEF Counts
<1>3. n < L0Words * WordBits
  <2>1. w \in Nat /\ L0Words \in Nat /\ w < L0Words /\ 0 \in Bits
    BY <1>2, SummaryWord, WordBitsAssumption DEF Bits
  <2>2. n < L0Words * WordBits + 0
    <3> HIDE DEF w
    <3> QED
      BY <1>2, <2>1, WordsAscend
  <2> QED
    BY <2>1, <2>2, WordBitsAssumption
<1>4. m = CASE masked # {} -> w * WordBits + Min(masked)
            [] masked = {} /\ above # {} ->
                 (lw * WordBits + Min(above)) * WordBits + Min(p.l0[lw * WordBits + Min(above)])
            [] masked = {} /\ above = {} /\ later # {} ->
                 (Min(later) * WordBits + Min(p.l1[Min(later)])) * WordBits
                   + Min(p.l0[Min(later) * WordBits + Min(p.l1[Min(later)])])
            [] OTHER -> NO_SPAN
  <2>1. ~(n >= L0Words * WordBits)
    BY <1>3, SummaryWord, WordBitsAssumption DEF Counts
  <2> QED
    BY <1>3, <2>1 DEF FindFirstSetGe
<1>5. ASSUME NEW c \in Counts, c >= n, p.bucket_head[c] # NO_SPAN,
             NEW cw, cw = c \div WordBits
      PROVE  /\ cw \in 0 .. L0Words - 1 /\ c % WordBits \in p.l0[cw]
             /\ c % WordBits \in Bits /\ c = cw * WordBits + (c % WordBits)
             /\ cw % WordBits \in Bits /\ cw = (cw \div WordBits) * WordBits + (cw % WordBits)
             /\ cw \div WordBits \in 0 .. L1Words - 1
             /\ cw % WordBits \in p.l1[cw \div WordBits]
             /\ \/ cw = w /\ c % WordBits \in masked
                \/ cw > w /\ cw \div WordBits = lw /\ cw % WordBits \in above
                \/ cw > w /\ cw \div WordBits > lw /\ cw \div WordBits \in later
  <2>1. cw \in 0 .. L0Words - 1 /\ c % WordBits \in Bits /\ c = cw * WordBits + (c % WordBits)
    BY <1>5, BucketWord, WordAndBit, NumSpansAssumption DEF Counts
  <2>2. c % WordBits \in p.l0[cw] /\ cw % WordBits \in p.l1[cw \div WordBits]
    BY <1>5, BucketBits
  <2>3. /\ cw \div WordBits \in 0 .. L1Words - 1 /\ cw % WordBits \in Bits
        /\ cw = (cw \div WordBits) * WordBits + (cw % WordBits)
    BY <2>1, SummaryWord, WordAndBit
  <2>4. lw \in Nat /\ w % WordBits \in Bits /\ w = lw * WordBits + (w % WordBits)
    <3> HIDE DEF w
    <3> QED
      BY <1>2, WordAndBit
  <2>5. cw \in Nat /\ w \in Nat /\ cw \div WordBits \in Nat
    BY <1>2, <2>1, <2>3
  <2> DEFINE cb == c % WordBits
             cv == cw \div WordBits
             cx == cw % WordBits
             nb == n % WordBits
             wx == w % WordBits
  <2>6. n \in Nat /\ c \in Nat
    BY DEF Counts
  <2>7. cw = w => cb >= nb
    <3>0. cw * WordBits \in Nat /\ cb \in Nat /\ nb \in Nat
      BY <1>2, <2>1, <2>5, WordBitsAssumption DEF Bits
    <3>1. c = cw * WordBits + cb /\ n = w * WordBits + nb
      BY <1>2, <2>1
    <3> HIDE DEF cb, nb, w
    <3> QED
      BY <1>5, <3>0, <3>1
  <2>8. ~(cw < w)
    <3>1. c = cw * WordBits + cb /\ n = w * WordBits + nb /\ cb \in Bits /\ nb \in Bits
      BY <1>2, <2>1
    <3> HIDE DEF cb, nb, w
    <3>2. cw < w => c < n
      BY <2>5, <3>1, WordsAscend
    <3> QED
      BY <1>5, <2>6, <3>2
  <2>9. /\ cw = cv * WordBits + cx /\ w = lw * WordBits + wx /\ cx \in Bits /\ wx \in Bits
        /\ cv \in Nat /\ lw \in Nat /\ cv \in 0 .. L1Words - 1 /\ cx \in p.l1[cv]
    BY <2>2, <2>3, <2>4, <2>5
  <2>10. cw > w => \/ cv = lw /\ cx > wx
                   \/ cv > lw
    <3> HIDE DEF w, lw, cv, cx, wx
    <3>1. cv < lw => cw < w
      BY <2>9, WordsAscend
    <3>2. cv = lw /\ cw > w => cx > wx
      <4>1. lw * WordBits \in Nat /\ cx \in Nat /\ wx \in Nat
        BY <2>9, WordBitsAssumption DEF Bits
      <4> QED
        BY <2>9, <4>1
    <3> QED
      BY <2>5, <2>9, <3>1, <3>2
  <2>11. cv > lw => cv \in later
    <3> HIDE DEF w, lw, cv, cx, wx
    <3>1. cv > lw => cv \in lw + 1 .. L1Words - 1
      BY <2>9, SummaryWord
    <3> QED
      BY <2>9, <3>1
  <2>12. cw = w \/ cw > w
    BY <2>5, <2>8
  <2>13. cw = w => cb \in masked
    BY <2>2, <2>7
  <2>14. cv = lw /\ cx > wx => cx \in above
    BY <2>9
  <2>15. \/ cw = w /\ cb \in masked
         \/ cw > w /\ cv = lw /\ cx \in above
         \/ cw > w /\ cv > lw /\ cv \in later
    <3> HIDE DEF w, lw, cv, cx, wx, cb, masked, above, later
    <3> QED
      BY <2>10, <2>11, <2>12, <2>13, <2>14
  <2> QED
    BY <2>1, <2>2, <2>3, <2>15
\* What is found in a word nv after n's own word.
<1>6. ASSUME NEW nv \in 0 .. L0Words - 1, nv > w, p.l0[nv] # {}, NEW k, k = nv * WordBits + Min(p.l0[nv])
      PROVE  /\ k \in Counts /\ k >= n /\ p.bucket_head[k] # NO_SPAN
             /\ \A c \in Counts : c >= n /\ p.bucket_head[c] # NO_SPAN /\ c \div WordBits >= nv
                                  => k <= c
  <2>1. /\ Min(p.l0[nv]) \in p.l0[nv] /\ \A b \in p.l0[nv] : Min(p.l0[nv]) <= b
        /\ Min(p.l0[nv]) \in Bits
        /\ k \in Counts /\ p.bucket_head[k] # NO_SPAN
    BY <1>6, InWordOK
  <2> DEFINE x == Min(p.l0[nv])
  <2>2. w \in Nat /\ nv \in Nat
    BY <1>2
  <2>3. k > n
    <3>1. n = w * WordBits + (n % WordBits) /\ n % WordBits \in Bits /\ k = nv * WordBits + x /\ x \in Bits
      BY <1>2, <1>6, <2>1
    <3> HIDE DEF w, x
    <3>2. w * WordBits + (n % WordBits) < nv * WordBits + x
      BY <1>6, <2>2, <3>1, WordsAscend
    <3> QED
      BY <3>1, <3>2
  <2>4. ASSUME NEW c \in Counts, c >= n, p.bucket_head[c] # NO_SPAN, c \div WordBits >= nv
        PROVE  k <= c
    <3> DEFINE cw == c \div WordBits
               cb == c % WordBits
    <3>1. cw \in 0 .. L0Words - 1 /\ cb \in Bits /\ c = cw * WordBits + cb /\ cb \in p.l0[cw]
      BY <1>5, <2>4
    <3>2. k = nv * WordBits + x /\ x \in Bits /\ cw >= nv /\ c \in Nat /\ k \in Nat
      BY <1>6, <2>1, <2>4 DEF Counts
    <3> HIDE DEF cw, cb
    <3>3. CASE cw = nv
      <4>1. x <= cb
        BY <2>1, <3>1, <3>3
      <4>2. nv * WordBits \in Nat /\ x \in Nat /\ cb \in Nat
        BY <2>2, <3>1, <3>2, WordBitsAssumption DEF Bits
      <4> HIDE DEF x
      <4> QED
        BY <3>1, <3>2, <3>3, <4>1, <4>2
    <3>4. CASE cw > nv
      <4>1. cw \in Nat
        BY <3>1
      <4> HIDE DEF x
      <4>2. nv * WordBits + x < cw * WordBits + cb
        BY <2>2, <3>1, <3>2, <3>4, <4>1, WordsAscend
      <4> QED
        BY <3>1, <3>2, <4>2
    <3> QED
      BY <2>2, <3>1, <3>2, <3>3, <3>4
  <2> QED
    BY <2>1, <2>3, <2>4 DEF Counts
<1>7. lw \in 0 .. L1Words - 1 /\ lw \in Nat /\ w % WordBits \in Bits
      /\ w = lw * WordBits + (w % WordBits)
  <2> HIDE DEF w
  <2> QED
    BY <1>2, SummaryWord, WordAndBit
<1> HIDE DEF m
<1>8. CASE masked # {}
  <2> DEFINE x == Min(masked)
  <2>1. x \in masked /\ (\A b \in masked : x <= b) /\ x \in Bits
        /\ w * WordBits + x \in Counts /\ p.bucket_head[w * WordBits + x] # NO_SPAN
    <3>1. masked \in SUBSET p.l0[w]
      OBVIOUS
    <3> HIDE DEF masked, w
    <3> QED
      BY <1>2, <1>8, <3>1, InWordOK
  <2>2. m = w * WordBits + x
    BY <1>4, <1>8
  <2>3. m >= n
    <3>1. x >= n % WordBits
      BY <2>1
    <3>2. w * WordBits \in Nat /\ x \in Nat /\ n % WordBits \in Nat
      BY <1>2, <2>1, WordBitsAssumption DEF Bits
    <3> DEFINE nb == n % WordBits
    <3>3. n = w * WordBits + nb /\ nb \in Nat /\ x >= nb
      BY <1>2, <3>1, <3>2
    <3> HIDE DEF x, w, nb
    <3> QED
      BY <2>2, <3>2, <3>3
  <2>4. ASSUME NEW c \in Counts, c >= n, p.bucket_head[c] # NO_SPAN
        PROVE  m <= c
    <3> DEFINE cw == c \div WordBits
               cb == c % WordBits
    <3>1. /\ cw \in 0 .. L0Words - 1 /\ cb \in Bits /\ c = cw * WordBits + cb
          /\ (cw = w /\ cb \in masked) \/ cw > w
      BY <1>5, <2>4
    <3>2. c \in Nat /\ m \in Nat /\ w \in Nat /\ cw \in Nat
      BY <1>2, <2>1, <2>2, <3>1 DEF Counts
    <3>3. CASE cw = w /\ cb \in masked
      <4>1. x <= cb
        BY <2>1, <3>3
      <4>2. w * WordBits \in Nat /\ x \in Nat /\ cb \in Nat
        BY <2>1, <3>1, <3>2, WordBitsAssumption DEF Bits
      <4> HIDE DEF x, cw, cb, w
      <4> QED
        BY <2>2, <3>1, <3>3, <4>1, <4>2
    <3>4. CASE cw > w
      <4> HIDE DEF x, cw, cb, w
      <4>1. w * WordBits + x < cw * WordBits + cb
        BY <2>1, <3>1, <3>2, <3>4, WordsAscend
      <4> QED
        BY <2>2, <3>1, <3>2, <4>1
    <3> QED
      BY <3>1, <3>3, <3>4
  <2>5. m # NO_SPAN
    BY <2>1, <2>2 DEF Counts, NO_SPAN
  <2> HIDE DEF x
  <2> QED
    BY <2>1, <2>2, <2>3, <2>4, <2>5 DEF m
<1>9. CASE masked = {} /\ above # {}
  <2> DEFINE x == Min(above)
             nv == lw * WordBits + x
  <2>1. /\ x \in above /\ (\A b \in above : x <= b) /\ x \in Bits
        /\ nv \in 0 .. L0Words - 1 /\ p.l0[nv] # {}
    <3>1. above \in SUBSET p.l1[lw]
      OBVIOUS
    <3> HIDE DEF above, lw
    <3> QED
      BY <1>7, <1>9, <3>1, InSummaryOK
  <2>2. m = nv * WordBits + Min(p.l0[nv])
    BY <1>4, <1>9
  <2>3. nv > w
    <3> DEFINE wx == w % WordBits
    <3>1. x > wx /\ w = lw * WordBits + wx
      BY <1>7, <2>1
    <3>2. lw * WordBits \in Nat /\ x \in Nat /\ wx \in Nat
      BY <1>7, <2>1, WordBitsAssumption DEF Bits
    <3> HIDE DEF x, w, lw, wx
    <3> QED
      BY <3>1, <3>2
  <2>4. ASSUME NEW c \in Counts, c >= n, p.bucket_head[c] # NO_SPAN
        PROVE  c \div WordBits >= nv
    <3> DEFINE cw == c \div WordBits
               cv == cw \div WordBits
               cx == cw % WordBits
    <3> SUFFICES cw >= nv
      OBVIOUS
    <3>1. /\ cw \in 0 .. L0Words - 1 /\ cv \in 0 .. L1Words - 1 /\ cx \in Bits
          /\ cw = cv * WordBits + cx
          /\ (cv = lw /\ cx \in above) \/ cv > lw
      BY <1>5, <1>9, <2>4
    <3>2. cw \in Nat /\ cv \in Nat
      BY <3>1
    <3>3. CASE cv = lw /\ cx \in above
      <4>1. x <= cx
        BY <2>1, <3>3
      <4>2. lw * WordBits \in Nat /\ x \in Nat /\ cx \in Nat
        BY <1>7, <2>1, <3>1, WordBitsAssumption, SMTT(30) DEF Bits
      <4> HIDE DEF x, cw, cv, cx, lw
      <4> QED
        BY <3>1, <3>3, <4>1, <4>2
    <3>4. CASE cv > lw
      <4> HIDE DEF x, cw, cv, cx, lw
      <4>1. lw * WordBits + x < cv * WordBits + cx
        BY <1>7, <2>1, <3>1, <3>2, <3>4, WordsAscend
      <4> QED
        BY <2>1, <3>1, <3>2, <4>1
    <3> QED
      BY <3>1, <3>3, <3>4
  <2> HIDE DEF nv
  <2>5. /\ m \in Counts /\ m >= n /\ p.bucket_head[m] # NO_SPAN
        /\ \A c \in Counts : c >= n /\ p.bucket_head[c] # NO_SPAN => m <= c
    BY <1>6, <2>1, <2>2, <2>3, <2>4
  <2>6. m # NO_SPAN
    BY <2>5 DEF Counts, NO_SPAN
  <2> QED
    BY <2>5, <2>6 DEF m
<1>10. CASE masked = {} /\ above = {} /\ later # {}
  <2> DEFINE lm == Min(later)
             x  == Min(p.l1[lm])
             nv == lm * WordBits + x
  <2>1. lm \in later /\ \A l \in later : lm <= l
    <3>1. later \in SUBSET Nat
      <4> HIDE DEF lw
      <4> QED
        BY <1>7
    <3> HIDE DEF later
    <3> QED
      BY <1>10, <3>1, MinNat
  <2>2. lm \in 0 .. L1Words - 1 /\ lm > lw /\ p.l1[lm] # {}
    <3>1. lm \in lw + 1 .. L1Words - 1 /\ p.l1[lm] # {}
      BY <2>1
    <3> HIDE DEF lm, lw
    <3> QED
      BY <1>7, <3>1, SummaryWord
  <2>3. /\ x \in p.l1[lm] /\ (\A b \in p.l1[lm] : x <= b) /\ x \in Bits
        /\ nv \in 0 .. L0Words - 1 /\ p.l0[nv] # {}
    <3> HIDE DEF lm
    <3> QED
      BY <2>2, InSummaryOK
  <2>4. m = nv * WordBits + Min(p.l0[nv])
    BY <1>4, <1>10
  <2>5. nv > w
    <3> DEFINE wx == w % WordBits
    <3>1. w = lw * WordBits + wx /\ wx \in Bits /\ w \in Nat /\ lm \in Nat
      BY <1>2, <1>7, <2>2
    <3> HIDE DEF x, w, lw, wx, lm
    <3>2. lw * WordBits + wx < lm * WordBits + x
      BY <1>7, <2>2, <2>3, <3>1, WordsAscend
    <3> QED
      BY <2>3, <3>1, <3>2
  <2>6. ASSUME NEW c \in Counts, c >= n, p.bucket_head[c] # NO_SPAN
        PROVE  c \div WordBits >= nv
    <3> DEFINE cw == c \div WordBits
               cv == cw \div WordBits
               cx == cw % WordBits
    <3> SUFFICES cw >= nv
      OBVIOUS
    <3>1. /\ cw \in 0 .. L0Words - 1 /\ cv \in 0 .. L1Words - 1 /\ cx \in Bits
          /\ cw = cv * WordBits + cx /\ cx \in p.l1[cv]
          /\ cv \in later
      BY <1>5, <1>10, <2>6
    <3>2. cw \in Nat /\ cv \in Nat /\ lm \in Nat /\ lm <= cv
      <4>1. lm <= cv
        BY <2>1, <3>1
      <4> HIDE DEF lm, cw, cv
      <4> QED
        BY <2>2, <3>1, <4>1
    <3>3. CASE cv = lm
      <4>1. x <= cx
        BY <2>3, <3>1, <3>3
      <4>2. lm * WordBits \in Nat /\ x \in Nat /\ cx \in Nat
        BY <2>3, <3>1, <3>2, WordBitsAssumption, SMTT(30) DEF Bits
      <4> HIDE DEF x, cw, cv, cx, lm
      <4> QED
        BY <3>1, <3>3, <4>1, <4>2
    <3>4. CASE cv > lm
      <4> HIDE DEF x, cw, cv, cx, lm
      <4>1. lm * WordBits + x < cv * WordBits + cx
        BY <2>3, <3>1, <3>2, <3>4, WordsAscend
      <4> QED
        BY <2>3, <3>1, <3>2, <4>1
    <3> HIDE DEF cw, cv, lm
    <3> QED
      BY <3>2, <3>3, <3>4
  <2> HIDE DEF nv
  <2>7. /\ m \in Counts /\ m >= n /\ p.bucket_head[m] # NO_SPAN
        /\ \A c \in Counts : c >= n /\ p.bucket_head[c] # NO_SPAN => m <= c
    BY <1>6, <2>3, <2>4, <2>5, <2>6
  <2>8. m # NO_SPAN
    BY <2>7 DEF Counts, NO_SPAN
  <2> QED
    BY <2>7, <2>8 DEF m
<1>11. CASE masked = {} /\ above = {} /\ later = {}
  <2>1. m = NO_SPAN
    BY <1>4, <1>11
  <2>2. \A c \in Counts : ~(c >= n /\ p.bucket_head[c] # NO_SPAN)
    BY <1>5, <1>11
  <2> QED
    BY <2>1, <2>2 DEF m
<1> QED
  BY <1>8, <1>9, <1>10, <1>11

-----------------------------------------------------------------------------
(* SpanPool::alloc and SpanPool::free. *)

\* alloc serves a request with n consecutive free spans, which leave the pool,
\* and leaves the pool alone when it finds none.
THEOREM PoolAllocCorrect ==
  ASSUME NEW p, PoolOK(p), NEW n \in Counts
  PROVE  LET r == PoolAlloc(p, n)
         IN  /\ PoolOK(r.pool)
             /\ r.head = NO_SPAN => r.pool = p
             /\ r.head # NO_SPAN => /\ r.head \in Spans
                                    /\ r.head + n <= NumSpans
                                    /\ Run(r.head, n) \subseteq FreeSpans(p)
                                    /\ FreeSpans(r.pool) = FreeSpans(p) \ Run(r.head, n)
<1> DEFINE m == FindFirstSetGe(p, n)
           h == p.bucket_head[m]
           q == Unlink(p, h, m)
           r == PoolAlloc(p, n)
<1>1. r = IF m = NO_SPAN THEN [head |-> NO_SPAN, pool |-> p]
          ELSE [head |-> h, pool |-> IF m > n THEN Link(q, h + n, m - n) ELSE q]
  BY DEF PoolAlloc
<1>2. m # NO_SPAN => m \in Counts /\ m >= n /\ h # NO_SPAN
  BY FindFirstSetCorrect
<1>3. CASE m = NO_SPAN
  BY <1>1, <1>3
<1>4. CASE m # NO_SPAN
  <2>1. p \in PoolType /\ TagsAgree(p) /\ RunsApart(p) /\ StacksAgree(p)
    BY DEF PoolOK
  <2> HIDE DEF m
  <2>2. h \in Spans /\ p.head_count[h] = m
    BY <1>2, <1>4, <2>1 DEF PoolType, Link_t, StacksAgree
  <2> HIDE DEF h
  <2>3. /\ PoolOK(q) /\ FreeSpans(q) = FreeSpans(p) \ Run(h, m)
        /\ Run(h, m) \subseteq FreeSpans(p) /\ h + m <= NumSpans
        /\ \A g \in Spans : q.head_count[g] = IF g = h THEN 0 ELSE p.head_count[g]
    BY <1>2, <1>4, <2>2, UnlinkOK
  <2> HIDE DEF q
  <2>4. h \in Nat /\ n \in Nat /\ m \in Nat /\ n > 0 /\ m >= n
    BY <1>2, <1>4, <2>2 DEF Spans, Counts
  <2>5. h # NO_SPAN
    BY <2>4 DEF NO_SPAN
  <2>6. CASE m = n
    <3>1. r.head = h /\ r.pool = q
      BY <1>1, <1>4, <2>4, <2>6
    <3> HIDE DEF r
    <3> QED
      BY <2>2, <2>3, <2>5, <2>6, <3>1 DEF r
  <2>7. CASE m > n
    <3> DEFINE o == Link(q, h + n, m - n)
    <3>1. r.head = h /\ r.pool = o
      BY <1>1, <1>4, <2>7
    <3>2. h + n \in Spans /\ m - n \in Counts /\ (h + n) + (m - n) <= NumSpans
      BY <1>2, <1>4, <2>3, <2>4, <2>7, NumSpansAssumption DEF Spans, Counts
    <3>3. RunApart(q, h + n, m - n)
      <4> SUFFICES ASSUME NEW g \in Spans, IsHead(q, g)
                   PROVE  g + q.head_count[g] < h + n \/ (h + n) + (m - n) < g
        BY DEF RunApart
      <4>1. g # h /\ IsHead(p, g) /\ q.head_count[g] = p.head_count[g] /\ g \in Nat
            /\ p.head_count[g] \in 0 .. NumSpans
        <5>1. g # h /\ IsHead(p, g) /\ q.head_count[g] = p.head_count[g]
              /\ p.head_count[g] \in 0 .. NumSpans
          BY <2>1, <2>3 DEF IsHead, PoolType
        <5> QED
          BY <5>1 DEF Spans
      <4>2. IsHead(p, h)
        BY <2>2, <2>4 DEF IsHead
      <4>3. g < h => g + p.head_count[g] < h
        BY <2>1, <2>2, <4>1, <4>2 DEF RunsApart
      <4>4. h < g => h + m < g
        BY <2>1, <2>2, <4>1, <4>2 DEF RunsApart
      <4> QED
        BY <2>4, <4>1, <4>3, <4>4, NumSpansAssumption
    <3>4. PoolOK(o) /\ FreeSpans(o) = FreeSpans(q) \cup Run(h + n, m - n)
      BY <2>3, <3>2, <3>3, LinkOK
    <3> HIDE DEF o, r
    <3>5. Run(h, m) = Run(h, n) \cup Run(h + n, m - n)
          /\ Run(h, n) \cap Run(h + n, m - n) = {}
      BY <2>4, <2>7 DEF Run
    <3>6. FreeSpans(o) = FreeSpans(p) \ Run(h, n)
      BY <2>3, <3>4, <3>5
    <3>7. h + n <= NumSpans /\ Run(h, n) \subseteq FreeSpans(p)
      BY <2>3, <2>4, <3>5, NumSpansAssumption
    <3> QED
      BY <2>2, <2>5, <3>1, <3>4, <3>6, <3>7 DEF r
  <2> QED
    BY <2>4, <2>6, <2>7
<1> QED
  BY <1>3, <1>4

\* No free run starts at s.
NoHeadAt(p, s) == \A g \in Spans : IsHead(p, g) => g # s
\* No free run ends just below s.
NoTailBelow(p, s) == \A g \in Spans : IsHead(p, g) => g + p.head_count[g] # s

\* Merging to the right leaves no free run that starts where the run ends.
LEMMA MergeRightOK ==
  ASSUME NEW p, PoolOK(p), NEW h \in Spans, NEW c \in Counts, h + c <= NumSpans,
         Run(h, c) \cap FreeSpans(p) = {}
  PROVE  LET r == MergeRight(p, h, c)
         IN  /\ PoolOK(r.pool)
             /\ r.head = h /\ r.count \in Counts /\ h + r.count <= NumSpans
             /\ Run(h, r.count) \cap FreeSpans(r.pool) = {}
             /\ FreeSpans(r.pool) \cup Run(h, r.count) = FreeSpans(p) \cup Run(h, c)
             /\ NoHeadAt(r.pool, h + r.count)
<1> DEFINE right == h + c
           rc == IF right < NumSpans THEN p.head_count[right] ELSE 0
           r == MergeRight(p, h, c)
<1>1. p \in PoolType /\ RunsApart(p)
  BY DEF PoolOK
<1>2. h \in Nat /\ c \in Nat /\ c > 0
  BY DEF Spans, Counts
<1>3. right < NumSpans => right \in Spans
  BY <1>2, NumSpansAssumption DEF Spans
<1>4. r = IF rc # 0 THEN [pool |-> Unlink(p, right, rc), head |-> h, count |-> c + rc]
          ELSE [pool |-> p, head |-> h, count |-> c]
  BY DEF MergeRight
<1>5. CASE rc = 0
  <2>1. r.pool = p /\ r.head = h /\ r.count = c
    BY <1>4, <1>5
  <2>2. NoHeadAt(p, h + c)
    <3> SUFFICES ASSUME NEW g \in Spans, IsHead(p, g), g = h + c PROVE FALSE
      BY DEF NoHeadAt
    <3>1. h + c < NumSpans
      BY NumSpansAssumption DEF Spans
    <3> QED
      BY <1>5, <3>1 DEF IsHead
  <2> HIDE DEF r
  <2> QED
    BY <2>1, <2>2 DEF r
<1>6. CASE rc # 0
  <2>1. right \in Spans /\ rc = p.head_count[right] /\ rc \in Counts
    <3>1. right \in Spans /\ rc = p.head_count[right]
      BY <1>3, <1>6
    <3>2. p.head_count[right] \in 0 .. NumSpans
      BY <1>1, <3>1 DEF PoolType
    <3> QED
      BY <1>6, <3>1, <3>2, NumSpansAssumption DEF Counts
  <2> DEFINE q == Unlink(p, right, rc)
  <2>2. r.pool = q /\ r.head = h /\ r.count = c + rc
    BY <1>4, <1>6
  <2> HIDE DEF rc, right
  <2>3. /\ PoolOK(q) /\ FreeSpans(q) = FreeSpans(p) \ Run(right, rc)
        /\ Run(right, rc) \subseteq FreeSpans(p) /\ right + rc <= NumSpans
        /\ \A g \in Spans : q.head_count[g] = IF g = right THEN 0 ELSE p.head_count[g]
    BY <2>1, UnlinkOK
  <2> HIDE DEF q, r
  <2>4. right = h + c /\ rc \in Nat /\ rc > 0
    BY <2>1 DEF right, Counts
  <2>5. c + rc \in Counts /\ h + (c + rc) <= NumSpans
    BY <1>2, <2>3, <2>4, NumSpansAssumption DEF Counts
  <2>6. Run(h, c + rc) = Run(h, c) \cup Run(right, rc)
    BY <1>2, <2>4 DEF Run
  <2>7. NoHeadAt(q, h + (c + rc))
    <3> SUFFICES ASSUME NEW g \in Spans, IsHead(q, g), g = h + (c + rc) PROVE FALSE
      BY DEF NoHeadAt
    <3>1. IsHead(p, g) /\ IsHead(p, right)
      BY <2>1, <2>3, <2>4 DEF IsHead
    <3>2. g > right /\ g = right + rc
      BY <1>2, <2>4
    <3>3. right + rc < g
      BY <1>1, <2>1, <3>1, <3>2 DEF RunsApart
    <3> QED
      BY <1>2, <2>4, <3>2, <3>3
  <2> QED
    BY <2>2, <2>3, <2>5, <2>6, <2>7 DEF r
<1> QED
  BY <1>5, <1>6

\* Merging to the left leaves no free run that ends where the run starts.
LEMMA MergeLeftOK ==
  ASSUME NEW p, PoolOK(p), NEW h \in Spans, NEW c \in Counts, h + c <= NumSpans,
         Run(h, c) \cap FreeSpans(p) = {}, NoHeadAt(p, h + c)
  PROVE  LET r == MergeLeft(p, h, c)
         IN  /\ PoolOK(r.pool)
             /\ r.head \in Spans /\ r.count \in Counts /\ r.head + r.count <= NumSpans
             /\ Run(r.head, r.count) \cap FreeSpans(r.pool) = {}
             /\ FreeSpans(r.pool) \cup Run(r.head, r.count) = FreeSpans(p) \cup Run(h, c)
             /\ NoHeadAt(r.pool, r.head + r.count)
             /\ NoTailBelow(r.pool, r.head)
<1> DEFINE lc == IF h > 0 THEN p.tail_count[h - 1] ELSE 0
           r == MergeLeft(p, h, c)
<1>1. p \in PoolType /\ TagsAgree(p) /\ RunsApart(p)
  BY DEF PoolOK
<1>2. h \in Nat /\ c \in Nat /\ c > 0
  BY DEF Spans, Counts
<1>3. h > 0 => h - 1 \in Spans
  BY <1>2, NumSpansAssumption DEF Spans
<1>4. r = IF lc # 0 THEN [pool |-> Unlink(p, h - lc, lc), head |-> h - lc, count |-> c + lc]
          ELSE [pool |-> p, head |-> h, count |-> c]
  BY DEF MergeLeft
<1>5. CASE lc = 0
  <2>1. r.pool = p /\ r.head = h /\ r.count = c
    BY <1>4, <1>5
  <2>2. NoTailBelow(p, h)
    <3> SUFFICES ASSUME NEW g \in Spans, IsHead(p, g), g + p.head_count[g] = h PROVE FALSE
      BY DEF NoTailBelow
    <3>1. p.tail_count[h - 1] = p.head_count[g]
      <4>1. p.tail_count[g + p.head_count[g] - 1] = p.head_count[g]
        BY <1>1 DEF TagsAgree
      <4>2. g + p.head_count[g] - 1 = h - 1
        <5> DEFINE gc == p.head_count[g]
        <5>1. gc \in 0 .. NumSpans
          BY <1>1 DEF PoolType
        <5>2. g \in Int /\ gc \in Int /\ g + gc = h
          BY <5>1, NumSpansAssumption DEF Spans
        <5> HIDE DEF gc
        <5>3. g + gc - 1 = h - 1
          BY <5>2
        <5> QED
          BY <5>3 DEF gc
      <4> QED
        BY <4>1, <4>2
    <3>2. p.head_count[g] \in 0 .. NumSpans /\ p.head_count[g] # 0
      BY <1>1 DEF PoolType, IsHead
    <3>3. h > 0
      BY <3>2, NumSpansAssumption DEF Spans
    <3> QED
      BY <1>5, <3>1, <3>2, <3>3
  <2> HIDE DEF r
  <2> QED
    BY <2>1, <2>2 DEF r
<1>6. CASE lc # 0
  <2> DEFINE g == h - lc
             q == Unlink(p, g, lc)
  <2>1. lc = p.tail_count[h - 1] /\ h - 1 \in Spans
    BY <1>3, <1>6
  <2>2. lc \in 0 .. NumSpans /\ lc <= (h - 1) + 1 /\ p.head_count[(h - 1) - lc + 1] = lc
    BY <1>1, <1>6, <2>1 DEF PoolType, TagsAgree
  <2>3. r.pool = q /\ r.head = g /\ r.count = c + lc
    BY <1>4, <1>6
  <2> HIDE DEF lc
  <2>4. (h - 1) - lc + 1 = g /\ g \in Spans /\ lc \in Counts /\ g + lc = h /\ lc \in Nat /\ lc > 0
    BY <1>2, <1>6, <2>1, <2>2, NumSpansAssumption DEF Spans, Counts
  <2>5. p.head_count[g] = lc
    BY <2>2, <2>4
  <2> HIDE DEF g
  <2>6. /\ PoolOK(q) /\ FreeSpans(q) = FreeSpans(p) \ Run(g, lc)
        /\ Run(g, lc) \subseteq FreeSpans(p)
        /\ \A k \in Spans : q.head_count[k] = IF k = g THEN 0 ELSE p.head_count[k]
    BY <2>4, <2>5, UnlinkOK
  <2> HIDE DEF q, r
  <2>7. g \in Nat /\ c + lc \in Counts /\ g + (c + lc) = h + c
    BY <1>2, <2>4, NumSpansAssumption DEF Spans, Counts
  <2>8. Run(g, c + lc) = Run(h, c) \cup Run(g, lc)
    BY <1>2, <2>4, <2>7 DEF Run
  <2>9. \A k \in Spans : IsHead(q, k) => IsHead(p, k) /\ k # g /\ q.head_count[k] = p.head_count[k]
    BY <2>6 DEF IsHead
  <2>10. NoHeadAt(q, g + (c + lc))
    BY <2>7, <2>9 DEF NoHeadAt
  <2>11. NoTailBelow(q, g)
    <3> SUFFICES ASSUME NEW k \in Spans, IsHead(q, k), k + q.head_count[k] = g PROVE FALSE
      BY DEF NoTailBelow
    <3>1. IsHead(p, k) /\ IsHead(p, g) /\ k + p.head_count[k] = g
      BY <2>4, <2>5, <2>9 DEF IsHead
    <3>2. p.head_count[k] \in 0 .. NumSpans
      BY <1>1 DEF PoolType
    <3>3. k < g
      BY <2>7, <3>1, <3>2, NumSpansAssumption DEF Spans, IsHead
    <3>4. k + p.head_count[k] < g
      BY <1>1, <2>4, <3>1, <3>3 DEF RunsApart
    <3> QED
      BY <2>7, <3>1, <3>4
  <2> QED
    BY <2>3, <2>4, <2>6, <2>7, <2>8, <2>10, <2>11 DEF r
<1> QED
  BY <1>5, <1>6

\* free adds the spans of a run that was not free, and coalesces it with the
\* free runs on both sides: no two free runs touch.
THEOREM PoolFreeCorrect ==
  ASSUME NEW p, PoolOK(p), NEW h \in Spans, NEW c \in Counts, h + c <= NumSpans,
         Run(h, c) \cap FreeSpans(p) = {}
  PROVE  /\ PoolOK(PoolFree(p, h, c))
         /\ FreeSpans(PoolFree(p, h, c)) = FreeSpans(p) \cup Run(h, c)
<1> DEFINE r == MergeRight(p, h, c)
           l == MergeLeft(r.pool, h, r.count)
<1>2. /\ PoolOK(r.pool)
      /\ r.head = h /\ r.count \in Counts /\ h + r.count <= NumSpans
      /\ Run(h, r.count) \cap FreeSpans(r.pool) = {}
      /\ FreeSpans(r.pool) \cup Run(h, r.count) = FreeSpans(p) \cup Run(h, c)
      /\ NoHeadAt(r.pool, h + r.count)
  BY MergeRightOK
<1>1. PoolFree(p, h, c) = Link(l.pool, l.head, l.count)
  BY <1>2 DEF PoolFree
<1> HIDE DEF r
<1>3. /\ PoolOK(l.pool)
      /\ l.head \in Spans /\ l.count \in Counts /\ l.head + l.count <= NumSpans
      /\ Run(l.head, l.count) \cap FreeSpans(l.pool) = {}
      /\ FreeSpans(l.pool) \cup Run(l.head, l.count) = FreeSpans(r.pool) \cup Run(h, r.count)
      /\ NoHeadAt(l.pool, l.head + l.count)
      /\ NoTailBelow(l.pool, l.head)
  <2> DEFINE p2 == r.pool
             c2 == r.count
  <2>1. /\ PoolOK(p2) /\ c2 \in Counts /\ h + c2 <= NumSpans
        /\ Run(h, c2) \cap FreeSpans(p2) = {} /\ NoHeadAt(p2, h + c2)
    BY <1>2
  <2> HIDE DEF p2, c2
  <2>2. LET k == MergeLeft(p2, h, c2)
        IN  /\ PoolOK(k.pool)
            /\ k.head \in Spans /\ k.count \in Counts /\ k.head + k.count <= NumSpans
            /\ Run(k.head, k.count) \cap FreeSpans(k.pool) = {}
            /\ FreeSpans(k.pool) \cup Run(k.head, k.count) = FreeSpans(p2) \cup Run(h, c2)
            /\ NoHeadAt(k.pool, k.head + k.count)
            /\ NoTailBelow(k.pool, k.head)
    BY <2>1, MergeLeftOK
  <2> QED
    BY <2>2 DEF p2, c2
<1> DEFINE q == l.pool
           k == l.head
           d == l.count
<1> HIDE DEF l
<1>4. RunApart(q, k, d)
  <2> SUFFICES ASSUME NEW g \in Spans, IsHead(q, g)
               PROVE  g + q.head_count[g] < k \/ k + d < g
    BY DEF RunApart
  <2> DEFINE gc == q.head_count[g]
  <2>1. gc \in 0 .. NumSpans /\ gc # 0
    BY <1>3 DEF PoolOK, PoolType, IsHead
  <2>2. g # k + d /\ g + gc # k
    BY <1>3 DEF NoHeadAt, NoTailBelow
  <2>3. g \in Nat /\ k \in Nat /\ d \in Nat /\ d > 0 /\ gc \in Nat
    BY <1>3, <2>1, NumSpansAssumption DEF Spans, Counts
  <2>4. \A s \in Spans : ~(g <= s /\ s < g + gc /\ k <= s /\ s < k + d)
    <3> SUFFICES ASSUME NEW s \in Spans, g <= s, s < g + gc, k <= s, s < k + d PROVE FALSE
      OBVIOUS
    <3>1. s \in FreeSpans(q)
      BY DEF FreeSpans
    <3>2. s \in Run(k, d)
      BY <2>3 DEF Run, Spans
    <3> QED
      BY <1>3, <3>1, <3>2
  <2>5. k \in Spans /\ g \in Spans
    BY <1>3
  <2> HIDE DEF gc, k, d, q
  <2>6. ~(g <= k /\ k < g + gc) /\ ~(k <= g /\ g < k + d)
    BY <2>1, <2>3, <2>4, <2>5, NumSpansAssumption
  <2> QED
    BY <2>2, <2>3, <2>6 DEF gc
<1>5. PoolOK(Link(q, k, d)) /\ FreeSpans(Link(q, k, d)) = FreeSpans(q) \cup Run(k, d)
  BY <1>3, <1>4, LinkOK
<1> QED
  BY <1>1, <1>2, <1>3, <1>5

\* The empty pool is well formed.
LEMMA PoolNewOK == PoolOK(PoolNew) /\ FreeSpans(PoolNew) = {}
<1>1. PoolNew \in PoolType
  BY NumSpansAssumption DEF PoolNew, PoolType, Link_t
<1>2. /\ \A s \in Spans : /\ PoolNew.head_count[s] = 0 /\ PoolNew.tail_count[s] = 0
                          /\ PoolNew.next[s] = NO_SPAN /\ PoolNew.prev[s] = NO_SPAN
      /\ \A c \in Counts : PoolNew.bucket_head[c] = NO_SPAN
      /\ \A w \in 0 .. L0Words - 1 : PoolNew.l0[w] = {}
      /\ \A w \in 0 .. L1Words - 1 : PoolNew.l1[w] = {}
  BY DEF PoolNew
<1>3. TagsAgree(PoolNew) /\ RunsApart(PoolNew) /\ StacksAgree(PoolNew)
  BY <1>2 DEF TagsAgree, RunsApart, StacksAgree, IsHead
<1>4. BitsAgree(PoolNew)
  BY <1>2 DEF BitsAgree
<1>5. FreeSpans(PoolNew) = {}
  BY <1>2 DEF FreeSpans, IsHead
<1> QED
  BY <1>1, <1>3, <1>4, <1>5 DEF PoolOK

-----------------------------------------------------------------------------
(* Best fit. *)

\* No stack of p has a cycle: a span's rank grows along its stack.
Ranked(p, rank) == \A s \in Spans : p.prev[s] # NO_SPAN => rank[p.prev[s]] < rank[s]
Acyclic(p) == \E rank \in [Spans -> Nat] : Ranked(p, rank)

\* The links of a well-formed pool lead from one free run to another.
LEMMA LinkTypes ==
  ASSUME NEW p, PoolOK(p), NEW s \in Spans, p.prev[s] # NO_SPAN
  PROVE  /\ p.prev[s] \in Spans /\ IsHead(p, s) /\ IsHead(p, p.prev[s])
         /\ p.head_count[p.prev[s]] = p.head_count[s] /\ p.next[p.prev[s]] = s
  BY DEF PoolOK, PoolType, Link_t, StacksAgree, IsHead

\* A new run on top of a stack closes no cycle.
LEMMA LinkAcyclic ==
  ASSUME NEW p, PoolOK(p), Acyclic(p), NEW h \in Spans, NEW c \in Counts, h + c <= NumSpans,
         ~IsHead(p, h)
  PROVE  Acyclic(Link(p, h, c))
<1> DEFINE q == Link(p, h, c)
           old == p.bucket_head[c]
<1>1. p \in PoolType /\ StacksAgree(p) /\ BitsAgree(p)
  BY DEF PoolOK
<1>2. /\ q \in PoolType
      /\ BitsAgree(q)
      /\ q.next = [p.next EXCEPT ![h] = old]
      /\ q.prev = [s \in Spans |-> IF s = old THEN h ELSE IF s = h THEN NO_SPAN
                                   ELSE p.prev[s]]
      /\ q.bucket_head = [p.bucket_head EXCEPT ![c] = h]
      /\ q.head_count = [p.head_count EXCEPT ![h] = c]
      /\ q.tail_count = [p.tail_count EXCEPT ![h + c - 1] = c]
  BY <1>1, LinkFields
<1>3. PICK rank \in [Spans -> Nat] : Ranked(p, rank)
  BY DEF Acyclic
<1> DEFINE v == [s \in Spans |-> IF s = h THEN 0 ELSE rank[s] + 1]
<1>9. v \in [Spans -> Nat] /\ \A s \in Spans : v[s] = IF s = h THEN 0 ELSE rank[s] + 1
  BY <1>3
<1> HIDE DEF v
<1>4. PICK up \in [Spans -> Nat] : \A s \in Spans : up[s] = IF s = h THEN 0 ELSE rank[s] + 1
  BY <1>9
<1>5. old # h
  <2>1. old # NO_SPAN => p.head_count[old] = c
    BY <1>1 DEF StacksAgree
  <2>2. c # 0 /\ h # NO_SPAN
    BY DEF Counts, Spans, NO_SPAN
  <2> QED BY <2>1, <2>2 DEF IsHead
<1>6. ASSUME NEW s \in Spans, q.prev[s] # NO_SPAN PROVE up[q.prev[s]] < up[s]
  <2>1. CASE s = old
    <3>1. q.prev[s] = h /\ s # h
      BY <1>2, <1>5, <2>1
    <3> QED BY <1>3, <1>4, <3>1
  <2>2. CASE s # old
    <3>1. s # h /\ q.prev[s] = p.prev[s]
      BY <1>2, <1>6, <2>2
    <3>2. p.prev[s] \in Spans /\ IsHead(p, p.prev[s])
      BY <1>6, <3>1, LinkTypes
    <3>3. p.prev[s] # h /\ rank[p.prev[s]] < rank[s]
      BY <1>3, <1>6, <3>1, <3>2 DEF Ranked
    <3> QED BY <1>3, <1>4, <3>1, <3>2, <3>3
  <2> QED BY <2>1, <2>2
<1> HIDE DEF q
<1> QED BY <1>6 DEF Acyclic, Ranked, q

\* Nor does taking one out.
LEMMA UnlinkAcyclic ==
  ASSUME NEW p, PoolOK(p), Acyclic(p), NEW h \in Spans, NEW c \in Counts, p.head_count[h] = c
  PROVE  Acyclic(Unlink(p, h, c))
<1> DEFINE q == Unlink(p, h, c)
<1>0. /\ q \in PoolType
      /\ BitsAgree(q)
      /\ q.next = NextWithout(p, h)
      /\ q.prev = PrevWithout(p, h)
      /\ q.bucket_head = HeadWithout(p, h, c)
      /\ q.head_count = [p.head_count EXCEPT ![h] = 0]
      /\ q.tail_count = [p.tail_count EXCEPT ![h + c - 1] = 0]
  BY UnlinkFields
<1> HIDE DEF q
<1>1. q.prev = [s \in Spans |-> IF s = h THEN NO_SPAN
                                ELSE IF s = p.next[h] THEN p.prev[h] ELSE p.prev[s]]
  BY <1>0 DEF PrevWithout
<1>2. PICK rank \in [Spans -> Nat] : Ranked(p, rank)
  BY DEF Acyclic
<1>3. ASSUME NEW s \in Spans, q.prev[s] # NO_SPAN PROVE rank[q.prev[s]] < rank[s]
  <2>1. s # h
    BY <1>1, <1>3
  <2>2. CASE s = p.next[h]
    <3>1. q.prev[s] = p.prev[h]
      BY <1>1, <2>1, <2>2
    <3>2. p.next[h] # NO_SPAN
      BY <2>2 DEF Spans, NO_SPAN
    <3>3. p.prev[s] = h /\ h # NO_SPAN
      BY <2>2, <3>2 DEF PoolOK, StacksAgree, Spans, NO_SPAN
    <3>4. rank[h] < rank[s]
      BY <1>2, <3>3 DEF Ranked
    <3>5. p.prev[h] \in Spans /\ rank[p.prev[h]] < rank[h]
      BY <1>2, <1>3, <3>1, LinkTypes DEF Ranked
    <3> QED BY <1>2, <3>1, <3>4, <3>5
  <2>3. CASE s # p.next[h]
    <3>1. q.prev[s] = p.prev[s]
      BY <1>1, <2>1, <2>3
    <3> QED BY <1>2, <1>3, <3>1 DEF Ranked
  <2> QED BY <2>2, <2>3
<1> HIDE DEF q
<1> QED BY <1>2, <1>3 DEF Acyclic, Ranked, q

\* alloc keeps the stacks acyclic.
LEMMA AllocAcyclic ==
  ASSUME NEW p, PoolOK(p), Acyclic(p), NEW n \in Counts
  PROVE  Acyclic(PoolAlloc(p, n).pool)
<1> DEFINE m == FindFirstSetGe(p, n)
           h == p.bucket_head[m]
           q == Unlink(p, h, m)
           r == PoolAlloc(p, n)
<1>1. r = IF m = NO_SPAN THEN [head |-> NO_SPAN, pool |-> p]
          ELSE [head |-> h, pool |-> IF m > n THEN Link(q, h + n, m - n) ELSE q]
  BY DEF PoolAlloc
<1>2. m # NO_SPAN => m \in Counts /\ m >= n /\ h # NO_SPAN
  BY FindFirstSetCorrect
<1> HIDE DEF m
<1>3. CASE m = NO_SPAN
  BY <1>1, <1>3
<1>4. CASE m # NO_SPAN
  <2>2. h \in Spans /\ p.head_count[h] = m
    BY <1>2, <1>4 DEF PoolOK, PoolType, Link_t, StacksAgree
  <2> HIDE DEF h
  <2>3. /\ PoolOK(q) /\ FreeSpans(q) = FreeSpans(p) \ Run(h, m) /\ Acyclic(q)
        /\ h + m <= NumSpans
    BY <1>2, <1>4, <2>2, UnlinkOK, UnlinkAcyclic
  <2>4. h \in Nat /\ n \in Nat /\ m \in Nat /\ n > 0 /\ m >= n
    BY <1>2, <1>4, <2>2 DEF Spans, Counts
  <2> HIDE DEF q
  <2>5. CASE m > n
    <3>1. h + n \in Spans /\ m - n \in Counts /\ (h + n) + (m - n) <= NumSpans
      BY <1>2, <1>4, <2>3, <2>4, <2>5, NumSpansAssumption DEF Spans, Counts
    <3>2. ~IsHead(q, h + n)
      <4> SUFFICES ASSUME IsHead(q, h + n) PROVE FALSE
        OBVIOUS
      <4>1. q.head_count[h + n] \in 0 .. NumSpans /\ q.head_count[h + n] # 0
        BY <2>3, <3>1 DEF PoolOK, PoolType, IsHead
      <4>2. h + n < (h + n) + q.head_count[h + n]
        BY <2>4, <4>1, NumSpansAssumption
      <4> DEFINE g == h + n
      <4>5. g \in Spans /\ IsHead(q, g) /\ g <= g /\ g < g + q.head_count[g]
        BY <2>4, <3>1, <4>2
      <4>3. h + n \in FreeSpans(q)
        <5> HIDE DEF g
        <5>1. g \in FreeSpans(q)
          BY <4>5 DEF FreeSpans
        <5> QED BY <5>1 DEF g
      <4>4. h + n \in Run(h, m)
        BY <2>4, <2>5 DEF Run
      <4> QED BY <2>3, <4>3, <4>4
    <3>3. Acyclic(Link(q, h + n, m - n))
      BY <2>3, <3>1, <3>2, LinkAcyclic
    <3> QED BY <1>1, <1>4, <2>5, <3>3
  <2>6. CASE m = n
    BY <1>1, <1>4, <2>3, <2>4, <2>6
  <2> QED BY <2>4, <2>5, <2>6
<1> QED BY <1>3, <1>4

\* free keeps them acyclic.
LEMMA FreeAcyclic ==
  ASSUME NEW p, PoolOK(p), Acyclic(p), NEW h \in Spans, NEW c \in Counts, h + c <= NumSpans,
         Run(h, c) \cap FreeSpans(p) = {}
  PROVE  Acyclic(PoolFree(p, h, c))
<1> DEFINE r == MergeRight(p, h, c)
           l == MergeLeft(r.pool, h, r.count)
<1>1. /\ PoolOK(r.pool) /\ r.head = h /\ r.count \in Counts /\ h + r.count <= NumSpans
      /\ Run(h, r.count) \cap FreeSpans(r.pool) = {} /\ NoHeadAt(r.pool, h + r.count)
  BY MergeRightOK
<1>2. PoolFree(p, h, c) = Link(l.pool, l.head, l.count)
  BY <1>1 DEF PoolFree
<1>3. Acyclic(r.pool)
  <2> DEFINE right == h + c
             rc == IF right < NumSpans THEN p.head_count[right] ELSE 0
  <2>1. r.pool = IF rc # 0 THEN Unlink(p, right, rc) ELSE p
    BY DEF MergeRight
  <2>2. rc # 0 => right \in Spans /\ rc \in Counts /\ p.head_count[right] = rc
    <3> SUFFICES ASSUME rc # 0 PROVE right \in Spans /\ rc \in Counts /\ p.head_count[right] = rc
      OBVIOUS
    <3>1. right \in Spans /\ rc = p.head_count[right]
      BY NumSpansAssumption DEF Spans, Counts
    <3>2. p.head_count[right] \in 0 .. NumSpans
      BY <3>1 DEF PoolOK, PoolType
    <3> QED BY <3>1, <3>2, NumSpansAssumption DEF Counts
  <2> HIDE DEF rc, right
  <2> QED BY <2>1, <2>2, UnlinkAcyclic
<1> HIDE DEF r
<1>4. /\ PoolOK(l.pool)
      /\ l.head \in Spans /\ l.count \in Counts /\ l.head + l.count <= NumSpans
      /\ Run(l.head, l.count) \cap FreeSpans(l.pool) = {}
  <2> DEFINE p2 == r.pool
             c2 == r.count
  <2>1. /\ PoolOK(p2) /\ c2 \in Counts /\ h + c2 <= NumSpans
        /\ Run(h, c2) \cap FreeSpans(p2) = {} /\ NoHeadAt(p2, h + c2)
    BY <1>1
  <2> HIDE DEF p2, c2
  <2>2. LET k == MergeLeft(p2, h, c2)
        IN  /\ PoolOK(k.pool)
            /\ k.head \in Spans /\ k.count \in Counts /\ k.head + k.count <= NumSpans
            /\ Run(k.head, k.count) \cap FreeSpans(k.pool) = {}
    BY <2>1, MergeLeftOK
  <2> QED BY <2>2 DEF p2, c2
<1>5. Acyclic(l.pool)
  <2> DEFINE p2 == r.pool
             lc == IF h > 0 THEN p2.tail_count[h - 1] ELSE 0
  <2>1. l.pool = IF lc # 0 THEN Unlink(p2, h - lc, lc) ELSE p2
    BY DEF MergeLeft
  <2>2. PoolOK(p2) /\ Acyclic(p2)
    BY <1>1, <1>3
  <2> HIDE DEF p2
  <2>3. lc # 0 => h - lc \in Spans /\ lc \in Counts /\ p2.head_count[h - lc] = lc
    <3> SUFFICES ASSUME lc # 0 PROVE h - lc \in Spans /\ lc \in Counts /\ p2.head_count[h - lc] = lc
      OBVIOUS
    <3>1. h - 1 \in Spans /\ lc = p2.tail_count[h - 1]
      BY NumSpansAssumption DEF Spans
    <3>2. lc \in 0 .. NumSpans /\ lc <= (h - 1) + 1 /\ p2.head_count[(h - 1) - lc + 1] = lc
      BY <2>2, <3>1 DEF PoolOK, PoolType, TagsAgree
    <3> HIDE DEF lc
    <3>3. (h - 1) - lc + 1 = h - lc /\ h - lc \in Spans /\ lc \in Counts
      BY <3>1, <3>2, NumSpansAssumption DEF Spans, Counts
    <3> QED BY <3>2, <3>3
  <2> HIDE DEF lc
  <2> QED BY <2>1, <2>2, <2>3, UnlinkAcyclic
<1> DEFINE q == l.pool
           k == l.head
           d == l.count
<1> HIDE DEF l
<1>6. ~IsHead(q, k)
  <2> SUFFICES ASSUME IsHead(q, k) PROVE FALSE
    OBVIOUS
  <2>1. q.head_count[k] \in 0 .. NumSpans /\ q.head_count[k] # 0
    BY <1>4 DEF PoolOK, PoolType, IsHead
  <2>2. k \in Spans /\ k \in Nat /\ d \in Nat /\ d > 0
    BY <1>4 DEF Spans, Counts
  <2>3. k < k + q.head_count[k]
    BY <2>1, <2>2, NumSpansAssumption
  <2>4. k \in FreeSpans(q)
    BY <2>2, <2>3 DEF FreeSpans
  <2>5. k \in Run(k, d)
    BY <2>2 DEF Run
  <2> QED BY <1>4, <2>4, <2>5
<1>7. Acyclic(Link(q, k, d))
  BY <1>4, <1>5, <1>6, LinkAcyclic
<1> QED BY <1>2, <1>7

\* The bucket of a free run is not empty.
LEMMA BucketFound ==
  ASSUME NEW p, PoolOK(p), Acyclic(p), NEW h \in Spans, IsHead(p, h)
  PROVE  p.head_count[h] \in Counts /\ p.bucket_head[p.head_count[h]] # NO_SPAN
<1> DEFINE c == p.head_count[h]
           In == {s \in Spans : p.head_count[s] = c}
<1>1. c \in Counts
  BY NumSpansAssumption DEF PoolOK, PoolType, IsHead, Counts
<1>2. PICK rank \in [Spans -> Nat] : Ranked(p, rank)
  BY DEF Acyclic
<1> DEFINE R == {rank[s] : s \in In}
<1>3. R \in SUBSET Nat /\ R # {}
  BY <1>2
<1>4. PICK m \in R : \A y \in R : m <= y
  BY <1>3, MinNat
<1>5. PICK s \in In : m = rank[s]
  BY <1>4
<1>6. p.prev[s] = NO_SPAN
  <2> SUFFICES ASSUME p.prev[s] # NO_SPAN PROVE FALSE
    OBVIOUS
  <2>1. p.prev[s] \in Spans /\ p.head_count[p.prev[s]] = c
    BY <1>5, LinkTypes
  <2>2. rank[p.prev[s]] \in R
    BY <2>1
  <2>3. rank[p.prev[s]] < rank[s] /\ rank[p.prev[s]] \in Nat /\ rank[s] \in Nat
    BY <1>2, <1>5, <2>1 DEF Ranked
  <2> QED BY <1>4, <1>5, <2>2, <2>3, SMTT(30)
<1>7. p.bucket_head[c] = s /\ s # NO_SPAN
  BY <1>5, <1>6 DEF PoolOK, StacksAgree, IsHead, Spans, NO_SPAN
<1> QED BY <1>1, <1>7

\* alloc takes the lower part of a free run, and no free run that is large
\* enough is smaller; it finds none only if there is none.
THEOREM PoolAllocBestFit ==
  ASSUME NEW p, PoolOK(p), Acyclic(p), NEW n \in Counts
  PROVE  LET h == PoolAlloc(p, n).head
         IN  /\ h # NO_SPAN => /\ IsHead(p, h) /\ p.head_count[h] >= n
                               /\ \A g \in Spans : IsHead(p, g) /\ p.head_count[g] >= n
                                                   => p.head_count[g] >= p.head_count[h]
             /\ h = NO_SPAN => \A g \in Spans : IsHead(p, g) => p.head_count[g] < n
<1> DEFINE m == FindFirstSetGe(p, n)
           h == p.bucket_head[m]
           r == PoolAlloc(p, n)
<1>1. r.head = IF m = NO_SPAN THEN NO_SPAN ELSE h
  BY DEF PoolAlloc
<1>2. /\ m # NO_SPAN => m \in Counts /\ m >= n /\ h # NO_SPAN
      /\ \A c \in Counts : c >= n /\ p.bucket_head[c] # NO_SPAN => m # NO_SPAN /\ m <= c
  BY FindFirstSetCorrect
<1>3. m # NO_SPAN => IsHead(p, h) /\ p.head_count[h] = m
  BY <1>2 DEF PoolOK, StacksAgree, IsHead, Counts
<1> HIDE DEF m, h, r
<1>4. ASSUME NEW g \in Spans, IsHead(p, g), p.head_count[g] >= n
      PROVE  m # NO_SPAN /\ p.head_count[g] >= m
  <2>1. p.head_count[g] \in Counts /\ p.bucket_head[p.head_count[g]] # NO_SPAN
    BY <1>4, BucketFound
  <2> QED BY <1>2, <1>4, <2>1 DEF Counts
<1>5. h # NO_SPAN \/ m = NO_SPAN
  BY <1>2
<1>6. ASSUME NEW g \in Spans, IsHead(p, g) PROVE p.head_count[g] \in Int
  BY <1>6, BucketFound DEF Counts
<1>7. n \in Int
  BY DEF Counts
<1>8. CASE m = NO_SPAN
  <2>1. r.head = NO_SPAN
    BY <1>1, <1>8
  <2>2. \A g \in Spans : IsHead(p, g) => p.head_count[g] < n
    BY <1>4, <1>6, <1>7, <1>8
  <2> QED BY <2>1, <2>2 DEF r
<1>9. CASE m # NO_SPAN
  <2>1. r.head = h /\ h # NO_SPAN
    BY <1>1, <1>5, <1>9
  <2>2. IsHead(p, h) /\ p.head_count[h] = m /\ m >= n
    BY <1>2, <1>3, <1>9
  <2>3. \A g \in Spans : IsHead(p, g) /\ p.head_count[g] >= n => p.head_count[g] >= p.head_count[h]
    BY <1>4, <2>2
  <2> QED BY <2>1, <2>2, <2>3 DEF r
<1> QED BY <1>8, <1>9

-----------------------------------------------------------------------------
(* A partition of the carved spans, and the moves that keep it one. *)

\* L is a set of runs, J maps a thread to its spans, F is the set of free
\* spans and c the cursor: every span below c is in exactly one of them, and
\* no other span is in any.
Part(L, J, F, c) ==
  /\ \A r, s \in L : r # s => Disjoint(RunOf(r), RunOf(s))
  /\ \A t, u \in Threads : t # u => Disjoint(J[t], J[u])
  /\ \A t \in Threads, r \in L : Disjoint(J[t], RunOf(r))
  /\ \A r \in L : Disjoint(RunOf(r), F)
  /\ \A t \in Threads : Disjoint(J[t], F)
  /\ \A s : s \in 0 .. c - 1 <=> \/ s \in F
                                 \/ \E r \in L : s \in RunOf(r)
                                 \/ \E t \in Threads : s \in J[t]

\* One thread t turns the runs D, its own spans, the free spans and the fresh
\* spans c .. c2-1 into the runs A, its own spans and the free spans.
Move(L, L2, J, J2, F, F2, c, c2, t, D, A) ==
  /\ L2 = (L \ D) \cup A
  /\ \A u \in Threads : u # t => J2[u] = J[u]
  /\ \A r, s \in A : r # s => Disjoint(RunOf(r), RunOf(s))
  /\ \A r \in A : Disjoint(J2[t], RunOf(r)) /\ Disjoint(RunOf(r), F2)
  /\ Disjoint(J2[t], F2)
  /\ \A s : s \in F2 \/ s \in J2[t] \/ (\E r \in A : s \in RunOf(r))
            <=> \/ s \in F \/ s \in J[t] \/ (\E r \in D : s \in RunOf(r))
                \/ s \in c .. c2 - 1

\* A move keeps the partition.
LEMMA MoveOK ==
  ASSUME NEW L, NEW L2, NEW J, NEW J2, NEW F, NEW F2, NEW c \in Nat, NEW c2 \in Nat,
         c <= c2, NEW t \in Threads, NEW D \in SUBSET L, NEW A,
         Part(L, J, F, c), Move(L, L2, J, J2, F, F2, c, c2, t, D, A)
  PROVE  Part(L2, J2, F2, c2)
<1> DEFINE New(s) == s \in F2 \/ s \in J2[t] \/ \E r \in A : s \in RunOf(r)
           Old(s) == s \in F \/ s \in J[t] \/ (\E r \in D : s \in RunOf(r)) \/ s \in c .. c2 - 1
<1>1. \A s : New(s) <=> Old(s)
  BY DEF Move
<1>2. \A s : s \in 0 .. c - 1 <=> \/ s \in F
                                  \/ \E r \in L : s \in RunOf(r)
                                  \/ \E u \in Threads : s \in J[u]
  BY DEF Part
<1>3. \A s : ~(s \in 0 .. c - 1 /\ s \in c .. c2 - 1)
  OBVIOUS
<1>4. ASSUME NEW r \in L \ D, NEW s \in RunOf(r) PROVE ~Old(s)
  <2>1. s \in 0 .. c - 1
    BY <1>2
  <2>2. s \notin F /\ s \notin J[t] /\ \A d \in D : s \notin RunOf(d)
    BY DEF Part, Disjoint
  <2> QED
    BY <1>3, <2>1, <2>2
<1>5. ASSUME NEW u \in Threads, u # t, NEW s \in J[u] PROVE ~Old(s)
  <2>1. s \in 0 .. c - 1
    BY <1>2
  <2>2. s \notin F /\ s \notin J[t] /\ \A d \in D : s \notin RunOf(d)
    BY <1>5 DEF Part, Disjoint
  <2> QED
    BY <1>3, <2>1, <2>2
<1>6. /\ L2 = (L \ D) \cup A
      /\ \A u \in Threads : u # t => J2[u] = J[u]
  BY DEF Move
<1> HIDE DEF New, Old
<1>7. \A r, s \in L2 : r # s => Disjoint(RunOf(r), RunOf(s))
  <2>1. \A r \in L \ D, s \in A : Disjoint(RunOf(r), RunOf(s))
    BY <1>1, <1>4 DEF New, Disjoint
  <2>2. \A r, s \in L \ D : r # s => Disjoint(RunOf(r), RunOf(s))
    BY DEF Part
  <2>3. \A r, s \in A : r # s => Disjoint(RunOf(r), RunOf(s))
    BY DEF Move
  <2> QED
    BY <1>6, <2>1, <2>2, <2>3 DEF Disjoint
<1>8. \A v, u \in Threads : v # u => Disjoint(J2[v], J2[u])
  <2>1. \A u \in Threads : u # t => Disjoint(J2[t], J2[u])
    BY <1>1, <1>5, <1>6 DEF New, Disjoint
  <2>2. \A v, u \in Threads : v # t /\ u # t /\ v # u => Disjoint(J2[v], J2[u])
    BY <1>6 DEF Part
  <2> QED
    BY <2>1, <2>2 DEF Disjoint
<1>9. \A u \in Threads, r \in L2 : Disjoint(J2[u], RunOf(r))
  <2>1. \A r \in A : Disjoint(J2[t], RunOf(r))
    BY DEF Move
  <2>2. \A r \in L \ D : Disjoint(J2[t], RunOf(r))
    BY <1>1, <1>4 DEF New, Disjoint
  <2>3. \A u \in Threads, r \in A : u # t => Disjoint(J2[u], RunOf(r))
    BY <1>1, <1>5, <1>6 DEF New, Disjoint
  <2>4. \A u \in Threads, r \in L \ D : u # t => Disjoint(J2[u], RunOf(r))
    BY <1>6 DEF Part
  <2> QED
    BY <1>6, <2>1, <2>2, <2>3, <2>4
<1>10. \A r \in L2 : Disjoint(RunOf(r), F2)
  <2>1. \A r \in A : Disjoint(RunOf(r), F2)
    BY DEF Move
  <2>2. \A r \in L \ D : Disjoint(RunOf(r), F2)
    BY <1>1, <1>4 DEF New, Disjoint
  <2> QED
    BY <1>6, <2>1, <2>2
<1>11. \A u \in Threads : Disjoint(J2[u], F2)
  <2>1. Disjoint(J2[t], F2)
    BY DEF Move
  <2>2. \A u \in Threads : u # t => Disjoint(J2[u], F2)
    BY <1>1, <1>5, <1>6 DEF New, Disjoint
  <2> QED
    BY <2>1, <2>2
<1>12. ASSUME NEW s
       PROVE  s \in 0 .. c2 - 1 <=> \/ s \in F2
                                    \/ \E r \in L2 : s \in RunOf(r)
                                    \/ \E u \in Threads : s \in J2[u]
  <2>1. s \in 0 .. c2 - 1 <=> s \in 0 .. c - 1 \/ s \in c .. c2 - 1
    OBVIOUS
  <2>2. s \in 0 .. c2 - 1 <=> \/ Old(s)
                              \/ \E r \in L \ D : s \in RunOf(r)
                              \/ \E u \in Threads : u # t /\ s \in J[u]
    BY <1>2, <2>1 DEF Old
  <2>3. (\/ s \in F2 \/ (\E r \in L2 : s \in RunOf(r)) \/ \E u \in Threads : s \in J2[u])
        <=> \/ New(s)
            \/ \E r \in L \ D : s \in RunOf(r)
            \/ \E u \in Threads : u # t /\ s \in J[u]
    BY <1>6 DEF New
  <2> QED
    BY <1>1, <2>2, <2>3, Zenon
<1> QED
  BY <1>7, <1>8, <1>9, <1>10, <1>11, <1>12, Zenon DEF Part

-----------------------------------------------------------------------------
(* The inductive invariant. *)

Jobs == [t \in Threads |-> JobSpans(t)]

\* A call in progress knows a sound count, and its retired groups are apart.
JobOK(j) ==
  /\ j.at \in {"al_pool", "al_carve", "al_record", "al_count", "dl_file", "dl_count",
               "cs_pool", "cs_bump", "cs_tag"}
        => j.n \in Counts
  /\ j.at \in {"cs_pool", "cs_bump", "cs_tag"} => j.g = 1 \/ j.n <= j.g
  /\ \A r, s \in j.rest : r # s => Disjoint(RunOf(r), RunOf(s))

\* Until a group carve is clamped: the pool is well formed, every carved span
\* has exactly one owner, and a recorded run's count is at its head.
Owned ==
  /\ PoolOK(pool)
  /\ Part(held \cup cells, Jobs, FreeSpans(pool), cursor)
  /\ held \cap cells = {}
  /\ \A r \in Recorded : run_spans[r[1]] = r[2]
  /\ \A t \in Threads : JobOK(job[t])

Good == Types /\ Owned
ArenaInv == overrun \in BOOLEAN /\ (~overrun => Good)

\* What the constants' assumptions say of the numbers of spans.
LEMMA ArenaFacts ==
  /\ ArenaSpans \in Nat /\ NumSpans \in Nat /\ ArenaSpans <= NumSpans
  /\ LargeCounts \subseteq Counts
  /\ \A kg \in ClassCarves : kg[1] \in Counts /\ kg[2] \in Counts
                             /\ (kg[2] = 1 \/ kg[1] = kg[2])
  BY ArenaAssumption, NumSpansAssumption

\* What a change of one call's state does to the functions over threads.
LEMMA JobStep ==
  ASSUME Types, NEW t \in Threads, NEW j \in Job, job' = [job EXCEPT ![t] = j]
  PROVE  /\ job' \in [Threads -> Job]
         /\ job'[t] = j
         /\ \A u \in Threads : u # t => job'[u] = job[u]
         /\ Jobs'[t] = SpansOf(j)
         /\ Jobs[t] = SpansOf(job[t])
         /\ \A u \in Threads : u # t => Jobs'[u] = Jobs[u]
  BY DEF Types, Jobs, JobSpans

\* The call of t neither is nor comes to where a recorded run is counted.
Elsewhere(t, j) == ~At(t, "al_count") /\ j.at # "al_count"

\* The recorded runs that are not returned yet, one by one.
LEMMA InReturning ==
  \A r : r \in Returning <=> \E t \in Threads : At(t, "al_count")
                                              /\ r = <<job[t].head, job[t].n>>
  BY DEF Returning

\* A step that has nothing to do with them.
LEMMA SameReturning ==
  ASSUME Types, NEW t \in Threads, NEW j \in Job, job' = [job EXCEPT ![t] = j], Elsewhere(t, j)
  PROVE  Returning' = Returning
<1>1. job'[t] = j /\ \A u \in Threads : u # t => job'[u] = job[u]
  BY JobStep
<1>2. \A r : r \in Returning' <=> \E u \in Threads : job'[u].at = "al_count"
                                                 /\ r = <<job'[u].head, job'[u].n>>
  BY DEF Returning, At
<1>3. \A r : r \in Returning' <=> r \in Returning
  BY <1>1, <1>2, InReturning DEF Elsewhere, At
<1> QED BY <1>3

\* Nor with the recorded counts.
LEMMA SameCounts ==
  ASSUME Good, NEW t \in Threads, NEW j \in Job, job' = [job EXCEPT ![t] = j], Elsewhere(t, j),
         held' = held, run_spans' = run_spans
  PROVE  \A r \in Recorded' : run_spans'[r[1]] = r[2]
<1>1. Recorded' = Recorded
  BY SameReturning DEF Good, Recorded
<1> QED BY <1>1 DEF Good, Owned

\* A step that moves no span.
LEMMA QuietStep ==
  ASSUME Good, NEW t \in Threads, NEW j \in Job, job' = [job EXCEPT ![t] = j],
         Elsewhere(t, j), JobOK(j), SpansOf(j) = SpansOf(job[t]),
         pool' = pool, cursor' = cursor, held' = held, cells' = cells, run_spans' = run_spans
  PROVE  Owned'
<1>1. Types /\ Owned
  BY DEF Good
<1>2. Jobs' = Jobs
  <2>1. /\ Jobs'[t] = SpansOf(j)
        /\ Jobs[t] = SpansOf(job[t])
        /\ \A u \in Threads : u # t => Jobs'[u] = Jobs[u]
    BY <1>1, JobStep
  <2>2. \A u \in Threads : Jobs'[u] = Jobs[u]
    BY <2>1
  <2>3. Jobs = [u \in Threads |-> Jobs[u]] /\ Jobs' = [u \in Threads |-> Jobs'[u]]
    BY DEF Jobs
  <2> QED
    BY <2>2, <2>3
<1>3. Part(held \cup cells, Jobs, FreeSpans(pool), cursor)'
  BY <1>1, <1>2 DEF Owned, Part, FreeSpans, IsHead, Disjoint, RunOf, Run
<1>4. \A u \in Threads : JobOK(job[u])'
  <2>1. job'[t] = j /\ \A u \in Threads : u # t => job'[u] = job[u]
    BY <1>1, JobStep
  <2> QED
    BY <1>1, <2>1 DEF Owned, JobOK, Disjoint, RunOf, Run
<1>5. PoolOK(pool)'
  BY <1>1 DEF Owned
<1>6. \A r \in Recorded' : run_spans'[r[1]] = r[2]
  BY SameCounts
<1> QED
  BY <1>1, <1>3, <1>4, <1>5, <1>6 DEF Owned

\* A step that moves spans between its thread, the runs and the pool.
LEMMA MoveStep ==
  ASSUME Good, NEW t \in Threads, NEW j \in Job, job' = [job EXCEPT ![t] = j], JobOK(j),
         NEW D \in SUBSET (held \cup cells), NEW A,
         Move(held \cup cells, held' \cup cells', Jobs, Jobs', FreeSpans(pool), FreeSpans(pool'),
              cursor, cursor', t, D, A),
         PoolOK(pool'), cursor' \in Nat, cursor <= cursor',
         held' \cap cells' = {}, \A r \in Recorded' : run_spans'[r[1]] = r[2]
  PROVE  Owned'
<1>1. Types /\ Owned
  BY DEF Good
<1>2. cursor \in Nat
  BY <1>1, ArenaFacts DEF Types
<1>3. Part(held \cup cells, Jobs, FreeSpans(pool), cursor)
  BY <1>1 DEF Owned
<1>4. Part(held' \cup cells', Jobs', FreeSpans(pool'), cursor')
  BY <1>2, <1>3, MoveOK
<1>5. \A u \in Threads : JobOK(job'[u])
  <2>1. job'[t] = j /\ \A u \in Threads : u # t => job'[u] = job[u]
    BY <1>1, JobStep
  <2> QED
    BY <1>1, <2>1 DEF Owned
<1> QED
  BY <1>4, <1>5 DEF Owned

-----------------------------------------------------------------------------
(* One lemma per action. *)

\* The run a claim covers, written as an interval of spans.
LEMMA RunFacts ==
  ASSUME NEW h \in Spans, NEW n \in Counts
  PROVE  /\ <<h, n>> \in Runs /\ RunOf(<<h, n>>) = Run(h, n)
         /\ h \in Run(h, n) /\ h + n - 1 \in Run(h, n)
         /\ h \in Nat /\ n \in Nat /\ n > 0
  BY NumSpansAssumption DEF Runs, RunOf, Run, Spans, Counts

\* A thread in no call holds no span.
LEMMA IdleFacts ==
  Idle \in Job /\ JobOK(Idle) /\ SpansOf(Idle) = {} /\ Idle.at = "idle"
  BY NumSpansAssumption DEF Idle, Job, JobOK, SpansOf, Places, Spans, Counts, Runs

\* alloc_large takes the mutex and claims nothing (subheap.rs:1310-1315).
LEMMA AllocLargeOK ==
  ASSUME Good, NEW t \in Threads, NEW n \in LargeCounts, AllocLarge(t, n)
  PROVE  Good'
<1> DEFINE j == [Idle EXCEPT !.at = "al_pool", !.n = n]
<1>1. n \in Counts /\ n \in 0 .. NumSpans
  BY ArenaFacts DEF Counts
<1>2. j \in Job /\ JobOK(j) /\ SpansOf(j) = {} /\ SpansOf(job[t]) = {} /\ Elsewhere(t, j)
  BY <1>1, IdleFacts DEF AllocLarge, At, Idle, Job, JobOK, SpansOf, Places, Elsewhere
<1>3. job' = [job EXCEPT ![t] = j]
  BY DEF AllocLarge, Goto
<1> HIDE DEF j
<1>4. Owned'
  BY <1>2, <1>3, QuietStep DEF AllocLarge
<1>5. Types'
  BY <1>2, <1>3, JobStep DEF Good, Types, AllocLarge, Lock
<1> QED
  BY <1>4, <1>5 DEF Good

\* The call t is in, typed and sound.
LEMMA JobFacts ==
  ASSUME Good, NEW t \in Threads
  PROVE  /\ job[t] \in Job /\ JobOK(job[t]) /\ Jobs[t] = SpansOf(job[t])
         /\ cursor \in Nat /\ cursor <= ArenaSpans
         /\ PoolOK(pool) /\ pool \in PoolType
         /\ Part(held \cup cells, Jobs, FreeSpans(pool), cursor)
  BY ArenaFacts DEF Good, Types, Owned, Jobs, JobSpans

\* A recorded run is apart from every other run, from the pool and from the
\* calls that are elsewhere.
LEMMA RecordedApart ==
  ASSUME Good, NEW q \in Recorded
  PROVE  /\ q \in Runs /\ q[1] \in Spans /\ q[2] \in Counts /\ q[1] \in RunOf(q)
         /\ \A s \in RunOf(q) : s \in Spans
         /\ Disjoint(RunOf(q), FreeSpans(pool))
         /\ \A r \in held \cup cells : r # q => Disjoint(RunOf(q), RunOf(r))
         /\ \A u \in Threads : ~At(u, "al_count") => Disjoint(RunOf(q), Jobs[u])
         /\ q \notin cells
<1>0. /\ Types /\ Owned /\ cursor \in Nat /\ cursor <= ArenaSpans
      /\ Part(held \cup cells, Jobs, FreeSpans(pool), cursor)
  BY ArenaFacts DEF Good, Types, Owned
<1>a. \A s \in 0 .. cursor - 1 : s \in Spans
  BY <1>0, ArenaFacts DEF Spans
<1>1. CASE q \in held
  <2>1. q \in Runs /\ q[1] \in Spans /\ q[2] \in Counts
    BY <1>0, <1>1 DEF Types, Runs
  <2>2. q[1] \in RunOf(q)
    BY <2>1, RunFacts DEF RunOf
  <2>3. q \notin cells
    BY <1>0, <1>1 DEF Owned
  <2>4. \A s \in RunOf(q) : s \in Spans
    BY <1>0, <1>1, <1>a DEF Part
  <2> QED BY <1>0, <1>1, <2>1, <2>2, <2>3, <2>4 DEF Part, Disjoint
<1>2. CASE q \notin held
  <2>1. PICK t \in Threads : At(t, "al_count") /\ q = <<job[t].head, job[t].n>>
    BY <1>2, InReturning DEF Recorded
  <2> DEFINE h == job[t].head
             n == job[t].n
  <2>2. job[t] \in Job /\ JobOK(job[t]) /\ Jobs[t] = SpansOf(job[t])
    BY <1>0 DEF Types, Owned, Jobs, JobSpans
  <2>3. h \in Spans /\ n \in Counts /\ Jobs[t] = Run(h, n)
    BY <2>1, <2>2 DEF At, Job, JobOK, SpansOf
  <2>4. q = <<h, n>>
    BY <2>1
  <2> HIDE DEF h, n
  <2>5. /\ q \in Runs /\ q[1] \in Spans /\ q[2] \in Counts /\ q[1] \in RunOf(q)
        /\ RunOf(q) = Jobs[t]
    BY <2>3, <2>4, RunFacts
  <2>6. \A s \in Jobs[t] : s \in Spans
    BY <1>0, <1>a DEF Part
  <2>7. q \notin cells
    BY <1>0, <2>5 DEF Part, Disjoint
  <2>8. \A u \in Threads : ~At(u, "al_count") => Disjoint(RunOf(q), Jobs[u])
    BY <1>0, <2>1, <2>5 DEF Part, At
  <2>9. Disjoint(RunOf(q), FreeSpans(pool))
        /\ \A r \in held \cup cells : Disjoint(RunOf(q), RunOf(r))
    BY <1>0, <2>5 DEF Part
  <2> QED BY <2>5, <2>6, <2>7, <2>8, <2>9
<1> QED BY <1>1, <1>2

\* The run h of n spans that a call records was free or its own; it stays the
\* call's.
LEMMA RecordOK ==
  ASSUME Good, NEW t \in Threads, NEW h \in Spans, NEW n \in Counts, Record(t, h, n),
         ~At(t, "al_count"), PoolOK(pool'), pool' \in PoolType,
         UNCHANGED <<cursor, held, cells, live_spans>>,
         large_lock' \in Threads \cup {NoThread},
         Disjoint(Run(h, n), FreeSpans(pool')),
         \A s : s \in FreeSpans(pool') \/ s \in Run(h, n) <=> s \in FreeSpans(pool) \/ s \in Jobs[t]
  PROVE  Good'
<1> DEFINE R == <<h, n>>
           j == [Idle EXCEPT !.at = "al_count", !.head = h, !.n = n]
<1>0. Types /\ Owned /\ cursor \in Nat
  BY ArenaFacts DEF Good, Types
<1>1. /\ job' = [job EXCEPT ![t] = j]
      /\ run_spans' = [run_spans EXCEPT ![h] = n]
      /\ table' = [s \in Spans |-> IF s \in Run(h, n) THEN "large" ELSE table[s]]
  BY DEF Record, Goto, AssignRange
<1>2. R \in Runs /\ RunOf(R) = Run(h, n) /\ h \in Run(h, n) /\ n \in 0 .. NumSpans
  BY RunFacts DEF Counts
<1>3. /\ j \in Job /\ JobOK(j) /\ SpansOf(j) = Run(h, n)
      /\ j.at = "al_count" /\ j.head = h /\ j.n = n
  BY <1>2, IdleFacts DEF Idle, Job, JobOK, SpansOf, Places
<1> HIDE DEF j
<1>4. /\ job' \in [Threads -> Job] /\ Jobs'[t] = Run(h, n) /\ job'[t] = j
      /\ \A u \in Threads : u # t => Jobs'[u] = Jobs[u] /\ job'[u] = job[u]
  BY <1>0, <1>1, <1>3, JobStep
<1>5. Move(held \cup cells, held' \cup cells', Jobs, Jobs', FreeSpans(pool), FreeSpans(pool'),
           cursor, cursor', t, {}, {})
  <2>1. \A s : s \notin cursor .. cursor - 1
    BY <1>0
  <2>2. held' \cup cells' = ((held \cup cells) \ {}) \cup {}
    OBVIOUS
  <2> QED
    BY <1>4, <2>1, <2>2 DEF Move
<1>6. \A q \in Recorded' : run_spans'[q[1]] = q[2]
  <2>1. \A q : q \in Returning' <=> \E u \in Threads : job'[u].at = "al_count"
                                                   /\ q = <<job'[u].head, job'[u].n>>
    BY DEF Returning, At
  <2>2. \A q \in Returning' : q = R \/ q \in Returning
    BY <1>3, <1>4, <2>1, InReturning DEF At
  <2>3. run_spans \in [Spans -> 0 .. NumSpans]
    BY <1>0 DEF Types
  <2>4. run_spans'[h] = n /\ R[1] = h /\ R[2] = n
    BY <1>1, <2>3
  <2>5. ASSUME NEW q \in Recorded PROVE run_spans'[q[1]] = q[2]
    <3>1. q[1] \in Spans /\ q[1] \in RunOf(q) /\ Disjoint(RunOf(q), FreeSpans(pool))
          /\ Disjoint(RunOf(q), Jobs[t])
      BY RecordedApart
    <3>2. q[1] # h
      BY <1>2, <3>1 DEF Disjoint
    <3> QED BY <1>0, <1>1, <2>3, <3>1, <3>2 DEF Owned
  <2> HIDE DEF R
  <2> QED
    BY <2>2, <2>4, <2>5 DEF Recorded
<1>7. Owned'
  <2>1. {} \in SUBSET (held \cup cells) /\ held' \cap cells' = {} /\ cursor' \in Nat /\ cursor <= cursor'
    BY <1>0 DEF Owned
  <2> QED
    BY <1>1, <1>3, <1>5, <1>6, <2>1, MoveStep
<1>8. Types'
  <2>1. run_spans' \in [Spans -> 0 .. NumSpans]
    BY <1>0, <1>1, <1>2 DEF Types
  <2>2. table' \in [Spans -> {"none", "large", "class"}]
    BY <1>0, <1>1 DEF Types
  <2> QED
    BY <1>0, <1>4, <2>1, <2>2 DEF Types
<1> QED
  BY <1>7, <1>8 DEF Good

\* alloc_large under the mutex moves a run from the pool to the call, or
\* nothing (subheap.rs:1319-1323).
LEMMA AllocLargePoolOK ==
  ASSUME Good, NEW t \in Threads, AllocLargePool(t)
  PROVE  Good'
<1> DEFINE n == job[t].n
           r == PoolAlloc(pool, n)
<1>0. Types /\ Owned /\ At(t, "al_pool")
  BY DEF Good, AllocLargePool
<1>1. /\ job[t] \in Job /\ JobOK(job[t]) /\ Jobs[t] = SpansOf(job[t])
      /\ PoolOK(pool) /\ Part(held \cup cells, Jobs, FreeSpans(pool), cursor)
  BY JobFacts
<1>2. n \in Counts /\ SpansOf(job[t]) = {} /\ Jobs[t] = {}
  BY <1>0, <1>1 DEF At, JobOK, SpansOf
<1>3. /\ PoolOK(r.pool)
      /\ r.head = NO_SPAN => r.pool = pool
      /\ r.head # NO_SPAN => /\ r.head \in Spans
                             /\ Run(r.head, n) \subseteq FreeSpans(pool)
                             /\ FreeSpans(r.pool) = FreeSpans(pool) \ Run(r.head, n)
  BY <1>1, <1>2, PoolAllocCorrect
<1>4. /\ pool' = r.pool /\ large_lock' = NoThread
      /\ UNCHANGED <<cursor, live_spans, held, cells, overrun>>
      /\ \/ r.head # NO_SPAN /\ Record(t, r.head, n)
         \/ /\ r.head = NO_SPAN
            /\ job' = [job EXCEPT ![t] = [job[t] EXCEPT !.at = "al_carve"]]
            /\ UNCHANGED <<run_spans, table>>
  BY DEF AllocLargePool, Goto, Unlock
<1> HIDE DEF r
<1>5. CASE r.head # NO_SPAN /\ Record(t, r.head, n)
  <2> DEFINE h == r.head
  <2>1. h \in Spans /\ Run(h, n) \subseteq FreeSpans(pool) /\ FreeSpans(pool') = FreeSpans(pool) \ Run(h, n)
    BY <1>3, <1>4, <1>5
  <2>2. PoolOK(pool') /\ pool' \in PoolType /\ large_lock' \in Threads \cup {NoThread}
    BY <1>3, <1>4 DEF PoolOK
  <2>3. Disjoint(Run(h, n), FreeSpans(pool'))
    BY <2>1 DEF Disjoint
  <2>4. \A s : s \in FreeSpans(pool') \/ s \in Run(h, n) <=> s \in FreeSpans(pool) \/ s \in Jobs[t]
    BY <1>2, <2>1
  <2>5. ~At(t, "al_count")
    BY <1>0 DEF At
  <2>6. Record(t, h, n) /\ UNCHANGED <<cursor, held, cells, live_spans>>
    BY <1>4, <1>5
  <2> HIDE DEF h, n
  <2> QED
    BY <1>2, <2>1, <2>2, <2>3, <2>4, <2>5, <2>6, RecordOK
<1>6. CASE /\ r.head = NO_SPAN
           /\ job' = [job EXCEPT ![t] = [job[t] EXCEPT !.at = "al_carve"]]
           /\ UNCHANGED <<run_spans, table>>
  <2> DEFINE j == [job[t] EXCEPT !.at = "al_carve"]
  <2>1. j \in Job /\ JobOK(j) /\ SpansOf(j) = SpansOf(job[t]) /\ Elsewhere(t, j)
    BY <1>0, <1>1, <1>2 DEF At, Job, JobOK, SpansOf, Places, Elsewhere
  <2>2. job' = [job EXCEPT ![t] = j] /\ pool' = pool
    BY <1>3, <1>4, <1>6
  <2> HIDE DEF j
  <2>3. Owned'
    BY <1>4, <1>6, <2>1, <2>2, QuietStep
  <2>4. Types'
    BY <1>0, <1>4, <1>6, <2>1, <2>2, JobStep DEF Types
  <2> QED
    BY <2>3, <2>4 DEF Good
<1> QED
  BY <1>4, <1>5, <1>6

\* A call takes fresh spans at the cursor.
LEMMA BumpOK ==
  ASSUME Good, NEW t \in Threads, NEW n \in Counts, cursor + n <= ArenaSpans,
         cursor' = cursor + n, Jobs[t] = {},
         NEW j \in Job, job' = [job EXCEPT ![t] = j], JobOK(j), SpansOf(j) = Run(cursor, n),
         Elsewhere(t, j), UNCHANGED <<pool, large_lock, run_spans, table, live_spans, held, cells>>
  PROVE  Good'
<1>0. Types /\ Owned /\ cursor \in Nat /\ n \in Nat /\ n > 0
  BY JobFacts DEF Good, Counts
<1>1. /\ job' \in [Threads -> Job] /\ Jobs'[t] = Run(cursor, n)
      /\ \A u \in Threads : u # t => Jobs'[u] = Jobs[u]
  BY <1>0, JobStep
<1>2. Part(held \cup cells, Jobs, FreeSpans(pool), cursor)
  BY JobFacts
<1>3. Move(held \cup cells, held' \cup cells', Jobs, Jobs', FreeSpans(pool), FreeSpans(pool'),
           cursor, cursor', t, {}, {})
  <2>1. \A s : s \in Run(cursor, n) <=> s \in cursor .. cursor' - 1
    BY <1>0 DEF Run
  <2>2. \A s : s \in FreeSpans(pool) => s \in 0 .. cursor - 1
    BY <1>2 DEF Part
  <2>3. Disjoint(Run(cursor, n), FreeSpans(pool))
    BY <1>0, <2>2 DEF Disjoint, Run
  <2>4. held' \cup cells' = ((held \cup cells) \ {}) \cup {} /\ pool' = pool
    OBVIOUS
  <2> QED
    BY <1>1, <2>1, <2>3, <2>4 DEF Move
<1>4. cursor' \in Nat /\ cursor <= cursor' /\ cursor' \in 0 .. ArenaSpans
  BY <1>0, ArenaFacts
<1>5. Owned'
  <2>1. {} \in SUBSET (held \cup cells) /\ PoolOK(pool') /\ held' \cap cells' = {}
        /\ \A r \in Recorded' : run_spans'[r[1]] = r[2]
    BY <1>0, SameCounts DEF Owned
  <2> QED
    BY <1>3, <1>4, <2>1, MoveStep
<1>6. Types'
  BY <1>0, <1>1, <1>4 DEF Types
<1> QED
  BY <1>5, <1>6 DEF Good

\* carve_run moves fresh spans to the call, or nothing (subheap.rs:220-247).
LEMMA AllocLargeCarveOK ==
  ASSUME Good, NEW t \in Threads, AllocLargeCarve(t)
  PROVE  Good'
<1> DEFINE n == job[t].n
<1>0. Types /\ Owned /\ At(t, "al_carve")
  BY DEF Good, AllocLargeCarve
<1>1. /\ job[t] \in Job /\ JobOK(job[t]) /\ Jobs[t] = SpansOf(job[t])
      /\ cursor \in Nat /\ cursor <= ArenaSpans
  BY JobFacts
<1>2. n \in Counts /\ SpansOf(job[t]) = {} /\ Jobs[t] = {} /\ n \in Nat /\ n > 0
  BY <1>0, <1>1 DEF At, JobOK, SpansOf, Counts
<1>3. CASE cursor + n <= ArenaSpans
  <2> DEFINE j == [job[t] EXCEPT !.at = "al_record", !.head = cursor]
  <2>1. cursor \in Spans
    BY <1>1, <1>2, <1>3, ArenaFacts DEF Spans
  <2>2. j \in Job /\ JobOK(j) /\ SpansOf(j) = Run(cursor, n) /\ Elsewhere(t, j)
    BY <1>0, <1>1, <1>2, <2>1 DEF At, Job, JobOK, SpansOf, Places, Elsewhere
  <2>3. cursor' = cursor + n /\ job' = [job EXCEPT ![t] = j]
    <3>1. CarveRun(n) = n /\ n # 0
      BY <1>2, <1>3 DEF CarveRun
    <3>2. /\ cursor' = cursor + CarveRun(n)
          /\ job' = [job EXCEPT ![t] = IF CarveRun(n) = 0 THEN Idle ELSE j]
      BY DEF AllocLargeCarve, Goto
    <3> QED
      BY <3>1, <3>2
  <2>4. UNCHANGED <<pool, large_lock, run_spans, table, live_spans, held, cells>>
    BY DEF AllocLargeCarve
  <2> HIDE DEF j, n
  <2> QED
    BY <1>2, <1>3, <2>2, <2>3, <2>4, BumpOK
<1>4. CASE ~(cursor + n <= ArenaSpans)
  <2>1. cursor' = cursor /\ job' = [job EXCEPT ![t] = Idle]
    BY <1>1, <1>4 DEF AllocLargeCarve, CarveRun, Goto
  <2>2. Elsewhere(t, Idle)
    BY <1>0, IdleFacts DEF Elsewhere, At
  <2>4. Owned'
    BY <1>2, <2>1, <2>2, IdleFacts, QuietStep DEF AllocLargeCarve
  <2>3. Types'
    BY <1>0, <2>1, IdleFacts, JobStep DEF Types, AllocLargeCarve
  <2> QED
    BY <2>3, <2>4 DEF Good
<1> QED
  BY <1>3, <1>4

\* Recording a carved run leaves it with the call (subheap.rs:1326-1335).
LEMMA AllocLargeRecordOK ==
  ASSUME Good, NEW t \in Threads, AllocLargeRecord(t)
  PROVE  Good'
<1> DEFINE n == job[t].n
           h == job[t].head
<1>0. Types /\ Owned /\ At(t, "al_record")
  BY DEF Good, AllocLargeRecord
<1>1. /\ job[t] \in Job /\ JobOK(job[t]) /\ Jobs[t] = SpansOf(job[t])
      /\ PoolOK(pool) /\ pool \in PoolType
      /\ Part(held \cup cells, Jobs, FreeSpans(pool), cursor)
  BY JobFacts
<1>2. n \in Counts /\ h \in Spans /\ Jobs[t] = Run(h, n)
  BY <1>0, <1>1 DEF At, JobOK, SpansOf, Job
<1>3. /\ Record(t, h, n) /\ pool' = pool /\ large_lock' = large_lock
      /\ UNCHANGED <<cursor, held, cells, live_spans>> /\ ~At(t, "al_count")
  BY <1>0 DEF AllocLargeRecord, At
<1> HIDE DEF n, h
<1>4. large_lock' \in Threads \cup {NoThread}
  BY <1>0, <1>3 DEF Types
<1>5. /\ Disjoint(Run(h, n), FreeSpans(pool'))
      /\ \A s : s \in FreeSpans(pool') \/ s \in Run(h, n) <=> s \in FreeSpans(pool) \/ s \in Jobs[t]
  BY <1>1, <1>2, <1>3 DEF Part
<1> QED
  BY <1>1, <1>2, <1>3, <1>4, <1>5, RecordOK

\* Counting a recorded run moves it from the call to the program
\* (subheap.rs:1336-1340).
LEMMA AllocLargeCountOK ==
  ASSUME Good, NEW t \in Threads, AllocLargeCount(t)
  PROVE  Good'
<1> DEFINE n == job[t].n
           h == job[t].head
           R == <<h, n>>
<1>0. Types /\ Owned /\ At(t, "al_count")
  BY DEF Good, AllocLargeCount
<1>1. /\ job[t] \in Job /\ JobOK(job[t]) /\ Jobs[t] = SpansOf(job[t])
      /\ PoolOK(pool) /\ cursor \in Nat
      /\ Part(held \cup cells, Jobs, FreeSpans(pool), cursor)
  BY JobFacts
<1>2. n \in Counts /\ h \in Spans /\ Jobs[t] = Run(h, n)
  BY <1>0, <1>1 DEF At, JobOK, SpansOf, Job
<1>3. /\ job' = [job EXCEPT ![t] = Idle] /\ held' = held \cup {R}
      /\ live_spans' = live_spans + n
      /\ UNCHANGED <<pool, large_lock, cursor, run_spans, table, cells>>
  BY DEF AllocLargeCount, Goto
<1>4. R \in Returning
  BY <1>0, InReturning
<1> HIDE DEF n, h
<1>5. R \in Runs /\ RunOf(R) = Run(h, n) /\ n \in Int /\ R \notin cells
  BY <1>2, <1>4, RunFacts, RecordedApart DEF Recorded
<1> HIDE DEF R
<1>6. /\ job' \in [Threads -> Job] /\ Jobs'[t] = {} /\ job'[t] = Idle
      /\ \A u \in Threads : u # t => Jobs'[u] = Jobs[u] /\ job'[u] = job[u]
  BY <1>0, <1>3, IdleFacts, JobStep
<1>7. Move(held \cup cells, held' \cup cells', Jobs, Jobs', FreeSpans(pool), FreeSpans(pool'),
           cursor, cursor', t, {}, {R})
  <2>1. \A s : s \notin cursor .. cursor - 1
    BY <1>1
  <2>2. held' \cup cells' = ((held \cup cells) \ {}) \cup {R}
    BY <1>3
  <2>3. Disjoint(RunOf(R), FreeSpans(pool))
    BY <1>1, <1>2, <1>5 DEF Part
  <2> QED
    BY <1>2, <1>3, <1>5, <1>6, <2>1, <2>2, <2>3 DEF Move, Disjoint
<1>8. \A q \in Recorded' : run_spans'[q[1]] = q[2]
  <2>1. \A q : q \in Returning' <=> \E u \in Threads : job'[u].at = "al_count"
                                                   /\ q = <<job'[u].head, job'[u].n>>
    BY DEF Returning, At
  <2>2. \A q \in Returning' : q \in Returning
    BY <1>6, <2>1, IdleFacts, InReturning DEF At
  <2>3. \A q \in Recorded' : q \in Recorded
    BY <1>3, <1>4, <2>2 DEF Recorded
  <2> QED
    BY <1>0, <1>3, <2>3 DEF Owned
<1>9. Owned'
  <2>1. {} \in SUBSET (held \cup cells) /\ PoolOK(pool') /\ held' \cap cells' = {}
    BY <1>0, <1>1, <1>3, <1>5 DEF Owned
  <2>2. cursor' \in Nat /\ cursor <= cursor'
    BY <1>1, <1>3
  <2> QED
    BY <1>3, <1>7, <1>8, <2>1, <2>2, IdleFacts, MoveStep
<1>10. Types'
  BY <1>0, <1>3, <1>5, <1>6 DEF Types
<1> QED
  BY <1>9, <1>10 DEF Good

\* dealloc_large moves the run from the program to the call: what it swaps
\* out of run_spans is the length of that very run (subheap.rs:1345-1351).
LEMMA DeallocLargeOK ==
  ASSUME Good, NEW t \in Threads, NEW r \in held, DeallocLarge(t, r)
  PROVE  Good'
<1> DEFINE n == run_spans[r[1]]
           j == [Idle EXCEPT !.at = "dl_file", !.head = r[1], !.n = n]
<1>0. Types /\ Owned /\ At(t, "idle") /\ r \in Runs
  BY DEF Good, DeallocLarge, Types
<1>1. /\ job[t] \in Job /\ Jobs[t] = SpansOf(job[t]) /\ PoolOK(pool)
      /\ cursor \in Nat
      /\ Part(held \cup cells, Jobs, FreeSpans(pool), cursor)
  BY JobFacts
<1>2. Jobs[t] = {}
  BY <1>0, <1>1 DEF At, SpansOf
<1>3. n = r[2] /\ r[1] \in Spans /\ n \in Counts /\ RunOf(r) = Run(r[1], n)
  BY <1>0 DEF Owned, Runs, RunOf, Recorded
<1>4. n # 0 /\ n \in 0 .. NumSpans
  BY <1>3 DEF Counts
<1>5. /\ held' = held \ {r} /\ run_spans' = [run_spans EXCEPT ![r[1]] = 0]
      /\ job' = [job EXCEPT ![t] = j]
      /\ UNCHANGED <<pool, large_lock, cursor, table, live_spans, cells>>
  BY <1>4 DEF DeallocLarge, Goto
<1>6. j \in Job /\ JobOK(j) /\ SpansOf(j) = RunOf(r) /\ Elsewhere(t, j)
  BY <1>0, <1>3, <1>4, IdleFacts DEF Idle, Job, JobOK, SpansOf, Places, Elsewhere, At
<1> HIDE DEF j
<1>7. /\ job' \in [Threads -> Job] /\ Jobs'[t] = RunOf(r)
      /\ \A u \in Threads : u # t => Jobs'[u] = Jobs[u]
  BY <1>0, <1>5, <1>6, JobStep
<1>8. Move(held \cup cells, held' \cup cells', Jobs, Jobs', FreeSpans(pool), FreeSpans(pool'),
           cursor, cursor', t, {r}, {})
  <2>1. held' \cup cells' = ((held \cup cells) \ {r}) \cup {}
    BY <1>0, <1>5 DEF Owned
  <2>2. Disjoint(RunOf(r), FreeSpans(pool))
    BY <1>1 DEF Part
  <2>3. \A s : s \notin cursor .. cursor - 1
    BY <1>1
  <2> QED
    BY <1>2, <1>5, <1>7, <2>1, <2>2, <2>3 DEF Move
<1>9. \A q \in Recorded' : run_spans'[q[1]] = q[2]
  <2> SUFFICES ASSUME NEW q \in Recorded' PROVE run_spans'[q[1]] = q[2]
    OBVIOUS
  <2>1. Returning' = Returning
    BY <1>0, <1>5, <1>6, SameReturning
  <2>2. q \in Recorded
    BY <1>5, <2>1 DEF Recorded
  <2>3. q[1] \in Spans /\ q[1] \in RunOf(q) /\ r[1] \in RunOf(r)
    BY <2>2, RecordedApart DEF Recorded
  <2>4. q # r
    <3>1. CASE q \in held'
      BY <1>5, <3>1
    <3>2. CASE q \in Returning
      <4>1. PICK u \in Threads : At(u, "al_count") /\ q = <<job[u].head, job[u].n>>
        BY <3>2, InReturning
      <4>2. job[u] \in Job /\ JobOK(job[u]) /\ Jobs[u] = SpansOf(job[u])
        BY JobFacts
      <4>3. Jobs[u] = RunOf(q)
        BY <4>1, <4>2 DEF At, SpansOf, RunOf
      <4> QED BY <1>1, <2>3, <4>3 DEF Part, Disjoint
    <3> QED BY <2>1, <3>1, <3>2 DEF Recorded
  <2>5. Disjoint(RunOf(q), RunOf(r))
    BY <2>2, <2>4, RecordedApart
  <2>6. q[1] # r[1]
    BY <2>3, <2>5 DEF Disjoint
  <2> QED
    BY <1>0, <1>5, <2>2, <2>3, <2>6 DEF Types, Owned
<1>10. Owned'
  <2>1. {r} \in SUBSET (held \cup cells) /\ PoolOK(pool') /\ held' \cap cells' = {}
    BY <1>0, <1>1, <1>5 DEF Owned
  <2>2. cursor' \in Nat /\ cursor <= cursor'
    BY <1>1, <1>5
  <2> QED
    BY <1>5, <1>6, <1>8, <1>9, <2>1, <2>2, MoveStep
<1>11. Types'
  <2>1. run_spans' \in [Spans -> 0 .. NumSpans]
    <3>1. 0 \in 0 .. NumSpans
      BY NumSpansAssumption
    <3>2. run_spans \in [Spans -> 0 .. NumSpans]
      BY <1>0 DEF Types
    <3> HIDE DEF n
    <3> QED
      BY <1>5, <3>1, <3>2
  <2> QED
    BY <1>0, <1>5, <1>7, <2>1 DEF Types
<1> QED
  BY <1>10, <1>11 DEF Good

\* A call files one of its runs in the pool.
LEMMA FileOK ==
  ASSUME Good, NEW t \in Threads, NEW h \in Spans, NEW n \in Counts,
         Run(h, n) \subseteq Jobs[t],
         pool' = PoolFree(pool, h, n),
         NEW j \in Job, job' = [job EXCEPT ![t] = j], JobOK(j),
         SpansOf(j) = Jobs[t] \ Run(h, n), Elsewhere(t, j),
         large_lock' \in Threads \cup {NoThread}, live_spans' \in Int,
         UNCHANGED <<cursor, run_spans, table, held, cells>>
  PROVE  Good'
<1>0. Types /\ Owned /\ cursor \in Nat /\ cursor <= ArenaSpans
      /\ PoolOK(pool) /\ Part(held \cup cells, Jobs, FreeSpans(pool), cursor)
  BY JobFacts DEF Good
<1>1. h \in Nat /\ n \in Nat /\ n > 0 /\ h + n - 1 \in Run(h, n)
  BY RunFacts
<1>2. h + n <= NumSpans
  <2>1. h + n - 1 \in 0 .. cursor - 1
    BY <1>0, <1>1 DEF Part
  <2> QED
    BY <1>0, <1>1, <2>1, ArenaFacts
<1>3. Run(h, n) \cap FreeSpans(pool) = {}
  BY <1>0 DEF Part, Disjoint
<1>4. PoolOK(pool') /\ FreeSpans(pool') = FreeSpans(pool) \cup Run(h, n)
  BY <1>0, <1>2, <1>3, PoolFreeCorrect
<1>5. /\ job' \in [Threads -> Job] /\ Jobs'[t] = Jobs[t] \ Run(h, n)
      /\ \A u \in Threads : u # t => Jobs'[u] = Jobs[u]
  BY <1>0, JobStep
<1>6. Move(held \cup cells, held' \cup cells', Jobs, Jobs', FreeSpans(pool), FreeSpans(pool'),
           cursor, cursor', t, {}, {})
  <2>1. held' \cup cells' = ((held \cup cells) \ {}) \cup {}
    OBVIOUS
  <2>2. Disjoint(Jobs'[t], FreeSpans(pool'))
    BY <1>0, <1>4, <1>5 DEF Part, Disjoint
  <2>3. \A s : s \notin cursor .. cursor' - 1
    BY <1>0
  <2>4. \A s : s \in FreeSpans(pool') \/ s \in Jobs'[t] <=> s \in FreeSpans(pool) \/ s \in Jobs[t]
    BY <1>4, <1>5
  <2> QED
    BY <1>5, <2>1, <2>2, <2>3, <2>4 DEF Move
<1>7. Owned'
  <2>1. {} \in SUBSET (held \cup cells) /\ held' \cap cells' = {}
        /\ \A r \in Recorded' : run_spans'[r[1]] = r[2]
    BY <1>0, SameCounts DEF Owned
  <2>2. cursor' \in Nat /\ cursor <= cursor'
    BY <1>0
  <2> QED
    BY <1>4, <1>6, <2>1, <2>2, MoveStep
<1>8. Types'
  BY <1>0, <1>4, <1>5 DEF Types, PoolOK
<1> QED
  BY <1>7, <1>8 DEF Good

\* dealloc_large moves the run from the call to the pool (subheap.rs:1354-1359).
LEMMA DeallocLargeFileOK ==
  ASSUME Good, NEW t \in Threads, DeallocLargeFile(t)
  PROVE  Good'
<1> DEFINE n == job[t].n
           h == job[t].head
           j == [job[t] EXCEPT !.at = "dl_count"]
<1>0. Types /\ At(t, "dl_file")
  BY DEF Good, DeallocLargeFile
<1>1. job[t] \in Job /\ JobOK(job[t]) /\ Jobs[t] = SpansOf(job[t])
  BY JobFacts
<1>2. n \in Counts /\ h \in Spans /\ Jobs[t] = Run(h, n)
  BY <1>0, <1>1 DEF At, JobOK, SpansOf, Job
<1>3. /\ pool' = PoolFree(pool, h, n)
      /\ job' = [job EXCEPT ![t] = j]
      /\ UNCHANGED <<large_lock, cursor, run_spans, table, live_spans, held, cells>>
  BY DEF DeallocLargeFile, Goto
<1>4. j \in Job /\ JobOK(j) /\ SpansOf(j) = {} /\ Elsewhere(t, j)
  BY <1>0, <1>1, <1>2 DEF At, Job, JobOK, SpansOf, Places, Elsewhere
<1> HIDE DEF n, h, j
<1>5. /\ Run(h, n) \subseteq Jobs[t] /\ SpansOf(j) = Jobs[t] \ Run(h, n)
      /\ large_lock' \in Threads \cup {NoThread} /\ live_spans' \in Int
  BY <1>0, <1>2, <1>3, <1>4 DEF Types
<1> QED
  BY <1>2, <1>3, <1>4, <1>5, FileOK

\* The late decrement moves nothing (subheap.rs:1360-1363).
LEMMA DeallocLargeCountOK ==
  ASSUME Good, NEW t \in Threads, DeallocLargeCount(t)
  PROVE  Good'
<1>0. Types /\ At(t, "dl_count")
  BY DEF Good, DeallocLargeCount
<1>1. job[t] \in Job /\ JobOK(job[t])
  BY JobFacts
<1>2. /\ job' = [job EXCEPT ![t] = Idle] /\ live_spans' = live_spans - job[t].n
      /\ UNCHANGED <<pool, large_lock, cursor, run_spans, table, held, cells>>
  BY DEF DeallocLargeCount, Goto
<1>3. SpansOf(job[t]) = {} /\ Elsewhere(t, Idle) /\ live_spans' \in Int
  BY <1>0, <1>1, <1>2, IdleFacts DEF At, SpansOf, Elsewhere, Types, JobOK, Counts
<1>4. Owned'
  BY <1>2, <1>3, IdleFacts, QuietStep
<1>5. Types'
  BY <1>0, <1>2, <1>3, IdleFacts, JobStep DEF Types
<1> QED
  BY <1>4, <1>5 DEF Good

\* The try_lock of a carve claims nothing (subheap.rs:789-790).
LEMMA CarveOrReuseOK ==
  ASSUME Good, NEW t \in Threads, NEW kg \in ClassCarves, CarveOrReuse(t, kg[1], kg[2])
  PROVE  Good'
<1> DEFINE J(place) == [Idle EXCEPT !.at = place, !.n = kg[1], !.g = kg[2]]
<1>0. Types /\ Owned /\ At(t, "idle")
  BY DEF Good, CarveOrReuse
<1>1. /\ kg[1] \in Counts /\ kg[2] \in Counts /\ (kg[2] = 1 \/ kg[1] <= kg[2])
      /\ kg[1] \in 0 .. NumSpans
  BY ArenaFacts DEF Counts
<1>2. PICK place \in {"cs_pool", "cs_bump"} : job' = [job EXCEPT ![t] = J(place)]
  BY DEF CarveOrReuse, Goto
<1>3. J(place) \in Job /\ JobOK(J(place)) /\ SpansOf(J(place)) = {} /\ SpansOf(job[t]) = {}
      /\ Elsewhere(t, J(place))
  BY <1>0, <1>1, IdleFacts DEF At, Idle, Job, JobOK, SpansOf, Places, Elsewhere
<1>4. /\ large_lock' \in Threads \cup {NoThread}
      /\ UNCHANGED <<pool, cursor, run_spans, table, live_spans, held, cells>>
  BY <1>0 DEF CarveOrReuse, Lock, Types
<1> DEFINE j == J(place)
<1>5. /\ job' = [job EXCEPT ![t] = j] /\ j \in Job /\ JobOK(j) /\ SpansOf(j) = SpansOf(job[t])
      /\ Elsewhere(t, j)
  BY <1>2, <1>3
<1> HIDE DEF j
<1>6. Owned'
  BY <1>4, <1>5, QuietStep
<1>7. Types'
  BY <1>0, <1>4, <1>5, JobStep DEF Types
<1> QED
  BY <1>6, <1>7 DEF Good

\* Taking the mutex in reclaim_cell moves nothing (subheap.rs:1259).
LEMMA ReclaimLockOK ==
  ASSUME Good, NEW t \in Threads, ReclaimLock(t)
  PROVE  Good'
<1> DEFINE j == [job[t] EXCEPT !.at = "rc_file"]
<1>0. Types /\ Owned /\ At(t, "rc_lock")
  BY DEF Good, ReclaimLock
<1>1. job[t] \in Job /\ JobOK(job[t])
  BY JobFacts
<1>2. /\ job' = [job EXCEPT ![t] = j] /\ j \in Job /\ JobOK(j) /\ SpansOf(j) = SpansOf(job[t])
      /\ Elsewhere(t, j)
  BY <1>0, <1>1 DEF ReclaimLock, Goto, At, Job, JobOK, SpansOf, Places, Elsewhere
<1>3. /\ large_lock' \in Threads \cup {NoThread}
      /\ UNCHANGED <<pool, cursor, run_spans, table, live_spans, held, cells>>
  BY DEF ReclaimLock, Lock
<1> HIDE DEF j
<1>4. Owned'
  BY <1>2, <1>3, QuietStep
<1>5. Types'
  BY <1>0, <1>2, <1>3, JobStep DEF Types
<1> QED
  BY <1>4, <1>5 DEF Good

\* A pool hit of a carve moves a run from the pool to the call
\* (subheap.rs:789-798).
LEMMA TryPoolAllocOK ==
  ASSUME Good, NEW t \in Threads, TryPoolAlloc(t)
  PROVE  Good'
<1> DEFINE n == job[t].n
           r == PoolAlloc(pool, n)
<1>0. Types /\ Owned /\ At(t, "cs_pool")
  BY DEF Good, TryPoolAlloc
<1>1. /\ job[t] \in Job /\ JobOK(job[t]) /\ Jobs[t] = SpansOf(job[t]) /\ cursor \in Nat
      /\ PoolOK(pool) /\ Part(held \cup cells, Jobs, FreeSpans(pool), cursor)
  BY JobFacts
<1>2. n \in Counts /\ SpansOf(job[t]) = {} /\ Jobs[t] = {}
  BY <1>0, <1>1 DEF At, JobOK, SpansOf
<1>3. /\ PoolOK(r.pool)
      /\ r.head = NO_SPAN => r.pool = pool
      /\ r.head # NO_SPAN => /\ r.head \in Spans
                             /\ Run(r.head, n) \subseteq FreeSpans(pool)
                             /\ FreeSpans(r.pool) = FreeSpans(pool) \ Run(r.head, n)
  BY <1>1, <1>2, PoolAllocCorrect
<1>4. /\ pool' = r.pool /\ large_lock' = NoThread
      /\ UNCHANGED <<cursor, run_spans, table, live_spans, held, cells>>
      /\ job' = [job EXCEPT ![t] = IF r.head = NO_SPAN THEN [job[t] EXCEPT !.at = "cs_bump"]
                                   ELSE [job[t] EXCEPT !.at = "cs_tag", !.head = r.head]]
  BY DEF TryPoolAlloc, Goto, Unlock
<1> HIDE DEF r
<1>5. CASE r.head = NO_SPAN
  <2> DEFINE j == [job[t] EXCEPT !.at = "cs_bump"]
  <2>1. j \in Job /\ JobOK(j) /\ SpansOf(j) = SpansOf(job[t]) /\ Elsewhere(t, j)
    BY <1>0, <1>1, <1>2 DEF At, Job, JobOK, SpansOf, Places, Elsewhere
  <2>2. job' = [job EXCEPT ![t] = j] /\ pool' = pool
    BY <1>3, <1>4, <1>5
  <2> HIDE DEF j
  <2>3. Owned'
    BY <1>4, <2>1, <2>2, QuietStep
  <2>4. Types'
    BY <1>0, <1>4, <2>1, <2>2, JobStep DEF Types
  <2> QED
    BY <2>3, <2>4 DEF Good
<1>6. CASE r.head # NO_SPAN
  <2> DEFINE h == r.head
             j == [job[t] EXCEPT !.at = "cs_tag", !.head = h]
  <2>1. h \in Spans /\ Run(h, n) \subseteq FreeSpans(pool) /\ FreeSpans(pool') = FreeSpans(pool) \ Run(h, n)
        /\ PoolOK(pool')
    BY <1>3, <1>4, <1>6
  <2>2. j \in Job /\ JobOK(j) /\ SpansOf(j) = Run(h, n) /\ Elsewhere(t, j)
    BY <1>0, <1>1, <1>2, <2>1 DEF At, Job, JobOK, SpansOf, Places, Elsewhere
  <2>3. job' = [job EXCEPT ![t] = j]
    BY <1>4, <1>6
  <2> HIDE DEF j, h, n
  <2>4. /\ job' \in [Threads -> Job] /\ Jobs'[t] = Run(h, n)
        /\ \A u \in Threads : u # t => Jobs'[u] = Jobs[u]
    BY <1>0, <2>2, <2>3, JobStep
  <2>5. Move(held \cup cells, held' \cup cells', Jobs, Jobs', FreeSpans(pool), FreeSpans(pool'),
             cursor, cursor', t, {}, {})
    <3>1. held' \cup cells' = ((held \cup cells) \ {}) \cup {}
      BY <1>4
    <3>2. Disjoint(Jobs'[t], FreeSpans(pool'))
      BY <2>1, <2>4 DEF Disjoint
    <3>3. \A s : s \notin cursor .. cursor' - 1
      BY <1>1, <1>4
    <3>4. \A s : s \in FreeSpans(pool') \/ s \in Jobs'[t] <=> s \in FreeSpans(pool) \/ s \in Jobs[t]
      BY <1>2, <2>1, <2>4
    <3> QED
      BY <2>4, <3>1, <3>2, <3>3, <3>4 DEF Move
  <2>6. Owned'
    <3>1. {} \in SUBSET (held \cup cells) /\ held' \cap cells' = {}
          /\ \A q \in Recorded' : run_spans'[q[1]] = q[2]
      BY <1>0, <1>4, <2>2, <2>3, SameCounts DEF Owned
    <3>2. cursor' \in Nat /\ cursor <= cursor'
      BY <1>1, <1>4
    <3> QED
      BY <2>1, <2>2, <2>3, <2>5, <3>1, <3>2, MoveStep
  <2>7. Types'
    BY <1>0, <1>4, <2>1, <2>4 DEF Types, PoolOK
  <2> QED
    BY <2>6, <2>7 DEF Good
<1> QED
  BY <1>5, <1>6

\* carve_spans moves what is left of the arena to the call
\* (subheap.rs:174-206).
LEMMA CarveBumpOK ==
  ASSUME Good, NEW t \in Threads, CarveBump(t)
  PROVE  Good'
<1> DEFINE take == CarveSpans(job[t].n)
<1>0. Types /\ Owned /\ At(t, "cs_bump")
  BY DEF Good, CarveBump
<1>1. /\ job[t] \in Job /\ JobOK(job[t]) /\ Jobs[t] = SpansOf(job[t])
      /\ cursor \in Nat /\ cursor <= ArenaSpans
  BY JobFacts
<1>2. /\ job[t].n \in Counts /\ SpansOf(job[t]) = {} /\ Jobs[t] = {}
      /\ job[t].g = 1 \/ job[t].n <= job[t].g
  BY <1>0, <1>1 DEF At, JobOK, SpansOf
<1>3. take \in Nat /\ take <= job[t].n /\ cursor + take <= ArenaSpans /\ job[t].n \in Nat
  BY <1>1, <1>2, ArenaFacts DEF CarveSpans, Counts
<1>4. /\ cursor' = cursor + take
      /\ job' = [job EXCEPT ![t] = IF take = 0 THEN Idle
                  ELSE [job[t] EXCEPT !.at = "cs_tag", !.head = cursor, !.n = take]]
      /\ UNCHANGED <<pool, large_lock, run_spans, table, live_spans, held, cells>>
  BY DEF CarveBump, Goto
<1>5. CASE take = 0
  <2>1. cursor' = cursor /\ job' = [job EXCEPT ![t] = Idle]
    BY <1>1, <1>4, <1>5
  <2>4. Elsewhere(t, Idle)
    BY <1>0, IdleFacts DEF Elsewhere, At
  <2>2. Owned'
    BY <1>2, <1>4, <2>1, <2>4, IdleFacts, QuietStep
  <2>3. Types'
    BY <1>0, <1>4, <2>1, IdleFacts, JobStep DEF Types
  <2> QED
    BY <2>2, <2>3 DEF Good
<1>6. CASE take # 0
  <2> DEFINE j == [job[t] EXCEPT !.at = "cs_tag", !.head = cursor, !.n = take]
  <2>1. cursor \in Spans /\ take \in Counts /\ take \in 0 .. NumSpans
    BY <1>1, <1>3, <1>6, ArenaFacts DEF Spans, Counts
  <2>2. job[t].g \in Counts
    BY <1>1 DEF Job
  <2>3. job[t].g = 1 \/ take <= job[t].g
    BY <1>2, <1>3, <2>2 DEF Counts
  <2> HIDE DEF take
  <2>4. j \in Job /\ JobOK(j) /\ SpansOf(j) = Run(cursor, take) /\ Elsewhere(t, j)
    BY <1>0, <1>1, <2>1, <2>3 DEF Job, JobOK, SpansOf, Places, Elsewhere, At
  <2>5. job' = [job EXCEPT ![t] = j]
    BY <1>4, <1>6
  <2> HIDE DEF j
  <2> QED
    BY <1>2, <1>3, <1>4, <2>1, <2>4, <2>5, BumpOK
<1> QED
  BY <1>5, <1>6

\* The groups of a carve are runs, apart from one another, and cover it.
LEMMA GroupsOK ==
  ASSUME NEW h \in Spans, NEW n \in Counts, NEW g \in Counts, g = 1 \/ n = g,
         h + n <= NumSpans
  PROVE  /\ Groups(h, n, g) \subseteq Runs
         /\ \A r, s \in Groups(h, n, g) : r # s => Disjoint(RunOf(r), RunOf(s))
         /\ \A s : s \in Run(h, n) <=> \E r \in Groups(h, n, g) : s \in RunOf(r)
<1>0. h \in Nat /\ n \in Nat /\ g \in Nat /\ n > 0 /\ g > 0
  BY DEF Spans, Counts
<1>1. CASE g > 1
  <2>1. n = g /\ Groups(h, n, g) = {<<h, n>>}
    BY <1>0, <1>1 DEF Groups
  <2>2. <<h, n>> \in Runs /\ RunOf(<<h, n>>) = Run(h, n)
    BY RunFacts
  <2> QED
    BY <2>1, <2>2
<1>2. CASE ~(g > 1)
  <2>1. Groups(h, n, g) = {<<x, 1>> : x \in Run(h, n)}
    BY <1>2 DEF Groups
  <2>2. \A x \in Run(h, n) : x \in Spans /\ x \in Nat
    BY <1>0, NumSpansAssumption DEF Run, Spans
  <2>3. 1 \in Counts
    BY NumSpansAssumption DEF Counts
  <2>4. \A x \in Run(h, n) : <<x, 1>> \in Runs
    BY <2>2, <2>3 DEF Runs
  <2>5. ASSUME NEW x \in Run(h, n) PROVE RunOf(<<x, 1>>) = {x}
    BY <2>2 DEF RunOf, Run
  <2>6. Groups(h, n, g) \subseteq Runs
    BY <2>1, <2>4
  <2>7. ASSUME NEW r \in Groups(h, n, g), NEW s \in Groups(h, n, g), r # s
        PROVE  Disjoint(RunOf(r), RunOf(s))
    <3>1. PICK x \in Run(h, n) : r = <<x, 1>>
      BY <2>1
    <3>2. PICK y \in Run(h, n) : s = <<y, 1>>
      BY <2>1
    <3>3. x # y
      BY <2>7, <3>1, <3>2
    <3> QED
      BY <2>5, <3>1, <3>2, <3>3 DEF Disjoint
  <2>8. ASSUME NEW s PROVE s \in Run(h, n) <=> \E r \in Groups(h, n, g) : s \in RunOf(r)
    <3>1. ASSUME s \in Run(h, n) PROVE \E r \in Groups(h, n, g) : s \in RunOf(r)
      <4>1. <<s, 1>> \in Groups(h, n, g) /\ s \in RunOf(<<s, 1>>)
        BY <2>1, <2>5, <3>1
      <4> QED
        BY <4>1
    <3>2. ASSUME NEW r \in Groups(h, n, g), s \in RunOf(r) PROVE s \in Run(h, n)
      <4>1. PICK x \in Run(h, n) : r = <<x, 1>>
        BY <2>1
      <4> QED
        BY <2>5, <3>2, <4>1
    <3> QED
      BY <3>1, <3>2
  <2> QED
    BY <2>6, <2>7, <2>8
<1> QED
  BY <1>1, <1>2

\* A carve moves its spans from the call to the class's cell
\* (subheap.rs:803-865); a clamped group ends every promise.
LEMMA CarveTagOK ==
  ASSUME Good, NEW t \in Threads, CarveTag(t), ~overrun'
  PROVE  Good'
<1> DEFINE h == job[t].head
           n == job[t].n
           g == job[t].g
           A == Groups(h, n, g)
<1>0. Types /\ Owned /\ At(t, "cs_tag")
  BY DEF Good, CarveTag
<1>1. /\ job[t] \in Job /\ JobOK(job[t]) /\ Jobs[t] = SpansOf(job[t])
      /\ cursor \in Nat /\ cursor <= ArenaSpans
      /\ PoolOK(pool) /\ Part(held \cup cells, Jobs, FreeSpans(pool), cursor)
  BY JobFacts
<1>2. n \in Counts /\ h \in Spans /\ g \in Counts /\ Jobs[t] = Run(h, n) /\ (g = 1 \/ n <= g)
  BY <1>0, <1>1 DEF At, JobOK, SpansOf, Job
<1>3. /\ table' = [s \in Spans |-> IF s \in Run(h, n) THEN "class" ELSE table[s]]
      /\ cells' = cells \cup A
      /\ overrun' = (overrun \/ (g > 1 /\ n < g))
      /\ job' = [job EXCEPT ![t] = Idle]
      /\ UNCHANGED <<pool, large_lock, cursor, run_spans, live_spans, held>>
  BY DEF CarveTag, AssignRange, Goto
<1> HIDE DEF h, n, g
<1>4. g = 1 \/ n = g
  <2>1. ~(g > 1 /\ n < g)
    BY <1>3, Zenon
  <2> QED
    BY <1>2, <2>1 DEF Counts
<1>5. h + n <= NumSpans
  <2>1. h \in Nat /\ n \in Nat /\ h + n - 1 \in Run(h, n)
    BY <1>2, RunFacts
  <2>2. h + n - 1 \in 0 .. cursor - 1
    BY <1>1, <1>2, <2>1 DEF Part
  <2> QED
    BY <1>1, <2>1, <2>2, ArenaFacts
<1>6. /\ A \subseteq Runs
      /\ \A r, s \in A : r # s => Disjoint(RunOf(r), RunOf(s))
      /\ \A s : s \in Run(h, n) <=> \E r \in A : s \in RunOf(r)
  BY <1>2, <1>4, <1>5, GroupsOK
<1> HIDE DEF A
<1>7. /\ job' \in [Threads -> Job] /\ Jobs'[t] = {}
      /\ \A u \in Threads : u # t => Jobs'[u] = Jobs[u]
  BY <1>0, <1>3, IdleFacts, JobStep
<1>8. Move(held \cup cells, held' \cup cells', Jobs, Jobs', FreeSpans(pool), FreeSpans(pool'),
           cursor, cursor', t, {}, A)
  <2>1. held' \cup cells' = ((held \cup cells) \ {}) \cup A
    BY <1>3
  <2>2. \A r \in A : Disjoint(RunOf(r), FreeSpans(pool))
    BY <1>1, <1>2, <1>6 DEF Part, Disjoint
  <2>3. \A s : s \notin cursor .. cursor' - 1
    BY <1>1, <1>3
  <2>4. \A s : s \in FreeSpans(pool') \/ s \in Jobs'[t] \/ (\E r \in A : s \in RunOf(r))
               <=> s \in FreeSpans(pool) \/ s \in Jobs[t]
    BY <1>2, <1>3, <1>6, <1>7
  <2> QED
    BY <1>3, <1>6, <1>7, <2>1, <2>2, <2>3, <2>4 DEF Move, Disjoint
<1>9. held' \cap cells' = {}
  <2>1. ASSUME NEW r \in A, r \in held PROVE FALSE
    <3>1. r \in Runs /\ r[1] \in RunOf(r)
      BY <1>6, RunFacts DEF Runs, RunOf
    <3>2. r[1] \in Jobs[t]
      BY <1>2, <1>6, <3>1
    <3>3. Disjoint(Jobs[t], RunOf(r))
      BY <1>1, <2>1 DEF Part
    <3> QED
      BY <3>1, <3>2, <3>3 DEF Disjoint
  <2> QED
    BY <1>0, <1>3, <2>1 DEF Owned
<1>10. Owned'
  <2>3. Elsewhere(t, Idle)
    BY <1>0, IdleFacts DEF Elsewhere, At
  <2>1. {} \in SUBSET (held \cup cells) /\ PoolOK(pool')
        /\ \A q \in Recorded' : run_spans'[q[1]] = q[2]
    BY <1>0, <1>1, <1>3, <2>3, IdleFacts, SameCounts DEF Owned
  <2>2. cursor' \in Nat /\ cursor <= cursor'
    BY <1>1, <1>3
  <2> QED
    BY <1>3, <1>8, <1>9, <2>1, <2>2, IdleFacts, MoveStep
<1>11. Types'
  <2>1. table' \in [Spans -> {"none", "large", "class"}]
    BY <1>0, <1>3 DEF Types
  <2>2. cells' \subseteq Runs
    BY <1>0, <1>3, <1>6 DEF Types
  <2> QED
    BY <1>0, <1>3, <1>7, <2>1, <2>2 DEF Types
<1> QED
  BY <1>10, <1>11 DEF Good

\* reclaim_cell moves whole groups from the cell to the call
\* (subheap.rs:1194-1251).
LEMMA ReclaimCellOK ==
  ASSUME Good, NEW t \in Threads, NEW S \in SUBSET cells, ReclaimCell(t, S)
  PROVE  Good'
<1> DEFINE j == [Idle EXCEPT !.at = "rc_lock", !.rest = S]
           U == UNION {RunOf(r) : r \in S}
<1>0. Types /\ Owned /\ At(t, "idle")
  BY DEF Good, ReclaimCell
<1>1. /\ job[t] \in Job /\ Jobs[t] = SpansOf(job[t]) /\ PoolOK(pool) /\ cursor \in Nat
      /\ Part(held \cup cells, Jobs, FreeSpans(pool), cursor)
  BY JobFacts
<1>2. Jobs[t] = {} /\ S \subseteq Runs
  BY <1>0, <1>1 DEF At, SpansOf, Types
<1>3. /\ cells' = cells \ S /\ job' = [job EXCEPT ![t] = j]
      /\ UNCHANGED <<pool, large_lock, cursor, run_spans, live_spans, held>>
  BY DEF ReclaimCell, Goto
<1>4. \A r, s \in S : r # s => Disjoint(RunOf(r), RunOf(s))
  BY <1>1 DEF Part
<1>5. j \in Job /\ JobOK(j) /\ SpansOf(j) = U /\ Elsewhere(t, j)
  BY <1>0, <1>2, <1>4, IdleFacts DEF Idle, Job, JobOK, SpansOf, Places, Elsewhere, At
<1> HIDE DEF j
<1>6. /\ job' \in [Threads -> Job] /\ Jobs'[t] = U
      /\ \A u \in Threads : u # t => Jobs'[u] = Jobs[u]
  BY <1>0, <1>3, <1>5, JobStep
<1>7. \A s : s \in U <=> \E r \in S : s \in RunOf(r)
  OBVIOUS
<1> HIDE DEF U
<1>8. Move(held \cup cells, held' \cup cells', Jobs, Jobs', FreeSpans(pool), FreeSpans(pool'),
           cursor, cursor', t, S, {})
  <2>1. held' \cup cells' = ((held \cup cells) \ S) \cup {}
    BY <1>0, <1>3 DEF Owned
  <2>2. Disjoint(U, FreeSpans(pool))
    BY <1>1, <1>7 DEF Part, Disjoint
  <2>3. \A s : s \notin cursor .. cursor' - 1
    BY <1>1, <1>3
  <2> QED
    BY <1>2, <1>3, <1>6, <1>7, <2>1, <2>2, <2>3 DEF Move
<1>9. Owned'
  <2>1. /\ S \in SUBSET (held \cup cells) /\ PoolOK(pool') /\ held' \cap cells' = {}
        /\ \A q \in Recorded' : run_spans'[q[1]] = q[2]
    BY <1>0, <1>1, <1>3, <1>5, SameCounts DEF Owned
  <2>2. cursor' \in Nat /\ cursor <= cursor'
    BY <1>1, <1>3
  <2> QED
    BY <1>3, <1>5, <1>8, <2>1, <2>2, MoveStep
<1>10. Types'
  <2>1. table' \in [Spans -> {"none", "large", "class"}]
    BY <1>0 DEF Types, ReclaimCell, AssignRange
  <2> QED
    BY <1>0, <1>3, <1>6, <2>1 DEF Types
<1> QED
  BY <1>9, <1>10 DEF Good

\* reclaim_cell moves one group from the call to the pool
\* (subheap.rs:1260-1268).
LEMMA ReclaimFileOK ==
  ASSUME Good, NEW t \in Threads, NEW r \in job[t].rest, ReclaimFile(t, r)
  PROVE  Good'
<1> DEFINE rest == job[t].rest \ {r}
           j == IF rest = {} THEN Idle ELSE [job[t] EXCEPT !.rest = rest]
<1>0. Types /\ At(t, "rc_file")
  BY DEF Good, ReclaimFile
<1>1. job[t] \in Job /\ JobOK(job[t]) /\ Jobs[t] = SpansOf(job[t])
  BY JobFacts
<1>2. /\ r[1] \in Spans /\ r[2] \in Counts /\ RunOf(r) = Run(r[1], r[2])
      /\ rest \in SUBSET Runs
  BY <1>1 DEF Job, Runs, RunOf
<1>3. \A s : s \in Jobs[t] <=> \E q \in job[t].rest : s \in RunOf(q)
  BY <1>0, <1>1 DEF At, SpansOf
<1>4. \A q \in rest : Disjoint(RunOf(q), RunOf(r))
  BY <1>1 DEF JobOK
<1>5. /\ pool' = PoolFree(pool, r[1], r[2])
      /\ job' = [job EXCEPT ![t] = j]
      /\ large_lock' \in Threads \cup {NoThread}
      /\ UNCHANGED <<cursor, run_spans, table, live_spans, held, cells>>
  BY <1>0 DEF ReclaimFile, Goto, Unlock, Types
<1>6. j \in Job /\ JobOK(j) /\ Elsewhere(t, j)
  BY <1>0, <1>1, <1>2, IdleFacts DEF At, Job, JobOK, Elsewhere
<1>7. \A s : s \in SpansOf(j) <=> \E q \in rest : s \in RunOf(q)
  <2>1. CASE rest = {}
    BY <2>1, IdleFacts
  <2>2. CASE rest # {}
    <3>1. j.at = "rc_file" /\ j.rest = rest
      BY <1>0, <1>1, <2>2 DEF At, Job
    <3> HIDE DEF j, rest
    <3> QED
      BY <3>1 DEF SpansOf
  <2> QED
    BY <2>1, <2>2
<1>8. SpansOf(j) = Jobs[t] \ Run(r[1], r[2])
  <2> HIDE DEF j
  <2>1. \A s : s \in SpansOf(j) <=> s \in Jobs[t] /\ s \notin RunOf(r)
    BY <1>3, <1>4, <1>7 DEF Disjoint
  <2> QED
    BY <1>2, <2>1
<1>9. Run(r[1], r[2]) \subseteq Jobs[t] /\ live_spans' \in Int
  BY <1>0, <1>2, <1>3, <1>5 DEF Types
<1> HIDE DEF j, rest
<1> QED
  BY <1>2, <1>5, <1>6, <1>8, <1>9, FileOK

-----------------------------------------------------------------------------
(* The theorems. *)

\* A new sub-heap satisfies the inductive invariant.
LEMMA InitOK == Init => ArenaInv
<1> SUFFICES ASSUME Init PROVE ArenaInv
  OBVIOUS
<1>0. pool = PoolNew /\ PoolOK(pool) /\ FreeSpans(pool) = {}
  BY PoolNewOK DEF Init
<1>1. Types
  BY <1>0, ArenaFacts, IdleFacts DEF Init, Types, PoolOK
<1>2. /\ \A t \in Threads : Jobs[t] = {} /\ JobOK(job[t])
      /\ held = {} /\ cells = {} /\ cursor = 0
  BY IdleFacts DEF Init, Jobs, JobSpans
<1>3. Recorded = {}
  BY <1>2, IdleFacts, InReturning DEF Init, Recorded, At
<1>4. Owned
  BY <1>0, <1>2, <1>3 DEF Owned, Part, Disjoint
<1> QED
  BY <1>1, <1>4 DEF Init, ArenaInv, Good

\* Only the tagging of a carve can be an overrun.
LEMMA OverrunOnlyByTag ==
  ASSUME NEW t \in Threads, Step(t), ~CarveTag(t)
  PROVE  overrun' = overrun
<1>1. CASE \/ \E n \in LargeCounts : AllocLarge(t, n)
           \/ AllocLargePool(t) \/ AllocLargeCarve(t) \/ AllocLargeRecord(t) \/ AllocLargeCount(t)
  BY <1>1 DEF AllocLarge, AllocLargePool, AllocLargeCarve, AllocLargeRecord, AllocLargeCount
<1>2. CASE (\E r \in held : DeallocLarge(t, r)) \/ DeallocLargeFile(t) \/ DeallocLargeCount(t)
  BY <1>2 DEF DeallocLarge, DeallocLargeFile, DeallocLargeCount
<1>3. CASE \/ \E kg \in ClassCarves : CarveOrReuse(t, kg[1], kg[2])
           \/ TryPoolAlloc(t) \/ CarveBump(t)
  BY <1>3 DEF CarveOrReuse, TryPoolAlloc, CarveBump
<1>4. CASE \/ \E S \in SUBSET cells : ReclaimCell(t, S)
           \/ ReclaimLock(t) \/ \E r \in job[t].rest : ReclaimFile(t, r)
  BY <1>4 DEF ReclaimCell, ReclaimLock, ReclaimFile
<1> QED BY <1>1, <1>2, <1>3, <1>4 DEF Step

\* Every step of every thread preserves the inductive invariant.
LEMMA StepOK == ArenaInv /\ [Next]_vars => ArenaInv'
<1> SUFFICES ASSUME ArenaInv, [Next]_vars PROVE ArenaInv'
  OBVIOUS
<1>1. CASE UNCHANGED vars
  <2>1. Jobs' = Jobs /\ Recorded' = Recorded
    BY <1>1 DEF vars, Jobs, JobSpans, SpansOf, Recorded, Returning, At
  <2> QED
    BY <1>1, <2>1 DEF vars, ArenaInv, Good, Types, Owned
<1>2. CASE Next
  <2>1. PICK t \in Threads : Step(t)
    BY <1>2 DEF Next
  <2>2. overrun' \in BOOLEAN /\ (~overrun' => ~overrun)
    <3>1. overrun' = overrun \/ \E b \in BOOLEAN : overrun' = (overrun \/ b)
      <4>1. CASE CarveTag(t)
        BY <4>1 DEF CarveTag
      <4>2. CASE ~CarveTag(t)
        BY <2>1, <4>2, OverrunOnlyByTag
      <4> QED
        BY <4>1, <4>2
    <3> QED
      BY <3>1 DEF ArenaInv
  <2>3. SUFFICES ASSUME ~overrun' PROVE Good'
    BY <2>2 DEF ArenaInv
  <2>4. Good
    BY <2>2, <2>3 DEF ArenaInv
  <2> QED
    BY <2>1, <2>3, <2>4, AllocLargeOK, AllocLargePoolOK, AllocLargeCarveOK, AllocLargeRecordOK,
       AllocLargeCountOK, DeallocLargeOK, DeallocLargeFileOK, DeallocLargeCountOK, CarveOrReuseOK, TryPoolAllocOK, CarveBumpOK,
       CarveTagOK, ReclaimCellOK, ReclaimLockOK, ReclaimFileOK DEF Step
<1> QED
  BY <1>1, <1>2

\* The inductive invariant holds in every reachable state.
LEMMA ArenaInvHolds == Spec => []ArenaInv
  BY InitOK, StepOK, PTL DEF Spec

\* Every variable and every call's local state keeps its type.
THEOREM TypeCorrect == Spec => []TypeOK
<1>1. ArenaInv => TypeOK
  BY DEF ArenaInv, Good, TypeOK
<1> QED
  BY <1>1, ArenaInvHolds, PTL

\* The pool's tags, stacks and bitmap stay consistent and no two free runs
\* touch, whatever threads do to it through alloc, free and reclaim.
THEOREM PoolStaysWellFormed == Spec => []PoolWellFormed
<1>1. ArenaInv => PoolWellFormed
  BY DEF ArenaInv, Good, Owned, PoolWellFormed
<1> QED
  BY <1>1, ArenaInvHolds, PTL

\* No span has two owners: not the program, not a class cell, not a call in
\* progress, not the pool and not the uncarved tail of the arena.
THEOREM NoSpanHandedOutTwice == Spec => []NoDoubleHandOut
<1>1. ASSUME ArenaInv, ~overrun
      PROVE  /\ \A r, s \in held : r # s => Disjoint(RunOf(r), RunOf(s))
             /\ \A r, s \in cells : r # s => Disjoint(RunOf(r), RunOf(s))
             /\ \A r \in held, s \in cells : Disjoint(RunOf(r), RunOf(s))
             /\ \A t, u \in Threads : t # u => Disjoint(JobSpans(t), JobSpans(u))
             /\ \A t \in Threads, r \in held \cup cells : Disjoint(JobSpans(t), RunOf(r))
             /\ \A r \in held \cup cells : Disjoint(RunOf(r), FreeSpans(pool))
             /\ \A t \in Threads : Disjoint(JobSpans(t), FreeSpans(pool))
             /\ \A s \in FreeSpans(pool) : s < cursor
             /\ \A r \in held \cup cells : \A s \in RunOf(r) : s < cursor
             /\ \A t \in Threads : \A s \in JobSpans(t) : s < cursor
  <2>1. /\ Part(held \cup cells, Jobs, FreeSpans(pool), cursor)
        /\ held \cap cells = {} /\ cursor \in Nat
    BY <1>1, ArenaFacts DEF ArenaInv, Good, Owned, Types
  <2>2. \A t \in Threads : Jobs[t] = JobSpans(t)
    BY DEF Jobs
  <2>3. \A r \in held, s \in cells : r # s
    BY <2>1
  <2>4. \A s \in 0 .. cursor - 1 : s < cursor
    BY <2>1
  <2>5. /\ \A s \in FreeSpans(pool) : s \in 0 .. cursor - 1
        /\ \A r \in held \cup cells : \A s \in RunOf(r) : s \in 0 .. cursor - 1
        /\ \A t \in Threads : \A s \in JobSpans(t) : s \in 0 .. cursor - 1
    BY <2>1, <2>2 DEF Part
  <2> QED
    BY <2>1, <2>2, <2>3, <2>4, <2>5 DEF Part
<1>2. ArenaInv => NoDoubleHandOut
  BY <1>1 DEF NoDoubleHandOut
<1> QED
  BY <1>2, ArenaInvHolds, PTL

\* No carved span is lost: each has an owner.
THEOREM NoSpanLost == Spec => []NoLostSpan
<1>1. ASSUME ArenaInv, ~overrun, NEW s \in 0 .. cursor - 1
      PROVE  \/ s \in FreeSpans(pool)
             \/ \E r \in held \cup cells : s \in RunOf(r)
             \/ \E t \in Threads : s \in JobSpans(t)
  <2>1. Part(held \cup cells, Jobs, FreeSpans(pool), cursor)
    BY <1>1 DEF ArenaInv, Good, Owned
  <2>2. \A t \in Threads : Jobs[t] = JobSpans(t)
    BY DEF Jobs
  <2> QED
    BY <2>1, <2>2 DEF Part
<1>2. ArenaInv => NoLostSpan
  BY <1>1 DEF NoLostSpan
<1> QED
  BY <1>2, ArenaInvHolds, PTL

\* When everything carved has come back, the pool is one run from span 0 to
\* the cursor: frees in any order, by any threads, coalesce fully.
THEOREM EverythingCoalesces == Spec => []FullCoalesce
<1>1. ASSUME ArenaInv, ~overrun, held = {}, cells = {}, cursor > 0,
             \A t \in Threads : JobSpans(t) = {}
      PROVE  pool.head_count[0] = cursor
  <2>1. /\ Part(held \cup cells, Jobs, FreeSpans(pool), cursor) /\ PoolOK(pool)
        /\ cursor \in Nat /\ cursor <= NumSpans
    BY <1>1, ArenaFacts DEF ArenaInv, Good, Owned, Types
  <2>2. \A s : s \in 0 .. cursor - 1 <=> s \in FreeSpans(pool)
    BY <1>1, <2>1 DEF Part, Jobs
  <2>3. /\ pool.head_count \in [Spans -> 0 .. NumSpans] /\ RunsApart(pool) /\ TagsAgree(pool)
    BY <2>1 DEF PoolOK, PoolType
  <2> DEFINE k == pool.head_count[0]
  <2>4. 0 \in Spans /\ 0 \in 0 .. cursor - 1
    BY <1>1, <2>1, NumSpansAssumption DEF Spans
  <2>5. k \in 0 .. NumSpans /\ IsHead(pool, 0) /\ k # 0
    <3>1. PICK g \in Spans : IsHead(pool, g) /\ g <= 0
      BY <2>2, <2>4 DEF FreeSpans
    <3>2. g = 0
      BY <3>1 DEF Spans
    <3> QED
      BY <2>3, <2>4, <3>1, <3>2 DEF IsHead
  <2>6. k <= cursor
    <3>1. k - 1 \in Spans /\ 0 <= k - 1 /\ k - 1 < 0 + pool.head_count[0]
      BY <2>5, NumSpansAssumption DEF Spans
    <3>2. k - 1 \in FreeSpans(pool)
      BY <2>4, <2>5, <3>1 DEF FreeSpans
    <3>3. k - 1 \in 0 .. cursor - 1
      BY <2>2, <3>2
    <3> QED
      BY <2>1, <2>5, <3>3, NumSpansAssumption
  <2>7. ~(k < cursor)
    <3> SUFFICES ASSUME k < cursor PROVE FALSE
      OBVIOUS
    <3>1. k \in FreeSpans(pool)
      BY <2>1, <2>2, <2>5
    <3>2. PICK g \in Spans : IsHead(pool, g) /\ g <= k /\ k < g + pool.head_count[g]
      BY <3>1 DEF FreeSpans
    <3>3. g # 0
      BY <2>5, <3>2, NumSpansAssumption
    <3>4. 0 < g
      BY <3>3 DEF Spans
    <3>5. 0 + k < g
      BY <2>3, <2>4, <2>5, <3>2, <3>4 DEF RunsApart
    <3> QED
      BY <2>5, <3>2, <3>5, NumSpansAssumption DEF Spans
  <2> QED
    BY <2>1, <2>5, <2>6, <2>7, NumSpansAssumption
<1>2. ArenaInv => FullCoalesce
  BY <1>1 DEF FullCoalesce
<1> QED
  BY <1>2, ArenaInvHolds, PTL

-----------------------------------------------------------------------------
(* The span table, run_spans and the live counter. *)

\* What the span table, run_spans and the live counter say, until a carve is
\* clamped.
Tagged ==
  /\ \A r \in Recorded : \A s \in RunOf(r) : table[s] = "large"
  /\ \A r \in cells : \A s \in RunOf(r) : table[s] = "class"
  /\ \A s \in Spans : run_spans[s] # 0 => <<s, run_spans[s]>> \in Recorded
Counted ==
  /\ IsFiniteSet(Uncounted)
  /\ live_spans = Cardinality(LiveSpans) + Cardinality(Uncounted)

\* The spans of the runs that the program holds or is freeing, one by one.
LEMMA InLive ==
  \A s : s \in LiveSpans <=> \/ \E r \in held : s \in RunOf(r)
                             \/ \E t \in Threads : At(t, "dl_file") /\ s \in Jobs[t]
  BY DEF LiveSpans, Jobs

\* The number of spans of a run, and that there are finitely many live ones.
LEMMA LiveFinite ==
  ASSUME Good
  PROVE  IsFiniteSet(LiveSpans) /\ Cardinality(LiveSpans) \in Nat
<1>1. Part(held \cup cells, Jobs, FreeSpans(pool), cursor) /\ cursor \in Nat
  BY ArenaFacts DEF Good, Types, Owned
<1>2. LiveSpans \in SUBSET (0 .. cursor - 1)
  <2> SUFFICES ASSUME NEW s \in LiveSpans PROVE s \in 0 .. cursor - 1
    OBVIOUS
  <2>1. \/ \E r \in held \cup cells : s \in RunOf(r)
        \/ \E t \in Threads : s \in Jobs[t]
    BY InLive
  <2> QED BY <1>1, <2>1 DEF Part
<1>3. IsFiniteSet(0 .. cursor - 1)
  BY <1>1, FS_Interval
<1> QED BY <1>2, <1>3, FS_Subset, FS_CardinalityType

\* A run of n spans has n spans.
LEMMA RunCard ==
  ASSUME NEW h \in Spans, NEW n \in Counts
  PROVE  IsFiniteSet(Run(h, n)) /\ Cardinality(Run(h, n)) = n
<1>1. h \in Nat /\ n \in Nat /\ n > 0
  BY RunFacts
<1>2. /\ IsFiniteSet(h .. h + n - 1)
      /\ Cardinality(h .. h + n - 1) = IF h > h + n - 1 THEN 0 ELSE (h + n - 1) - h + 1
  BY <1>1, FS_Interval
<1> QED BY <1>1, <1>2 DEF Run

\* Adding a run to a finite set of spans that it does not meet.
LEMMA AddRun ==
  ASSUME NEW S, IsFiniteSet(S), NEW h \in Spans, NEW n \in Counts, S \cap Run(h, n) = {}
  PROVE  Cardinality(S \cup Run(h, n)) = Cardinality(S) + n
<1>1. n \in Nat
  BY RunFacts
<1>2. IsFiniteSet(Run(h, n)) /\ Cardinality(Run(h, n)) = n
  BY RunCard
<1>3. Cardinality(S \cap Run(h, n)) = 0
  BY FS_EmptySet
<1>4. Cardinality(S) \in Nat
  BY FS_CardinalityType
<1>5. Cardinality(S \cup Run(h, n))
        = Cardinality(S) + Cardinality(Run(h, n)) - Cardinality(S \cap Run(h, n))
  BY <1>2, FS_Union
<1> QED BY <1>1, <1>2, <1>3, <1>4, <1>5

\* The frees that are late with their decrement, span by span.
LEMMA InUncounted ==
  \A x : x \in Uncounted <=> \E t \in Threads : /\ At(t, "dl_count")
                                                /\ x \in {t} \X Run(job[t].head, job[t].n)
  BY DEF Uncounted

\* One of them covers as many entries as its run has spans.
LEMMA AddLate ==
  ASSUME NEW S, NEW L, NEW t, NEW h \in Spans, NEW n \in Counts,
         IsFiniteSet(S), L = {t} \X Run(h, n), S \cap L = {}
  PROVE  IsFiniteSet(S \cup L) /\ Cardinality(S \cup L) = Cardinality(S) + n
<1>1. n \in Nat
  BY RunFacts
<1>2. IsFiniteSet(Run(h, n)) /\ Cardinality(Run(h, n)) = n
  BY RunCard
<1>3. IsFiniteSet({t}) /\ Cardinality({t}) = 1
  BY FS_Singleton
<1>4. IsFiniteSet(L) /\ Cardinality(L) = 1 * n
  BY <1>2, <1>3, FS_Product
<1>5. Cardinality(S \cap L) = 0 /\ Cardinality(S) \in Nat
  BY FS_EmptySet, FS_CardinalityType
<1>6. /\ IsFiniteSet(S \cup L)
      /\ Cardinality(S \cup L) = Cardinality(S) + Cardinality(L) - Cardinality(S \cap L)
  BY <1>4, FS_Union
<1>7. Cardinality(S \cup L) = Cardinality(S) + n
  BY <1>1, <1>4, <1>5, <1>6
<1> QED BY <1>6, <1>7

\* The call of t neither is nor comes to the end of dealloc_large.
NotFreeing(t, j) ==
  /\ ~At(t, "dl_file") /\ ~At(t, "dl_count")
  /\ j.at # "dl_file" /\ j.at # "dl_count"

\* A step of which the late frees notice nothing.
LEMMA SameLate ==
  ASSUME Types, NEW t \in Threads, NEW j \in Job, job' = [job EXCEPT ![t] = j],
         ~At(t, "dl_count"), j.at # "dl_count"
  PROVE  Uncounted' = Uncounted
<1>1. job'[t] = j /\ \A u \in Threads : u # t => job'[u] = job[u]
  BY JobStep
<1>2. \A x : x \in Uncounted' <=> \E u \in Threads : /\ job'[u].at = "dl_count"
                                                     /\ x \in {u} \X Run(job'[u].head, job'[u].n)
  BY DEF Uncounted, At, Run
<1>3. \A x : x \in Uncounted' <=> x \in Uncounted
  BY <1>1, <1>2, InUncounted DEF At
<1> QED BY <1>3

\* A step outside dealloc_large that leaves the held runs alone.
LEMMA SameLive ==
  ASSUME Good, Counted, NEW t \in Threads, NEW j \in Job, job' = [job EXCEPT ![t] = j],
         NotFreeing(t, j), held' = held, live_spans' = live_spans
  PROVE  Counted'
<1>1. /\ job'[t] = j
      /\ \A u \in Threads : u # t => job'[u] = job[u] /\ Jobs'[u] = Jobs[u]
  BY JobStep DEF Good
<1>2. \A s : s \in LiveSpans' <=> \/ \E r \in held' : (s \in RunOf(r))'
                                  \/ \E u \in Threads : At(u, "dl_file")' /\ (s \in Jobs[u])'
  BY DEF LiveSpans, Jobs
<1>3. \A u \in Threads : At(u, "dl_file")' <=> u # t /\ At(u, "dl_file")
  BY <1>1 DEF At, NotFreeing
<1>4. \A s : s \in LiveSpans' <=> s \in LiveSpans
  BY <1>1, <1>2, <1>3, InLive DEF RunOf, Run, NotFreeing
<1>5. LiveSpans' = LiveSpans
  BY <1>4
<1>6. Uncounted' = Uncounted
  BY SameLate DEF NotFreeing, Good
<1> QED BY <1>5, <1>6 DEF Counted

\* Recording a run: run_spans and the table describe it as they do the others.
LEMMA RecordAgrees ==
  ASSUME Good, Tagged, Counted, Good', NEW t \in Threads, NEW h \in Spans, NEW n \in Counts,
         Record(t, h, n), UNCHANGED <<held, cells, live_spans>>,
         ~At(t, "dl_file"), ~At(t, "dl_count"), ~At(t, "al_count"),
         \A s \in Run(h, n) : s \in FreeSpans(pool) \/ s \in Jobs[t]
  PROVE  Tagged' /\ Counted'
<1> DEFINE j == [Idle EXCEPT !.at = "al_count", !.head = h, !.n = n]
<1>0. /\ Types /\ Part(held \cup cells, Jobs, FreeSpans(pool), cursor)
      /\ run_spans \in [Spans -> 0 .. NumSpans] /\ table \in [Spans -> {"none", "large", "class"}]
  BY DEF Good, Types, Owned
<1>1. /\ job' = [job EXCEPT ![t] = j]
      /\ run_spans' = [run_spans EXCEPT ![h] = n]
      /\ table' = [s \in Spans |-> IF s \in Run(h, n) THEN "large" ELSE table[s]]
  BY DEF Record, Goto, AssignRange
<1>2. n \in 0 .. NumSpans
  BY DEF Counts
<1>3. j \in Job /\ j.at = "al_count" /\ j.head = h /\ j.n = n /\ NotFreeing(t, j)
  BY <1>2, IdleFacts DEF Idle, Job, Places, NotFreeing
<1> HIDE DEF j
<1>4. job'[t] = j /\ \A u \in Threads : u # t => job'[u] = job[u]
  BY <1>0, <1>1, <1>3, JobStep
<1>5. \A q : q \in Recorded' <=> q \in Recorded \/ q = <<h, n>>
  <2>1. \A q : q \in Returning' <=> \E u \in Threads : job'[u].at = "al_count"
                                                   /\ q = <<job'[u].head, job'[u].n>>
    BY DEF Returning, At
  <2>2. \A q : q \in Returning' <=> q \in Returning \/ q = <<h, n>>
    BY <1>3, <1>4, <2>1, InReturning DEF At
  <2> QED BY <2>2 DEF Recorded
<1>6. RunOf(<<h, n>>) = Run(h, n) /\ \A s \in Run(h, n) : s \in Spans
  <2>1. \A s \in Run(h, n) : s \in 0 .. cursor - 1
    BY <1>0 DEF Part
  <2>2. \A s \in 0 .. cursor - 1 : s \in Spans
    BY <1>0, ArenaFacts DEF Types, Spans
  <2> QED BY <2>1, <2>2, RunFacts
<1>7. Tagged'
  <2>1. \A r \in Recorded' : \A s \in RunOf(r) : table'[s] = "large"
    <3>1. ASSUME NEW r \in Recorded, NEW s \in RunOf(r) PROVE table'[s] = "large"
      <4>1. table[s] = "large" /\ s \in Spans
        BY RecordedApart DEF Tagged
      <4> QED BY <1>1, <4>1
    <3>2. ASSUME NEW s \in Run(h, n) PROVE table'[s] = "large"
      BY <1>1, <1>6
    <3> QED BY <1>5, <1>6, <3>1, <3>2
  <2>2. \A r \in cells' : \A s \in RunOf(r) : table'[s] = "class"
    <3> SUFFICES ASSUME NEW r \in cells, NEW s \in RunOf(r) PROVE table'[s] = "class"
      OBVIOUS
    <3>1. s \in 0 .. cursor - 1 /\ s \notin Run(h, n)
      BY <1>0 DEF Part, Disjoint
    <3>2. table[s] = "class" /\ s \in Spans
      BY <1>0, <3>1, ArenaFacts DEF Tagged, Types, Spans
    <3> QED BY <1>1, <3>1, <3>2
  <2>3. \A s \in Spans : run_spans'[s] # 0 => <<s, run_spans'[s]>> \in Recorded'
    <3> SUFFICES ASSUME NEW s \in Spans, run_spans'[s] # 0 PROVE <<s, run_spans'[s]>> \in Recorded'
      OBVIOUS
    <3>1. CASE s = h
      BY <1>0, <1>1, <1>5, <3>1
    <3>2. CASE s # h
      BY <1>0, <1>1, <1>5, <3>2 DEF Tagged
    <3> QED BY <3>1, <3>2
  <2> QED BY <2>1, <2>2, <2>3 DEF Tagged, RunOf, Run
<1>8. Counted'
  BY <1>1, <1>3, SameLive
<1> QED BY <1>7, <1>8

\* Counting the run: it was the program's in no way before.
LEMMA CountAgrees ==
  ASSUME Good, Tagged, Counted, NEW t \in Threads, AllocLargeCount(t)
  PROVE  Tagged' /\ Counted'
<1> DEFINE n == job[t].n
           h == job[t].head
<1>0. Types /\ At(t, "al_count") /\ Part(held \cup cells, Jobs, FreeSpans(pool), cursor)
  BY DEF Good, AllocLargeCount, Owned
<1>1. job[t] \in Job /\ JobOK(job[t]) /\ Jobs[t] = SpansOf(job[t])
  BY JobFacts
<1>2. n \in Counts /\ h \in Spans /\ Jobs[t] = Run(h, n) /\ n \in Nat
  BY <1>0, <1>1 DEF At, JobOK, SpansOf, Job, Counts
<1>3. /\ job' = [job EXCEPT ![t] = Idle] /\ held' = held \cup {<<h, n>>}
      /\ live_spans' = live_spans + n /\ UNCHANGED <<run_spans, table, cells>>
  BY DEF AllocLargeCount, Goto
<1>4. <<h, n>> \in Returning
  BY <1>0, InReturning
<1>a. \A q : q \in Returning <=> q = <<h, n>> \/ \E u \in Threads :
         u # t /\ At(u, "al_count") /\ q = <<job[u].head, job[u].n>>
  BY <1>0, InReturning
<1> HIDE DEF n, h
<1>5. /\ job'[t] = Idle
      /\ \A u \in Threads : u # t => job'[u] = job[u] /\ Jobs'[u] = Jobs[u]
  BY <1>0, <1>3, IdleFacts, JobStep
<1>6. Recorded' = Recorded
  <2>1. \A q : q \in Returning' <=> \E u \in Threads : job'[u].at = "al_count"
                                                   /\ q = <<job'[u].head, job'[u].n>>
    BY DEF Returning, At
  <2>2. \A q : q \in Returning' <=> \E u \in Threads :
           u # t /\ At(u, "al_count") /\ q = <<job[u].head, job[u].n>>
    BY <1>5, <2>1, IdleFacts DEF At
  <2>3. \A q : q \in Recorded' <=> q \in Recorded
    BY <1>3, <1>a, <2>2 DEF Recorded
  <2> QED BY <2>3
<1>7. Tagged'
  BY <1>3, <1>6 DEF Tagged, RunOf, Run
<1>8. Counted'
  <2>1. \A s : s \in LiveSpans' <=> \/ \E r \in held' : s \in RunOf(r)
                                    \/ \E u \in Threads : At(u, "dl_file")' /\ s \in Jobs'[u]
    BY DEF LiveSpans, Jobs, RunOf, Run
  <2>2. \A u \in Threads : At(u, "dl_file")' <=> u # t /\ At(u, "dl_file")
    BY <1>5 DEF At, Idle
  <2>3. ~At(t, "dl_file") /\ RunOf(<<h, n>>) = Run(h, n)
    BY <1>0, <1>2, RunFacts DEF At
  <2>4. \A s : (\E r \in held' : s \in RunOf(r)) <=> (\E r \in held : s \in RunOf(r)) \/ s \in Run(h, n)
    BY <1>3, <2>3
  <2>5. \A s : s \in LiveSpans' <=> s \in LiveSpans \/ s \in Run(h, n)
    BY <1>5, <2>1, <2>2, <2>3, <2>4, InLive
  <2>6. \A s : s \in LiveSpans => s \notin Run(h, n)
    <3>1. \A r \in held : Disjoint(Run(h, n), RunOf(r))
      BY <1>0, <1>2 DEF Part
    <3>2. \A u \in Threads : u # t => Disjoint(Run(h, n), Jobs[u])
      BY <1>0, <1>2 DEF Part
    <3> QED BY <2>3, <3>1, <3>2, InLive DEF Disjoint
  <2>7. LiveSpans' = LiveSpans \cup Run(h, n) /\ LiveSpans \cap Run(h, n) = {}
    BY <2>5, <2>6
  <2>8. Cardinality(LiveSpans') = Cardinality(LiveSpans) + n
    BY <1>2, <2>7, LiveFinite, AddRun
  <2>9. Uncounted' = Uncounted
    <3>1. ~At(t, "dl_count") /\ Idle.at # "dl_count"
      BY <1>0, IdleFacts DEF At
    <3> QED BY <1>0, <1>3, <3>1, IdleFacts, SameLate
  <2>10. Cardinality(Uncounted) \in Nat /\ Cardinality(LiveSpans) \in Nat
    BY FS_CardinalityType, LiveFinite DEF Counted
  <2> QED BY <1>2, <1>3, <2>8, <2>9, <2>10 DEF Counted
<1> QED BY <1>7, <1>8

\* dealloc_large takes the run over from the program, and its count out of
\* run_spans.
LEMMA DeallocAgrees ==
  ASSUME Good, Tagged, Counted, NEW t \in Threads, NEW r \in held, DeallocLarge(t, r)
  PROVE  Tagged' /\ Counted'
<1> DEFINE n == run_spans[r[1]]
           j == [Idle EXCEPT !.at = "dl_file", !.head = r[1], !.n = n]
<1>0. /\ Types /\ Owned /\ At(t, "idle") /\ r \in Runs
      /\ run_spans \in [Spans -> 0 .. NumSpans]
  BY DEF Good, DeallocLarge, Types
<1>1. n = r[2] /\ r[1] \in Spans /\ n \in Counts /\ RunOf(r) = Run(r[1], n) /\ r = <<r[1], n>>
  BY <1>0 DEF Owned, Runs, RunOf, Recorded
<1>2. n # 0 /\ n \in 0 .. NumSpans
  BY <1>1 DEF Counts
<1>3. /\ held' = held \ {r} /\ run_spans' = [run_spans EXCEPT ![r[1]] = 0]
      /\ job' = [job EXCEPT ![t] = j]
      /\ table' = table /\ live_spans' = live_spans /\ cells' = cells
  BY <1>2 DEF DeallocLarge, Goto
<1>4. j \in Job /\ SpansOf(j) = RunOf(r) /\ j.at = "dl_file" /\ Elsewhere(t, j)
  BY <1>0, <1>1, <1>2, IdleFacts DEF Idle, Job, SpansOf, Places, Elsewhere, At
<1> HIDE DEF j
<1>5. Tagged'
  <2>0. Returning' = Returning
    BY <1>0, <1>3, <1>4, SameReturning
  <2>1. \A s \in Spans : run_spans'[s] # 0 => <<s, run_spans'[s]>> \in Recorded'
    <3> SUFFICES ASSUME NEW s \in Spans, run_spans'[s] # 0 PROVE <<s, run_spans'[s]>> \in Recorded'
      OBVIOUS
    <3>1. s # r[1]
      BY <1>0, <1>1, <1>3
    <3>2. run_spans'[s] = run_spans[s]
      BY <1>0, <1>1, <1>3, <3>1
    <3>3. <<s, run_spans[s]>> \in Recorded
      BY <3>2 DEF Tagged
    <3>4. <<s, run_spans[s]>> # r
      BY <1>1, <3>1
    <3> QED BY <1>3, <2>0, <3>2, <3>3, <3>4 DEF Recorded
  <2>3. \A q \in Recorded' : \A s \in RunOf(q) : table'[s] = "large"
    BY <1>3, <2>0 DEF Tagged, Recorded
  <2>4. \A q \in cells' : \A s \in RunOf(q) : table'[s] = "class"
    BY <1>3 DEF Tagged
  <2> QED BY <2>1, <2>3, <2>4 DEF Tagged, RunOf, Run
<1>6. Counted'
  <2>1. /\ job'[t] = j /\ Jobs'[t] = RunOf(r)
        /\ \A u \in Threads : u # t => job'[u] = job[u] /\ Jobs'[u] = Jobs[u]
    BY <1>0, <1>3, <1>4, JobStep
  <2>2. \A s : s \in LiveSpans' <=> \/ \E q \in held' : s \in RunOf(q)
                                    \/ \E u \in Threads : At(u, "dl_file")' /\ s \in Jobs'[u]
    BY DEF LiveSpans, Jobs, RunOf, Run
  <2>3. \A u \in Threads : At(u, "dl_file")' <=> u = t \/ At(u, "dl_file")
    BY <1>4, <2>1 DEF At
  <2>4. ~At(t, "dl_file") /\ ~At(t, "dl_count") /\ j.at # "dl_count"
    BY <1>0, <1>4 DEF At
  <2>5. \A s : (\E q \in held : s \in RunOf(q)) <=> (\E q \in held' : s \in RunOf(q)) \/ s \in RunOf(r)
    BY <1>3
  <2>6. \A s : s \in LiveSpans' <=> s \in LiveSpans
    BY <2>1, <2>2, <2>3, <2>4, <2>5, InLive
  <2>7. LiveSpans' = LiveSpans
    BY <2>6
  <2>8. Uncounted' = Uncounted
    BY <1>0, <1>3, <1>4, <2>4, SameLate
  <2> QED BY <1>3, <2>7, <2>8 DEF Counted
<1> QED BY <1>5, <1>6

\* dealloc_large files the run: its spans are live no more and not counted
\* down yet.
LEMMA FileAgrees ==
  ASSUME Good, Tagged, Counted, NEW t \in Threads, DeallocLargeFile(t)
  PROVE  Tagged' /\ Counted'
<1> DEFINE n == job[t].n
           h == job[t].head
           j == [job[t] EXCEPT !.at = "dl_count"]
<1>0. Types /\ At(t, "dl_file") /\ Part(held \cup cells, Jobs, FreeSpans(pool), cursor)
  BY DEF Good, DeallocLargeFile, Owned
<1>1. job[t] \in Job /\ JobOK(job[t]) /\ Jobs[t] = SpansOf(job[t])
  BY JobFacts
<1>2. n \in Counts /\ h \in Spans /\ Jobs[t] = Run(h, n) /\ n \in Nat
  BY <1>0, <1>1 DEF At, JobOK, SpansOf, Job, Counts
<1>3. /\ job' = [job EXCEPT ![t] = j]
      /\ UNCHANGED <<cursor, run_spans, table, live_spans, held, cells>>
  BY DEF DeallocLargeFile, Goto
<1>b. j \in Job /\ j.at = "dl_count" /\ j.head = h /\ j.n = n /\ Elsewhere(t, j)
  BY <1>0, <1>1 DEF Job, Places, Elsewhere, At
<1> HIDE DEF n, h, j
<1>4. Tagged'
  <2>1. Recorded' = Recorded
    BY <1>0, <1>3, <1>b, SameReturning DEF Recorded
  <2> QED BY <1>3, <2>1 DEF Tagged, RunOf, Run
<1>5. /\ job'[t] = j
      /\ \A u \in Threads : u # t => job'[u] = job[u] /\ Jobs'[u] = Jobs[u]
  BY <1>0, <1>3, <1>b, JobStep
<1>6. \A s : s \in LiveSpans' <=> \/ \E q \in held' : s \in RunOf(q)
                                  \/ \E u \in Threads : At(u, "dl_file")' /\ s \in Jobs'[u]
  BY DEF LiveSpans, Jobs, RunOf, Run
<1>7. \A u \in Threads : At(u, "dl_file")' <=> u # t /\ At(u, "dl_file")
  BY <1>5, <1>b DEF At
<1>8. \A s : s \in LiveSpans <=> s \in LiveSpans' \/ s \in Run(h, n)
  BY <1>0, <1>2, <1>3, <1>5, <1>6, <1>7, InLive
<1>9. \A s : s \in LiveSpans' => s \notin Run(h, n)
  <2>1. \A q \in held : Disjoint(Run(h, n), RunOf(q))
    BY <1>0, <1>2 DEF Part
  <2>2. \A u \in Threads : u # t => Disjoint(Run(h, n), Jobs[u])
    BY <1>0, <1>2 DEF Part
  <2> QED BY <1>3, <1>5, <1>6, <1>7, <2>1, <2>2 DEF Disjoint
<1>10. LiveSpans = LiveSpans' \cup Run(h, n) /\ LiveSpans' \cap Run(h, n) = {}
  BY <1>8, <1>9
<1>11. IsFiniteSet(LiveSpans') /\ Cardinality(LiveSpans') \in Nat
  <2>1. LiveSpans' \in SUBSET LiveSpans
    BY <1>8
  <2> QED BY <2>1, LiveFinite, FS_Subset, FS_CardinalityType
<1>12. Cardinality(LiveSpans) = Cardinality(LiveSpans') + n
  <2> DEFINE S == LiveSpans'
  <2>1. IsFiniteSet(S) /\ S \cap Run(h, n) = {} /\ LiveSpans = S \cup Run(h, n)
    BY <1>10, <1>11
  <2> HIDE DEF S
  <2>2. Cardinality(LiveSpans) = Cardinality(S) + n
    BY <1>2, <2>1, AddRun
  <2> QED BY <2>2 DEF S
<1>13. Uncounted' = Uncounted \cup ({t} \X Run(h, n)) /\ Uncounted \cap ({t} \X Run(h, n)) = {}
  <2>1. \A x : x \in Uncounted' <=> \E u \in Threads : /\ job'[u].at = "dl_count"
                                                       /\ x \in {u} \X Run(job'[u].head, job'[u].n)
    BY DEF Uncounted, At, Run
  <2>2. ~At(t, "dl_count")
    BY <1>0 DEF At
  <2>3. \A x : x \in Uncounted' <=> x \in Uncounted \/ x \in {t} \X Run(h, n)
    BY <1>5, <1>b, <2>1, <2>2, InUncounted DEF At
  <2>4. \A u \in Threads : u # t => ({u} \X Run(job[u].head, job[u].n)) \cap ({t} \X Run(h, n)) = {}
    OBVIOUS
  <2>5. \A x \in Uncounted : x \notin {t} \X Run(h, n)
    BY <2>2, <2>4, InUncounted
  <2> QED BY <2>3, <2>5
<1>14. IsFiniteSet(Uncounted') /\ Cardinality(Uncounted') = Cardinality(Uncounted) + n
  <2>1. IsFiniteSet(Uncounted)
    BY DEF Counted
  <2> DEFINE L == {t} \X Run(h, n)
             S == Uncounted
  <2>2. L = {t} \X Run(h, n) /\ IsFiniteSet(S) /\ S \cap L = {} /\ Uncounted' = S \cup L
    BY <1>13, <2>1
  <2> HIDE DEF L, S
  <2>3. IsFiniteSet(S \cup L) /\ Cardinality(S \cup L) = Cardinality(S) + n
    BY <1>2, <2>2, AddLate
  <2> QED BY <2>2, <2>3 DEF S
<1>15. Cardinality(Uncounted) \in Nat
  BY FS_CardinalityType DEF Counted
<1>16. Counted'
  BY <1>2, <1>3, <1>11, <1>12, <1>14, <1>15 DEF Counted
<1> QED BY <1>4, <1>16

\* The late decrement.
LEMMA LateAgrees ==
  ASSUME Good, Tagged, Counted, NEW t \in Threads, DeallocLargeCount(t)
  PROVE  Tagged' /\ Counted'
<1> DEFINE n == job[t].n
           h == job[t].head
<1>0. Types /\ At(t, "dl_count")
  BY DEF Good, DeallocLargeCount
<1>1. job[t] \in Job /\ JobOK(job[t])
  BY JobFacts
<1>2. n \in Counts /\ h \in Spans /\ n \in Nat
  BY <1>0, <1>1 DEF At, JobOK, Job, Counts
<1>3. /\ job' = [job EXCEPT ![t] = Idle] /\ live_spans' = live_spans - n
      /\ UNCHANGED <<run_spans, table, held, cells>>
  BY DEF DeallocLargeCount, Goto
<1>a. \A x : x \in Uncounted <=> \/ x \in {t} \X Run(h, n)
                                 \/ \E u \in Threads : /\ u # t /\ At(u, "dl_count")
                                                       /\ x \in {u} \X Run(job[u].head, job[u].n)
  BY <1>0, InUncounted
<1> HIDE DEF n, h
<1>4. Tagged'
  <2>1. Elsewhere(t, Idle)
    BY <1>0, IdleFacts DEF Elsewhere, At
  <2>2. Recorded' = Recorded
    BY <1>0, <1>3, <2>1, IdleFacts, SameReturning DEF Recorded
  <2> QED BY <1>3, <2>2 DEF Tagged, RunOf, Run
<1>5. /\ job'[t] = Idle
      /\ \A u \in Threads : u # t => job'[u] = job[u] /\ Jobs'[u] = Jobs[u]
  BY <1>0, <1>3, IdleFacts, JobStep
<1>6. LiveSpans' = LiveSpans
  <2>1. \A s : s \in LiveSpans' <=> \/ \E q \in held' : s \in RunOf(q)
                                    \/ \E u \in Threads : At(u, "dl_file")' /\ s \in Jobs'[u]
    BY DEF LiveSpans, Jobs, RunOf, Run
  <2>2. \A u \in Threads : At(u, "dl_file")' <=> u # t /\ At(u, "dl_file")
    BY <1>5 DEF At, Idle
  <2>3. ~At(t, "dl_file")
    BY <1>0 DEF At
  <2>4. \A s : s \in LiveSpans' <=> s \in LiveSpans
    BY <1>3, <1>5, <2>1, <2>2, <2>3, InLive
  <2> QED BY <2>4
<1> DEFINE S == Uncounted'
<1>7. Uncounted = S \cup ({t} \X Run(h, n)) /\ S \cap ({t} \X Run(h, n)) = {}
  <2>1. \A x : x \in S <=> \E u \in Threads : /\ job'[u].at = "dl_count"
                                              /\ x \in {u} \X Run(job'[u].head, job'[u].n)
    BY DEF Uncounted, At, Run
  <2>2. \A x : x \in S <=> \E u \in Threads : /\ u # t /\ At(u, "dl_count")
                                              /\ x \in {u} \X Run(job[u].head, job[u].n)
    BY <1>5, <2>1, IdleFacts DEF At
  <2> HIDE DEF S
  <2>3. \A x : x \in Uncounted <=> x \in S \/ x \in {t} \X Run(h, n)
    BY <1>a, <2>2
  <2>4. \A u \in Threads : u # t => ({u} \X Run(job[u].head, job[u].n)) \cap ({t} \X Run(h, n)) = {}
    OBVIOUS
  <2>5. \A x \in S : x \notin {t} \X Run(h, n)
    BY <2>2, <2>4
  <2> QED BY <2>3, <2>5
<1> HIDE DEF S
<1>8. IsFiniteSet(S)
  <2>1. S \in SUBSET Uncounted
    BY <1>7
  <2> QED BY <2>1, FS_Subset DEF Counted
<1>9. Cardinality(Uncounted) = Cardinality(S) + n /\ Cardinality(S) \in Nat
  <2> DEFINE L == {t} \X Run(h, n)
  <2>1. L = {t} \X Run(h, n) /\ S \cap L = {} /\ Uncounted = S \cup L
    BY <1>7
  <2> HIDE DEF L
  <2>2. Cardinality(Uncounted) = Cardinality(S) + n
    BY <1>2, <1>8, <2>1, AddLate
  <2> QED BY <1>8, <2>2, FS_CardinalityType
<1>10. Cardinality(LiveSpans) \in Nat
  BY LiveFinite
<1>11. live_spans' = Cardinality(LiveSpans) + Cardinality(S)
  BY <1>2, <1>3, <1>9, <1>10 DEF Counted
<1>12. Counted'
  BY <1>6, <1>8, <1>11 DEF Counted, S
<1> QED BY <1>4, <1>12

\* A carve tags its spans, which no other run covers.
LEMMA TagAgrees ==
  ASSUME Good, Tagged, Counted, Good', NEW t \in Threads, CarveTag(t), ~overrun'
  PROVE  Tagged' /\ Counted'
<1> DEFINE h == job[t].head
           n == job[t].n
           g == job[t].g
           A == Groups(h, n, g)
<1>0. Types /\ At(t, "cs_tag")
  BY DEF Good, CarveTag
<1>1. /\ job[t] \in Job /\ JobOK(job[t]) /\ Jobs[t] = SpansOf(job[t])
      /\ cursor \in Nat /\ cursor <= ArenaSpans
      /\ Part(held \cup cells, Jobs, FreeSpans(pool), cursor)
  BY JobFacts
<1>2. n \in Counts /\ h \in Spans /\ g \in Counts /\ Jobs[t] = Run(h, n) /\ (g = 1 \/ n <= g)
  BY <1>0, <1>1 DEF At, JobOK, SpansOf, Job
<1>3. /\ table' = [s \in Spans |-> IF s \in Run(h, n) THEN "class" ELSE table[s]]
      /\ cells' = cells \cup A
      /\ overrun' = (overrun \/ (g > 1 /\ n < g))
      /\ job' = [job EXCEPT ![t] = Idle]
      /\ UNCHANGED <<run_spans, live_spans, held>>
  BY DEF CarveTag, AssignRange, Goto
<1> HIDE DEF h, n, g
<1>4. g = 1 \/ n = g
  <2>1. ~(g > 1 /\ n < g)
    BY <1>3, Zenon
  <2> QED BY <1>2, <2>1 DEF Counts
<1>5. h + n <= NumSpans
  <2>1. h \in Nat /\ n \in Nat /\ h + n - 1 \in Run(h, n)
    BY <1>2, RunFacts
  <2>2. h + n - 1 \in 0 .. cursor - 1
    BY <1>1, <1>2, <2>1 DEF Part
  <2> QED BY <1>1, <2>1, <2>2, ArenaFacts
<1>6. \A s : s \in Run(h, n) <=> \E r \in A : s \in RunOf(r)
  BY <1>2, <1>4, <1>5, GroupsOK
<1> HIDE DEF A
<1>7. \A r \in held \cup cells : Disjoint(Run(h, n), RunOf(r))
  BY <1>1, <1>2 DEF Part
<1>8. \A r \in held \cup cells \cup A : \A s \in RunOf(r) : s \in Spans
  <2>1. \A r \in held' \cup cells' : \A s \in RunOf(r) : s \in 0 .. cursor' - 1
    BY DEF Good, Owned, Part
  <2>3. cursor' = cursor
    BY DEF CarveTag
  <2>2. \A s \in 0 .. cursor' - 1 : s \in Spans
    BY <1>1, <2>3, ArenaFacts DEF Spans
  <2> QED BY <1>3, <2>1, <2>2
<1>a. Elsewhere(t, Idle) /\ ~At(t, "al_count") /\ NotFreeing(t, Idle)
  BY <1>0, IdleFacts DEF Elsewhere, At, NotFreeing
<1>b. Recorded' = Recorded
  BY <1>0, <1>3, <1>a, IdleFacts, SameReturning DEF Recorded
<1>9. Tagged'
  <2>1. \A r \in Recorded : \A s \in RunOf(r) : table'[s] = "large"
    <3> SUFFICES ASSUME NEW r \in Recorded, NEW s \in RunOf(r) PROVE table'[s] = "large"
      OBVIOUS
    <3>1. s \in Spans /\ Disjoint(RunOf(r), Jobs[t])
      BY <1>a, RecordedApart
    <3>2. table[s] = "large" /\ s \notin Run(h, n)
      BY <1>2, <3>1 DEF Tagged, Disjoint
    <3> QED BY <1>3, <3>1, <3>2
  <2>2. \A r \in cells : \A s \in RunOf(r) : table'[s] = "class"
    <3> SUFFICES ASSUME NEW r \in cells, NEW s \in RunOf(r) PROVE table'[s] = "class"
      OBVIOUS
    <3>1. table[s] = "class" /\ s \in Spans
      BY <1>8 DEF Tagged
    <3> QED BY <1>3, <3>1
  <2>3. \A r \in A : \A s \in RunOf(r) : table'[s] = "class"
    <3> SUFFICES ASSUME NEW r \in A, NEW s \in RunOf(r) PROVE table'[s] = "class"
      OBVIOUS
    <3>1. s \in Run(h, n) /\ s \in Spans
      BY <1>6, <1>8
    <3> QED BY <1>3, <3>1
  <2> QED BY <1>3, <1>b, <2>1, <2>2, <2>3 DEF Tagged, RunOf, Run
<1>10. Counted'
  BY <1>3, <1>a, IdleFacts, SameLive
<1> QED BY <1>9, <1>10

\* reclaim_cell tags the groups it retires, which leave the cell.
LEMMA ReclaimAgrees ==
  ASSUME Good, Tagged, Counted, NEW t \in Threads, NEW S \in SUBSET cells, ReclaimCell(t, S)
  PROVE  Tagged' /\ Counted'
<1> DEFINE j == [Idle EXCEPT !.at = "rc_lock", !.rest = S]
           U == UNION {Run(r[1], r[2]) : r \in S}
<1>0. /\ Types /\ At(t, "idle") /\ Part(held \cup cells, Jobs, FreeSpans(pool), cursor)
      /\ held \cap cells = {} /\ table \in [Spans -> {"none", "large", "class"}]
  BY DEF Good, ReclaimCell, Owned, Types
<1>1. /\ cells' = cells \ S /\ job' = [job EXCEPT ![t] = j]
      /\ table' = [s \in Spans |-> IF s \in U THEN "large" ELSE table[s]]
      /\ UNCHANGED <<run_spans, live_spans, held>>
  BY DEF ReclaimCell, Goto, AssignRange
<1>2. \A s : s \in U <=> \E r \in S : s \in RunOf(r)
  BY DEF RunOf
<1>3. j \in Job /\ Elsewhere(t, j) /\ NotFreeing(t, j)
  <2>1. S \subseteq Runs
    BY <1>0 DEF Types
  <2> QED BY <1>0, <2>1, IdleFacts DEF Idle, Job, Places, Elsewhere, NotFreeing, At
<1> HIDE DEF j, U
<1>4. \A r \in held \cup cells : \A s \in RunOf(r) : s \in Spans
  <2>1. \A r \in held \cup cells : \A s \in RunOf(r) : s \in 0 .. cursor - 1
    BY <1>0 DEF Part
  <2>2. \A s \in 0 .. cursor - 1 : s \in Spans
    BY <1>0, ArenaFacts DEF Types, Spans
  <2> QED BY <2>1, <2>2
<1>b. Recorded' = Recorded
  BY <1>0, <1>1, <1>3, SameReturning DEF Recorded
<1>5. \A r \in Recorded : \A s \in RunOf(r) : table'[s] = "large"
  <2> SUFFICES ASSUME NEW r \in Recorded, NEW s \in RunOf(r) PROVE table'[s] = "large"
    OBVIOUS
  <2>1. table[s] = "large" /\ s \in Spans
    BY RecordedApart DEF Tagged
  <2> QED BY <1>1, <2>1
<1>6. \A r \in cells \ S : \A s \in RunOf(r) : table'[s] = "class"
  <2> SUFFICES ASSUME NEW r \in cells \ S, NEW s \in RunOf(r) PROVE table'[s] = "class"
    OBVIOUS
  <2>1. table[s] = "class" /\ s \in Spans
    BY <1>4 DEF Tagged
  <2>2. \A q \in S : s \notin RunOf(q)
    BY <1>0 DEF Part, Disjoint
  <2> QED BY <1>1, <1>2, <2>1, <2>2
<1>7. Tagged'
  BY <1>1, <1>5, <1>6, <1>b DEF Tagged, RunOf, Run
<1>8. Counted'
  BY <1>1, <1>3, SameLive
<1> QED BY <1>7, <1>8

\* The other steps touch neither the table nor run_spans nor the counter.
LEMMA QuietAgrees ==
  ASSUME Good, Tagged, Counted, NEW t \in Threads, NEW j \in Job, job' = [job EXCEPT ![t] = j],
         Elsewhere(t, j), NotFreeing(t, j),
         UNCHANGED <<run_spans, table, live_spans, held, cells>>
  PROVE  Tagged' /\ Counted'
<1>1. Recorded' = Recorded
  BY SameReturning DEF Good, Recorded
<1>2. Tagged'
  BY <1>1 DEF Tagged, RunOf, Run
<1> QED BY <1>2, SameLive

\* Every step keeps table, run_spans and counter.
LEMMA StepAgrees ==
  ASSUME Good, Tagged, Counted, Good', ~overrun', NEW t \in Threads, Step(t)
  PROVE  Tagged' /\ Counted'
<1>0. job[t] \in Job /\ JobOK(job[t]) /\ Jobs[t] = SpansOf(job[t]) /\ cursor \in Nat
  BY JobFacts
<1>1. ASSUME NEW n \in LargeCounts, AllocLarge(t, n) PROVE Tagged' /\ Counted'
  <2> DEFINE j == [Idle EXCEPT !.at = "al_pool", !.n = n]
  <2>1. n \in 0 .. NumSpans
    BY ArenaFacts DEF Counts
  <2>2. j \in Job /\ Elsewhere(t, j) /\ NotFreeing(t, j)
    BY <1>1, <2>1, IdleFacts DEF Idle, Job, Places, At, AllocLarge, Elsewhere, NotFreeing
  <2>3. job' = [job EXCEPT ![t] = j]
    BY <1>1 DEF AllocLarge, Goto
  <2> HIDE DEF j
  <2> QED BY <1>1, <2>2, <2>3, QuietAgrees DEF AllocLarge
<1>2. CASE AllocLargePool(t)
  <2> DEFINE n == job[t].n
             r == PoolAlloc(pool, n)
  <2>1. At(t, "al_pool") /\ n \in Counts
    BY <1>0, <1>2 DEF AllocLargePool, At, JobOK
  <2>2. r.head # NO_SPAN => r.head \in Spans /\ Run(r.head, n) \subseteq FreeSpans(pool)
    BY <2>1, JobFacts, PoolAllocCorrect
  <2>3. /\ UNCHANGED <<held, cells, live_spans>>
        /\ ~At(t, "dl_file") /\ ~At(t, "dl_count") /\ ~At(t, "al_count")
    BY <1>2, <2>1 DEF AllocLargePool, At
  <2>4. CASE r.head # NO_SPAN /\ Record(t, r.head, n)
    <3> DEFINE h == r.head
    <3>1. h \in Spans /\ Record(t, h, n) /\ \A s \in Run(h, n) : s \in FreeSpans(pool)
      BY <2>2, <2>4
    <3> HIDE DEF h, n
    <3> QED BY <2>1, <2>3, <3>1, RecordAgrees
  <2>5. CASE /\ r.head = NO_SPAN /\ Goto(t, [job[t] EXCEPT !.at = "al_carve"])
             /\ UNCHANGED <<run_spans, table>>
    <3> DEFINE j == [job[t] EXCEPT !.at = "al_carve"]
    <3>1. j \in Job /\ Elsewhere(t, j) /\ NotFreeing(t, j) /\ job' = [job EXCEPT ![t] = j]
      BY <1>0, <2>3, <2>5 DEF Job, Places, Goto, Elsewhere, NotFreeing
    <3> HIDE DEF j
    <3> QED BY <2>3, <2>5, <3>1, QuietAgrees
  <2> QED BY <1>2, <2>4, <2>5 DEF AllocLargePool
<1>3. CASE AllocLargeCarve(t)
  <2> DEFINE j == IF CarveRun(job[t].n) = 0 THEN Idle
                  ELSE [job[t] EXCEPT !.at = "al_record", !.head = cursor]
  <2>1. job' = [job EXCEPT ![t] = j] /\ At(t, "al_carve")
    BY <1>3 DEF AllocLargeCarve, Goto
  <2>2. job'[t] = j /\ job'[t] \in Job
    BY <2>1 DEF Good, Types
  <2>3. Elsewhere(t, j) /\ NotFreeing(t, j)
    BY <1>0, <2>1 DEF Idle, Job, At, Elsewhere, NotFreeing
  <2> HIDE DEF j
  <2> QED BY <1>3, <2>1, <2>2, <2>3, QuietAgrees DEF AllocLargeCarve
<1>4. CASE AllocLargeRecord(t)
  <2> DEFINE n == job[t].n
             h == job[t].head
  <2>1. /\ At(t, "al_record")
        /\ ~At(t, "dl_file") /\ ~At(t, "dl_count") /\ ~At(t, "al_count")
    BY <1>4 DEF AllocLargeRecord, At
  <2>2. n \in Counts /\ h \in Spans /\ Jobs[t] = Run(h, n)
    BY <1>0, <2>1 DEF At, JobOK, SpansOf, Job
  <2>3. Record(t, h, n) /\ UNCHANGED <<held, cells, live_spans>>
    BY <1>4 DEF AllocLargeRecord
  <2> HIDE DEF n, h
  <2> QED BY <2>1, <2>2, <2>3, RecordAgrees
<1>5. ASSUME NEW kg \in ClassCarves, CarveOrReuse(t, kg[1], kg[2]) PROVE Tagged' /\ Counted'
  <2>1. kg[1] \in 0 .. NumSpans /\ kg[2] \in Counts
    BY ArenaFacts DEF Counts
  <2>2. PICK p \in {"cs_pool", "cs_bump"} :
           job' = [job EXCEPT ![t] = [Idle EXCEPT !.at = p, !.n = kg[1], !.g = kg[2]]]
    BY <1>5 DEF CarveOrReuse, Goto
  <2> DEFINE j == [Idle EXCEPT !.at = p, !.n = kg[1], !.g = kg[2]]
  <2>3. j \in Job /\ Elsewhere(t, j) /\ NotFreeing(t, j)
    BY <1>5, <2>1, IdleFacts DEF Idle, Job, Places, At, CarveOrReuse, Elsewhere, NotFreeing
  <2>4. job' = [job EXCEPT ![t] = j]
    BY <2>2
  <2> HIDE DEF j
  <2> QED BY <1>5, <2>3, <2>4, QuietAgrees DEF CarveOrReuse
<1>6. CASE TryPoolAlloc(t)
  <2> DEFINE r == PoolAlloc(pool, job[t].n)
             j == IF r.head = NO_SPAN THEN [job[t] EXCEPT !.at = "cs_bump"]
                  ELSE [job[t] EXCEPT !.at = "cs_tag", !.head = r.head]
  <2>1. job' = [job EXCEPT ![t] = j] /\ At(t, "cs_pool")
    BY <1>6 DEF TryPoolAlloc, Goto
  <2>2. job'[t] = j /\ job'[t] \in Job
    BY <2>1 DEF Good, Types
  <2>3. Elsewhere(t, j) /\ NotFreeing(t, j)
    BY <1>0, <2>1 DEF Job, At, Elsewhere, NotFreeing
  <2> HIDE DEF j
  <2> QED BY <1>6, <2>1, <2>2, <2>3, QuietAgrees DEF TryPoolAlloc
<1>7. CASE CarveBump(t)
  <2> DEFINE take == CarveSpans(job[t].n)
             j == IF take = 0 THEN Idle
                  ELSE [job[t] EXCEPT !.at = "cs_tag", !.head = cursor, !.n = take]
  <2>1. job' = [job EXCEPT ![t] = j] /\ At(t, "cs_bump")
    BY <1>7 DEF CarveBump, Goto
  <2>2. job'[t] = j /\ job'[t] \in Job
    BY <2>1 DEF Good, Types
  <2>3. Elsewhere(t, j) /\ NotFreeing(t, j)
    BY <1>0, <2>1 DEF Idle, Job, At, Elsewhere, NotFreeing
  <2> HIDE DEF j
  <2> QED BY <1>7, <2>1, <2>2, <2>3, QuietAgrees DEF CarveBump
<1>8. CASE ReclaimLock(t)
  <2> DEFINE j == [job[t] EXCEPT !.at = "rc_file"]
  <2>1. job' = [job EXCEPT ![t] = j] /\ At(t, "rc_lock")
    BY <1>8 DEF ReclaimLock, Goto
  <2>2. j \in Job /\ Elsewhere(t, j) /\ NotFreeing(t, j)
    BY <1>0, <2>1 DEF Job, Places, At, Elsewhere, NotFreeing
  <2> HIDE DEF j
  <2> QED BY <1>8, <2>1, <2>2, QuietAgrees DEF ReclaimLock
<1>9. ASSUME NEW r \in job[t].rest, ReclaimFile(t, r) PROVE Tagged' /\ Counted'
  <2> DEFINE rest == job[t].rest \ {r}
             j == IF rest = {} THEN Idle ELSE [job[t] EXCEPT !.rest = rest]
  <2>1. job' = [job EXCEPT ![t] = j] /\ At(t, "rc_file")
    BY <1>9 DEF ReclaimFile, Goto
  <2>2. job'[t] = j /\ job'[t] \in Job
    BY <2>1 DEF Good, Types
  <2>3. Elsewhere(t, j) /\ NotFreeing(t, j)
    BY <1>0, <2>1 DEF Idle, Job, At, Elsewhere, NotFreeing
  <2> HIDE DEF j
  <2> QED BY <1>9, <2>1, <2>2, <2>3, QuietAgrees DEF ReclaimFile
<1> QED
  BY <1>1, <1>2, <1>3, <1>4, <1>5, <1>6, <1>7, <1>8, <1>9, CountAgrees,
     DeallocAgrees, FileAgrees, LateAgrees, TagAgrees, ReclaimAgrees DEF Step

\* TableAgrees: the span table and run_spans describe the recorded runs, and the
\* live counter is what is held or being freed plus what the frees have yet to
\* take off it, through every interleaving of allocations, frees, carves and
\* reclaims, the window between the dropped mutex and the counting included.
THEOREM TableAlwaysAgrees == Spec => []TableAgrees
<1> DEFINE Agree == ~overrun => Tagged /\ Counted
<1>1. Init => Agree
  <2> SUFFICES ASSUME Init PROVE Tagged /\ Counted
    OBVIOUS
  <2>1. /\ held = {} /\ cells = {} /\ live_spans = 0
        /\ run_spans = [s \in Spans |-> 0]
        /\ \A t \in Threads : ~At(t, "dl_file") /\ ~At(t, "dl_count") /\ ~At(t, "al_count")
    BY DEF Init, At, Idle
  <2>2. LiveSpans = {} /\ Uncounted = {} /\ Recorded = {}
    BY <2>1, InLive, InUncounted, InReturning DEF Recorded
  <2>3. IsFiniteSet({}) /\ Cardinality({}) = 0
    BY FS_EmptySet
  <2> QED BY <2>1, <2>2, <2>3 DEF Tagged, Counted
<1>2. ArenaInv /\ ArenaInv' /\ Agree /\ [Next]_vars => Agree'
  <2> SUFFICES ASSUME ArenaInv, ArenaInv', Agree, [Next]_vars, ~overrun' PROVE Tagged' /\ Counted'
    OBVIOUS
  <2>1. CASE UNCHANGED vars
    <3>1. LiveSpans' = LiveSpans
      BY <2>1 DEF vars, LiveSpans, JobSpans, SpansOf, At, RunOf, Run
    <3>2. Uncounted' = Uncounted /\ Recorded' = Recorded
      BY <2>1 DEF vars, Uncounted, Recorded, Returning, At, Run
    <3> QED BY <2>1, <3>1, <3>2 DEF vars, Tagged, Counted, RunOf, Run
  <2>2. CASE Next
    <3>1. PICK t \in Threads : Step(t)
      BY <2>2 DEF Next
    <3>2. ~overrun
      <4>1. CASE CarveTag(t)
        BY <4>1 DEF CarveTag
      <4>2. CASE ~CarveTag(t)
        BY <3>1, <4>2, OverrunOnlyByTag
      <4> QED BY <4>1, <4>2
    <3>3. Good /\ Good' /\ Tagged /\ Counted
      BY <3>2 DEF ArenaInv
    <3> QED BY <3>1, <3>3, StepAgrees
  <2> QED BY <2>1, <2>2
<1>3. ArenaInv /\ Agree => TableAgrees
  BY DEF ArenaInv, Good, Owned, Tagged, Counted, TableAgrees
<1> QED BY <1>1, <1>2, <1>3, ArenaInvHolds, PTL DEF Spec

-----------------------------------------------------------------------------
(* The arena implements RunAllocator. *)

\* The sizes of the runs are those that somebody asked for.
Groupings == {kg[2] : kg \in ClassCarves}
JobSized(j) ==
  /\ j.at \in {"al_pool", "al_carve", "al_record", "al_count", "dl_file"} => j.n \in LargeCounts
  /\ j.at = "cs_pool" => j.n \in {kg[1] : kg \in ClassCarves}
  /\ j.at \in {"cs_pool", "cs_bump", "cs_tag"} => j.g \in Groupings
  /\ \A r \in j.rest : r[2] \in Groupings
Sized ==
  /\ \A r \in held : r[2] \in LargeCounts
  /\ \A r \in cells : r[2] \in Groupings
  /\ \A t \in Threads : JobSized(job[t])

\* The abstract step that a step of the arena is.
AStep == [Abstract!ANext]_(Abstract!avars)

\* A free run of the pool is a stretch of free spans that cannot be extended,
\* and there are no other such stretches.
LEMMA RunsAreMaximal ==
  ASSUME NEW p, PoolOK(p), NEW h \in Spans, IsHead(p, h)
  PROVE  /\ p.head_count[h] \in Counts
         /\ h \in FreeSpans(p) /\ h - 1 \notin FreeSpans(p)
         /\ h + p.head_count[h] \notin FreeSpans(p)
         /\ Run(h, p.head_count[h]) \subseteq FreeSpans(p)
<1> DEFINE c == p.head_count[h]
<1>1. /\ p.head_count \in [Spans -> 0 .. NumSpans] /\ RunsApart(p) /\ TagsAgree(p)
  BY DEF PoolOK, PoolType
<1>2. c \in 0 .. NumSpans /\ c # 0 /\ c \in Counts /\ h \in Nat /\ h + c <= NumSpans
  <2>1. c \in 0 .. NumSpans /\ c # 0 /\ h + c <= NumSpans
    BY <1>1 DEF IsHead, TagsAgree
  <2> HIDE DEF c
  <2> QED BY <2>1, NumSpansAssumption DEF Counts, Spans
<1>3. ASSUME NEW g \in Spans, IsHead(p, g)
      PROVE  /\ g \in Nat /\ p.head_count[g] \in Nat
             /\ g < h => g + p.head_count[g] < h
             /\ h < g => h + c < g
  <2>1. /\ g < h => g + p.head_count[g] < h
        /\ h < g => h + c < g
    BY <1>1, <1>3 DEF RunsApart
  <2>2. p.head_count[g] \in 0 .. NumSpans
    BY <1>1
  <2> QED BY <2>1, <2>2, NumSpansAssumption DEF Spans
<1> HIDE DEF c
<1>4. ASSUME h - 1 \in FreeSpans(p) PROVE FALSE
  <2>1. PICK g \in Spans : IsHead(p, g) /\ g <= h - 1 /\ h - 1 < g + p.head_count[g]
    BY <1>4 DEF FreeSpans
  <2>2. g \in Nat /\ p.head_count[g] \in Nat /\ (g < h => g + p.head_count[g] < h)
    BY <1>3, <2>1
  <2> DEFINE gc == p.head_count[g]
  <2> HIDE DEF gc
  <2> QED BY <1>2, <2>1, <2>2 DEF gc
<1>5. ASSUME h + c \in FreeSpans(p) PROVE FALSE
  <2>1. PICK g \in Spans : IsHead(p, g) /\ g <= h + c /\ h + c < g + p.head_count[g]
    BY <1>5 DEF FreeSpans
  <2>2. /\ g \in Nat /\ p.head_count[g] \in Nat
        /\ (g < h => g + p.head_count[g] < h) /\ (h < g => h + c < g)
    BY <1>3, <2>1
  <2>3. g = h => p.head_count[g] = c
    BY DEF c
  <2> QED BY <1>2, <2>1, <2>2, <2>3
<1>6. ASSUME NEW s \in Run(h, c) PROVE s \in FreeSpans(p)
  <2>1. s \in Spans /\ h <= s /\ s < h + c
    BY <1>2, NumSpansAssumption DEF Run, Spans
  <2> QED BY <2>1 DEF FreeSpans, c
<1>7. h \in Run(h, c)
  BY <1>2 DEF Run
<1> QED BY <1>2, <1>4, <1>5, <1>6, <1>7 DEF c

\* RunAllocator's maximal runs are the pool's free runs.
LEMMA MaximalIsRun ==
  ASSUME PoolOK(pool), NEW g \in FreeSpans(pool), NEW d \in Counts, Abstract!MaximalRun(g, d)
  PROVE  g \in Spans /\ IsHead(pool, g) /\ pool.head_count[g] = d
<1>1. /\ g - 1 \notin FreeSpans(pool) /\ g + d \notin FreeSpans(pool)
      /\ \A s \in g .. g + d - 1 : s \in FreeSpans(pool)
  BY DEF Abstract!MaximalRun, Abstract!Stretch
<1>2. PICK k \in Spans : IsHead(pool, k) /\ k <= g /\ g < k + pool.head_count[k]
  BY DEF FreeSpans
<1> DEFINE c == pool.head_count[k]
<1>3. /\ c \in Counts /\ k \in FreeSpans(pool) /\ k + c \notin FreeSpans(pool)
      /\ Run(k, c) \subseteq FreeSpans(pool)
  BY <1>2, RunsAreMaximal
<1>4. k \in Nat /\ c \in Nat /\ d \in Nat /\ g \in Nat /\ c > 0 /\ d > 0 /\ g < k + c /\ k <= g
  BY <1>2, <1>3 DEF Spans, Counts, FreeSpans
<1>5. g \in Spans
  BY DEF FreeSpans
<1> HIDE DEF c
<1>6. g = k
  <2> SUFFICES ASSUME k < g PROVE FALSE
    BY <1>4
  <2>1. g - 1 \in Run(k, c)
    BY <1>4 DEF Run
  <2> QED BY <1>1, <1>3, <2>1
<1>7. ~(d < c)
  <2> SUFFICES ASSUME d < c PROVE FALSE
    OBVIOUS
  <2>1. g + d \in Run(k, c)
    BY <1>4, <1>6 DEF Run
  <2> QED BY <1>1, <1>3, <2>1
<1>8. ~(c < d)
  <2> SUFFICES ASSUME c < d PROVE FALSE
    OBVIOUS
  <2>1. k + c \in g .. g + d - 1
    BY <1>4, <1>6
  <2> QED BY <1>1, <1>3, <2>1
<1>9. c = d
  BY <1>4, <1>7, <1>8
<1> QED BY <1>2, <1>5, <1>6, <1>9 DEF c

\* A hit in the pool is a best fit.
LEMMA HitIsReuse ==
  ASSUME PoolOK(pool), Acyclic(pool), NEW n \in Counts, n \in Abstract!Asked,
         PoolAlloc(pool, n).head # NO_SPAN, pool' = PoolAlloc(pool, n).pool,
         cursor' = cursor, overrun' = overrun
  PROVE  Abstract!ANext
<1> DEFINE h == PoolAlloc(pool, n).head
           m == pool.head_count[h]
<1>1. /\ h \in Spans /\ h + n <= NumSpans /\ Run(h, n) \subseteq FreeSpans(pool)
      /\ FreeSpans(pool') = FreeSpans(pool) \ Run(h, n)
  BY PoolAllocCorrect
<1>2. /\ IsHead(pool, h) /\ m >= n
      /\ \A g \in Spans : IsHead(pool, g) /\ pool.head_count[g] >= n => pool.head_count[g] >= m
  BY PoolAllocBestFit
<1> HIDE DEF h
<1>3. /\ m \in Counts /\ h \in FreeSpans(pool) /\ h - 1 \notin FreeSpans(pool)
      /\ h + m \notin FreeSpans(pool) /\ Run(h, m) \subseteq FreeSpans(pool)
  BY <1>1, <1>2, RunsAreMaximal
<1> HIDE DEF m
<1>4. Abstract!MaximalRun(h, m)
  BY <1>3 DEF Abstract!MaximalRun, Abstract!Stretch, Run
<1>5. m \in n .. NumSpans /\ n \in Nat
  BY <1>2, <1>3, NumSpansAssumption DEF Counts
<1>6. ASSUME NEW g \in FreeSpans(pool), NEW d \in n .. m - 1, Abstract!MaximalRun(g, d) PROVE FALSE
  <2>1. d \in Counts /\ d >= n /\ d < m
    BY <1>3, <1>5, NumSpansAssumption DEF Counts
  <2>2. g \in Spans /\ IsHead(pool, g) /\ pool.head_count[g] = d
    BY <1>6, <2>1, MaximalIsRun
  <2>3. d >= m
    BY <1>2, <2>1, <2>2
  <2> QED BY <1>3, <2>1, <2>3 DEF Counts
<1>7. Abstract!BestFit(h, n)
  BY <1>4, <1>5, <1>6 DEF Abstract!BestFit
<1>8. Abstract!Stretch(h, n) = Run(h, n)
  BY DEF Abstract!Stretch, Run
<1>9. Abstract!Reuse(n)
  BY <1>1, <1>3, <1>7, <1>8 DEF Abstract!Reuse
<1> QED BY <1>9 DEF Abstract!ANext

\* A carve is fresh spans.
LEMMA CarveIsFresh ==
  ASSUME Types, NEW n \in Counts, cursor + n <= ArenaSpans, cursor' = cursor + n,
         pool' = pool, overrun' = overrun
  PROVE  Abstract!ANext
<1>1. FreeSpans(pool') = FreeSpans(pool)
  OBVIOUS
<1>2. Abstract!Fresh(n)
  BY <1>1 DEF Abstract!Fresh
<1> QED BY <1>2 DEF Abstract!ANext, Counts

\* Filing a run gives it back.
LEMMA FileIsGive ==
  ASSUME Good, NEW t \in Threads, NEW h \in Spans, NEW n \in Counts, n \in Abstract!Given,
         Run(h, n) \subseteq Jobs[t], pool' = PoolFree(pool, h, n),
         cursor' = cursor, overrun' = overrun
  PROVE  /\ Abstract!ANext
         /\ Acyclic(pool) => Acyclic(pool')
<1>0. cursor \in Nat /\ cursor <= ArenaSpans
      /\ PoolOK(pool) /\ Part(held \cup cells, Jobs, FreeSpans(pool), cursor)
  BY JobFacts
<1>1. h \in Nat /\ n \in Nat /\ n > 0 /\ h + n - 1 \in Run(h, n)
  BY RunFacts
<1>2. h + n - 1 \in 0 .. cursor - 1
  BY <1>0, <1>1 DEF Part
<1>3. h + n <= NumSpans
  BY <1>0, <1>1, <1>2, ArenaFacts
<1>4. Run(h, n) \cap FreeSpans(pool) = {}
  BY <1>0 DEF Part, Disjoint
<1>5. FreeSpans(pool') = FreeSpans(pool) \cup Run(h, n)
  BY <1>0, <1>3, <1>4, PoolFreeCorrect
<1>6. Abstract!Stretch(h, n) = Run(h, n)
  BY DEF Abstract!Stretch, Run
<1>7. h \in 0 .. cursor - n
  BY <1>0, <1>1, <1>2
<1>8. Abstract!Give(n)
  BY <1>4, <1>5, <1>6, <1>7 DEF Abstract!Give
<1>9. Acyclic(pool) => Acyclic(pool')
  BY <1>0, <1>3, <1>4, FreeAcyclic
<1> QED BY <1>8, <1>9 DEF Abstract!ANext

\* The sizes when one call changes.
LEMMA SizedStep ==
  ASSUME Types, Sized, NEW t \in Threads, NEW j, job' = [job EXCEPT ![t] = j], JobSized(j),
         \A r \in held' : r[2] \in LargeCounts, \A r \in cells' : r[2] \in Groupings
  PROVE  Sized'
<1>1. \A u \in Threads : job'[u] = IF u = t THEN j ELSE job[u]
  BY DEF Types
<1>2. \A u \in Threads : JobSized(job'[u])
  BY <1>1 DEF Sized
<1> QED BY <1>2 DEF Sized, JobSized, Groupings

\* No run is asked for by nobody.
LEMMA IdleSized == JobSized(Idle)
  BY DEF JobSized, Idle

\* Every step is a step of RunAllocator or a stutter, and keeps the stacks
\* acyclic and the sizes.
LEMMA StepRefines ==
  ASSUME Good, Acyclic(pool), Sized, ~overrun', ~overrun, overrun' = overrun,
         NEW t \in Threads, Step(t)
  PROVE  AStep /\ Acyclic(pool') /\ Sized'
<1>0. /\ Types /\ job[t] \in Job /\ JobOK(job[t]) /\ Jobs[t] = SpansOf(job[t])
      /\ cursor \in Nat /\ cursor <= ArenaSpans /\ PoolOK(pool) /\ JobSized(job[t])
      /\ \A r \in held : r[2] \in LargeCounts
      /\ \A r \in cells : r[2] \in Groupings
  BY JobFacts DEF Good, Sized
<1>a. ASSUME pool' = pool, cursor' = cursor PROVE AStep /\ Acyclic(pool')
  <2>1. FreeSpans(pool') = FreeSpans(pool)
    BY <1>a
  <2> QED BY <1>a, <2>1 DEF AStep, Abstract!avars
<1>1. ASSUME NEW n \in LargeCounts, AllocLarge(t, n) PROVE AStep /\ Acyclic(pool') /\ Sized'
  <2> DEFINE j == [Idle EXCEPT !.at = "al_pool", !.n = n]
  <2>1. JobSized(j)
    BY DEF JobSized, Idle
  <2>2. job' = [job EXCEPT ![t] = j] /\ held' = held /\ cells' = cells
        /\ pool' = pool /\ cursor' = cursor
    BY <1>1 DEF AllocLarge, Goto
  <2> HIDE DEF j
  <2>3. Sized'
    BY <1>0, <2>1, <2>2, SizedStep
  <2> QED BY <1>a, <2>2, <2>3
<1>2. CASE AllocLargePool(t)
  <2> DEFINE n == job[t].n
             r == PoolAlloc(pool, n)
  <2>1. n \in Counts /\ n \in LargeCounts
    BY <1>0, <1>2 DEF AllocLargePool, At, JobOK, JobSized
  <2>2. pool' = r.pool /\ cursor' = cursor /\ cells' = cells /\ held' = held
    BY <1>2 DEF AllocLargePool
  <2>3. Acyclic(pool')
    BY <1>0, <2>1, <2>2, AllocAcyclic
  <2>4. CASE r.head # NO_SPAN /\ Record(t, r.head, n)
    <3>1. n \in Abstract!Asked
      BY <2>1 DEF Abstract!Asked
    <3>2. Abstract!ANext
      BY <1>0, <2>1, <2>2, <2>4, <3>1, HitIsReuse
    <3> DEFINE j == [Idle EXCEPT !.at = "al_count", !.head = r.head, !.n = n]
    <3>3. job' = [job EXCEPT ![t] = j]
      BY <2>4 DEF Record, Goto
    <3>4. JobSized(j)
      BY <2>1 DEF JobSized, Idle
    <3> HIDE DEF j
    <3>5. Sized'
      BY <1>0, <2>2, <3>3, <3>4, SizedStep
    <3> QED BY <2>3, <3>2, <3>5 DEF AStep
  <2>5. CASE /\ r.head = NO_SPAN /\ Goto(t, [job[t] EXCEPT !.at = "al_carve"])
             /\ UNCHANGED <<run_spans, table>>
    <3> DEFINE j == [job[t] EXCEPT !.at = "al_carve"]
    <3>1. JobSized(j)
      BY <1>0, <2>1 DEF JobSized, Job
    <3>2. job' = [job EXCEPT ![t] = j]
      BY <2>5 DEF Goto
    <3> HIDE DEF j
    <3>3. Sized'
      BY <1>0, <2>2, <3>1, <3>2, SizedStep
    <3>4. pool' = pool
      BY <1>0, <2>1, <2>2, <2>5, PoolAllocCorrect
    <3> QED BY <1>a, <2>2, <3>3, <3>4
  <2> QED BY <1>2, <2>4, <2>5 DEF AllocLargePool
<1>3. CASE AllocLargeCarve(t)
  <2> DEFINE n == job[t].n
             j == [job[t] EXCEPT !.at = "al_record", !.head = cursor]
  <2>1. n \in Counts /\ n \in LargeCounts
    BY <1>0, <1>3 DEF AllocLargeCarve, At, JobOK, JobSized
  <2>2. /\ cursor' = cursor + CarveRun(n) /\ pool' = pool /\ held' = held /\ cells' = cells
        /\ job' = [job EXCEPT ![t] = IF CarveRun(n) = 0 THEN Idle ELSE j]
    BY <1>3 DEF AllocLargeCarve, Goto
  <2>3. JobSized(j)
    BY <1>0, <2>1 DEF JobSized, Job
  <2> HIDE DEF j, n
  <2>4. Sized'
    <3>1. JobSized(IF CarveRun(n) = 0 THEN Idle ELSE j)
      BY <2>3, IdleSized
    <3> QED BY <1>0, <2>2, <3>1, SizedStep
  <2>5. CASE CarveRun(n) = 0
    BY <1>0, <1>a, <2>2, <2>4, <2>5
  <2>6. CASE CarveRun(n) # 0
    <3>1. CarveRun(n) = n /\ cursor + n <= ArenaSpans
      BY <2>6 DEF CarveRun
    <3>2. Abstract!ANext
      BY <1>0, <2>1, <2>2, <3>1, CarveIsFresh
    <3> QED BY <2>2, <2>4, <3>2 DEF AStep
  <2> QED BY <2>5, <2>6
<1>4. CASE AllocLargeRecord(t)
  <2> DEFINE j == [Idle EXCEPT !.at = "al_count", !.head = job[t].head, !.n = job[t].n]
  <2>1. job[t].n \in LargeCounts
    BY <1>0, <1>4 DEF AllocLargeRecord, At, JobSized
  <2>2. /\ held' = held /\ job' = [job EXCEPT ![t] = j] /\ cells' = cells
        /\ pool' = pool /\ cursor' = cursor
    BY <1>4 DEF AllocLargeRecord, Record, Goto
  <2>3. JobSized(j)
    BY <2>1 DEF JobSized, Idle
  <2> HIDE DEF j
  <2>4. Sized'
    BY <1>0, <2>2, <2>3, SizedStep
  <2> QED BY <1>a, <2>2, <2>4
<1>b. CASE AllocLargeCount(t)
  <2> DEFINE n == job[t].n
             h == job[t].head
  <2>1. n \in LargeCounts
    BY <1>0, <1>b DEF AllocLargeCount, At, JobSized
  <2>2. /\ held' = held \cup {<<h, n>>} /\ job' = [job EXCEPT ![t] = Idle] /\ cells' = cells
        /\ pool' = pool /\ cursor' = cursor
    BY <1>b DEF AllocLargeCount, Goto
  <2> HIDE DEF n, h
  <2>3. \A q \in held' : q[2] \in LargeCounts
    BY <1>0, <2>1, <2>2
  <2>4. Sized'
    BY <1>0, <2>2, <2>3, IdleSized, SizedStep
  <2> QED BY <1>a, <2>2, <2>4
<1>c. CASE DeallocLargeCount(t)
  <2>1. /\ held' = held /\ job' = [job EXCEPT ![t] = Idle] /\ cells' = cells
        /\ pool' = pool /\ cursor' = cursor
    BY <1>c DEF DeallocLargeCount, Goto
  <2>2. Sized'
    BY <1>0, <2>1, IdleSized, SizedStep
  <2> QED BY <1>a, <2>1, <2>2
<1>5. ASSUME NEW r \in held, DeallocLarge(t, r) PROVE AStep /\ Acyclic(pool') /\ Sized'
  <2> DEFINE n == run_spans[r[1]]
             j == IF n = 0 THEN Idle ELSE [Idle EXCEPT !.at = "dl_file", !.head = r[1], !.n = n]
  <2>1. n = r[2] /\ n \in LargeCounts
    BY <1>0 DEF Good, Owned, Recorded
  <2>2. /\ job' = [job EXCEPT ![t] = j] /\ held' = held \ {r} /\ cells' = cells
        /\ pool' = pool /\ cursor' = cursor
    BY <1>5 DEF DeallocLarge, Goto
  <2> HIDE DEF n
  <2>3. JobSized(j)
    BY <2>1 DEF JobSized, Idle
  <2> HIDE DEF j
  <2>4. Sized'
    BY <1>0, <2>2, <2>3, SizedStep
  <2> QED BY <1>a, <2>2, <2>4
<1>6. CASE DeallocLargeFile(t)
  <2> DEFINE n == job[t].n
             h == job[t].head
             j == [job[t] EXCEPT !.at = "dl_count"]
  <2>1. At(t, "dl_file")
    BY <1>6 DEF DeallocLargeFile
  <2>2. n \in Counts /\ n \in LargeCounts /\ h \in Spans /\ Run(h, n) \subseteq Jobs[t]
    BY <1>0, <2>1 DEF At, JobOK, JobSized, SpansOf, Job
  <2>3. /\ pool' = PoolFree(pool, h, n) /\ cursor' = cursor /\ held' = held /\ cells' = cells
        /\ job' = [job EXCEPT ![t] = j]
    BY <1>6 DEF DeallocLargeFile, Goto
  <2>7. JobSized(j)
    BY <1>0, <2>1 DEF JobSized, Job, At
  <2> HIDE DEF n, h, j
  <2>4. n \in Abstract!Given
    BY <2>2 DEF Abstract!Given
  <2>5. Abstract!ANext /\ Acyclic(pool')
    BY <2>2, <2>3, <2>4, FileIsGive
  <2>6. Sized'
    BY <1>0, <2>3, <2>7, SizedStep
  <2> QED BY <2>5, <2>6 DEF AStep
<1>7. ASSUME NEW kg \in ClassCarves, CarveOrReuse(t, kg[1], kg[2])
      PROVE  AStep /\ Acyclic(pool') /\ Sized'
  <2>1. PICK p \in {"cs_pool", "cs_bump"} :
           job' = [job EXCEPT ![t] = [Idle EXCEPT !.at = p, !.n = kg[1], !.g = kg[2]]]
    BY <1>7 DEF CarveOrReuse, Goto
  <2> DEFINE j == [Idle EXCEPT !.at = p, !.n = kg[1], !.g = kg[2]]
  <2>2. JobSized(j)
    BY DEF JobSized, Idle, Groupings
  <2>3. job' = [job EXCEPT ![t] = j]
    BY <2>1
  <2> HIDE DEF j
  <2>4. held' = held /\ cells' = cells /\ pool' = pool /\ cursor' = cursor
    BY <1>7 DEF CarveOrReuse
  <2>5. Sized'
    BY <1>0, <2>2, <2>3, <2>4, SizedStep
  <2> QED BY <1>a, <2>4, <2>5
<1>8. CASE TryPoolAlloc(t)
  <2> DEFINE n == job[t].n
             r == PoolAlloc(pool, n)
             j == IF r.head = NO_SPAN THEN [job[t] EXCEPT !.at = "cs_bump"]
                  ELSE [job[t] EXCEPT !.at = "cs_tag", !.head = r.head]
  <2>1. n \in Counts /\ n \in {kg[1] : kg \in ClassCarves} /\ At(t, "cs_pool")
    BY <1>0, <1>8 DEF TryPoolAlloc, At, JobOK, JobSized
  <2>2. /\ job' = [job EXCEPT ![t] = j] /\ pool' = r.pool /\ cursor' = cursor
        /\ cells' = cells /\ held' = held
    BY <1>8 DEF TryPoolAlloc, Goto
  <2>3. Acyclic(pool')
    BY <1>0, <2>1, <2>2, AllocAcyclic
  <2>4. JobSized(j)
    BY <1>0, <2>1 DEF JobSized, Job, At
  <2> HIDE DEF j
  <2>5. Sized'
    BY <1>0, <2>2, <2>4, SizedStep
  <2>6. CASE r.head = NO_SPAN
    <3>1. pool' = pool
      BY <1>0, <2>1, <2>2, <2>6, PoolAllocCorrect
    <3> QED BY <1>a, <2>2, <2>5, <3>1
  <2>7. CASE r.head # NO_SPAN
    <3>1. n \in Abstract!Asked
      BY <2>1 DEF Abstract!Asked
    <3>2. Abstract!ANext
      BY <1>0, <2>1, <2>2, <2>7, <3>1, HitIsReuse
    <3> QED BY <2>3, <2>5, <3>2 DEF AStep
  <2> QED BY <2>6, <2>7
<1>9. CASE CarveBump(t)
  <2> DEFINE n == job[t].n
             take == CarveSpans(n)
             j == IF take = 0 THEN Idle
                  ELSE [job[t] EXCEPT !.at = "cs_tag", !.head = cursor, !.n = take]
  <2>1. n \in Counts /\ At(t, "cs_bump")
    BY <1>0, <1>9 DEF CarveBump, At, JobOK
  <2>2. /\ cursor' = cursor + take /\ pool' = pool /\ held' = held /\ cells' = cells
        /\ job' = [job EXCEPT ![t] = j]
    BY <1>9 DEF CarveBump, Goto
  <2> HIDE DEF take
  <2>3. JobSized(j)
    BY <1>0, <2>1, IdleSized DEF JobSized, Job, At
  <2> HIDE DEF j, n
  <2>4. Sized'
    BY <1>0, <2>2, <2>3, SizedStep
  <2>5. CASE take = 0
    BY <1>0, <1>a, <2>2, <2>4, <2>5
  <2>6. CASE take # 0
    <3>1. take \in Counts /\ cursor + take <= ArenaSpans
      BY <1>0, <2>1, <2>6, ArenaFacts DEF take, CarveSpans, Counts
    <3>2. Abstract!ANext
      BY <1>0, <2>2, <3>1, CarveIsFresh
    <3> QED BY <2>2, <2>4, <3>2 DEF AStep
  <2> QED BY <2>5, <2>6
<1>10. CASE CarveTag(t)
  <2> DEFINE j == job[t]
  <2>1. At(t, "cs_tag") /\ j.g \in Groupings /\ j.g \in Counts
    BY <1>0, <1>10 DEF CarveTag, At, JobSized, Job
  <2>2. /\ cells' = cells \cup Groups(j.head, j.n, j.g) /\ held' = held
        /\ job' = [job EXCEPT ![t] = Idle] /\ pool' = pool /\ cursor' = cursor
    BY <1>10 DEF CarveTag, Goto
  <2>3. \A r \in Groups(j.head, j.n, j.g) : r[2] = j.g
    BY <2>1 DEF Groups, Counts
  <2> HIDE DEF j
  <2>4. \A r \in cells' : r[2] \in Groupings
    BY <1>0, <2>1, <2>2, <2>3
  <2>5. Sized'
    BY <1>0, <2>2, <2>4, IdleSized, SizedStep
  <2> QED BY <1>a, <2>2, <2>5
<1>11. ASSUME NEW S \in SUBSET cells, ReclaimCell(t, S) PROVE AStep /\ Acyclic(pool') /\ Sized'
  <2> DEFINE j == [Idle EXCEPT !.at = "rc_lock", !.rest = S]
  <2>1. JobSized(j)
    BY <1>0 DEF JobSized, Idle
  <2>2. /\ job' = [job EXCEPT ![t] = j] /\ held' = held /\ cells' = cells \ S
        /\ pool' = pool /\ cursor' = cursor
    BY <1>11 DEF ReclaimCell, Goto
  <2> HIDE DEF j
  <2>3. Sized'
    BY <1>0, <2>1, <2>2, SizedStep
  <2> QED BY <1>a, <2>2, <2>3
<1>12. CASE ReclaimLock(t)
  <2> DEFINE j == [job[t] EXCEPT !.at = "rc_file"]
  <2>1. JobSized(j)
    BY <1>0, <1>12 DEF ReclaimLock, At, JobSized, Job
  <2>2. /\ job' = [job EXCEPT ![t] = j] /\ held' = held /\ cells' = cells
        /\ pool' = pool /\ cursor' = cursor
    BY <1>12 DEF ReclaimLock, Goto
  <2> HIDE DEF j
  <2>3. Sized'
    BY <1>0, <2>1, <2>2, SizedStep
  <2> QED BY <1>a, <2>2, <2>3
<1>13. ASSUME NEW r \in job[t].rest, ReclaimFile(t, r) PROVE AStep /\ Acyclic(pool') /\ Sized'
  <2> DEFINE rest == job[t].rest \ {r}
             j == IF rest = {} THEN Idle ELSE [job[t] EXCEPT !.rest = rest]
  <2>1. At(t, "rc_file") /\ r[2] \in Groupings
    BY <1>0, <1>13 DEF ReclaimFile, JobSized
  <2>2. r[1] \in Spans /\ r[2] \in Counts /\ RunOf(r) = Run(r[1], r[2])
    BY <1>0 DEF Job, Runs, RunOf
  <2>3. Run(r[1], r[2]) \subseteq Jobs[t]
    <3>1. \A s : s \in Jobs[t] <=> \E q \in job[t].rest : s \in RunOf(q)
      BY <1>0, <2>1 DEF At, SpansOf
    <3> QED BY <2>2, <3>1
  <2>4. /\ pool' = PoolFree(pool, r[1], r[2]) /\ cursor' = cursor /\ held' = held /\ cells' = cells
        /\ job' = [job EXCEPT ![t] = j]
    BY <1>13 DEF ReclaimFile, Goto
  <2>5. r[2] \in Abstract!Given
    BY <2>1 DEF Abstract!Given, Groupings
  <2>6. JobSized(j)
    BY <1>0, <2>1, IdleSized DEF JobSized, Job, At
  <2> HIDE DEF j, rest
  <2>7. Abstract!ANext /\ Acyclic(pool')
    BY <2>2, <2>3, <2>4, <2>5, FileIsGive
  <2>8. Sized'
    BY <1>0, <2>4, <2>6, SizedStep
  <2> QED BY <2>7, <2>8 DEF AStep
<1> QED
  BY <1>1, <1>2, <1>3, <1>4, <1>b, <1>c, <1>5, <1>6, <1>7, <1>8, <1>9, <1>10, <1>11, <1>12, <1>13
  DEF Step

\* RefinesRunAllocator: with all its tags, stacks, bitmaps and dropped mutexes
\* the arena is a best-fit allocator of runs of whole spans.
THEOREM ImplementsRunAllocator == Spec => RefinesRunAllocator
<1> DEFINE Fit == ~overrun => Acyclic(pool) /\ Sized
<1>1. Init => Fit /\ Abstract!AInit
  <2> SUFFICES ASSUME Init PROVE Acyclic(pool) /\ Sized /\ Abstract!AInit
    OBVIOUS
  <2>1. Sized
    BY IdleSized DEF Init, Sized
  <2>2. FreeSpans(pool) = {} /\ \A s \in Spans : pool.prev[s] = NO_SPAN
    BY PoolNewOK DEF Init, PoolNew
  <2> DEFINE rank == [s \in Spans |-> 0]
  <2>3. rank \in [Spans -> Nat] /\ Ranked(pool, rank)
    BY <2>2 DEF Ranked
  <2> HIDE DEF rank
  <2>4. Acyclic(pool)
    BY <2>3 DEF Acyclic
  <2> QED BY <2>1, <2>2, <2>4 DEF Init, Abstract!AInit
<1>2. ArenaInv /\ Fit /\ [Next]_vars => Fit' /\ [Abstract!ANext]_(Abstract!avars)
  <2> SUFFICES ASSUME ArenaInv, Fit, [Next]_vars PROVE Fit' /\ AStep
    BY DEF AStep
  <2>1. CASE UNCHANGED vars
    <3>1. Sized' <=> Sized
      BY <2>1 DEF vars, Sized, JobSized, Groupings
    <3>2. pool' = pool /\ cursor' = cursor /\ overrun' = overrun
      BY <2>1 DEF vars
    <3>3. FreeSpans(pool') = FreeSpans(pool) /\ (Acyclic(pool') <=> Acyclic(pool))
      BY <3>2
    <3> QED BY <3>1, <3>2, <3>3 DEF AStep, Abstract!avars
  <2>2. CASE Next
    <3>1. PICK t \in Threads : Step(t)
      BY <2>2 DEF Next
    <3>2. overrun' \in BOOLEAN /\ (~overrun' => ~overrun)
      <4>1. overrun' = overrun \/ \E b \in BOOLEAN : overrun' = (overrun \/ b)
        <5>1. CASE CarveTag(t)
          BY <5>1 DEF CarveTag
        <5>2. CASE ~CarveTag(t)
          BY <3>1, <5>2, OverrunOnlyByTag
        <5> QED BY <5>1, <5>2
      <4> QED BY <4>1 DEF ArenaInv
    <3>3. CASE overrun'
      BY <3>2, <3>3 DEF AStep, Abstract!ANext, Abstract!Clamped
    <3>4. CASE ~overrun'
      <4>1. ~overrun /\ overrun' = overrun /\ Good
        BY <3>2, <3>4 DEF ArenaInv
      <4> QED BY <3>1, <3>4, <4>1, StepRefines
    <3> QED BY <3>3, <3>4
  <2> QED BY <2>1, <2>2
<1> QED BY <1>1, <1>2, ArenaInvHolds, PTL DEF Spec, RefinesRunAllocator, Abstract!Spec
=============================================================================
