---------------------------- MODULE BlocksProofs ----------------------------
(***************************************************************************)
(* Geometry, for every capacity, base, span, slot and layout: the parts of *)
(* a CPU's block do not overlap and stay within its stride, a block        *)
(* honours its layout, and a freed pointer leads back to its slot.         *)
(***************************************************************************)
EXTENDS Blocks, FiniteSetTheorems, WellFoundedInduction, TLAPS

-----------------------------------------------------------------------------
(* Least elements, and induction by the least counterexample. *)

LEMMA LeastNat ==
  ASSUME NEW S \in SUBSET Nat, S # {}
  PROVE  Min(S) \in S /\ \A y \in S : Min(S) <= y
<1> DEFINE R == {p \in Nat \X Nat : p[1] < p[2]}
<1>1. IsWellFoundedOn(R, Nat)
  BY NatLessThanWellFounded DEF OpToRel
<1> HIDE DEF R
<1>2. PICK x \in S : \A y \in S : ~(<<y, x>> \in R)
  BY <1>1, WFMin
<1>3. \A y \in S : x <= y
  <2> TAKE y \in S
  <2>1. ~(<<y, x>> \in R) /\ x \in Nat /\ y \in Nat
    BY <1>2
  <2> QED
    BY <2>1 DEF R
<1> QED
  BY <1>3 DEF Min

\* A set that has 0 and with each number below n the next has all up to n.
LEMMA UpTo ==
  ASSUME NEW n \in Nat, NEW S, 0 \in S, \A i \in 0 .. n - 1 : i \in S => i + 1 \in S
  PROVE  \A i \in 0 .. n : i \in S
<1> DEFINE Missed == {i \in 0 .. n : i \notin S}
<1> SUFFICES ASSUME Missed # {} PROVE FALSE
  OBVIOUS
<1>1. Missed \in SUBSET Nat
  OBVIOUS
<1>2. PICK m \in Missed : \A y \in Missed : m <= y
  BY <1>1, LeastNat
<1>3. m \in 0 .. n /\ m \notin S /\ m # 0
  BY <1>2
<1>4. m - 1 \in 0 .. n - 1 /\ m - 1 \in 0 .. n
  BY <1>3
<1>5. m - 1 \in S
  BY <1>2, <1>3, <1>4
<1>6. (m - 1) + 1 \in S
  BY <1>4, <1>5
<1> QED
  BY <1>3, <1>6

-----------------------------------------------------------------------------
(* The class table. *)

LEMMA TableLength == Len(CLASS_SIZES) = 48 /\ Classes = 1 .. 48 /\ NUM_CLASSES = 49
BY DEF CLASS_SIZES, Classes, NUM_CLASSES

\* Every class size is a multiple of 8, and the sizes ascend.
LEMMA TableEntries ==
  \A c \in 1 .. 48 : /\ CLASS_SIZES[c] \in Nat
                     /\ 8 <= CLASS_SIZES[c] /\ CLASS_SIZES[c] <= MAX_SMALL
                     /\ CLASS_SIZES[c] % 8 = 0
<1>1. \A c \in 1 .. 48 : CLASS_SIZES[c] \in Nat
  BY SMT DEF CLASS_SIZES
<1>2. \A c \in 1 .. 48 : 8 <= CLASS_SIZES[c] /\ CLASS_SIZES[c] <= MAX_SMALL
  BY SMT DEF CLASS_SIZES, MAX_SMALL
<1>3. \A c \in 1 .. 48 : CLASS_SIZES[c] % 8 = 0
  <2> DEFINE E == <<1, 2, 3, 4, 6, 8, 10, 12, 14, 16, 20, 24, 28, 32, 40, 48, 56, 64, 80, 96,
            112, 128, 160, 192, 224, 256, 320, 384, 448, 512, 640, 768, 896, 1024, 1280,
            1536, 1792, 2048, 2560, 3072, 3584, 4096, 6144, 8192, 12288, 16384, 24576,
            32768>>
  <2>1. \A c \in 1 .. 48 : E[c] \in Nat /\ CLASS_SIZES[c] = 8 * E[c]
    BY SMT DEF CLASS_SIZES
  <2> HIDE DEF E
  <2>2. \A n \in Nat : (8 * n) % 8 = 0
    BY SMT
  <2> QED
    BY <2>1, <2>2, SMT
<1> QED
  BY <1>1, <1>2, <1>3, SMTT(30)

LEMMA TableAscends == \A c \in 1 .. 47 : CLASS_SIZES[c] < CLASS_SIZES[c + 1]
BY SMT DEF CLASS_SIZES

LEMMA TableMonotone == \A c, d \in 1 .. 48 : c <= d => CLASS_SIZES[c] <= CLASS_SIZES[d]
<1> SUFFICES ASSUME NEW c \in 1 .. 48
             PROVE  \A d \in 1 .. 48 : c <= d => CLASS_SIZES[c] <= CLASS_SIZES[d]
  OBVIOUS
<1> DEFINE S == {i \in 0 .. 47 : c <= i + 1 => CLASS_SIZES[c] <= CLASS_SIZES[i + 1]}
<1>1. 0 \in S
  BY TableEntries, SMT
<1>2. ASSUME NEW i \in 0 .. 47 - 1, i \in S PROVE i + 1 \in S
  <2>1. /\ i + 1 \in 1 .. 47 /\ i + 1 \in 0 .. 47 /\ (i + 1) + 1 \in 1 .. 48
        /\ CLASS_SIZES[i + 1] < CLASS_SIZES[(i + 1) + 1]
    BY TableAscends, SMT
  <2>2. /\ CLASS_SIZES[i + 1] \in Nat /\ CLASS_SIZES[(i + 1) + 1] \in Nat
        /\ CLASS_SIZES[c] \in Nat
    BY <2>1, TableEntries, SMT
  <2>3. CASE c <= i + 1
    BY <1>2, <2>1, <2>2, <2>3, SMT
  <2>4. CASE c > i + 1
    <3>1. c <= (i + 1) + 1 => c = (i + 1) + 1
      BY <2>4, SMT
    <3> QED
      BY <2>1, <2>2, <3>1, SMT
  <2> QED
    BY <2>3, <2>4, SMT
<1> HIDE DEF S
<1>3. \A i \in 0 .. 47 : i \in S
  BY <1>1, <1>2, UpTo, SMT
<1>4. ASSUME NEW d \in 1 .. 48, c <= d PROVE CLASS_SIZES[c] <= CLASS_SIZES[d]
  <2>1. d - 1 \in 0 .. 47 /\ (d - 1) + 1 = d
    BY SMT
  <2>2. c <= (d - 1) + 1 => CLASS_SIZES[c] <= CLASS_SIZES[(d - 1) + 1]
    BY <1>3, <2>1 DEF S
  <2> QED
    BY <1>4, <2>1, <2>2
<1> QED
  BY <1>4

\* The last class is the largest.
LEMMA TableLast == CLASS_SIZES[48] = MAX_SMALL
BY SMT DEF CLASS_SIZES, MAX_SMALL

-----------------------------------------------------------------------------
(* The offsets of a CPU's block. *)

LEMMA InRange ==
  ASSUME NEW a \in Int, NEW b \in Int, NEW x \in a .. b
  PROVE  x \in Int /\ a <= x /\ x <= b
BY SMT

\* The tiers of cap_for_class exclude each other.
Tier(sz, ceiling) == CASE sz \in 0 .. 512      -> ceiling
                       [] sz \in 513 .. 4096   -> ceiling \div 2
                       [] sz \in 4097 .. 32768 -> ceiling \div 4
                       [] OTHER                -> 24

LEMMA TierIsNat ==
  ASSUME NEW sz, NEW ceiling \in Nat
  PROVE  Tier(sz, ceiling) \in Nat
<1> DEFINE A == 0 .. 512
           B == 513 .. 4096
           C == 4097 .. 32768
           half    == ceiling \div 2
           quarter == ceiling \div 4
           tier    == Tier(sz, ceiling)
<1>1. ASSUME sz \in A PROVE sz \in Int /\ sz <= 512
  <2>1. PICK lo \in Int, hi \in Int : lo = 0 /\ hi = 512
    BY SMT
  <2>2. A = lo .. hi
    BY <2>1, SMT
  <2> HIDE DEF A
  <2>3. sz \in lo .. hi
    BY <1>1, <2>2
  <2>4. sz \in Int /\ lo <= sz /\ sz <= hi
    BY <2>3, InRange
  <2> QED
    BY <2>1, <2>4, SMT
<1>2. ASSUME sz \in B PROVE sz \in Int /\ 513 <= sz /\ sz <= 4096
  <2>1. PICK lo \in Int, hi \in Int : lo = 513 /\ hi = 4096
    BY SMT
  <2>2. B = lo .. hi
    BY <2>1, SMT
  <2> HIDE DEF B
  <2>3. sz \in lo .. hi
    BY <1>2, <2>2
  <2>4. sz \in Int /\ lo <= sz /\ sz <= hi
    BY <2>3, InRange
  <2> QED
    BY <2>1, <2>4, SMT
<1>3. ASSUME sz \in C PROVE sz \in Int /\ 4097 <= sz
  <2>1. PICK lo \in Int, hi \in Int : lo = 4097 /\ hi = 32768
    BY SMT
  <2>2. C = lo .. hi
    BY <2>1, SMT
  <2> HIDE DEF C
  <2>3. sz \in lo .. hi
    BY <1>3, <2>2
  <2>4. sz \in Int /\ lo <= sz /\ sz <= hi
    BY <2>3, InRange
  <2> QED
    BY <2>1, <2>4, SMT
<1>4. half \in Nat /\ quarter \in Nat /\ 24 \in Nat
  BY SMT
<1>5. tier = CASE sz \in A -> ceiling
               [] sz \in B -> half
               [] sz \in C -> quarter
               [] OTHER    -> 24
  BY DEF Tier
<1> HIDE DEF A, B, C, half, quarter, tier
<1>6. ~(sz \in A /\ sz \in B) /\ ~(sz \in A /\ sz \in C) /\ ~(sz \in B /\ sz \in C)
  BY <1>1, <1>2, <1>3, SMT
<1>7. CASE sz \in A
  <2>1. tier = ceiling
    BY <1>5, <1>6, <1>7
  <2> QED
    BY <2>1 DEF tier
<1>8. CASE sz \in B
  <2>1. tier = half
    BY <1>5, <1>6, <1>8
  <2> QED
    BY <1>4, <2>1 DEF tier
<1>9. CASE sz \in C
  <2>1. tier = quarter
    BY <1>5, <1>6, <1>9
  <2> QED
    BY <1>4, <2>1 DEF tier
<1>10. CASE ~(sz \in A) /\ ~(sz \in B) /\ ~(sz \in C)
  <2>1. tier = 24
    BY <1>5, <1>10
  <2> QED
    BY <1>4, <2>1 DEF tier
<1> QED
  BY <1>7, <1>8, <1>9, <1>10

LEMMA CapBounds ==
  ASSUME NEW c, NEW ceiling \in Nat
  PROVE  /\ CapForClass(c, ceiling) \in Nat
         /\ 8 <= CapForClass(c, ceiling)
         /\ CapForClass(c, ceiling) <= ceiling + 8
<1> DEFINE tier == Tier(SizeOfClass(c), ceiling)
<1>1. tier \in Nat
  BY TierIsNat
<1>2. CapForClass(c, ceiling) = LET capped == IF tier < ceiling THEN tier ELSE ceiling
                                IN IF capped > 8 THEN capped ELSE 8
  BY SMT DEF CapForClass, Tier
<1> HIDE DEF tier
<1> QED
  BY <1>1, <1>2, SMT

\* A running sum exists.
LEMMA RunningSum ==
  ASSUME NEW n \in Nat, NEW w \in [0 .. n - 1 -> Nat], NEW start \in Nat
  PROVE  \E f \in [0 .. n -> Nat] :
           f[0] = start /\ \A d \in 0 .. n - 1 : f[d + 1] = f[d] + w[d]
<1> DEFINE Sums(m) == {f \in [0 .. m -> Nat] :
                         f[0] = start /\ \A d \in 0 .. m - 1 : f[d + 1] = f[d] + w[d]}
           S == {m \in 0 .. n : Sums(m) # {}}
<1>1. 0 \in S
  <2>1. [d \in 0 .. 0 |-> start] \in Sums(0)
    OBVIOUS
  <2> QED
    BY <2>1
<1>2. ASSUME NEW i \in 0 .. n - 1, i \in S PROVE i + 1 \in S
  <2>1. PICK f \in Sums(i) : TRUE
    BY <1>2
  <2>2. f \in [0 .. i -> Nat] /\ f[0] = start /\ \A d \in 0 .. i - 1 : f[d + 1] = f[d] + w[d]
    BY <2>1
  <2> DEFINE g == [d \in 0 .. i + 1 |-> IF d = i + 1 THEN f[i] + w[i] ELSE f[d]]
  <2>3. f[i] \in Nat /\ w[i] \in Nat
    BY <2>2
  <2>4. g \in [0 .. i + 1 -> Nat]
    BY <2>2, <2>3
  <2>5. g[0] = start
    BY <2>2
  <2>6. ASSUME NEW d \in 0 .. (i + 1) - 1 PROVE g[d + 1] = g[d] + w[d]
    BY <2>2
  <2>7. g \in Sums(i + 1)
    BY <2>4, <2>5, <2>6
  <2>8. i + 1 \in 0 .. n
    OBVIOUS
  <2> HIDE DEF Sums, g
  <2> QED
    BY <2>7, <2>8
<1> HIDE DEF S
<1>3. \A i \in 0 .. n : i \in S
  BY <1>1, <1>2, UpTo
<1>4. n \in S
  BY <1>3
<1> QED
  BY <1>4 DEF S

\* SlotsFrom is the running sum of the slots' bytes.
LEMMA SlotOffsets ==
  ASSUME NEW start \in Nat, NEW ceiling \in Nat
  PROVE  \E off \in [0 .. 49 -> Nat] :
           /\ off[0] = start
           /\ \A d \in 0 .. 48 : off[d + 1] = off[d] + CapForClass(d, ceiling) * 8
           /\ \A c \in 0 .. 49 : SlotsFrom(start, c, ceiling) = off[c]
<1> DEFINE w == [d \in 0 .. 48 |-> CapForClass(d, ceiling) * 8]
           Body(f) == [d \in 0 .. NUM_CLASSES |->
                         IF d = 0 THEN start ELSE f[d - 1] + CapForClass(d - 1, ceiling) * 8]
           off == CHOOSE f : f = Body(f)
<1>1. w \in [0 .. 48 -> Nat]
  <2>1. \A d \in 0 .. 48 : CapForClass(d, ceiling) * 8 \in Nat
    BY CapBounds, SMT
  <2> QED
    BY <2>1
<1>2. PICK f \in [0 .. 49 -> Nat] :
        f[0] = start /\ \A d \in 0 .. 48 : f[d + 1] = f[d] + w[d]
  <2> HIDE DEF w
  <2>1. PICK n \in Nat : n = 49
    BY SMT
  <2>2. n - 1 = 48
    BY <2>1, SMT
  <2>3. w \in [0 .. n - 1 -> Nat]
    BY <1>1, <2>2
  <2>4. \E f \in [0 .. n -> Nat] :
          f[0] = start /\ \A d \in 0 .. n - 1 : f[d + 1] = f[d] + w[d]
    BY <2>3, RunningSum, ZenonT(40)
  <2> QED
    BY <2>1, <2>2, <2>4
<1>3. \A d \in 1 .. 49 : f[d] = f[d - 1] + CapForClass(d - 1, ceiling) * 8
  <2> SUFFICES ASSUME NEW d \in 1 .. 49
               PROVE  f[d] = f[d - 1] + CapForClass(d - 1, ceiling) * 8
    OBVIOUS
  <2>1. d - 1 \in 0 .. 48 /\ (d - 1) + 1 = d
    BY SMT
  <2>2. w[d - 1] = CapForClass(d - 1, ceiling) * 8
    BY <2>1
  <2> HIDE DEF w
  <2> QED
    BY <1>2, <2>1, <2>2
<1>4. f = Body(f)
  BY <1>2, <1>3, TableLength, SMT
<1>5. off = Body(off)
  BY <1>4
<1>6. \A c \in 0 .. 49 : SlotsFrom(start, c, ceiling) = off[c]
  BY DEF SlotsFrom
<1> HIDE DEF off
<1>7. /\ off[0] = start
      /\ \A d \in 1 .. 49 : off[d] = off[d - 1] + CapForClass(d - 1, ceiling) * 8
  BY <1>5, TableLength, SMT
<1>8. \A d \in 0 .. 48 : off[d + 1] = off[d] + CapForClass(d, ceiling) * 8
  <2> SUFFICES ASSUME NEW d \in 0 .. 48
               PROVE  off[d + 1] = off[d] + CapForClass(d, ceiling) * 8
    OBVIOUS
  <2>1. d + 1 \in 1 .. 49 /\ (d + 1) - 1 = d
    BY SMT
  <2> QED
    BY <1>7, <2>1
<1>9. \A i \in 0 .. 49 : off[i] \in Nat
  <2> DEFINE S == {i \in 0 .. 49 : off[i] \in Nat}
  <2>1. 0 \in S
    BY <1>7
  <2>2. ASSUME NEW i \in 0 .. 49 - 1, i \in S PROVE i + 1 \in S
    <3>1. CapForClass(i, ceiling) \in Nat /\ off[i] \in Nat /\ i \in 0 .. 48 /\ i + 1 \in 0 .. 49
      BY <2>2, CapBounds
    <3> QED
      BY <1>8, <3>1, SMT
  <2> HIDE DEF S
  <2>3. \A i \in 0 .. 49 : i \in S
    BY <2>1, <2>2, UpTo, SMT
  <2> QED
    BY <2>3 DEF S
<1>10. off \in [0 .. 49 -> Nat]
  <2>1. off = [d \in 0 .. 49 |-> off[d]]
    BY <1>5, TableLength, SMT
  <2> QED
    BY <1>9, <2>1
<1> QED
  BY <1>6, <1>7, <1>8, <1>10

\* Offsets ascend, by what the classes between take, and stay below a bound.
LEMMA OffsetsAscend ==
  ASSUME NEW ceiling \in Nat, NEW off \in [0 .. 49 -> Nat],
         \A d \in 0 .. 48 : off[d + 1] = off[d] + CapForClass(d, ceiling) * 8
  PROVE  /\ \A c \in 0 .. 48 : CapForClass(c, ceiling) * 8 \in Nat \ {0}
         /\ \A c \in 0 .. 48, d \in 0 .. 49 :
              c < d => off[c] + CapForClass(c, ceiling) * 8 <= off[d]
         /\ \A d \in 0 .. 49 : off[d] <= off[0] + d * (8 * (ceiling + 8))
         /\ \A d \in 0 .. 49 : off[0] + d * 64 <= off[d]
<1>1. \A c \in 0 .. 48 : CapForClass(c, ceiling) * 8 \in Nat \ {0}
  BY CapBounds, SMT
<1>2. ASSUME NEW c \in 0 .. 48
      PROVE  \A d \in 0 .. 49 : c < d => off[c] + CapForClass(c, ceiling) * 8 <= off[d]
  <2> DEFINE S == {d \in 0 .. 49 : c < d => off[c] + CapForClass(c, ceiling) * 8 <= off[d]}
  <2>1. 0 \in S
    BY SMT
  <2>2. ASSUME NEW i \in 0 .. 49 - 1, i \in S PROVE i + 1 \in S
    <3>1. /\ i \in 0 .. 48 /\ i + 1 \in 0 .. 49 /\ off[i] \in Nat /\ off[c] \in Nat
          /\ off[i + 1] = off[i] + CapForClass(i, ceiling) * 8
          /\ CapForClass(i, ceiling) * 8 \in Nat /\ CapForClass(c, ceiling) * 8 \in Nat
      BY <1>1, SMT
    <3>2. CASE c < i
      BY <2>2, <3>1, <3>2, SMT
    <3>3. CASE c = i
      BY <3>1, <3>3, SMT
    <3>4. CASE c > i
      BY <3>1, <3>4, SMT
    <3> QED
      BY <3>2, <3>3, <3>4, SMT
  <2> HIDE DEF S
  <2>3. \A d \in 0 .. 49 : d \in S
    BY <2>1, <2>2, UpTo, SMT
  <2> QED
    BY <2>3 DEF S
<1>3. \A d \in 0 .. 49 : off[d] <= off[0] + d * (8 * (ceiling + 8))
  <2> DEFINE B == 8 * (ceiling + 8)
             S == {d \in 0 .. 49 : off[d] <= off[0] + d * B}
  <2>1. B \in Nat
    BY SMT
  <2>2. \A i \in 0 .. 48 : CapForClass(i, ceiling) \in Nat /\ CapForClass(i, ceiling) * 8 <= B
    BY CapBounds, SMT
  <2> HIDE DEF B
  <2>3. 0 \in S
    BY <2>1, SMT
  <2>4. ASSUME NEW i \in 0 .. 49 - 1, i \in S PROVE i + 1 \in S
    <3>1. /\ i \in 0 .. 48 /\ i + 1 \in 0 .. 49 /\ off[i] \in Nat /\ off[0] \in Nat
          /\ off[i + 1] = off[i] + CapForClass(i, ceiling) * 8
          /\ off[i] <= off[0] + i * B
      BY <2>4, SMT
    <3>2. (i + 1) * B = i * B + B /\ i * B \in Nat
      BY <2>1, <3>1, SMT
    <3>3. off[i + 1] <= off[0] + (i + 1) * B
      BY <2>1, <2>2, <3>1, <3>2, SMT
    <3> QED
      BY <3>1, <3>3
  <2> HIDE DEF S
  <2>5. \A d \in 0 .. 49 : d \in S
    BY <2>3, <2>4, UpTo, SMT
  <2> QED
    BY <2>5 DEF S, B
<1>4. \A d \in 0 .. 49 : off[0] + d * 64 <= off[d]
  <2> DEFINE S == {d \in 0 .. 49 : off[0] + d * 64 <= off[d]}
  <2>1. 0 \in S
    BY SMT
  <2>2. ASSUME NEW i \in 0 .. 49 - 1, i \in S PROVE i + 1 \in S
    <3>1. /\ i \in 0 .. 48 /\ i + 1 \in 0 .. 49 /\ off[i] \in Nat /\ off[0] \in Nat
          /\ off[i + 1] = off[i] + CapForClass(i, ceiling) * 8
          /\ off[0] + i * 64 <= off[i]
      BY <2>2, SMT
    <3>2. CapForClass(i, ceiling) \in Nat /\ 8 <= CapForClass(i, ceiling)
      BY CapBounds
    <3> QED
      BY <3>1, <3>2, SMT
  <2> HIDE DEF S
  <2>3. \A d \in 0 .. 49 : d \in S
    BY <2>1, <2>2, UpTo, SMT
  <2> QED
    BY <2>3 DEF S
<1> QED
  BY <1>1, <1>2, <1>3, <1>4

\* Where the slots of a class are, and the length of the block.
LEMMA SlotsOffs ==
  ASSUME NEW ceiling \in Nat
  PROVE  /\ BlockBytes(ceiling) \in Nat
         /\ 3728 <= BlockBytes(ceiling) /\ BlockBytes(ceiling) <= 592 + 392 * (ceiling + 8)
         /\ \A c \in 0 .. 48 : /\ SlotsOff(c, ceiling) \in Nat /\ 592 <= SlotsOff(c, ceiling)
                               /\ CapForClass(c, ceiling) * 8 \in Nat \ {0}
                               /\ SlotsOff(c, ceiling) + CapForClass(c, ceiling) * 8
                                    <= BlockBytes(ceiling)
         /\ \A c, d \in 0 .. 48 :
              c < d => SlotsOff(c, ceiling) + CapForClass(c, ceiling) * 8 <= SlotsOff(d, ceiling)
<1>1. ((NUM_CLASSES * 12 + 7) \div 8) * 8 = 592 /\ 592 \in Nat
  BY TableLength, SMT
<1>2. PICK off \in [0 .. 49 -> Nat] :
           /\ off[0] = 592
           /\ \A d \in 0 .. 48 : off[d + 1] = off[d] + CapForClass(d, ceiling) * 8
           /\ \A c \in 0 .. 49 : SlotsFrom(592, c, ceiling) = off[c]
  <2>1. PICK start \in Nat : start = 592
    BY SMT
  <2>2. \E off \in [0 .. 49 -> Nat] :
           /\ off[0] = start
           /\ \A d \in 0 .. 48 : off[d + 1] = off[d] + CapForClass(d, ceiling) * 8
           /\ \A c \in 0 .. 49 : SlotsFrom(start, c, ceiling) = off[c]
    BY SlotOffsets
  <2> QED
    BY <2>1, <2>2
<1>3. \A c \in 0 .. 49 : SlotsOff(c, ceiling) = off[c]
  BY <1>1, <1>2, SMT DEF SlotsOff
<1>4. BlockBytes(ceiling) = off[49]
  BY <1>3, TableLength, SMT DEF BlockBytes
<1>5. /\ \A c \in 0 .. 48 : CapForClass(c, ceiling) * 8 \in Nat \ {0}
      /\ \A c \in 0 .. 48, d \in 0 .. 49 :
           c < d => off[c] + CapForClass(c, ceiling) * 8 <= off[d]
      /\ \A d \in 0 .. 49 : off[d] <= off[0] + d * (8 * (ceiling + 8))
      /\ \A d \in 0 .. 49 : off[0] + d * 64 <= off[d]
  <2>1. \A d \in 0 .. 48 : off[d + 1] = off[d] + CapForClass(d, ceiling) * 8
    BY <1>2
  <2> QED
    BY <2>1, OffsetsAscend
<1>6. off[49] <= 592 + 49 * (8 * (ceiling + 8)) /\ off[49] \in Nat /\ 592 + 49 * 64 <= off[49]
  <2>1. 49 \in 0 .. 49
    BY SMT
  <2>2. off[49] \in Nat
    BY <1>2, <2>1
  <2>3. off[49] <= off[0] + 49 * (8 * (ceiling + 8)) /\ off[0] + 49 * 64 <= off[49]
    BY <1>5, <2>1
  <2> QED
    BY <1>2, <2>2, <2>3
<1>7. ASSUME NEW c \in 0 .. 49 PROVE off[c] \in Nat /\ 592 <= off[c]
  <2>1. off[c] \in Nat /\ off[0] + c * 64 <= off[c]
    <3>1. off[c] \in Nat
      BY <1>2
    <3>2. off[0] + c * 64 <= off[c]
      BY <1>5
    <3> QED
      BY <3>1, <3>2
  <2>2. off[0] = 592
    BY <1>2
  <2> QED
    BY <2>1, <2>2, SMT
<1>8. BlockBytes(ceiling) <= 592 + 392 * (ceiling + 8)
  BY <1>4, <1>6, SMT
<1>9. ASSUME NEW c \in 0 .. 48
      PROVE  /\ SlotsOff(c, ceiling) \in Nat /\ 592 <= SlotsOff(c, ceiling)
             /\ SlotsOff(c, ceiling) + CapForClass(c, ceiling) * 8 <= BlockBytes(ceiling)
  <2>1. c \in 0 .. 49 /\ 49 \in 0 .. 49 /\ c < 49
    BY SMT
  <2>2. SlotsOff(c, ceiling) = off[c] /\ BlockBytes(ceiling) = off[49]
    BY <1>3, <1>4, <2>1
  <2>3. off[c] \in Nat /\ 592 <= off[c]
    BY <1>7, <2>1
  <2>4. off[c] + CapForClass(c, ceiling) * 8 <= off[49]
    BY <1>5, <2>1
  <2> QED
    BY <2>2, <2>3, <2>4
<1>10. ASSUME NEW c \in 0 .. 48, NEW d \in 0 .. 48, c < d
       PROVE  SlotsOff(c, ceiling) + CapForClass(c, ceiling) * 8 <= SlotsOff(d, ceiling)
  <2>1. c \in 0 .. 49 /\ d \in 0 .. 49
    BY SMT
  <2> QED
    BY <1>3, <1>5, <1>10, <2>1
<1>11. BlockBytes(ceiling) \in Nat /\ 3728 <= BlockBytes(ceiling)
  BY <1>4, <1>6, SMT
<1>12. \A c \in 0 .. 48 : CapForClass(c, ceiling) * 8 \in Nat \ {0}
  BY <1>5
<1> QED
  BY <1>8, <1>9, <1>10, <1>11, <1>12

\* The powers of two the stride is taken from.
Pow2 == [k \in 0 .. 30 |-> 2 ^ k]

LEMMA Powers30 ==
  /\ \A k \in 0 .. 30 : Pow2[k] \in Nat \ {0}
  /\ \A k \in 0 .. 11 : Pow2[k] \in {1, 2, 4, 8, 16, 32, 64, 128, 256, 512, 1024, 2048}
  /\ \A k \in 12 .. 30 : \E m \in Nat \ {0} : Pow2[k] = 4096 * m
  /\ Pow2[30] = 1073741824
<1>1. /\ Pow2[0] = 1 /\ Pow2[1] = 2 /\ Pow2[2] = 4 /\ Pow2[3] = 8 /\ Pow2[4] = 16
      /\ Pow2[5] = 32 /\ Pow2[6] = 64 /\ Pow2[7] = 128 /\ Pow2[8] = 256
      /\ Pow2[9] = 512 /\ Pow2[10] = 1024 /\ Pow2[11] = 2048
  BY SMT DEF Pow2
<1>2. /\ Pow2[12] = 4096 /\ Pow2[13] = 4096 * 2 /\ Pow2[14] = 4096 * 4
      /\ Pow2[15] = 4096 * 8 /\ Pow2[16] = 4096 * 16 /\ Pow2[17] = 4096 * 32
      /\ Pow2[18] = 4096 * 64 /\ Pow2[19] = 4096 * 128 /\ Pow2[20] = 4096 * 256
      /\ Pow2[21] = 4096 * 512 /\ Pow2[22] = 4096 * 1024 /\ Pow2[23] = 4096 * 2048
      /\ Pow2[24] = 4096 * 4096 /\ Pow2[25] = 4096 * 8192
      /\ Pow2[26] = 4096 * 16384 /\ Pow2[27] = 4096 * 32768
      /\ Pow2[28] = 4096 * 65536 /\ Pow2[29] = 4096 * 131072
      /\ Pow2[30] = 4096 * 262144
  BY SMT DEF Pow2
<1>3. ASSUME NEW k \in 0 .. 11
      PROVE  Pow2[k] \in {1, 2, 4, 8, 16, 32, 64, 128, 256, 512, 1024, 2048}
  <2>1. \/ k = 0 \/ k = 1 \/ k = 2 \/ k = 3 \/ k = 4 \/ k = 5 \/ k = 6 \/ k = 7 \/ k = 8
        \/ k = 9 \/ k = 10 \/ k = 11
    BY SMT
  <2> QED
    BY <1>1, <2>1, SMT
<1>4. ASSUME NEW k \in 12 .. 30
      PROVE  Pow2[k] \in Nat \ {0} /\ Pow2[k] = 4096 * Pow2[k - 12] /\ Pow2[k - 12] \in Nat \ {0}
  <2>1. \/ k = 12 \/ k = 13 \/ k = 14 \/ k = 15 \/ k = 16 \/ k = 17 \/ k = 18 \/ k = 19 \/ k = 20
        \/ k = 21 \/ k = 22 \/ k = 23 \/ k = 24 \/ k = 25 \/ k = 26 \/ k = 27 \/ k = 28 \/ k = 29
        \/ k = 30
    BY SMT
  <2>2. Pow2[k] \in Nat \ {0}
    BY <1>2, <2>1, SMT
  <2>3. Pow2[k - 12] \in Nat \ {0}
    BY <1>1, <1>2, <2>1, SMT
  <2>4. Pow2[k] = 4096 * Pow2[k - 12]
    BY <1>1, <1>2, <2>1, SMT
  <2> QED
    BY <2>2, <2>3, <2>4, SMT
<1>5. \A k \in 0 .. 30 : k \in 0 .. 11 \/ k \in 12 .. 30
  BY SMT
<1>6. ASSUME NEW k \in 0 .. 30 PROVE Pow2[k] \in Nat \ {0}
  <2>1. CASE k \in 0 .. 11
    <3>1. Pow2[k] \in {1, 2, 4, 8, 16, 32, 64, 128, 256, 512, 1024, 2048}
      BY <1>3, <2>1
    <3> QED
      BY <3>1, SMT
  <2>2. CASE k \in 12 .. 30
    BY <1>4, <2>2
  <2> QED
    BY <1>5, <2>1, <2>2
<1> QED
  BY <1>2, <1>3, <1>4, <1>6, SMT

\* slots_off is a u32, so that a block, and with it a capacity, is bounded; the
\* model's strides go up to 2^30.
MaxCap  == 2097152
CapsFit == \A c \in CapsPerClass : c <= MaxCap

\* The stride holds the block, and is a multiple of 4096.
LEMMA StrideHolds ==
  ASSUME NEW ceiling \in Nat, ceiling <= MaxCap
  PROVE  /\ Stride(ceiling) \in Nat /\ BlockBytes(ceiling) <= Stride(ceiling)
         /\ \E m \in Nat \ {0} : Stride(ceiling) = 4096 * m
<1> DEFINE P == {Pow2[k] : k \in 0 .. 30} \ 0 .. BlockBytes(ceiling) - 1
<1>1. /\ BlockBytes(ceiling) \in Nat /\ 3728 <= BlockBytes(ceiling)
      /\ BlockBytes(ceiling) <= 592 + 392 * (ceiling + 8)
  BY SlotsOffs, SMT
<1>2. BlockBytes(ceiling) <= 1073741824
  BY <1>1, SMT DEF MaxCap
<1>3. Pow2[30] \in P
  <2>1. 30 \in 0 .. 30
    BY SMT
  <2>2. Pow2[30] \notin 0 .. BlockBytes(ceiling) - 1
    BY <1>1, <1>2, Powers30, SMT
  <2> QED
    BY <2>1, <2>2, SMT
<1>4. P \in SUBSET Nat
  BY Powers30, SMT
<1>5. Stride(ceiling) \in P
  <2>1. Stride(ceiling) = Min(P)
    BY SMT DEF Stride, Pow2
  <2> HIDE DEF P
  <2> QED
    BY <1>3, <1>4, <2>1, LeastNat, SMT
<1>6. PICK k \in 0 .. 30 : Stride(ceiling) = Pow2[k]
  BY <1>5, SMT
<1>7. Stride(ceiling) \in Nat /\ BlockBytes(ceiling) <= Stride(ceiling)
  BY <1>1, <1>4, <1>5, SMT
<1>8. k \in 12 .. 30
  <2> SUFFICES ASSUME k \in 0 .. 11 PROVE FALSE
    BY SMT
  <2>1. Stride(ceiling) \in {1, 2, 4, 8, 16, 32, 64, 128, 256, 512, 1024, 2048}
    BY <1>6, Powers30, SMT
  <2> QED
    BY <1>1, <1>7, <2>1, SMT
<1> QED
  BY <1>6, <1>7, <1>8, Powers30, SMT

\* Pieces that follow one another are as many as there are, and disjoint.
LEMMA Pieces ==
  ASSUME NEW n \in Nat, NEW s \in [0 .. n -> Nat], NEW l \in [0 .. n -> Nat \ {0}],
         \A i, j \in 0 .. n : i < j => s[i] + l[i] <= s[j]
  PROVE  LET R == {<<s[i], l[i]>> : i \in 0 .. n}
         IN /\ Cardinality(R) = n + 1
            /\ \A r, q \in R : r # q => r[1] + r[2] <= q[1] \/ q[1] + q[2] <= r[1]
<1> DEFINE R == {<<s[i], l[i]>> : i \in 0 .. n}
<1> DEFINE f == [i \in 0 .. n |-> <<s[i], l[i]>>]
<1>1. \A i, j \in 0 .. n : i # j => s[i] + l[i] <= s[j] \/ s[j] + l[j] <= s[i]
  BY SMT
<1>2. \A i, j \in 0 .. n : s[i] = s[j] => i = j
  <2> SUFFICES ASSUME NEW i \in 0 .. n, NEW j \in 0 .. n, s[i] = s[j], i # j PROVE FALSE
    OBVIOUS
  <2>1. s[i] \in Nat /\ l[i] \in Nat \ {0} /\ l[j] \in Nat \ {0}
    OBVIOUS
  <2> QED
    BY <1>1, <2>1, SMT
<1>3. f \in Bijection(0 .. n, R)
  <2>1. f \in [0 .. n -> R]
    OBVIOUS
  <2>2. \A i, j \in 0 .. n : f[i] = f[j] => i = j
    BY <1>2
  <2>3. \A r \in R : \E i \in 0 .. n : f[i] = r
    OBVIOUS
  <2> HIDE DEF f
  <2> QED
    BY <2>1, <2>2, <2>3 DEF Bijection, Injection, Surjection, IsInjective
<1>4. IsFiniteSet(0 .. n) /\ Cardinality(0 .. n) = n + 1
  BY FS_Interval
<1>5. Cardinality(R) = n + 1
  BY <1>3, <1>4, FS_Bijection DEF ExistsBijection
<1>6. ASSUME NEW r \in R, NEW q \in R, r # q
      PROVE  r[1] + r[2] <= q[1] \/ q[1] + q[2] <= r[1]
  <2>1. PICK i \in 0 .. n : r = <<s[i], l[i]>>
    OBVIOUS
  <2>2. PICK j \in 0 .. n : q = <<s[j], l[j]>>
    OBVIOUS
  <2>3. i # j
    BY <1>6, <2>1, <2>2
  <2>4. r[1] = s[i] /\ r[2] = l[i] /\ q[1] = s[j] /\ q[2] = l[j]
    BY <2>1, <2>2
  <2> QED
    BY <1>1, <2>3, <2>4
<1> QED
  BY <1>5, <1>6

-----------------------------------------------------------------------------
(* The specification's variables. *)

\* base and cap are what the reservation and the builder gave.
Placed == base \in {p * PageBytes : p \in BasePages} /\ cap \in CapsPerClass

LEMMA AlwaysPlaced == Spec => []Placed
<1>1. Init => Placed
  BY DEF Init, Placed
<1>2. Placed /\ [Next]_vars => Placed'
  BY DEF Placed, Next, vars, Alloc, Dealloc
<1> QED
  BY <1>1, <1>2, PTL DEF Spec

\* The headers, the locks and the slots, one after the other.
LEMMA BlockLayout ==
  ASSUME NEW ceiling \in Nat, ceiling <= MaxCap,
         NEW R, R = {<<HeaderOff(c), 8>> : c \in 0 .. 48}
                    \cup {<<LockOff(c), 4>> : c \in 0 .. 48}
                    \cup {<<SlotsOff(c, ceiling), CapForClass(c, ceiling) * 8>> : c \in 0 .. 48}
  PROVE  /\ Cardinality(R) = 147
         /\ \A r \in R : r[1] + r[2] <= Stride(ceiling)
         /\ \A r, q \in R : r # q => r[1] + r[2] <= q[1] \/ q[1] + q[2] <= r[1]
<1> DEFINE s == [i \in 0 .. 146 |-> IF i < 49 THEN i * 8
                                    ELSE IF i < 98 THEN 392 + (i - 49) * 4
                                    ELSE SlotsOff(i - 98, ceiling)]
           l == [i \in 0 .. 146 |-> IF i < 49 THEN 8
                                    ELSE IF i < 98 THEN 4
                                    ELSE CapForClass(i - 98, ceiling) * 8]
<1>1. \A c \in 0 .. 48 : HeaderOff(c) = c * 8 /\ LockOff(c) = 392 + c * 4
  BY TableLength, SMT DEF HeaderOff, LockOff
<1>2. /\ \A c \in 0 .. 48 : /\ SlotsOff(c, ceiling) \in Nat /\ 592 <= SlotsOff(c, ceiling)
                            /\ CapForClass(c, ceiling) * 8 \in Nat \ {0}
                            /\ SlotsOff(c, ceiling) + CapForClass(c, ceiling) * 8
                                 <= BlockBytes(ceiling)
      /\ \A c, d \in 0 .. 48 :
           c < d => SlotsOff(c, ceiling) + CapForClass(c, ceiling) * 8 <= SlotsOff(d, ceiling)
  BY SlotsOffs, SMT
<1>3. /\ Stride(ceiling) \in Nat /\ BlockBytes(ceiling) \in Nat
      /\ BlockBytes(ceiling) <= Stride(ceiling) /\ 3728 <= BlockBytes(ceiling)
  BY SlotsOffs, StrideHolds, SMT
<1>4. ASSUME NEW i \in 0 .. 146
      PROVE  /\ s[i] \in Nat /\ l[i] \in Nat \ {0}
             /\ i < 49 => i \in 0 .. 48 /\ s[i] = i * 8 /\ l[i] = 8
             /\ 49 <= i /\ i < 98 => i - 49 \in 0 .. 48 /\ s[i] = 392 + (i - 49) * 4 /\ l[i] = 4
             /\ 98 <= i => /\ i - 98 \in 0 .. 48 /\ s[i] = SlotsOff(i - 98, ceiling)
                           /\ l[i] = CapForClass(i - 98, ceiling) * 8
             /\ s[i] + l[i] <= BlockBytes(ceiling)
  <2>1. CASE i < 49
    BY <1>3, <2>1, SMT
  <2>2. CASE 49 <= i /\ i < 98
    BY <1>3, <2>2, SMT
  <2>3. CASE 98 <= i
    <3>1. i - 98 \in 0 .. 48
      BY <2>3, SMT
    <3>2. s[i] = SlotsOff(i - 98, ceiling) /\ l[i] = CapForClass(i - 98, ceiling) * 8
      BY <2>3, SMT
    <3>3. /\ SlotsOff(i - 98, ceiling) \in Nat /\ CapForClass(i - 98, ceiling) * 8 \in Nat \ {0}
          /\ SlotsOff(i - 98, ceiling) + CapForClass(i - 98, ceiling) * 8 <= BlockBytes(ceiling)
      BY <1>2, <3>1
    <3>4. ~(i < 49) /\ ~(49 <= i /\ i < 98)
      BY <2>3, SMT
    <3> HIDE DEF s, l
    <3> QED
      BY <3>1, <3>2, <3>3, <3>4
  <2>4. i < 49 \/ (49 <= i /\ i < 98) \/ 98 <= i
    BY SMT
  <2> HIDE DEF s, l
  <2> QED
    BY <2>1, <2>2, <2>3, <2>4
<1>5. s \in [0 .. 146 -> Nat] /\ l \in [0 .. 146 -> Nat \ {0}]
  <2>1. \A i \in 0 .. 146 : s[i] \in Nat /\ l[i] \in Nat \ {0}
    BY <1>4, SMT
  <2>2. s = [i \in 0 .. 146 |-> s[i]] /\ l = [i \in 0 .. 146 |-> l[i]]
    BY SMT
  <2> HIDE DEF s, l
  <2> QED
    BY <2>1, <2>2, SMT
<1> HIDE DEF s, l
<1>6. \A i, j \in 0 .. 146 : i < j => s[i] + l[i] <= s[j]
  <2> SUFFICES ASSUME NEW i \in 0 .. 146, NEW j \in 0 .. 146, i < j PROVE s[i] + l[i] <= s[j]
    OBVIOUS
  <2>1. CASE j < 98
    <3>1. CASE j < 49
      <4>1. s[i] = i * 8 /\ l[i] = 8 /\ s[j] = j * 8
        BY <1>4, <3>1, SMT
      <4> QED
        BY <4>1, SMT
    <3>2. CASE i < 49 /\ 49 <= j
      <4>1. s[i] = i * 8 /\ l[i] = 8 /\ s[j] = 392 + (j - 49) * 4
        BY <1>4, <2>1, <3>2, SMT
      <4> QED
        BY <3>2, <4>1, SMT
    <3>3. CASE 49 <= i
      <4>1. s[i] = 392 + (i - 49) * 4 /\ l[i] = 4 /\ s[j] = 392 + (j - 49) * 4
        BY <1>4, <2>1, <3>3, SMT
      <4> QED
        BY <4>1, SMT
    <3> QED
      BY <3>1, <3>2, <3>3, SMT
  <2>2. CASE 98 <= j /\ i < 98
    <3>1. 592 <= s[j] /\ s[j] \in Nat
      <4>1. j - 98 \in 0 .. 48 /\ s[j] = SlotsOff(j - 98, ceiling)
        BY <1>4, <2>2
      <4> QED
        BY <1>2, <4>1
    <3>2. s[i] + l[i] <= 592
      <4>1. CASE i < 49
        <5>1. s[i] = i * 8 /\ l[i] = 8
          BY <1>4, <4>1
        <5> QED
          BY <4>1, <5>1, SMT
      <4>2. CASE 49 <= i
        <5>1. s[i] = 392 + (i - 49) * 4 /\ l[i] = 4
          BY <1>4, <2>2, <4>2
        <5> QED
          BY <2>2, <4>2, <5>1, SMT
      <4> QED
        BY <4>1, <4>2, SMT
    <3> QED
      BY <1>5, <3>1, <3>2, SMT
  <2>3. CASE 98 <= i
    <3>1. i - 98 \in 0 .. 48 /\ j - 98 \in 0 .. 48 /\ i - 98 < j - 98
      BY <2>3, SMT
    <3>2. /\ s[i] = SlotsOff(i - 98, ceiling) /\ l[i] = CapForClass(i - 98, ceiling) * 8
          /\ s[j] = SlotsOff(j - 98, ceiling)
      <4>1. 98 <= j
        BY <2>3, SMT
      <4>2. s[i] = SlotsOff(i - 98, ceiling)
        BY <1>4, <2>3
      <4>3. l[i] = CapForClass(i - 98, ceiling) * 8
        BY <1>4, <2>3
      <4>4. s[j] = SlotsOff(j - 98, ceiling)
        BY <1>4, <4>1
      <4> QED
        BY <4>2, <4>3, <4>4
    <3> QED
      BY <1>2, <3>1, <3>2, SMT
  <2> QED
    BY <2>1, <2>2, <2>3, SMT
<1>7. R = {<<s[i], l[i]>> : i \in 0 .. 146}
  <2>1. ASSUME NEW c \in 0 .. 48
        PROVE  /\ <<HeaderOff(c), 8>> = <<s[c], l[c]>> /\ c \in 0 .. 146
               /\ <<LockOff(c), 4>> = <<s[c + 49], l[c + 49]>> /\ c + 49 \in 0 .. 146
               /\ c + 98 \in 0 .. 146
               /\ <<SlotsOff(c, ceiling), CapForClass(c, ceiling) * 8>> = <<s[c + 98], l[c + 98]>>
    <3>1. c \in 0 .. 146 /\ c < 49 /\ c + 49 \in 0 .. 146 /\ 49 <= c + 49 /\ c + 49 < 98
      BY SMT
    <3>2. c + 98 \in 0 .. 146 /\ 98 <= c + 98 /\ (c + 98) - 98 = c /\ (c + 49) - 49 = c
      BY SMT
    <3>3. s[c] = c * 8 /\ l[c] = 8
      BY <1>4, <3>1
    <3>4. s[c + 49] = 392 + ((c + 49) - 49) * 4 /\ l[c + 49] = 4
      BY <1>4, <3>1
    <3>5. s[c + 98] = SlotsOff((c + 98) - 98, ceiling) /\ l[c + 98] = CapForClass((c + 98) - 98, ceiling) * 8
      BY <1>4, <3>2
    <3> QED
      BY <1>1, <3>1, <3>2, <3>3, <3>4, <3>5
  <2>2. ASSUME NEW i \in 0 .. 146 PROVE <<s[i], l[i]>> \in R
    <3>1. CASE i < 49
      <4>1. i \in 0 .. 48 /\ <<HeaderOff(i), 8>> = <<s[i], l[i]>>
        BY <2>1, <3>1, SMT
      <4> QED
        BY <4>1
    <3>2. CASE 49 <= i /\ i < 98
      <4>1. i - 49 \in 0 .. 48 /\ (i - 49) + 49 = i
        BY <3>2, SMT
      <4>2. <<LockOff(i - 49), 4>> = <<s[i], l[i]>>
        BY <2>1, <4>1
      <4> QED
        BY <4>1, <4>2
    <3>3. CASE 98 <= i
      <4>1. i - 98 \in 0 .. 48 /\ (i - 98) + 98 = i
        BY <3>3, SMT
      <4>2. <<SlotsOff(i - 98, ceiling), CapForClass(i - 98, ceiling) * 8>> = <<s[i], l[i]>>
        BY <2>1, <4>1
      <4> QED
        BY <4>1, <4>2
    <3> QED
      BY <3>1, <3>2, <3>3, SMT
  <2>3. ASSUME NEW r \in R PROVE \E i \in 0 .. 146 : r = <<s[i], l[i]>>
    BY <2>1
  <2> QED
    BY <2>2, <2>3, ZenonT(40)
<1>8. PICK n \in Nat : n = 146
  BY SMT
<1>9. /\ Cardinality(R) = n + 1
      /\ \A r, q \in R : r # q => r[1] + r[2] <= q[1] \/ q[1] + q[2] <= r[1]
  <2>1. s \in [0 .. n -> Nat] /\ l \in [0 .. n -> Nat \ {0}]
    BY <1>5, <1>8
  <2>2. \A i, j \in 0 .. n : i < j => s[i] + l[i] <= s[j]
    BY <1>6, <1>8
  <2>3. R = {<<s[i], l[i]>> : i \in 0 .. n}
    BY <1>7, <1>8
  <2> QED
    BY <2>1, <2>2, <2>3, Pieces, ZenonT(40)
<1>10. ASSUME NEW r \in R PROVE r[1] + r[2] <= Stride(ceiling)
  <2>1. PICK i \in 0 .. 146 : r = <<s[i], l[i]>>
    BY <1>7
  <2>2. s[i] + l[i] <= BlockBytes(ceiling) /\ s[i] \in Nat /\ l[i] \in Nat
    BY <1>4
  <2> QED
    BY <1>3, <2>1, <2>2, SMT
<1> QED
  BY <1>8, <1>9, <1>10, SMT

\* Whatever capacity the builder was given, the block of a CPU holds every header,
\* lock and slot without overlap, within its stride.
THEOREM SlabAlwaysFits == ASSUME CapsFit PROVE Spec => []SlabFits
<1>1. Placed => SlabFits
  <2> SUFFICES ASSUME Placed PROVE SlabFits
    OBVIOUS
  <2>1. cap \in Nat /\ cap <= MaxCap
    BY BlocksAssumption, SMT DEF Placed, CapsFit
  <2> DEFINE R == {<<HeaderOff(c), 8>> : c \in 0 .. 48}
                  \cup {<<LockOff(c), 4>> : c \in 0 .. 48}
                  \cup {<<SlotsOff(c, cap), CapForClass(c, cap) * 8>> : c \in 0 .. 48}
  <2>2. NUM_CLASSES - 1 = 48 /\ 3 * NUM_CLASSES = 147
    BY TableLength, SMT
  <2>3. /\ Cardinality(R) = 147
        /\ \A r \in R : r[1] + r[2] <= Stride(cap)
        /\ \A r, q \in R : r # q => r[1] + r[2] <= q[1] \/ q[1] + q[2] <= r[1]
    BY <2>1, BlockLayout, SMT
  <2> QED
    BY <2>2, <2>3, SMT DEF SlabFits
<1> QED
  BY <1>1, AlwaysPlaced, PTL

-----------------------------------------------------------------------------
(* The searches of the table. *)

LEMMA FirstOfClasses ==
  ASSUME NEW S \in SUBSET (1 .. 48)
  PROVE  /\ S = {} => FirstOf(S) = 0
         /\ S # {} => /\ FirstOf(S) \in S /\ FirstOf(S) # 0
                      /\ \A c \in S : FirstOf(S) <= c
<1>1. S \in SUBSET Nat
  OBVIOUS
<1>2. S # {} => FirstOf(S) = Min(S) /\ Min(S) \in S /\ \A c \in S : Min(S) <= c
  BY <1>1, LeastNat DEF FirstOf
<1> QED
  BY <1>2 DEF FirstOf

\* One load from the table finds the least class that holds the size.
LEMMA ClassOfLeast ==
  ASSUME NEW need \in Nat, 0 < need, need <= MAX_SMALL
  PROVE  /\ ClassOf(need) \in 1 .. 48
         /\ CLASS_SIZES[ClassOf(need)] >= need
         /\ \A d \in 1 .. 48 : d < ClassOf(need) => CLASS_SIZES[d] < need
         /\ ClassFor(need) = ClassOf(need)
<1> DEFINE i == (need + 7) \div 8
           S == {c \in Classes : CLASS_SIZES[c] >= need}
<1>1. i \in Nat /\ i # 0 /\ need <= 8 * i /\ 8 * i <= need + 7
  BY SMT
<1>2. ASSUME NEW c \in 1 .. 48 PROVE CLASS_SIZES[c] >= 8 * i <=> CLASS_SIZES[c] >= need
  <2>1. CLASS_SIZES[c] \in Nat /\ CLASS_SIZES[c] % 8 = 0
    BY TableEntries
  <2> HIDE DEF i
  <2> QED
    BY <1>1, <2>1, SMT
<1>3. {c \in Classes : CLASS_SIZES[c] >= 8 * i} = S
  BY <1>2, TableLength
<1>4. MIN_ALIGN - 1 = 7
  BY SMT DEF MIN_ALIGN
<1>5. ClassOf(need) = FirstOf({c \in Classes : CLASS_SIZES[c] >= 8 * i})
  <2>1. need + MIN_ALIGN - 1 = need + 7
    BY SMT DEF MIN_ALIGN
  <2>2. ClassOf(need) = LOOKUP(i)
    BY <2>1, SMT DEF ClassOf, MAX_SMALL
  <2> HIDE DEF i
  <2> QED
    BY <1>1, <2>2 DEF LOOKUP
<1>6. ClassOf(need) = FirstOf(S)
  BY <1>3, <1>5
<1>7. ClassFor(need) = FirstOf(S)
  BY SMT DEF ClassFor, MAX_SMALL
<1>8. S \in SUBSET (1 .. 48) /\ 48 \in S
  BY TableLength, TableLast, SMT
<1> HIDE DEF i
<1>9. FirstOf(S) \in S /\ \A c \in S : FirstOf(S) <= c
  BY <1>8, FirstOfClasses
<1>10. FirstOf(S) \in 1 .. 48 /\ CLASS_SIZES[FirstOf(S)] >= need
  BY <1>8, <1>9
<1>11. ASSUME NEW d \in 1 .. 48, d < FirstOf(S) PROVE CLASS_SIZES[d] < need
  <2>1. d \notin S
    <3> HIDE DEF S
    <3> QED
      BY <1>8, <1>9, <1>10, <1>11, SMT
  <2>2. ~(CLASS_SIZES[d] >= need) /\ CLASS_SIZES[d] \in Nat
    BY <2>1, TableLength, TableEntries
  <2> QED
    BY <2>2, SMT
<1> QED
  BY <1>6, <1>7, <1>10, <1>11

\* The class of an over-aligned layout: none, or the least one that holds the size
\* and keeps every object aligned.
LEMMA AlignedClassLeast ==
  ASSUME NEW need \in Nat, 0 < need, need <= MAX_SMALL, NEW align \in Nat \ {0}
  PROVE  \/ AlignedClass(need, align) = 0
         \/ /\ AlignedClass(need, align) \in 1 .. 48
            /\ CLASS_SIZES[AlignedClass(need, align)] >= need
            /\ CLASS_SIZES[AlignedClass(need, align)] % align = 0
            /\ \A d \in 1 .. 48 : d < AlignedClass(need, align) =>
                                    CLASS_SIZES[d] < need \/ CLASS_SIZES[d] % align # 0
<1> DEFINE k == ClassOf(need)
           S == {c \in Classes : c >= k /\ CLASS_SIZES[c] % align = 0}
<1>1. /\ k \in 1 .. 48 /\ k # 0 /\ CLASS_SIZES[k] >= need
      /\ \A d \in 1 .. 48 : d < k => CLASS_SIZES[d] < need
  BY ClassOfLeast
<1> HIDE DEF k
<1>2. AlignedClass(need, align) = FirstOf(S)
  BY <1>1 DEF AlignedClass, k
<1>3. S \in SUBSET (1 .. 48)
  BY TableLength
<1>4. CASE S = {}
  BY <1>2, <1>3, <1>4, FirstOfClasses
<1>5. CASE S # {}
  <2> DEFINE m == FirstOf(S)
  <2>1. m \in S /\ \A c \in S : m <= c
    BY <1>3, <1>5, FirstOfClasses
  <2> HIDE DEF m
  <2>2. m \in 1 .. 48 /\ m >= k /\ CLASS_SIZES[m] % align = 0
    BY <1>3, <2>1
  <2>3. CLASS_SIZES[m] >= need
    <3>1. /\ k <= m /\ CLASS_SIZES[k] <= CLASS_SIZES[m]
          /\ CLASS_SIZES[k] \in Nat /\ CLASS_SIZES[m] \in Nat
      BY <1>1, <2>2, TableMonotone, TableEntries
    <3> QED
      BY <1>1, <3>1, SMT
  <2>4. ASSUME NEW d \in 1 .. 48, d < m PROVE CLASS_SIZES[d] < need \/ CLASS_SIZES[d] % align # 0
    <3>1. CASE d < k
      BY <1>1, <3>1
    <3>2. CASE d >= k
      <4>1. ~(m <= d)
        BY <2>2, <2>4, SMT
      <4>2. d \notin S
        BY <2>1, <4>1
      <4> QED
        BY <3>2, <4>2, TableLength
    <3> QED
      BY <1>1, <3>1, <3>2, SMT
  <2> QED
    BY <1>2, <2>2, <2>3, <2>4 DEF m
<1> QED
  BY <1>4, <1>5

-----------------------------------------------------------------------------
(* Spans and slots. *)

\* A quotient and a remainder are what they are.
LEMMA DivIs ==
  ASSUME NEW b \in Nat \ {0}, NEW q \in Nat, NEW r \in Nat, r < b
  PROVE  (q * b + r) \div b = q /\ (q * b + r) % b = r
<1> DEFINE n == q * b + r
           x == n \div b
           y == n % b
<1>1. n \in Nat
  OBVIOUS
<1>2. x \in Int /\ y \in Int /\ 0 <= y /\ y < b /\ n = b * x + y
  BY <1>1
<1> HIDE DEF x, y
<1>3. n = b * q + r
  OBVIOUS
<1>4. b * (q - x) = y - r
  BY <1>2, <1>3
<1>5. q - x < 1
  <2> SUFFICES ASSUME q - x >= 1 PROVE FALSE
    BY <1>2
  <2>1. b * (q - x) >= b
    BY <1>2
  <2> QED
    BY <2>1, <1>4, <1>2
<1>6. q - x > -1
  <2> SUFFICES ASSUME q - x <= -1 PROVE FALSE
    BY <1>2
  <2>1. b * (q - x) <= -b
    BY <1>2
  <2> QED
    BY <2>1, <1>4, <1>2
<1>7. q = x
  BY <1>5, <1>6, <1>2
<1>8. y = r
  BY <1>7, <1>4, <1>2
<1> QED
  BY <1>7, <1>8 DEF x, y

LEMMA DivFloor ==
  ASSUME NEW n \in Nat, NEW b \in Nat \ {0}
  PROVE  /\ n \div b \in Nat /\ n % b \in Nat /\ n % b < b
         /\ n = (n \div b) * b + (n % b)
OBVIOUS

LEMMA Multiples ==
  ASSUME NEW d \in Nat \ {0}
  PROVE  /\ \A q \in Nat : (q * d) % d = 0 /\ (q * d) \div d = q
         /\ \A n \in Nat : n % d = 0 => \E q \in Nat : n = q * d
<1>1. ASSUME NEW q \in Nat PROVE (q * d) % d = 0 /\ (q * d) \div d = q
  <2>1. q * d + 0 = q * d
    OBVIOUS
  <2> QED
    BY <2>1, DivIs
<1>2. ASSUME NEW n \in Nat, n % d = 0 PROVE \E q \in Nat : n = q * d
  <2>1. n \div d \in Nat /\ n = (n \div d) * d + (n % d)
    BY DivFloor
  <2>2. \A x \in Nat : x * d \in Nat /\ x * d + 0 = x * d
    OBVIOUS
  <2>3. n = (n \div d) * d
    BY <1>2, <2>1, <2>2
  <2> QED
    BY <2>1, <2>3
<1> QED
  BY <1>1, <1>2

LEMMA SpanBytes == SPAN_BYTES \in Nat \ {0} /\ SPAN_BYTES = 4096 * 16
BY SMT DEF SPAN_BYTES

\* CeilDiv spans are enough.
LEMMA CeilHolds ==
  ASSUME NEW n \in Nat
  PROVE  CeilDiv(n, SPAN_BYTES) \in Nat /\ n <= CeilDiv(n, SPAN_BYTES) * SPAN_BYTES
<1> DEFINE k == n + SPAN_BYTES - 1
<1>1. SPAN_BYTES \in Nat \ {0} /\ k \in Nat
  BY SpanBytes
<1> HIDE DEF k
<1>2. /\ k \div SPAN_BYTES \in Nat /\ k % SPAN_BYTES \in Nat /\ k % SPAN_BYTES < SPAN_BYTES
      /\ k = (k \div SPAN_BYTES) * SPAN_BYTES + (k % SPAN_BYTES)
  BY <1>1, DivFloor
<1>3. (k \div SPAN_BYTES) * SPAN_BYTES \in Nat
  BY <1>1, <1>2
<1>4. n <= (k \div SPAN_BYTES) * SPAN_BYTES
  BY <1>1, <1>2, <1>3 DEF k
<1> QED
  BY <1>2, <1>4 DEF CeilDiv, k

\* A tile starts in the first span of its group and ends within the group.
LEMMA TileFits ==
  ASSUME NEW osz \in Nat \ {0}, NEW slot \in TiledSlots(osz)
  PROVE  /\ slot \in Nat /\ slot * osz \in Nat /\ slot * osz < SPAN_BYTES
         /\ GroupSpans(osz) \in Nat
         /\ slot * osz + osz <= GroupSpans(osz) * SPAN_BYTES
<1>1. SPAN_BYTES \in Nat \ {0}
  BY SpanBytes
<1>2. GroupSpans(osz) \in Nat /\ osz <= GroupSpans(osz) * SPAN_BYTES
  BY CeilHolds DEF GroupSpans
<1>3. CASE osz > SPAN_BYTES
  <2>1. slot = 0
    BY <1>3 DEF TiledSlots
  <2>2. slot * osz = 0
    BY <2>1
  <2> QED
    BY <1>1, <1>2, <2>1, <2>2
<1>4. CASE ~(osz > SPAN_BYTES)
  <2> DEFINE n == SPAN_BYTES \div osz
  <2>1. n \in Nat /\ n * osz <= SPAN_BYTES
    <3>1. /\ n \in Nat /\ SPAN_BYTES % osz \in Nat
          /\ SPAN_BYTES = n * osz + (SPAN_BYTES % osz)
      BY <1>1, DivFloor
    <3> HIDE DEF n
    <3>2. n * osz \in Nat
      BY <3>1
    <3> QED
      BY <1>1, <3>1, <3>2
  <2>2. slot \in 0 .. n - 1
    BY <1>4 DEF TiledSlots
  <2> HIDE DEF n
  <2>3. slot \in Nat /\ slot + 1 <= n
    BY <2>1, <2>2
  <2>4. (slot + 1) * osz <= n * osz
    BY <2>1, <2>3
  <2>5. (slot + 1) * osz = slot * osz + osz /\ slot * osz \in Nat
    BY <2>3
  <2>6. slot * osz + osz <= SPAN_BYTES /\ slot * osz < SPAN_BYTES
    <3>1. n * osz \in Nat
      BY <2>1
    <3> QED
      BY <1>1, <2>1, <2>4, <2>5, <3>1
  <2>7. GroupSpans(osz) >= 1
    <3> SUFFICES ASSUME GroupSpans(osz) = 0 PROVE FALSE
      BY <1>2
    <3>1. GroupSpans(osz) * SPAN_BYTES = 0
      BY <1>1
    <3> QED
      BY <1>2, <3>1
  <2>8. SPAN_BYTES <= GroupSpans(osz) * SPAN_BYTES
    BY <1>1, <1>2, <2>7
  <2>9. GroupSpans(osz) * SPAN_BYTES \in Nat
    BY <1>1, <1>2
  <2> QED
    BY <1>1, <1>2, <2>3, <2>5, <2>6, <2>8, <2>9
<1> QED
  BY <1>3, <1>4

\* Word and bit of a slot that was carved are among the words a refill scans.
LEMMA WordOfSlot ==
  ASSUME NEW osz \in Nat \ {0}, NEW slot \in TiledSlots(osz)
  PROVE  slot \div 64 < NumWords(osz) /\ (slot \div 64) * 64 + (slot % 64) = slot
<1> DEFINE n == IF osz > SPAN_BYTES THEN 1 ELSE SPAN_BYTES \div osz
<1>1. slot \in Nat /\ SPAN_BYTES \in Nat
  BY TileFits, SpanBytes
<1>2. n \in Nat /\ slot < n
  <2>1. CASE osz > SPAN_BYTES
    BY <2>1 DEF TiledSlots
  <2>2. CASE ~(osz > SPAN_BYTES)
    <3>1. SPAN_BYTES \div osz \in Nat
      BY <1>1, DivFloor
    <3>2. slot \in 0 .. SPAN_BYTES \div osz - 1
      BY <2>2 DEF TiledSlots
    <3> QED
      BY <2>2, <3>1, <3>2
  <2> QED
    BY <2>1, <2>2
<1>3. NumWords(osz) = (n + 64 - 1) \div 64
  BY DEF NumWords, CeilDiv
<1> HIDE DEF n
<1> QED
  BY <1>1, <1>2, <1>3, SMT

\* locate undoes scan_span.
LEMMA LocateSlot ==
  ASSUME ArenaBase \in Nat, NEW osz \in Nat \ {0}, NEW slot \in TiledSlots(osz), NEW span \in Nat
  PROVE  Locate(SlotAddr(span, slot, osz), osz) =
           [span |-> span, word |-> slot \div 64, bit |-> slot % 64]
<1> DEFINE addr == SlotAddr(span, slot, osz)
<1>1. slot \in Nat /\ slot * osz \in Nat /\ slot * osz < SPAN_BYTES /\ SPAN_BYTES \in Nat \ {0}
  BY TileFits, SpanBytes
<1>2. span * SPAN_BYTES \in Nat
  BY <1>1
<1>3. addr - ArenaBase = span * SPAN_BYTES + slot * osz
  BY <1>1, <1>2 DEF SlotAddr, SpanBase
<1>4. (addr - ArenaBase) \div SPAN_BYTES = span
  BY <1>1, <1>3, DivIs
<1>5. addr - SpanBase(span) = slot * osz
  BY <1>1, <1>2 DEF SlotAddr, SpanBase
<1>6. (addr - SpanBase(span)) \div osz = slot
  BY <1>1, <1>5, Multiples
<1> QED
  BY <1>4, <1>6 DEF Locate
-----------------------------------------------------------------------------
(* The block the program holds. *)

NeedOf(b) == IF b.size > b.align THEN b.size ELSE b.align

\* Where a block may lie: nowhere, at a slot of the class of its layout, or at the
\* start of a span.
DanglingBlock(b) == b.kind = "dangling" /\ b.size = 0 /\ b.len = 0 /\ b.addr = b.align
SlotBlock(b) ==
  /\ b.kind = "slot" /\ b.size # 0 /\ NeedOf(b) <= MAX_SMALL
  /\ b.class = IF b.align <= MIN_ALIGN THEN ClassOf(NeedOf(b)) ELSE AlignedClass(NeedOf(b), b.align)
  /\ b.class # 0
  /\ b.len = CLASS_SIZES[b.class]
  /\ b.span \in Nat /\ b.slot \in TiledSlots(b.len)
  /\ b.addr = SlotAddr(b.span, b.slot, b.len)
RunBlock(b) ==
  /\ b.kind = "run" /\ b.size # 0
  /\ b.len = CeilDiv(NeedOf(b), SPAN_BYTES) * SPAN_BYTES
  /\ b.span \in Nat /\ b.addr = SpanBase(b.span)
ShapeOf(b) ==
  /\ b.size \in Sizes /\ b.align \in Aligns
  /\ DanglingBlock(b) \/ SlotBlock(b) \/ RunBlock(b)

\* The inductive invariant.
BlockShape == block = None \/ ShapeOf(block)

LEMMA ClassNonzero ==
  ASSUME NEW need \in Nat, 0 < need, need <= MAX_SMALL
  PROVE  ClassOf(need) # 0
<1>1. ClassOf(need) \in 1 .. 48
  BY ClassOfLeast
<1> QED
  BY <1>1, SMT

\* What the routes of alloc give has the shape.
LEMMA InClassShape ==
  ASSUME NEW size \in Sizes, NEW align \in Aligns, size # 0, NEW need,
         need = IF size > align THEN size ELSE align, need <= MAX_SMALL,
         NEW c, c = IF align <= MIN_ALIGN THEN ClassOf(need) ELSE AlignedClass(need, align), c # 0,
         NEW w \in InClass(c, size, align)
  PROVE  ShapeOf(w)
<1>1. PICK s \in SomeSpans, k \in TiledSlots(CLASS_SIZES[c]) \cap SomeSlots :
        w = [kind |-> "slot", size |-> size, align |-> align, class |-> c, span |-> s, slot |-> k,
             len |-> CLASS_SIZES[c], addr |-> SlotAddr(s, k, CLASS_SIZES[c])]
  BY DEF InClass
<1>3. /\ w.kind = "slot" /\ w.size = size /\ w.align = align /\ w.class = c /\ w.span = s
      /\ w.slot = k /\ w.len = CLASS_SIZES[c] /\ w.addr = SlotAddr(s, k, CLASS_SIZES[c])
  BY <1>1
<1>4. NeedOf(w) = need
  BY <1>3 DEF NeedOf
<1>5. s \in Nat
  BY BlocksAssumption
<1>6. SlotBlock(w)
  <2>1. w.kind = "slot" /\ w.size # 0 /\ NeedOf(w) <= MAX_SMALL /\ w.class # 0
    BY <1>3, <1>4
  <2>2. w.class = IF w.align <= MIN_ALIGN THEN ClassOf(NeedOf(w)) ELSE AlignedClass(NeedOf(w), w.align)
    BY <1>3, <1>4
  <2>3. w.len = CLASS_SIZES[w.class] /\ w.slot \in TiledSlots(w.len) /\ w.span \in Nat
    BY <1>3, <1>5
  <2>4. w.addr = SlotAddr(w.span, w.slot, w.len)
    BY <1>3
  <2> QED
    BY <2>1, <2>2, <2>3, <2>4 DEF SlotBlock
<1> QED
  BY <1>3, <1>6 DEF ShapeOf

LEMMA InRunShape ==
  ASSUME NEW size \in Sizes, NEW align \in Aligns, size # 0, NEW need,
         need = IF size > align THEN size ELSE align, NEW w \in InRun(need, size, align)
  PROVE  ShapeOf(w)
<1>1. PICK s \in SomeSpans :
        w = [kind |-> "run", size |-> size, align |-> align, class |-> 0, span |-> s, slot |-> 0,
             len |-> CeilDiv(need, SPAN_BYTES) * SPAN_BYTES, addr |-> SpanBase(s)]
  BY DEF InRun
<1>3. /\ w.kind = "run" /\ w.size = size /\ w.align = align /\ w.span = s
      /\ w.len = CeilDiv(need, SPAN_BYTES) * SPAN_BYTES /\ w.addr = SpanBase(s)
  BY <1>1
<1>4. NeedOf(w) = need
  BY <1>3 DEF NeedOf
<1>5. s \in Nat
  BY BlocksAssumption
<1> QED
  BY <1>3, <1>4, <1>5 DEF ShapeOf, RunBlock

LEMMA DanglingShape ==
  ASSUME NEW align \in Aligns, 0 \in Sizes
  PROVE  ShapeOf(Dangling(align))
BY DEF ShapeOf, DanglingBlock, Dangling

\* The cases of the route exclude each other.
LEMMA ServedShape ==
  ASSUME NEW size \in Sizes, NEW align \in Aligns, NEW b \in Served(size, align)
  PROVE  ShapeOf(b)
<1> DEFINE need == IF size > align THEN size ELSE align
<1>1. /\ size \in Nat /\ align \in Nat \ {0} /\ need \in Nat /\ 0 < need
  BY BlocksAssumption
<1>2. MAX_SMALL \in Nat /\ MIN_ALIGN \in Nat /\ SPAN_BYTES \in Nat
  BY SpanBytes, SMT DEF MAX_SMALL, MIN_ALIGN
<1> DEFINE zero  == {Dangling(align)}
           small == InClass(ClassOf(need), size, align)
           over  == IF AlignedClass(need, align) # 0
                      THEN InClass(AlignedClass(need, align), size, align)
                      ELSE InRun(need, size, align)
           run   == InRun(need, size, align)
<1>3. Served(size, align) =
        CASE size = 0 -> zero
          [] size # 0 /\ need <= MAX_SMALL /\ align <= MIN_ALIGN -> small
          [] size # 0 /\ need <= MAX_SMALL /\ align > MIN_ALIGN -> over
          [] size # 0 /\ need > MAX_SMALL /\ align <= SPAN_BYTES -> run
          [] OTHER -> {}
  BY DEF Served
<1> HIDE DEF need, zero, small, over, run
<1>4. CASE size = 0
  <2>1. Served(size, align) = zero
    BY <1>3, <1>4
  <2>2. b = Dangling(align)
    BY <2>1 DEF zero
  <2> QED
    BY <1>4, <2>2, DanglingShape
<1>5. CASE size # 0 /\ need <= MAX_SMALL /\ align <= MIN_ALIGN
  <2>1. ~(align > MIN_ALIGN) /\ ~(need > MAX_SMALL)
    BY <1>1, <1>2, <1>5
  <2>2. Served(size, align) = small
    BY <1>3, <1>5, <2>1
  <2>3. ClassOf(need) # 0
    BY <1>1, <1>5, ClassNonzero
  <2>4. b \in InClass(ClassOf(need), size, align)
    BY <2>2 DEF small
  <2> QED
    BY <1>5, <2>3, <2>4, InClassShape DEF need
<1>6. CASE size # 0 /\ need <= MAX_SMALL /\ align > MIN_ALIGN
  <2>1. ~(align <= MIN_ALIGN) /\ ~(need > MAX_SMALL)
    BY <1>1, <1>2, <1>6
  <2>2. Served(size, align) = over
    BY <1>3, <1>6, <2>1
  <2>3. CASE AlignedClass(need, align) # 0
    <3>1. b \in InClass(AlignedClass(need, align), size, align)
      BY <2>2, <2>3 DEF over
    <3> QED
      BY <1>6, <2>1, <2>3, <3>1, InClassShape DEF need
  <2>4. CASE AlignedClass(need, align) = 0
    <3>1. b \in InRun(need, size, align)
      BY <2>2, <2>4 DEF over
    <3> QED
      BY <1>6, <3>1, InRunShape DEF need
  <2> QED
    BY <2>3, <2>4
<1>7. CASE size # 0 /\ need > MAX_SMALL /\ align <= SPAN_BYTES
  <2>1. ~(need <= MAX_SMALL)
    BY <1>1, <1>2, <1>7
  <2>2. Served(size, align) = run
    BY <1>3, <1>7, <2>1
  <2>3. b \in InRun(need, size, align)
    BY <2>2 DEF run
  <2> QED
    BY <1>7, <2>3, InRunShape DEF need
<1>8. CASE size # 0 /\ need > MAX_SMALL /\ ~(align <= SPAN_BYTES)
  <2>1. ~(need <= MAX_SMALL)
    BY <1>1, <1>2, <1>8
  <2>2. Served(size, align) = {}
    BY <1>3, <1>8, <2>1
  <2> QED
    BY <2>2
<1>9. (need <= MAX_SMALL \/ need > MAX_SMALL) /\ (align <= MIN_ALIGN \/ align > MIN_ALIGN)
  BY <1>1, <1>2
<1> QED
  BY <1>4, <1>5, <1>6, <1>7, <1>8, <1>9

LEMMA AlwaysShaped == Spec => []BlockShape
<1>1. Init => BlockShape
  BY DEF Init, BlockShape
<1>2. BlockShape /\ [Next]_vars => BlockShape'
  <2> SUFFICES ASSUME BlockShape, [Next]_vars PROVE BlockShape'
    OBVIOUS
  <2>1. base' = base /\ cap' = cap
    BY DEF Next, vars, Alloc, Dealloc
  <2>2. ArenaBase' = ArenaBase
    BY <2>1 DEF ArenaBase
  <2>3. ShapeOf(block') => ShapeOf(block)'
    BY <2>2 DEF ShapeOf, DanglingBlock, SlotBlock, RunBlock, SlotAddr, SpanBase
  <2>4. CASE \E size \in Sizes, align \in Aligns : Alloc(size, align)
    <3>1. PICK size \in Sizes, align \in Aligns : Alloc(size, align)
      BY <2>4
    <3>2. block' \in Served(size, align)
      BY <3>1 DEF Alloc
    <3>3. ShapeOf(block')
      BY <3>2, ServedShape
    <3> QED
      BY <2>3, <3>3 DEF BlockShape
  <2>5. CASE Dealloc
    BY <2>5 DEF Dealloc, BlockShape, None
  <2>6. CASE UNCHANGED vars
    <3>1. block' = block
      BY <2>6 DEF vars
    <3> QED
      BY <2>3, <3>1 DEF BlockShape, None
  <2> QED
    BY <2>4, <2>5, <2>6 DEF Next
<1> QED
  BY <1>1, <1>2, PTL DEF Spec

-----------------------------------------------------------------------------
(* Back from a pointer. *)

LEMMA ArenaPlaced ==
  ASSUME CapsFit, Placed
  PROVE  ArenaBase \in Nat /\ (PageBytes = 4096 => \E z \in Nat : ArenaBase = 4096 * z)
<1>1. PICK p \in BasePages : base = p * PageBytes
  BY DEF Placed
<1>2. cap \in Nat /\ cap <= MaxCap /\ p \in Nat /\ PageBytes \in Nat /\ NumCpus \in Nat
  BY BlocksAssumption DEF Placed, CapsFit
<1>3. PICK m \in Nat \ {0} : Stride(cap) = 4096 * m
  BY <1>2, StrideHolds
<1>4. m * NumCpus \in Nat /\ p * PageBytes \in Nat
  BY <1>2, SMT
<1>5. Stride(cap) * NumCpus = 4096 * (m * NumCpus)
  BY <1>2, <1>3, SMT
<1>6. ArenaBase = p * PageBytes + 4096 * (m * NumCpus)
  BY <1>1, <1>5 DEF ArenaBase
<1>7. ArenaBase \in Nat
  BY <1>4, <1>6, SMT
<1>8. ASSUME PageBytes = 4096 PROVE \E z \in Nat : ArenaBase = 4096 * z
  <2>1. ArenaBase = 4096 * (p + m * NumCpus) /\ p + m * NumCpus \in Nat
    BY <1>2, <1>4, <1>6, <1>8, SMT
  <2> QED
    BY <2>1, SMT
<1> QED
  BY <1>7, <1>8

\* What the class of a slot's block is: the least that holds the need, or the least
\* aligned one.
LEMMA ClassOfBlock ==
  ASSUME NEW b, b.size \in Sizes, b.align \in Aligns, SlotBlock(b)
  PROVE  /\ b.size \in Nat \ {0} /\ b.align \in Nat \ {0} /\ NeedOf(b) \in Nat /\ 0 < NeedOf(b)
         /\ b.class \in 1 .. 48 /\ b.len = CLASS_SIZES[b.class]
         /\ b.len \in Nat \ {0} /\ b.len % 8 = 0 /\ NeedOf(b) <= b.len
         /\ b.align <= MIN_ALIGN => /\ b.class = ClassFor(NeedOf(b))
                                    /\ \A d \in 1 .. 48 : d < b.class => CLASS_SIZES[d] < NeedOf(b)
         /\ ~(b.align <= MIN_ALIGN) =>
              /\ b.len % b.align = 0
              /\ \A d \in 1 .. 48 : d < b.class => \/ CLASS_SIZES[d] < NeedOf(b)
                                                   \/ CLASS_SIZES[d] % b.align # 0
<1> DEFINE need == NeedOf(b)
<1>1. b.size \in Nat \ {0} /\ b.align \in Nat \ {0}
  BY BlocksAssumption DEF SlotBlock
<1>2. need \in Nat /\ 0 < need /\ need <= MAX_SMALL
  <2>1. need \in Nat /\ 0 < need
    BY <1>1 DEF NeedOf
  <2> QED
    BY <2>1 DEF SlotBlock
<1> HIDE DEF need
<1>3. /\ b.class = IF b.align <= MIN_ALIGN THEN ClassOf(need) ELSE AlignedClass(need, b.align)
      /\ b.class # 0 /\ b.len = CLASS_SIZES[b.class]
  BY DEF SlotBlock, need
<1>4. CASE b.align <= MIN_ALIGN
  <2>1. b.class = ClassOf(need)
    BY <1>3, <1>4
  <2>2. /\ b.class \in 1 .. 48 /\ CLASS_SIZES[b.class] >= need /\ b.class = ClassFor(need)
        /\ \A d \in 1 .. 48 : d < b.class => CLASS_SIZES[d] < need
    BY <1>2, <2>1, ClassOfLeast
  <2>3. CLASS_SIZES[b.class] \in Nat /\ 8 <= CLASS_SIZES[b.class] /\ CLASS_SIZES[b.class] % 8 = 0
    BY <2>2, TableEntries
  <2>4. b.len \in Nat \ {0} /\ b.len % 8 = 0 /\ need <= b.len
    BY <1>2, <1>3, <2>2, <2>3, SMT
  <2> QED
    BY <1>1, <1>2, <1>3, <1>4, <2>2, <2>4 DEF need
<1>5. CASE ~(b.align <= MIN_ALIGN)
  <2>1. b.class = AlignedClass(need, b.align)
    BY <1>3, <1>5
  <2>2. /\ b.class \in 1 .. 48 /\ CLASS_SIZES[b.class] >= need /\ CLASS_SIZES[b.class] % b.align = 0
        /\ \A d \in 1 .. 48 : d < b.class => CLASS_SIZES[d] < need \/ CLASS_SIZES[d] % b.align # 0
    BY <1>1, <1>2, <1>3, <2>1, AlignedClassLeast
  <2>3. CLASS_SIZES[b.class] \in Nat /\ 8 <= CLASS_SIZES[b.class] /\ CLASS_SIZES[b.class] % 8 = 0
    BY <2>2, TableEntries
  <2>4. b.len \in Nat \ {0} /\ b.len % 8 = 0 /\ need <= b.len /\ b.len % b.align = 0
    BY <1>2, <1>3, <2>2, <2>3, SMT
  <2> QED
    BY <1>1, <1>2, <1>3, <1>5, <2>2, <2>4 DEF need
<1> QED
  BY <1>4, <1>5

LEMMA KindsDiffer ==
  /\ None.kind # "slot"
  /\ \A b : DanglingBlock(b) \/ RunBlock(b) => b.kind # "slot"
BY DEF None, DanglingBlock, RunBlock

\* For every class, span and carved slot: the bit that SpanBitmaps::locate finds for a
\* freed pointer is one a refill scans, and scan_span computes that pointer from it.
THEOREM FreeAlwaysFindsSlot == ASSUME CapsFit PROVE Spec => []FreeFindsSlot
<1>1. Placed /\ BlockShape => FreeFindsSlot
  <2> SUFFICES ASSUME Placed, BlockShape, block.kind = "slot" PROVE FreeFindsSlot
    BY DEF FreeFindsSlot
  <2> DEFINE at == Locate(block.addr, block.len)
  <2>1. block.size \in Sizes /\ block.align \in Aligns /\ SlotBlock(block)
    BY KindsDiffer DEF BlockShape, ShapeOf
  <2>2. block.len \in Nat \ {0}
    BY <2>1, ClassOfBlock
  <2>3. /\ block.span \in Nat /\ block.slot \in TiledSlots(block.len)
        /\ block.addr = SlotAddr(block.span, block.slot, block.len)
    BY <2>1 DEF SlotBlock
  <2>4. ArenaBase \in Nat
    BY ArenaPlaced
  <2>5. at = [span |-> block.span, word |-> block.slot \div 64, bit |-> block.slot % 64]
    BY <2>2, <2>3, <2>4, LocateSlot
  <2>6. /\ block.slot \div 64 < NumWords(block.len)
        /\ (block.slot \div 64) * 64 + (block.slot % 64) = block.slot
    BY <2>2, <2>3, WordOfSlot
  <2> HIDE DEF at
  <2>7. at.span = block.span /\ at.word = block.slot \div 64 /\ at.bit = block.slot % 64
    BY <2>5
  <2>8. at.word < NumWords(block.len) /\ at.word * 64 + at.bit = block.slot
    BY <2>6, <2>7
  <2> QED
    BY <2>3, <2>7, <2>8 DEF FreeFindsSlot, at
<1> QED
  BY <1>1, AlwaysPlaced, AlwaysShaped, PTL

-----------------------------------------------------------------------------
(* Alignment. *)

\* A page of the kernel has 4096 bytes.
FourKPages == PageBytes = 4096
\* What is used of an alignment being a power of two, as Layout guarantees: it is one
\* of those below 4096, or a multiple of 4096.
AlignsArePowers ==
  \A a \in Aligns : a \in {1, 2, 4, 8, 16, 32, 64, 128, 256, 512, 1024, 2048} \/ a % 4096 = 0

UnitOf(a) == IF a < 4096 THEN a ELSE 4096

\* The alignment that is kept divides a page, the alignment asked for and, when that
\* is small, every class size.
LEMMA UnitDivides ==
  ASSUME AlignsArePowers, NEW a \in Aligns
  PROVE  /\ UnitOf(a) \in Nat \ {0}
         /\ \E e \in Nat : 4096 = e * UnitOf(a)
         /\ \E e \in Nat : a = e * UnitOf(a)
         /\ a <= MIN_ALIGN => \E e \in Nat : 8 = e * UnitOf(a)
<1>1. a \in Nat \ {0}
  BY BlocksAssumption
<1>2. CASE a \in {1, 2, 4, 8, 16, 32, 64, 128, 256, 512, 1024, 2048}
  <2>1. UnitOf(a) = a
    BY <1>2, SMT DEF UnitOf
  <2>2. \E e \in Nat : 4096 = e * a
    <3> DEFINE e == 4096 \div a
    <3>1. e \in Nat /\ 4096 = e * a
      BY <1>2, SMT
    <3> QED
      BY <3>1, SMT
  <2>3. a = 1 * a
    BY <1>1, SMT
  <2>4. a <= MIN_ALIGN => \E e \in Nat : 8 = e * a
    <3> SUFFICES ASSUME a <= MIN_ALIGN PROVE \E e \in Nat : 8 = e * a
      OBVIOUS
    <3>1. a \in {1, 2, 4, 8}
      BY <1>2, SMT DEF MIN_ALIGN
    <3> DEFINE e == 8 \div a
    <3>2. e \in Nat /\ 8 = e * a
      BY <3>1, SMT
    <3> QED
      BY <3>2, SMT
  <2> QED
    BY <1>1, <2>1, <2>2, <2>3, <2>4, SMT
<1>3. CASE a % 4096 = 0
  <2>1. PICK q \in Nat : a = q * 4096
    BY <1>1, <1>3, Multiples, SMT
  <2>2. a >= 4096
    BY <1>1, <2>1, SMT
  <2>3. UnitOf(a) = 4096 /\ ~(a <= MIN_ALIGN)
    BY <1>1, <2>2, SMT DEF UnitOf, MIN_ALIGN
  <2>4. UnitOf(a) \in Nat \ {0} /\ 4096 = 1 * UnitOf(a) /\ a = q * UnitOf(a) /\ 1 \in Nat
    BY <2>1, <2>3, SMT
  <2> HIDE DEF UnitOf
  <2>5. (\E e \in Nat : 4096 = e * UnitOf(a)) /\ (\E e \in Nat : a = e * UnitOf(a))
    BY <2>4, SMT
  <2> QED
    BY <2>3, <2>4, <2>5
<1> QED
  BY <1>2, <1>3 DEF AlignsArePowers

LEMMA SumOfMultiples ==
  ASSUME NEW u \in Nat \ {0}, NEW e \in Nat, NEW f \in Nat, NEW x \in Nat, NEW y \in Nat,
         x = e * u, y = f * u
  PROVE  (x + y) % u = 0
<1>1. x + y = (e + f) * u
  BY SMT
<1> QED
  BY <1>1, Multiples

\* A span starts at a multiple of the unit.
LEMMA SpanAligned ==
  ASSUME CapsFit, FourKPages, AlignsArePowers, Placed, NEW a \in Aligns, NEW span \in Nat
  PROVE  \E f \in Nat : SpanBase(span) = f * UnitOf(a) /\ SpanBase(span) \in Nat
<1> DEFINE u == UnitOf(a)
<1>1. PICK z \in Nat : ArenaBase = 4096 * z
  BY ArenaPlaced DEF FourKPages
<1>2. u \in Nat \ {0}
  BY UnitDivides
<1>3. PICK e \in Nat : 4096 = e * u
  BY UnitDivides
<1> HIDE DEF u
<1> DEFINE k == z + 16 * span
<1>4. k \in Nat /\ SpanBase(span) = 4096 * k
  BY <1>1, SpanBytes, SMT DEF SpanBase
<1> HIDE DEF k
<1>5. SpanBase(span) = (e * k) * u /\ e * k \in Nat /\ SpanBase(span) \in Nat
  <2>1. SpanBase(span) = (e * u) * k
    BY <1>3, <1>4
  <2>2. (e * u) * k = (e * k) * u /\ e * k \in Nat
    BY <1>2, <1>4, SMT
  <2>3. (e * k) * u \in Nat
    BY <1>2, <2>2, SMT
  <2> QED
    BY <2>1, <2>2, <2>3
<1> QED
  BY <1>5 DEF u

\* So does a slot in it.
LEMMA SlotAligned ==
  ASSUME CapsFit, FourKPages, AlignsArePowers, Placed, NEW b,
         b.size \in Sizes, b.align \in Aligns, SlotBlock(b)
  PROVE  b.addr % UnitOf(b.align) = 0
<1> DEFINE u == UnitOf(b.align)
<1>1. u \in Nat \ {0}
  BY UnitDivides
<1>2. b.align \in Nat \ {0} /\ b.len \in Nat \ {0} /\ b.len % 8 = 0 /\ b.span \in Nat
  BY ClassOfBlock DEF SlotBlock
<1>3. PICK f \in Nat : SpanBase(b.span) = f * u /\ SpanBase(b.span) \in Nat
  BY <1>2, SpanAligned
<1>4. b.slot \in Nat /\ b.slot * b.len \in Nat
  BY <1>2, TileFits DEF SlotBlock
<1>5. \E g \in Nat : b.len = g * u
  <2>1. CASE b.align <= MIN_ALIGN
    <3>1. PICK e \in Nat : 8 = e * u
      BY <2>1, UnitDivides
    <3>2. PICK q \in Nat : b.len = q * 8
      BY <1>2, Multiples, SMT
    <3> HIDE DEF u
    <3>3. b.len = (q * e) * u /\ q * e \in Nat
      BY <1>1, <3>1, <3>2, SMT
    <3> QED
      BY <3>3
  <2>2. CASE ~(b.align <= MIN_ALIGN)
    <3>1. PICK e \in Nat : b.align = e * u
      BY UnitDivides
    <3>2. b.len % b.align = 0
      BY <2>2, ClassOfBlock
    <3>3. PICK q \in Nat : b.len = q * b.align
      BY <1>2, <3>2, Multiples
    <3> HIDE DEF u
    <3>4. b.len = (q * e) * u /\ q * e \in Nat
      BY <1>1, <3>1, <3>3, SMT
    <3> QED
      BY <3>4
  <2> QED
    BY <2>1, <2>2
<1>6. PICK g \in Nat : b.len = g * u
  BY <1>5
<1> HIDE DEF u
<1>7. b.slot * b.len = (b.slot * g) * u /\ b.slot * g \in Nat
  BY <1>1, <1>4, <1>6, SMT
<1>8. b.addr = SpanBase(b.span) + b.slot * b.len
  BY DEF SlotBlock, SlotAddr
<1>9. b.addr % u = 0
  BY <1>1, <1>3, <1>4, <1>7, <1>8, SumOfMultiples
<1> QED
  BY <1>9 DEF u

-----------------------------------------------------------------------------
(* The layout asked for. *)

\* No smaller class would do.
LEMMA ClassMinimal ==
  ASSUME NEW b, b.size \in Sizes, b.align \in Aligns, SlotBlock(b), NEW c \in 1 .. b.class - 1
  PROVE  \/ CLASS_SIZES[c] < b.size
         \/ b.align > MIN_ALIGN /\ CLASS_SIZES[c] % b.align # 0
<1> DEFINE sz == CLASS_SIZES[c]
<1>1. /\ b.size \in Nat \ {0} /\ b.align \in Nat \ {0} /\ b.class \in 1 .. 48
  BY ClassOfBlock
<1>2. c \in 1 .. 48 /\ c < b.class
  BY <1>1, SMT
<1>3. sz \in Nat /\ 8 <= sz
  BY <1>2, TableEntries
<1>4. NeedOf(b) = IF b.size > b.align THEN b.size ELSE b.align
  BY DEF NeedOf
<1>5. CASE b.align <= MIN_ALIGN
  <2>1. sz < NeedOf(b)
    BY <1>2, <1>5, ClassOfBlock
  <2> HIDE DEF sz
  <2>2. sz < b.size
    BY <1>1, <1>3, <1>4, <1>5, <2>1, SMT DEF MIN_ALIGN
  <2> QED
    BY <2>2 DEF sz
<1>6. CASE ~(b.align <= MIN_ALIGN)
  <2>1. sz < NeedOf(b) \/ sz % b.align # 0
    BY <1>2, <1>6, ClassOfBlock
  <2> HIDE DEF sz
  <2>2. b.align > MIN_ALIGN
    BY <1>1, <1>6, SMT DEF MIN_ALIGN
  <2>3. CASE sz < NeedOf(b) /\ ~(sz < b.size)
    <3>1. sz < b.align
      BY <1>1, <1>3, <1>4, <2>3, SMT
    <3>2. (0 * b.align + sz) % b.align = sz
      BY <1>1, <1>3, <3>1, DivIs
    <3>3. 0 * b.align + sz = sz
      BY <1>1, <1>3, SMT
    <3>4. sz % b.align # 0
      BY <1>3, <3>2, <3>3, SMT
    <3> QED
      BY <2>2, <3>4 DEF sz
  <2> QED
    BY <2>1, <2>2, <2>3 DEF sz
<1> QED
  BY <1>5, <1>6

\* A slot ends within the spans of its group.
LEMMA SlotInGroup ==
  ASSUME CapsFit, Placed, NEW b, b.size \in Sizes, b.align \in Aligns, SlotBlock(b)
  PROVE  b.addr + b.len <= SpanBase(b.span + GroupSpans(b.len))
<1>1. b.len \in Nat \ {0} /\ b.span \in Nat /\ ArenaBase \in Nat /\ SPAN_BYTES \in Nat
  BY ClassOfBlock, ArenaPlaced, SpanBytes DEF SlotBlock
<1>2. /\ b.slot * b.len \in Nat /\ GroupSpans(b.len) \in Nat
      /\ b.slot * b.len + b.len <= GroupSpans(b.len) * SPAN_BYTES
  BY <1>1, TileFits DEF SlotBlock
<1>3. b.addr = ArenaBase + b.span * SPAN_BYTES + b.slot * b.len
  BY DEF SlotBlock, SlotAddr, SpanBase
<1> DEFINE g == GroupSpans(b.len)
<1> HIDE DEF g
<1>4. SpanBase(b.span + g) = ArenaBase + (b.span + g) * SPAN_BYTES
  BY DEF SpanBase
<1>5. (b.span + g) * SPAN_BYTES = b.span * SPAN_BYTES + g * SPAN_BYTES
  BY <1>1, <1>2, SMT DEF g
<1>6. b.span * SPAN_BYTES \in Nat /\ g * SPAN_BYTES \in Nat
  BY <1>1, <1>2, SMT DEF g
<1>7. b.slot * b.len + b.len <= g * SPAN_BYTES
  BY <1>2 DEF g
<1>8. b.addr + b.len <= SpanBase(b.span + g)
  BY <1>1, <1>2, <1>3, <1>4, <1>5, <1>6, <1>7, SMT
<1> QED
  BY <1>8 DEF g

\* For every layout, base, capacity, span and slot: the block is long enough, stays
\* within its spans, is aligned as asked up to a page, and its class is the least
\* that does; the one load of class_of gives what the scan of class_for gives.
THEOREM LayoutAlwaysHonoured ==
  ASSUME CapsFit, FourKPages, AlignsArePowers PROVE Spec => []HonoursLayout
<1>1. Placed /\ BlockShape => HonoursLayout
  <2> SUFFICES ASSUME Placed, BlockShape, block # None PROVE HonoursLayout
    BY DEF HonoursLayout
  <2> DEFINE upTo == IF block.align < PageBytes THEN block.align ELSE PageBytes
             Slot == block.kind = "slot" =>
                       /\ block.addr + block.len <= SpanBase(block.span + GroupSpans(block.len))
                       /\ block.align <= MIN_ALIGN => block.class = ClassFor(NeedOf(block))
                       /\ \A c \in 1 .. block.class - 1 :
                            \/ CLASS_SIZES[c] < block.size
                            \/ block.align > MIN_ALIGN /\ CLASS_SIZES[c] % block.align # 0
  <2>1. /\ block.size \in Sizes /\ block.align \in Aligns
        /\ DanglingBlock(block) \/ SlotBlock(block) \/ RunBlock(block)
    BY DEF BlockShape, ShapeOf
  <2>2. upTo = UnitOf(block.align)
    BY DEF FourKPages, UnitOf
  <2>3. UnitOf(block.align) \in Nat \ {0} /\ block.size \in Nat /\ block.align \in Nat \ {0}
    <3>1. UnitOf(block.align) \in Nat \ {0}
      BY <2>1, UnitDivides
    <3>2. block.size \in Nat /\ block.align \in Nat \ {0}
      BY <2>1, BlocksAssumption
    <3> QED
      BY <3>1, <3>2
  <2>4. /\ block.len >= block.size /\ block.addr % UnitOf(block.align) = 0 /\ Slot
    <3>1. CASE DanglingBlock(block)
      <4>1. block.len >= block.size /\ block.kind # "slot" /\ block.addr = block.align
        BY <3>1, KindsDiffer DEF DanglingBlock
      <4>2. block.addr % UnitOf(block.align) = 0
        BY <2>1, <2>3, <4>1, UnitDivides, Multiples
      <4> QED
        BY <4>1, <4>2
    <3>2. CASE SlotBlock(block)
      <4>1. NeedOf(block) <= block.len /\ block.len \in Nat
        BY <2>1, <3>2, ClassOfBlock
      <4>2. block.len >= block.size
        BY <2>3, <4>1 DEF NeedOf
      <4>3. block.addr % UnitOf(block.align) = 0
        BY <2>1, <3>2, SlotAligned
      <4>4. block.addr + block.len <= SpanBase(block.span + GroupSpans(block.len))
        BY <2>1, <3>2, SlotInGroup
      <4>5. block.align <= MIN_ALIGN => block.class = ClassFor(NeedOf(block))
        BY <2>1, <3>2, ClassOfBlock
      <4>6. \A c \in 1 .. block.class - 1 :
              \/ CLASS_SIZES[c] < block.size
              \/ block.align > MIN_ALIGN /\ CLASS_SIZES[c] % block.align # 0
        BY <2>1, <3>2, ClassMinimal
      <4> QED
        BY <4>2, <4>3, <4>4, <4>5, <4>6
    <3>3. CASE RunBlock(block)
      <4>1. /\ block.kind # "slot" /\ block.addr = SpanBase(block.span) /\ block.span \in Nat
            /\ block.len = CeilDiv(NeedOf(block), SPAN_BYTES) * SPAN_BYTES
        BY <3>3, KindsDiffer DEF RunBlock
      <4>2. NeedOf(block) \in Nat /\ block.size <= NeedOf(block)
        BY <2>3 DEF NeedOf
      <4>3. /\ CeilDiv(NeedOf(block), SPAN_BYTES) \in Nat /\ SPAN_BYTES \in Nat
            /\ NeedOf(block) <= block.len
        BY <4>1, <4>2, CeilHolds, SpanBytes
      <4>4. block.len \in Nat
        BY <4>1, <4>3, SMT
      <4>5. block.len >= block.size
        BY <2>3, <4>2, <4>3, <4>4
      <4>6. block.addr % UnitOf(block.align) = 0
        <5>1. PICK f \in Nat : SpanBase(block.span) = f * UnitOf(block.align)
          BY <2>1, <4>1, SpanAligned
        <5> QED
          BY <2>3, <4>1, <5>1, Multiples
      <4> QED
        BY <4>1, <4>5, <4>6
    <3> QED
      BY <2>1, <3>1, <3>2, <3>3
  <2> QED
    BY <2>2, <2>4 DEF HonoursLayout, NeedOf
<1> QED
  BY <1>1, AlwaysPlaced, AlwaysShaped, PTL
=============================================================================
