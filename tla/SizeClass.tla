----------------------------- MODULE SizeClass -----------------------------
(***************************************************************************)
(* The size classes of toccata-core/src/sizeclass.rs.  Class ids start at  *)
(* 1; 0 stands for None, as in the lookup table.                           *)
(***************************************************************************)
EXTENDS Integers, Sequences, FiniteSetsExt

MAX_SMALL == 262144
MIN_ALIGN == 8

CLASS_SIZES ==
  <<8, 16, 24, 32, 48, 64, 80, 96, 112, 128, 160, 192, 224, 256, 320, 384, 448, 512,
    640, 768, 896, 1024, 1280, 1536, 1792, 2048, 2560, 3072, 3584, 4096, 5120, 6144,
    7168, 8192, 10240, 12288, 14336, 16384, 20480, 24576, 28672, 32768, 49152, 65536,
    98304, 131072, 196608, 262144>>

Classes == DOMAIN CLASS_SIZES
FirstOf(S) == IF S = {} THEN 0 ELSE Min(S)

\* The linear scan.
ClassFor(size) ==
  IF size > MAX_SMALL THEN 0
  ELSE FirstOf({c \in Classes : CLASS_SIZES[c] >= IF size = 0 THEN 1 ELSE size})

\* Entry i of the table: where the class cursor of build_lookup_const stands
\* when it gets to i.
LOOKUP(i) == FirstOf({c \in Classes : CLASS_SIZES[c] >= IF i = 0 THEN 1 ELSE 8 * i})

\* One load from the table.
ClassOf(size) ==
  IF size = 0 \/ size > MAX_SMALL THEN 0 ELSE LOOKUP((size + MIN_ALIGN - 1) \div 8)

AlignedClassAny(need, align) == ClassOf(need)    \* mutant

\* From the class of need upwards, the first whose size is a multiple of align.
AlignedClass(need, align) ==
  IF ClassOf(need) = 0 THEN 0
  ELSE FirstOf({c \in Classes : c >= ClassOf(need) /\ CLASS_SIZES[c] % align = 0})
=============================================================================
