------------------------------- MODULE Blocks -------------------------------
(***************************************************************************)
(* Where in memory an allocation lies: the layout of a sub-heap's          *)
(* reservation (SubHeapBuilder::build_standalone), the route of            *)
(* GlobalAlloc::alloc from a layout to a class or a run, the tiling of a   *)
(* span (central_carve, scan_span) and the arithmetic that leads from a    *)
(* freed pointer back to its bit (SpanBitmaps::locate), with the constants *)
(* of the code.  All of it is sequential arithmetic: a behaviour serves    *)
(* one request and frees it.                                               *)
(***************************************************************************)
EXTENDS SizeClass, FiniteSets

CONSTANTS
  PageBytes,         \* what mmap aligns a mapping to
  BasePages,         \* where the kernel may put the reservation, in pages
  NumCpus,
  CapsPerClass,      \* cap_per_class of the builder
  Sizes, Aligns,     \* layouts the program asks for
  SomeSpans,         \* spans and slots of a span that are looked at
  SomeSlots

ASSUME BlocksAssumption ==
  /\ BasePages \subseteq Nat \ {0} /\ CapsPerClass \subseteq Nat \ {0}
  /\ PageBytes \in Nat \ {0} /\ NumCpus \in Nat \ {0}
  /\ Sizes \subseteq Nat /\ Aligns \subseteq Nat \ {0}
  /\ SomeSpans \subseteq Nat /\ SomeSlots \subseteq Nat

VARIABLES
  base,   \* where the reservation starts
  cap,    \* cap_per_class
  block   \* what the program was given

vars == <<base, cap, block>>

SPAN_BYTES == 65536
CeilDiv(a, b) == (a + b - 1) \div b

-----------------------------------------------------------------------------
(* build_standalone: the slab in front of the arena *)

NUM_CLASSES == Len(CLASS_SIZES) + 1
SizeOfClass(c) == IF c = 0 THEN 0 ELSE CLASS_SIZES[c]

CapForClass(c, ceiling) ==
  LET sz   == SizeOfClass(c)
      tier == CASE sz \in 0 .. 512      -> ceiling
                [] sz \in 513 .. 4096   -> ceiling \div 2
                [] sz \in 4097 .. 32768 -> ceiling \div 4
                [] OTHER                -> 24
      capped == IF tier < ceiling THEN tier ELSE ceiling
  IN IF capped > 8 THEN capped ELSE 8

\* Block of a CPU: [Header; classes], [u32; classes], slots of each class.
HeaderOff(c) == c * 8
LockOff(c)   == NUM_CLASSES * 8 + c * 4
\* off of the loop over the classes, from where it starts.
SlotsFrom(start, c, ceiling) ==
  LET off[d \in 0 .. NUM_CLASSES] ==
        IF d = 0 THEN start ELSE off[d - 1] + CapForClass(d - 1, ceiling) * 8
  IN off[c]
SlotsOffShort(c, ceiling) == SlotsFrom(((NUM_CLASSES * 8 + 7) \div 8) * 8, c, ceiling)    \* mutant
SlotsOff(c, ceiling) == SlotsFrom(((NUM_CLASSES * 12 + 7) \div 8) * 8, c, ceiling)
BlockBytes(ceiling) == SlotsOff(NUM_CLASSES, ceiling)

\* The next power of two.
Stride(ceiling) == Min({2 ^ k : k \in 0 .. 30} \ 0 .. BlockBytes(ceiling) - 1)
ArenaBase == base + Stride(cap) * NumCpus

-----------------------------------------------------------------------------
(* Spans *)

\* central_carve: objects are tiled from the start of a span; a class larger
\* than a span has one object per group of spans.
GroupSpans(osz) == CeilDiv(osz, SPAN_BYTES)
TiledSlots(osz) == IF osz > SPAN_BYTES THEN {0} ELSE 0 .. SPAN_BYTES \div osz - 1

\* central_take: how many bitmap words scan_span reads.
NumWordsNoFloor(osz) == CeilDiv(SPAN_BYTES \div osz, 64)    \* mutant
NumWords(osz) == CeilDiv(IF osz > SPAN_BYTES THEN 1 ELSE SPAN_BYTES \div osz, 64)

\* scan_span: the address of a slot.  locate: span, word and bit of an address.
SpanBase(span) == ArenaBase + span * SPAN_BYTES
SlotAddr(span, slot, osz) == SpanBase(span) + slot * osz
Locate(addr, osz) ==
  LET span == (addr - ArenaBase) \div SPAN_BYTES
      slot == (addr - SpanBase(span)) \div osz
  IN [span |-> span, word |-> slot \div 64, bit |-> slot % 64]

-----------------------------------------------------------------------------
(* GlobalAlloc::alloc *)

None == [kind |-> "none", size |-> 0, align |-> 1, class |-> 0,
         span |-> 0, slot |-> 0, len |-> 0, addr |-> 0]

\* alloc_class: any slot of any span of the class.
InClass(c, size, align) ==
  {[kind |-> "slot", size |-> size, align |-> align, class |-> c, span |-> s, slot |-> k,
    len |-> CLASS_SIZES[c], addr |-> SlotAddr(s, k, CLASS_SIZES[c])] :
     s \in SomeSpans, k \in TiledSlots(CLASS_SIZES[c]) \cap SomeSlots}

\* alloc_large: whole spans.
InRun(need, size, align) ==
  {[kind |-> "run", size |-> size, align |-> align, class |-> 0, span |-> s, slot |-> 0,
    len |-> CeilDiv(need, SPAN_BYTES) * SPAN_BYTES, addr |-> SpanBase(s)] : s \in SomeSpans}

\* A size of zero: the alignment, as a pointer.
Dangling(align) == [kind |-> "dangling", size |-> 0, align |-> align, class |-> 0,
                    span |-> 0, slot |-> 0, len |-> 0, addr |-> align]

\* The route: dangling, by class, over-aligned by class or run, large.
Served(size, align) ==
  LET need == IF size > align THEN size ELSE align IN
  CASE size = 0 -> {Dangling(align)}
    [] size # 0 /\ need <= MAX_SMALL /\ align <= MIN_ALIGN -> InClass(ClassOf(need), size, align)
    [] size # 0 /\ need <= MAX_SMALL /\ align > MIN_ALIGN ->
         IF AlignedClass(need, align) # 0 THEN InClass(AlignedClass(need, align), size, align)
                                          ELSE InRun(need, size, align)
    [] size # 0 /\ need > MAX_SMALL /\ align <= SPAN_BYTES -> InRun(need, size, align)
    [] OTHER -> {}    \* oom_backpressure: "alignment exceeds span size"

Init ==
  /\ base \in {p * PageBytes : p \in BasePages}
  /\ cap \in CapsPerClass
  /\ block = None

Alloc(size, align) ==
  /\ block = None
  /\ block' \in Served(size, align)
  /\ UNCHANGED <<base, cap>>

Dealloc ==
  /\ block # None
  /\ block' = None
  /\ UNCHANGED <<base, cap>>

Next == (\E size \in Sizes, align \in Aligns : Alloc(size, align)) \/ Dealloc
Spec == Init /\ [][Next]_vars

-----------------------------------------------------------------------------
(* Properties *)

\* The per-CPU block holds every header, lock and slot without overlap and
\* within its stride, whatever capacity the builder was given, so that the
\* arena behind the blocks starts where no slab of a CPU reaches.
SlabFits ==
  LET regions == {<<HeaderOff(c), 8>> : c \in 0 .. NUM_CLASSES - 1}
                 \cup {<<LockOff(c), 4>> : c \in 0 .. NUM_CLASSES - 1}
                 \cup {<<SlotsOff(c, cap), CapForClass(c, cap) * 8>> : c \in 0 .. NUM_CLASSES - 1}
  IN block = None =>
       /\ Cardinality(regions) = 3 * NUM_CLASSES
       /\ \A r \in regions : r[1] + r[2] <= Stride(cap)
       /\ \A r, q \in regions : r # q => r[1] + r[2] <= q[1] \/ q[1] + q[2] <= r[1]

\* The block is long enough, lies in the spans of its group, and is aligned as
\* asked, up to the alignment of a page; class_of, one load, answers what the scan
\* of class_for answers, and no smaller class would do for the size and alignment.
HonoursLayout ==
  block # None =>
    LET b == block
        need == IF b.size > b.align THEN b.size ELSE b.align
        upTo == IF b.align < PageBytes THEN b.align ELSE PageBytes IN
    /\ b.len >= b.size /\ b.addr % upTo = 0
    /\ b.kind = "slot" =>
         /\ b.addr + b.len <= SpanBase(b.span + GroupSpans(b.len))
         /\ b.align <= MIN_ALIGN => b.class = ClassFor(need)
         /\ \A c \in 1 .. b.class - 1 :
              \/ CLASS_SIZES[c] < b.size
              \/ b.align > MIN_ALIGN /\ CLASS_SIZES[c] % b.align # 0

\* The bit a free sets for this pointer is one that carving set and that a refill
\* scans, and the refill computes the same pointer from it: for every class, the
\* ones that do not divide a span and the ones larger than a span included.
FreeFindsSlot ==
  block.kind = "slot" =>
    LET at == Locate(block.addr, block.len) IN
    /\ at.span = block.span /\ at.word < NumWords(block.len)
    /\ at.word * 64 + at.bit \in TiledSlots(block.len)
    /\ SlotAddr(at.span, at.word * 64 + at.bit, block.len) = block.addr

\* A pointer has the alignment of its layout.
Aligned == block # None => block.addr % block.align = 0
=============================================================================
