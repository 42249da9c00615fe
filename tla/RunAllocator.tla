--------------------------- MODULE RunAllocator ---------------------------
(***************************************************************************)
(* What the span arena promises: a best-fit allocator of runs of whole     *)
(* spans.  A request is served by the lowest spans of a smallest maximal   *)
(* run of free spans that is large enough, or by fresh spans at the        *)
(* cursor; a free makes the spans of a run free again, and neighbouring    *)
(* free spans are one run from then on.  There are no tags, stacks or      *)
(* bitmaps here: a free run is whatever stretch of spans happens to be     *)
(* free.  Nothing is promised once broken, when a carve was clamped below  *)
(* the size of its object.                                                 *)
(***************************************************************************)
EXTENDS Integers

CONSTANTS NumSpans, ArenaSpans, LargeCounts, ClassCarves

VARIABLES
  free,     \* spans that are free
  cursor,   \* spans below it have been carved
  broken

avars == <<free, cursor, broken>>

Stretch(h, c) == h .. h + c - 1
Asked == LargeCounts \cup {kg[1] : kg \in ClassCarves}
Given == LargeCounts \cup {kg[2] : kg \in ClassCarves}

\* [h, h+c) is a free run that can be extended on neither side.
MaximalRun(h, c) ==
  /\ h \in free /\ h - 1 \notin free /\ h + c \notin free
  /\ Stretch(h, c) \subseteq free

\* [h, h+n) starts a maximal run, and no smaller maximal run holds n spans.
BestFit(h, n) ==
  \E c \in n .. NumSpans :
     /\ MaximalRun(h, c)
     /\ \A g \in free, d \in n .. c - 1 : ~MaximalRun(g, d)

AInit == free = {} /\ cursor = 0 /\ broken = FALSE

Reuse(n) ==
  /\ \E h \in free : BestFit(h, n) /\ free' = free \ Stretch(h, n)
  /\ UNCHANGED <<cursor, broken>>

Fresh(n) ==
  /\ cursor + n <= ArenaSpans
  /\ cursor' = cursor + n
  /\ UNCHANGED <<free, broken>>

\* Spans come back: they were carved and were not free.
Give(n) ==
  /\ \E h \in 0 .. cursor - n :
        /\ Stretch(h, n) \cap free = {}
        /\ free' = free \cup Stretch(h, n)
  /\ UNCHANGED <<cursor, broken>>

Clamped == broken' = TRUE

ANext == \/ broken
         \/ Clamped
         \/ \E n \in Asked : Reuse(n)
         \/ \E n \in 1 .. NumSpans : Fresh(n)
         \/ \E n \in Given : Give(n)

Spec == AInit /\ [][ANext]_avars
=============================================================================
