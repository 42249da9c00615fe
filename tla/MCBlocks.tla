------------------------------ MODULE MCBlocks ------------------------------
EXTENDS Blocks

\* Every class boundary and its neighbours.
Boundaries == {0, 262145, 300000}
              \cup UNION {{CLASS_SIZES[c] - 1, CLASS_SIZES[c], CLASS_SIZES[c] + 1} : c \in Classes}
Powers == {2 ^ k : k \in 0 .. 18}
\* The first slots, the ends of a word, and the last slots of some spans.
EndSlots == {0, 1, 63, 64, 8191, 2730, 20}
=============================================================================
