--------------------------- MODULE MCGlobalAlloc ---------------------------
EXTENDS GlobalAlloc, TLC
CONSTANTS t0, t1

\* A system address below the pool, and one where the pool ends.
OnePool  == (t0 :> 2)
=============================================================================
