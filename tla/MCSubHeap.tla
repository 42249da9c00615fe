----------------------------- MODULE MCSubHeap -----------------------------
EXTENDS SubHeap, TLC
CONSTANTS t0, t1, c1, c2

TwoShards  == (t0 :> 0) @@ (t1 :> 1)
RawShards  == (t0 :> 3) @@ (t1 :> 4)

OneSlot    == (c1 :> 1)
TwoSlots   == (c1 :> 2)
ThreeSlots == (c1 :> 3)
OneEach    == (c1 :> 1) @@ (c2 :> 1)

Everyone   == Threads \X Classes
OnlyT0     == {t0} \X Classes
Split      == {<<t0, c1>>, <<t1, c2>>}
Nobody     == {}
=============================================================================
