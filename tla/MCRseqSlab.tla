---------------------------- MODULE MCRseqSlab ----------------------------
EXTENDS RseqSlab, TLC
CONSTANTS t0, t1, o1, o2
ToCpu0 == [t \in Threads |-> 0]
\* The threads are interchangeable where all are registered and share a shard.
AlikeThreads == Permutations(Threads)
=============================================================================
