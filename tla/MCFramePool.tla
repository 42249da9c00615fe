---------------------------- MODULE MCFramePool ----------------------------
EXTENDS FramePool
CONSTANTS t1, t2
=============================================================================
