-------------------------- MODULE MCFrameHandles --------------------------
EXTENDS FrameHandles
CONSTANTS f1, f2, h1, h2, h3
=============================================================================
