---------------------------- MODULE MCSpanArena ----------------------------
EXTENDS SpanArena
SingleSpanCarves == {<<1, 1>>, <<2, 1>>}
GroupCarves == {<<1, 1>>, <<2, 2>>}
=============================================================================
