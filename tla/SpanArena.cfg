CONSTANTS
  t1 = t1
  t2 = t2
  Threads = {t1, t2}
  NoThread = NoThread
  NumSpans = 5
  ArenaSpans = 4
  WordBits = 2
  LargeCounts = {1, 2, 3}
  ClassCarves <- GroupCarves
  ReclaimCap = 2
SPECIFICATION Spec
INVARIANTS TypeOK PoolWellFormed NoDoubleHandOut NoLostSpan FullCoalesce TableAgrees
PROPERTIES RefinesRunAllocator
