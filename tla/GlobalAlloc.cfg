CONSTANTS
  t0 = t0
  t1 = t1
  Threads = {t0, t1}
  MainThread = t0
  Configurers = {t0}
  NoHeap = NoHeap
  HeapBase <- OnePool
  HeapLen = 3
  SysAddrs = {5}
  MagCap = 2
  DropN = 1
  EarlyThreads = FALSE
  LateDestructors = FALSE
SPECIFICATION Spec
CHECK_DEADLOCK FALSE
INVARIANTS FreesGoHome NoDoubleHandOut NoLostObject
