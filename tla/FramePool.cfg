CONSTANTS
  t1 = t1
  t2 = t2
  Threads = {t1, t2}
  NoThread = NoThread
  Cpus = {0, 1}
  NumFrames = 5
  CapPerCpu = 1
  Batch = 4
  MagCap = 4
  CacheUsers = {t1}
  PoolUsers = {t1, t2}
  CallocFails = TRUE
  LateCalls = FALSE
SPECIFICATION FairSpec
INVARIANTS TypeOK NoLostFrame
PROPERTIES RefinesFrameSource LockReleased
