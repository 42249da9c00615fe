CONSTANTS
  t0 = t0
  t1 = t1
  o1 = o1
  o2 = o2
  Threads = {t0, t1}
  Cpus = {0, 1}
  SlabCpus = {0, 1}
  Objs = {o1}
  NoCpu = NoCpu
  NoObj = NoObj
  NoThread = NoThread
  Capacity = 1
  Loops = 3
  Registered = {t0, t1}
  FallbackShard <- ToCpu0
  Storms = TRUE
  Seizing = {0}
  Releasing = TRUE
SYMMETRY AlikeThreads
SPECIFICATION Spec
INVARIANTS SequencesFenced 
