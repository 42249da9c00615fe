CONSTANTS
  t0 = t0
  t1 = t1
  c1 = c1
  c2 = c2
  Threads = {t0, t1}
  Sweeper = Sweeper
  NoThread = NoThread
  ShardId <- TwoShards
  NumShards = 2
  HomeMod = 4
  Classes = {c1}
  Slots <- OneSlot
  WordSlots = 2
  Cpus = {0}
  MagCap = 1
  DropN = 1
  Batch = 2
  L2Cap = 1
  NumSpans = 2
  Producers <- Everyone
  SlabUsers <- Nobody
  Exiting = {}
  Reclaiming = TRUE
  Stopping = FALSE
  ReclaimCap = 1
  Seizing = FALSE
SPECIFICATION Spec
INVARIANTS NoDoubleHandOut
