CONSTANTS
  t0 = t0
  t1 = t1
  c1 = c1
  c2 = c2
  Threads = {t0, t1}
  Sweeper = Sweeper
  NoThread = NoThread
  ShardId <- TwoShards
  NumShards = 2
  HomeMod = 4
  Classes = {c1, c2}
  Slots <- OneEach
  WordSlots = 2
  Cpus = {0}
  MagCap = 1
  DropN = 1
  Batch = 2
  L2Cap = 1
  NumSpans = 2
  Producers <- Split
  SlabUsers <- Nobody
  Exiting = {}
  Reclaiming = TRUE
  Stopping = TRUE
  ReclaimCap = 1
  Seizing = FALSE
SPECIFICATION FairSpec
INVARIANTS ListsAgree OwnerScans NothingStranded
PROPERTIES CallsReturn SupervisorJoins
