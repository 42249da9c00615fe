CONSTANTS
  Callers = {c1, c2}
  Bases = {b1, b2, b3, b4}
  NoBase = NoBase
  NoCaller = NoCaller
  DefaultHuge = 4
  Unlimited = 99
  Limits = {12}
  Registrations <- TwoNames
  BudgetMaps <- Budgets
  SlabLen = 1
  PoolOpts <- FrameOpts
  AppOpts <- HugeOpts
  KeepAtMost = 1
SPECIFICATION Spec
CHECK_DEADLOCK FALSE
INVARIANTS OneOwner EffectiveState PublishedComplete
PROPERTIES PublishedStays
