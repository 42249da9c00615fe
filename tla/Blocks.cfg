CONSTANTS
  PageBytes = 4096
  BasePages = {16, 19}
  NumCpus = 2
  CapsPerClass = {4, 256}
  Sizes <- Boundaries
  Aligns <- Powers
  SomeSpans = {0, 3}
  SomeSlots <- EndSlots
SPECIFICATION Spec
INVARIANTS SlabFits HonoursLayout FreeFindsSlot
