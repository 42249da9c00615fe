CONSTANTS
  f1 = f1
  f2 = f2
  h1 = h1
  h2 = h2
  h3 = h3
  Frames = {f1, f2}
  Handles = {h1, h2, h3}
  NoHandle = NoHandle
  FrameCapacity = 4
  U16Max = 3
SPECIFICATION FairSpec
INVARIANTS CountsReferences ValuesAlive WindowsDisjoint
PROPERTIES UsesFrameSource FramesComeBack
