SPECIFICATION Spec
CONSTANTS
  NIds = 2
  NHandles = 2
  NObjects = 3
  Modes = {m1, m2}
  HasFb2 = 1
  BufferCount = 2
  Screen = 4
  Images = {2, 3}
SYMMETRY Symmetry
INVARIANTS
  NoStaleImport
  FrameFits
  BlendFits
  BuffersAreKept
CHECK_DEADLOCK FALSE
