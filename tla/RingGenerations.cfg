SPECIFICATION RGFairSpec
CONSTANTS
  MaxGen = 3
  Inodes = {101, 102, 103}
  Recycled = FALSE
PROPERTIES
  NoReplay
  NewGenerationIsNoticed
  SessionEnds
CHECK_DEADLOCK FALSE
