SPECIFICATION FairSpec
CONSTANTS
  Slots = 1
  MaxParts = 2
  IdleAfter = 2
  Bitrates = {1, 2}
INVARIANTS
  NoStaleFrame
PROPERTIES
  IdrIsServed
  IdleIsEarned
  ActivityResumes
  BitrateFollows
CHECK_DEADLOCK FALSE
