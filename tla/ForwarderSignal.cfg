SPECIFICATION Spec
CONSTANTS
  Encoders = {"portable"}
  Corruptible = {"portable"}
  MaxGen = 1
  Gop = 2
  Sizes = {4}
  IdrSize = 6
  Mtu = 4
  Ticks = {1}
  TsModulus = 2
  SeqModulus = 2
  IdrPause = 2
  ActivityPause = 1
  MaxFailures = 0
PROPERTY
  SignalsAreTaken
CHECK_DEADLOCK FALSE
