SPECIFICATION FairSpec
CONSTANTS
  Encoders = {"native", "portable"}
  Corruptible = {"portable"}
  MaxGen = 2
  Gop = 2
  Sizes = {4}
  IdrSize = 6
  Mtu = 4
  Ticks = {1}
  TsModulus = 2
  SeqModulus = 3
  IdrPause = 2
  ActivityPause = 1
  MaxFailures = 1
PROPERTIES
  EveryPictureDecodes
  UnitsTellApart
  FragmentsRebuild
  Recovers
CHECK_DEADLOCK FALSE
