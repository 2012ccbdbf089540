SPECIFICATION FairSpec
CONSTANTS
  Slots = 2
  NotifyModulus = 5
  NalsPerPacket = 2
  MaxPackets = 6
INVARIANTS
  UnreadIntact
  NoTornRead
  NoLostWakeup
PROPERTIES
  InStreamOrder
  ImplementsChannel
  PublishedIsConsumed
  StopIsHonoured
  CloseIsSeen
CHECK_DEADLOCK FALSE
