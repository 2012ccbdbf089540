SPECIFICATION FairSpec
CONSTANTS
  SocketViewers = {tab}
  OfferViewers = {post}
  NoViewer = none
  MaxSessions = 2
  MaxOffers = 2
INVARIANTS
  NoLeakedSession
  OneOfferKeepsSlot
PROPERTIES
  LeaverIsCleaned
  LostPeerIsClosed
CHECK_DEADLOCK FALSE
