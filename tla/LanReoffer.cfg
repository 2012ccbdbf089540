SPECIFICATION Spec
CONSTANTS
  SocketViewers = {tab}
  OfferViewers = {post}
  NoViewer = none
  MaxSessions = 3
  MaxOffers = 2
INVARIANT
  OneViewerAtATime
CHECK_DEADLOCK FALSE
