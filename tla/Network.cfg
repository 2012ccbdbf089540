SPECIFICATION FairSpec
CONSTANTS
  Ssids = {"home", "work"}
  NHandlers = 2
  Default = "yes"
  MaxRequests = 2
  MaxChanges = 1
INVARIANTS NoStranding BootModeAgrees OneAttempt
PROPERTIES AttemptEnds
CHECK_DEADLOCK FALSE
