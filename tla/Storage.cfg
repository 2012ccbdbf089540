SPECIFICATION FairSpec
CONSTANTS
  NHandlers = 2
  NDirs = 3
  Full = 1
  MaxSuffix = 2
  MaxWriters = 3
  MaxTasks = 2
  QueueLimit = 1
  UploadNames = {0}
  MaxEvents = 3
INVARIANTS VisibleIsWhole NoLeftover SleepsWithReason
PROPERTIES EveryDownloadEnds StopEnds
CHECK_DEADLOCK FALSE
