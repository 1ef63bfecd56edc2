SPECIFICATION FairSpec
CHECK_DEADLOCK FALSE
CONSTANTS
  MaxSpoken = 4
  QueueSize = 2
  MaxTries = 3
  MaxFaults = 4
INVARIANTS
  CompleteIsWhole
PROPERTIES
  ReportIsMade
