SPECIFICATION FairSpec
CHECK_DEADLOCK FALSE
CONSTANTS
  MaxAttempts = 2
  MaxFaults = 1
INVARIANTS
  RelinquishOnBackend
  NotLeftAlone
PROPERTIES
  DestinationLeaves
  BridgeEnds
