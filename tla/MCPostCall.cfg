\* A call may end without anything left to do.
CHECK_DEADLOCK FALSE
CONSTANTS
  Order <- OneOrder
  Inputs <- OneAction
  StartEvents = {"ended", "relinquished"}
  Recorded = TRUE
  Handlers = {h1}
  Workers = {p1}
  MaxRetries = 1
  MaxFaults = 1
SPECIFICATION FairSpec
INVARIANTS
  CompletedMeansDone
  ActionHasItsInputs
PROPERTIES
  FinishedStays
  FinalizationEnds
