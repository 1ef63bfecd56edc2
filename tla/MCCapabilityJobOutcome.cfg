CONSTANTS
  Jobs = {j1}
  Workers = {w1}
  Count = 1
  MaxRetries = 0
  MaxLen = 3
  MaxJobFaults = 0
SPECIFICATION JobSpec
PROPERTIES
  OutcomeRetained
