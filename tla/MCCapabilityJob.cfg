CONSTANTS
  Jobs = {j1}
  Workers = {w1}
  Count = 2
  MaxRetries = 1
  MaxLen = 3
  MaxJobFaults = 1
SPECIFICATION FairJobSpec
INVARIANTS
  JobNotLost
PROPERTIES
  JobIsReported
