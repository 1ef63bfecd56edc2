CONSTANTS
  Jobs = {j1, j2}
  Workers = {w1}
  Count = 1
  MaxRetries = 0
  MaxLen = 1
  MaxJobFaults = 0
SPECIFICATION JobSpec
INVARIANTS
  PendingNotTrimmed
