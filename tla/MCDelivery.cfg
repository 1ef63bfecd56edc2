CONSTANTS
  Messages = {1}
  Dispatchers = {d1, d2}
  Consumers = {c1, c2}
  Limit = 1
  Count = 2
  MaxRetries = 2
  MaxFaults = 1
SPECIFICATION FairSpec
INVARIANTS
  NothingLost
  ParkedAfterRetries
PROPERTIES
  DeliversAtLeastOnce
