\* A finished call whose room is gone has nothing left to do.
CHECK_DEADLOCK FALSE
CONSTANTS
  Requests = {r1, r2}
  Attempts = {a1, a2}
  Messages = {m1, m2}
  Reasons = {"provider_session_error"}
  MaxRelinquished = 2
  None = None
SPECIFICATION FairSpec
INVARIANTS
  EventsAreTrue
  OneHandoffPeer
  ReconcilerMeetsNoConflict
PROPERTIES
  SettledHandoffStays
  KeepsPromise
  LostCallIsFinished
