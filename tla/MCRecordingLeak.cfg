\* A call may end without a recording.
CHECK_DEADLOCK FALSE
CONSTANTS
  Faults = {"livekit"}
SPECIFICATION FairSpec
PROPERTIES
  HandoverEndsEgress
