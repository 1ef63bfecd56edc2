\* A call may end without a recording.
CHECK_DEADLOCK FALSE
CONSTANTS
  Faults = {"livekit", "database", "crash", "omits"}
SPECIFICATION FairSpec
INVARIANTS
  OutcomeAnnouncedOnce
  ReadyIsComplete
  HandoverStopsRecording
PROPERTIES
  RecordingSettles
