\* The commands are answered and nothing is left to do.
CHECK_DEADLOCK FALSE
CONSTANTS
  c1 = c1
  c2 = c2
  p1 = p1
  p2 = p2
  i1 = i1
  stt1 = stt1
  stt2 = stt2
  llm = llm
  tts = tts
  realtime = realtime
  Credentials = {c1, c2}
  Connections = {p1, p2}
  Integrations = {i1}
  Deployments = {stt1, stt2, llm, tts, realtime}
  Azure = {p1}
  ElevenLabs = {p2}
  Features = {"cascade", "transcription", "endpointing", "temperature", "server_vad"}
  Requests = {q1, q2}
  GraphCommands <- MCCommands
  Starts <- MCStarts
  System = system
  None = none
  MaxGraphFaults = 1
SPECIFICATION GraphSpec
INVARIANTS
  EnabledIsUsable
  ReferencesResolve
  OnlyValidationDeadlocks
PROPERTIES
  AppliedResolves
