\* The call ends and nothing is left to answer.
CHECK_DEADLOCK FALSE
CONSTANTS
  ToolCalls = {t1, t2, t3}
  Inputs = {x, y}
  NoCall = none
  NoInput = nothing
  MaxFaults = 1
SPECIFICATION FairSpec
INVARIANTS
  ExecutedWasHeard
  OnePerPreparation
  AnswerIsTrue
PROPERTIES
  CallIsAnswered
