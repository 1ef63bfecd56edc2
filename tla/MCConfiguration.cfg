\* The commands are answered and nothing is left to do.
CHECK_DEADLOCK FALSE
CONSTANTS
  Commands = {c1, c2}
  MaxCopies = 2
  Definitions <- MCDefinitions
  Availabilities <- MCAvailabilities
  NoCommand = none
  MaxFaults = 3
SPECIFICATION Spec
INVARIANTS
  OncePerKey
  ExecutionIsOfOneMoment
PROPERTIES
  LosesNoEdit
  TenantCommandsFit
