CHECK_DEADLOCK FALSE
CONSTANTS
  Commands = {c1, c2}
  MaxCopies = 1
  Definitions <- MCDefinitions
  Availabilities <- MCAvailabilities
  NoCommand = none
  MaxFaults = 0
SPECIFICATION Spec
INVARIANTS
  AvailabilityFits
