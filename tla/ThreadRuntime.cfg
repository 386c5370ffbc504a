CONSTANTS
  MaxTurns = 3
  MaxQueued = 2
  MaxFaults = 0
SPECIFICATION FairSpec
CHECK_DEADLOCK FALSE
PROPERTIES ServedInOrder TurnsAreServed
