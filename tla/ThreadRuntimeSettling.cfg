CONSTANTS
  MaxTurns = 3
  MaxQueued = 2
  MaxFaults = 0
SPECIFICATION Spec
INVARIANTS StartedIsAdmitted
CHECK_DEADLOCK FALSE
