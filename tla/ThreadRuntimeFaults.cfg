CONSTANTS
  MaxTurns = 3
  MaxQueued = 1
  MaxFaults = 1
SPECIFICATION Spec
CHECK_DEADLOCK FALSE
INVARIANTS AcceptedTurnsAreAdmitted QueueIsDurable CommitDecides EndedTurnsAreClosed OneActiveTurn
 
