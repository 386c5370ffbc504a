CONSTANTS
  Session = {s1, s2, s3, s4}
  MaxRunning = 1
  MaxResident = 3
  MaxCalls = 2
SPECIFICATION Spec
SYMMETRY Symmetry
CHECK_DEADLOCK FALSE
INVARIANTS CountsAreTrue ActorsAreOwned TurnsKeepTheirActor SlotsAreUsed
PROPERTIES ImplementsSlotPool
