CONSTANTS
  Proc = {p1, p2}
  NoProc = NoProc
  MaxEvents = 3
  MaxBatch = 2
  MaxFaults = 2
  MaxLosses = 1
  MaxRecords = 3
SPECIFICATION Spec
SYMMETRY Symmetry
CHECK_DEADLOCK FALSE
INVARIANTS HeadsAreCurrent
PROPERTIES ImplementsDurableLog
