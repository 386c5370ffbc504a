CONSTANTS
  RequestId = {q1, q2, q3, q4}
  Workspace = {wa, wb, wc}
  First = wa
  MaxResults = 3
  MaxFaults = 2
SPECIFICATION FairSpec
INVARIANTS MutationsRunOnce ContextHoldsStill ContextIsWhole
PROPERTIES ReservationsEnd
CHECK_DEADLOCK FALSE
