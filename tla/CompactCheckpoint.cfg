SPECIFICATION Spec
CONSTANTS
  Proc = {p1, p2}
  MaxTurns = 3
  MaxNotes = 1
  MaxCrashes = 2
  MaxRefusals = 1
  MaxLate = 1
SYMMETRY Symmetry
CHECK_DEADLOCK FALSE
INVARIANTS NothingIsForgotten ThreadCanBeOpened TerminalsAreTrue
PROPERTIES OrphansAreResolved ClosedTransactionsInstallNothing
