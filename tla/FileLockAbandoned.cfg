CONSTANTS
  Proc = {p1, p2, p3, p4}
  Main = Main
  Sentinel = Sentinel
  NoFile = NoFile
  Unreadable = Unreadable
  MaxDeaths = 2
  Legacy = {}
SPECIFICATION MCSpec
SYMMETRY Symmetry
INVARIANTS MutualExclusion
CHECK_DEADLOCK FALSE
