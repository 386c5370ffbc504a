CONSTANTS
  Proc = {p1, p2, p3}
  Main = Main
  Sentinel = Sentinel
  NoFile = NoFile
  Unreadable = Unreadable
  MaxDeaths = 2
  Legacy = {Main, Sentinel}
SPECIFICATION MCFairSpec
CHECK_DEADLOCK FALSE
INVARIANTS GuardedExclusion
PROPERTIES OnlyDeadOwnersAreEvicted AbandonedLockIsRecovered
