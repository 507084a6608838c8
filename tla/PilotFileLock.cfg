SPECIFICATION FairSpec
CONSTANTS
  a1 = a1
  a2 = a2
  p1 = p1
  p2 = p2
  Actors = {a1, a2}
  Pids = {p1, p2}
  PidOf <- Pair
  NoFile = NoFile
  Orphan = Orphan
INVARIANTS ExclusionUntilOverlap
PROPERTIES StaleLockReaped
CHECK_DEADLOCK FALSE
