CONSTANTS
  r1 = r1
  r2 = r2
  TaskIds = {1}
  Runs = {r1}
  NoRun = NoRun
  Sessions = {s1, s2}
  MaxPlans <- Once
  MaxApprovals <- Once
  MaxFaults = 2
  FailLimit = 1
  Surroundings <- Around
SPECIFICATION FairSpec
PROPERTIES TasksComeBack InterruptedRunRecovers
CHECK_DEADLOCK FALSE
