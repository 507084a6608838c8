CONSTANTS
  r1 = r1
  r2 = r2
  TaskIds = {1}
  Runs = {r1, r2}
  NoRun = NoRun
  Sessions = {s1, s2}
  MaxPlans <- Once
  MaxApprovals <- FirstDispatches
  MaxFaults = 1
  FailLimit = 1
  Surroundings <- Around
SPECIFICATION Spec
INVARIANTS LiveWorkerClaimed DispatchedAsApproved  AdviceSuffices
SYMMETRY Symmetry
CHECK_DEADLOCK FALSE
