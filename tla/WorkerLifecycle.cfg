SPECIFICATION FairSpec
CONSTANTS
  MaxLaunches = 2
  MaxDispatches = 2
INVARIANTS LiveTargetTracked
PROPERTIES StopHonoured
\* The launches run out.
CHECK_DEADLOCK FALSE
