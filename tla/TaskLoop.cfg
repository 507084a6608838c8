SPECIFICATION Spec
CONSTANTS
  f = f
  g = g
  TaskIds = {1, 2, 3}
  Runs <- OneRun
  NoRun = NoRun
  Boards <- SmallBoards
  Files = {f, g}
  Own <- Owner
  Scoped = {2}
  UserStates = {"Backlog", "Testing", "Done"}
  FixPrios = {1}
  MaxParallel = 2
  MaxCycles = 2
  MaxEdits = 3
  MaxFaults = 1
  Nothing = Nothing
INVARIANTS FailuresBounded EditsKept 
 
CHECK_DEADLOCK FALSE
