SPECIFICATION Spec
CONSTANTS
  Commands = {c1, c2}
  Tasks = {t1, t2}
  MaxClock = 7
  Patient = FALSE
  NoCommand = NoCommand
  NoIntent = NoIntent
SYMMETRY Symmetry
INVARIANTS RecoverableUntilOverwritten
PROPERTIES HaltedRunStays
\* The clock runs out.
CHECK_DEADLOCK FALSE
