SPECIFICATION Spec
CONSTANTS
  Commands = {c1, c2}
  Tasks = {t1, t2}
  MaxClock = 6
  Patient = TRUE
  NoCommand = NoCommand
  NoIntent = NoIntent
SYMMETRY Symmetry
PROPERTY ImplementsStore
\* The clock runs out.
CHECK_DEADLOCK FALSE
