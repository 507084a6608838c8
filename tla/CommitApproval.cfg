SPECIFICATION Spec
CONSTANTS
  Sessions = {s1, s2}
  Tasks = {t1, t2}
  Isolated = {t1}
  MaxVersion = 1
  MaxCommits = 2
  MaxStamp = 3
  MaxActs = 1
  None = None
SYMMETRY Symmetry
INVARIANTS CommittedAsApproved HeadBoundUnlessRaced
PROPERTIES HaltStopsTasks CompletedIsCommitted
\* The commits and stamps run out.
CHECK_DEADLOCK FALSE
