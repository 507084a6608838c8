CONSTANTS
  a = a
  b = b
  Docs = {a, b}
  Nothing = Nothing
  Handles = {h1, h2}
  RawText = RawText
  Initial <- Stores
  Refs <- FewRefs
  MaxTx = 2
  MaxFaults = 2
SPECIFICATION Spec
INVARIANTS FilesFollowIndex
PROPERTIES CommittedApplied AtomicUnlessSpoilt
CONSTRAINT Interesting
SYMMETRY Symmetry
CHECK_DEADLOCK FALSE
