SPECIFICATION Spec
CONSTANTS
  p1 = p1
  p2 = p2
  Components = {"index"}
  Processes <- TwoProcesses
  MaxFaults = 1
  MaxCommands = 2
  Lines <- LineTexts
  Kind <- Kinds
  Wording <- Words
  MaxLines = 3
  Ids <- Numbers
  Resolutions <- Answered
  Suggested <- Suggestions
  RuleGates <- Commands
  Weak <- Placeholders
  Primary <- Repeated
  Learned <- Old
  Unresolved = "none"
  MaxActs = 1
  Texts <- Prints
  Configs <- Projects
  MaxAttempts = 2
  CodeEdits = 3
  Plans <- PlanNames
  Bound <- Bindings
  Outputs <- Answers
  MaxWrites = 5
  MaxReviews = 2
  PlanEdits = 1
  Packages = {1, 2}
  Templates <- TemplateWalk
  Scripts <- ScriptWalk
  UserState <- Kept
  WithTokens <- Rendered
  Config = "config"
  Own = Own
  Folder = Folder
  Tracks <- TwoProcesses
  Pools <- PoolSizes
  MaxBridges = 2
  MaxDispatches = 2
  MaxMoves = 1
  Roots <- StoreRoots
  DefaultRoots = "default"
  MaxCommits = 1
  GitTasks <- TwoProcesses
  MaxObjects = 3
  MaxStaged = 1
INVARIANTS StagingKept IndexFollowsHead
PROPERTIES NothingReverted
\* The commits run out.
CHECK_DEADLOCK FALSE
