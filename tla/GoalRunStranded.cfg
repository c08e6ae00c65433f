SPECIFICATION Spec
CONSTANTS
  Nodes = {"a", "b"}
  Plans <- ParallelPlans
  Impacts = {}
  MaxAttempts = 1
  MaxReplans = 1
  MaxCriticRounds = 1
  MaxQueryRounds = 0
  Concurrency = 2
  MaxWindows = 2
  MaxDetached = 0
CHECK_DEADLOCK FALSE
PROPERTIES
  ResumeLeavesNoOrphan
