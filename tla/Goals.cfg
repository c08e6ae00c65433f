SPECIFICATION AllSpec
CONSTANTS
  Nodes = {"a", "b", "c"}
  Plans <- DiamondPlans
  Impacts = {}
  MaxAttempts = 1
  MaxReplans = 1
  MaxCriticRounds = 2
  MaxQueryRounds = 0
  Concurrency = 2
  MaxWindows = 2
  MaxDetached = 0
  Processes = {"p", "q"}
  MaxTasks = 3
CHECK_DEADLOCK FALSE
CONSTRAINT FewMergesHere
INVARIANTS
  WorkIsSound
  LeaseKeepsApart
PROPERTIES
  GoalsDeliverReviewed
