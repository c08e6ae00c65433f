SPECIFICATION FairSpec
CONSTANTS
  Nodes = {"a", "b"}
  Plans <- ParallelPlans
  Impacts = {"info", "dependency", "permission"}
  MaxAttempts = 1
  MaxReplans = 1
  MaxCriticRounds = 1
  MaxQueryRounds = 1
  Concurrency = 2
  MaxWindows = 2
  MaxDetached = 1
CHECK_DEADLOCK FALSE
CONSTRAINT FewDetached
INVARIANTS
  WaitingHasQuestion
PROPERTIES
  RunEnds
