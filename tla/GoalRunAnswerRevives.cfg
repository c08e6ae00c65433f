SPECIFICATION Spec
CONSTANTS
  Nodes = {"a"}
  Plans <- SinglePlans
  Impacts = {"permission"}
  MaxAttempts = 1
  MaxReplans = 1
  MaxCriticRounds = 1
  MaxQueryRounds = 0
  Concurrency = 2
  MaxWindows = 2
  MaxDetached = 0
CHECK_DEADLOCK FALSE
PROPERTIES
  EndedIsFinal
