SPECIFICATION SharingSpec
CONSTANTS
  Processes = {"p", "q"}
  MaxTasks = 3
CHECK_DEADLOCK FALSE
INVARIANT OneRunner
