SPECIFICATION EventsSpec
CONSTANTS
  Subscribers = {"tui"}
  MaxVolatile = 2
  MaxEvents = 3
  MaxReplays = 1
CHECK_DEADLOCK FALSE
INVARIANTS
  StreamIsComplete
