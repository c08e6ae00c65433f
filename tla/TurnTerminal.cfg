SPECIFICATION TurnSpec
CHECK_DEADLOCK FALSE
CONSTANTS
  MaxSteps = 2
  MaxCalls = 2
  MaxInputs = 1
INVARIANT TerminalIsPublished
