SPECIFICATION CodeIndexSpec
CONSTANTS
  Indexers = {"p"}
  CodeFiles = {"f", "g"}
  MaxEdits = 2
  MaxSyncs = 4
  MaxExits = 0
CHECK_DEADLOCK FALSE
INVARIANT ReusedIsCurrent
