SPECIFICATION FairSpec
CONSTANTS
  Tasks = {"writer", "reader", "other"}
  Processes = {"p1", "p2"}
  Home <- TheHome
  Session <- TheSession
  Workspace <- TheWorkspace
  ReadOnly = {"reader", "other"}
  MaxLost = 1
CHECK_DEADLOCK FALSE
INVARIANTS
  TurnsAreCompatible
  
 
