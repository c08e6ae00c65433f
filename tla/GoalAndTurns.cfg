SPECIFICATION FairSpec
CONSTANTS
  Ids = {"a", "b", "c"}
  Names = {"a", "b", "c", "x"}
  NumCalls = 2
  Roles = {"worker", "critic"}
  SharePct <- Shares
  Budgets = {20}
  Amounts = {3, 7}
  Bills = {0, 3, 8}
  MaxSpent = 20
  Subscribers = {"tui"}
  MaxVolatile = 2
  MaxEvents = 4
  MaxReplays = 2
  MaxSteps = 2
  MaxCalls = 3
  MaxInputs = 3
CHECK_DEADLOCK FALSE
INVARIANTS
  TypesOK
  OrderIsSound
  BudgetsHold
  
  DeliveryIsSound
  NothingSkipped
  RunIsSound
  HeardOnce
PROPERTIES
  ExhaustedIsSticky
  SuccessIsUpToDate
  RunsAndStreamsEnd
