SPECIFICATION Spec
CONSTANTS
  Paths = {"f", "g"}
  AsksFirst = TRUE
  MaxTools = 2
  MaxTurns = 2
  MaxUser = 1
  Targets = {"p", "s"}
  Artifacts = {"p"}
  Scope = {}
  SkillTools = {"read_file", "write_file", "run_shell"}
  IsReadOnly = FALSE
  MaxReads = 1
  MaxSearches = 2
  MaxBatch = 2
  MaxHistory = 3
  KnownFiles = {"f", "g"}
  Sessions = {"a", "b"}
  Home = "a"
  RecentLimit = 1
  MaxContents = 2
  MaxRuns = 3
  MaxLoads = 1
  Names = {"n"}
  Bodies = {"a", "b", "bad"}
  Poisoned = {"bad"}
  Stores = {"p"}
  MaxOps = 6
  MaxCrashes = 1
  Dreamers = {"p", "q"}
  Talks = {"s", "t"}
  MinTalks = 2
  MaxHours = 1
  MaxTalks = 3
  MaxDeaths = 1
  Indexers = {"p", "q"}
  CodeFiles = {"f"}
  MaxEdits = 2
  MaxSyncs = 4
  MaxExits = 1
  MapFiles = {1, 2}
  Code <- TwoTexts
  Queries = {{"s"}}
  MaxDefiners = 1
  MaxSymbols = 1
  MaxTermFiles = 1
  MaxSeeds = 1
  MapRoom = 3
  MaxWrites = 2
  MaxMapLoads = 3
CHECK_DEADLOCK FALSE
INVARIANTS
  TypesOK
  TurnKeepsToItsOwn
  CallsAreGated
  
  DreamsAreSound
  IndexIsSound
  TagsAreSound
PROPERTIES
  
  PlanModeHolds
  ReadingsAreHonest
  
