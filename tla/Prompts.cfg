SPECIFICATION Spec
CONSTANTS
  Window = 3
  Keep = 2
  TooShort = 4
  NamesCalls = TRUE
  MaxCalls = 2
  MaxEvents = 8
  MaxCompacts = 2
  ContextWindow = 36
  Reserve = 6
  MinChars = 60
  MaxChars = 400
  Ratio <- MCRatio
  MinBudget <- MCMin
  Separator = 1
  Header = 2
  LeastNotes = 4
  LeastLine = 4
  FullLine = 18
  LineLimits <- MCLimits
  Stub = 5
  SummaryLength = 10
  Inputs <- MCInputs
  Turns <- MCTurns
  MaxItems = 3
  MaxHistory = 7
  MaxPrompts = 2
  Chars = {"<", "f", "t", ">", "/", " "}
  Open = "<"
  FinalTag <- MCFinal
  ClosingTag <- MCClosing
  OtherTags <- MCOther
  ToolWord <- MCWord
  Blanks = {" "}
  MaxText = 6
  MaxDelta = 2
  Clients = {"openai", "anthropic"}
  MaxAttempts = 3
  MaxPieces = 3
  MaxParts = 2
  MaxControls = 2
  MaxRequests = 2
  Versions <- MCVersions
  ChunkOf <- MCChunkOf
  SparseTop = 2
  DenseTop = 2
  CoarseTop = 2
  FinalTop = 2
  PerParent = 1
  Threshold = 1
  SectionMax = 6
  Budget = 7
  LeastEntry = 1
  Semantic = TRUE
  CacheSize = 1
  MaxWrites = 2
  MaxSections = 3
  MaxSyncs = 2
  Weight <- MCWeight
  Space = {"/", "_"}
  Separators <- MCSeparators
  ChunkTokens = 2
  Share = 1
  MaxLevel = 2
  MaxName = 2
  MaxSymbols = 7
  MaxLines = 5
  MaxDefinitions = 2
  NoteFiles = {"f", "Makefile"}
  Plain = {"Makefile"}
  Readings = {"x", "y"}
  NoteWords = {"f", "Makefile", "process"}
  NoteLimit = 2
  Relevant = 1
  MaxNotes = 3
  MaxSeconds = 1
  Modes = {"off", "warn", "soft", "strict"}
  Hooks = {"h", "k"}
  Todos = {"t"}
  Prompts <- MCBudgets
  MaxModelCalls = 3
  MaxChanges = 2
  Worlds <- MCWorlds
  World <- MCWorld
  Names <- MCNames
  Fields = {"model", "api_key"}
  WithDefault = {"model"}
  Builtin = {"openai", "deepseek"}
  FirstProvider = "openai"
  Canonical <- MCCanonical
  Seeing = {"openai"}
  VisionBy <- MCVisionBy
  General <- MCGeneral
  Own <- MCOwn
  Older <- MCOlder
  ForVision <- MCForVision
CHECK_DEADLOCK FALSE
INVARIANTS
  TypesOK
  HistoryIsSound
  ShownIsVisible
  
  
  ChunksAreSound
  NotesAreSound
  AnswersAreBacked
  
 
