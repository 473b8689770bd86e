CONSTANTS
  s1 = s1
  s2 = s2
  b1 = b1
  b2 = b2
  b3 = b3
  b4 = b4
  x = x
  y = y
  Slots <- MCSlots
  Blocks <- MCBlocks
  Tokens <- MCTokens
  Prompts <- MCPrompts
  BlockSize = 2
  MaxPrefixBlocks = 2
  MaxClock = 3
  Policies = {"snapkv", "adakv", "duoattn", "first"}
  KVBudgets = {2, 3}
  LayerBudgets <- MCLayers
  Window = 1
  EvictShared = FALSE
  EvictWithinBlock = FALSE
  MaxKept = 3
  Halves = {}
  Pieces <- MCPieces
  Parsers = {"hermes", "lfm2", "gemma"}
  WindowLen = 8
  PromptLens = {3, 7, 9}
  MaxTokens = 4
  LateThinking = FALSE
  LayerCounts = {1, 2, 3, 4}
  MaxSteps = 3
  NumExperts = 4
  TopK = 2
  NumGroups = 2
  TopGroups = 1
  Bias <- MCBias
  Rows = 2
  Remote <- MCRemote
  Scores <- MCScores
  MaxBatch = 2
  MaxCalls = 2
  Kernel = 3
  CacheSlots = {1, 2}
  Chunks = {1, 2, 3}
  MaxText = 3
  MaxVerify = 2
  AlphabetSize = 3
  ScaleBits = 3
  LowBits = 5
  ByteBits = 2
  StateBytes = 4
  MaxPayload = 3
  Devices2 = {0, 1, 2}
  ValidatedPairs <- MCPairs
  Capable <- MCCapable
  Corrupting <- MCCorrupting
  MaxPP = 4
  LayerNumbers = {1, 2, 3, 4, 5, 8}
  ExpertNumbers = {0, 2, 3, 4, 8}
  FleetSizes = {1, 2, 3, 4, 5, 6, 7, 8, 9, 10, 12, 16}
  PromptSizes = {2}
  OutputSizes = {0, 1, 2, 3, 5, 6}
  StepCounts = {0, 1, 2, 3, 4}
  Rows2 = {1, 2}
  StoreLen = 4
  PromptRange = {1, 2, 3}
  MaxJobs = 4
  UsedBy = {"runner", "engine"}
  Lanes = {1, 2}
  NumPages = 3
  PageSize = 2
  Asked <- MCAsked
  Words <- MCTokens
  Says <- MCSays
  ChunkTokens = 2
  DraftWidths = {2}
  LayerKinds <- MCLayerKinds
  MaxText2 = 6
  MaxAsked = 3
  BatchRows = {1, 2}
  Vocab = {1, 2, 3}
  Logits <- MCLogits
  Params <- MCParams
  Beginnings <- MCBeginnings
  Grammars <- MCGrammars
  MaxDraws = 2
  Clients = {1, 2}
  Lengths2 = {1, 3}
  MaxRunning = 2
  RateWindow = 1
  LatencyWindow = 1
  MaxTime = 2
  Depths = {1, 2, 3, 4, 5}
  RopeKinds = {"one", "two", "hybrid", "own"}
  DeviceCounts = {1, 2, 3}
  NumLocal = 2
  KeyRows = 1
  ValueRows = 2
  ValueHeads = 2
  Widths = {"odd", "four", "group"}
  GGMLTypes = {"Q4_K", "Q6_K", "Q8_0", "F16"}
  NativeSets <- MCNatives
SYMMETRY MCSymmetry
SPECIFICATION UnitsSpec
INVARIANTS
  EvictionIsSafe
  StreamedIsWhole
  LayersInOrder
  EveryExpertOnce
  CutsDoNotShow
  WireLossless
  PlanIsBest
  DenoisedOnce
  RowsSeeHistory
  AttendsOwnPast
  RowsSampleAlone
  ReportIsTrue
  StagesApart
  CheckpointIntact
CHECK_DEADLOCK FALSE
