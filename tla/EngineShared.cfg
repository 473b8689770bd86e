CONSTANTS
  s1 = s1
  s2 = s2
  s3 = s3
  b1 = b1
  b2 = b2
  b3 = b3
  b4 = b4
  b5 = b5
  b6 = b6
  x = x
  y = y
  NoSlot = NoSlot
  VarlenSafe = TRUE
  Slots <- MCSlots2
  Blocks <- MCBlocks2
  Tokens <- MCTokens
  Prompts <- MCPromptsBlock5
  MaxTokens <- MCMaxTokens
  PerRequest = 5
  BlockSize = 5
  MaxPrefixBlocks = 1
  NumRequests = 3
  Embeds = {}
  MaxLen = 20
  MaxNumSeqs = 2
  MaxBatchTokens = 8
  Eos = y
SYMMETRY MCSymmetry22
SPECIFICATION Spec
INVARIANTS
  EngineInv
  ContextIsOwn
  FirstAdmissionFIFO
PROPERTIES
  ImplementsContract
CHECK_DEADLOCK FALSE
