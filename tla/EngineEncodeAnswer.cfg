CONSTANTS
  s1 = s1
  s2 = s2
  s3 = s3
  b1 = b1
  b2 = b2
  b3 = b3
  b4 = b4
  b5 = b5
  b6 = b6
  x = x
  y = y
  NoSlot = NoSlot
  VarlenSafe = FALSE
  Slots <- MCSlots2
  Blocks <- MCBlocks4
  Tokens <- MCTokens
  Prompts <- MCPromptsShared
  MaxTokens <- MCMaxTokens
  PerRequest = 2
  BlockSize = 2
  MaxPrefixBlocks = 2
  NumRequests = 3
  Embeds = {2}
  MaxLen = 4
  MaxNumSeqs = 2
  MaxBatchTokens = 5
  Eos = y
SYMMETRY MCSymmetry24
SPECIFICATION Spec
INVARIANTS
  EncodeAnswersOwn
CHECK_DEADLOCK FALSE
