CONSTANTS
  s1 = s1
  s2 = s2
  s3 = s3
  b1 = b1
  b2 = b2
  b3 = b3
  b4 = b4
  b5 = b5
  b6 = b6
  x = x
  y = y
  NoSlot = NoSlot
  VarlenSafe = FALSE
  Slots <- MCSlots2
  Blocks <- MCBlocks2
  Tokens <- MCTokens
  Prompts <- MCPromptsTight
  MaxTokens <- MCMaxTokens
  PerRequest = 3
  BlockSize = 2
  MaxPrefixBlocks = 1
  NumRequests = 3
  Embeds = {3}
  MaxLen = 12
  MaxNumSeqs = 2
  MaxBatchTokens = 2
  Eos = y
SPECIFICATION Spec
PROPERTIES
  PreemptionAdmits
  EveryRequestServed
CHECK_DEADLOCK FALSE
