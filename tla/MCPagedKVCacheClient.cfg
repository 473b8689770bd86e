CONSTANTS
  s1 = s1
  s2 = s2
  b1 = b1
  b2 = b2
  b3 = b3
  b4 = b4
  x = x
  y = y
  MaxLen = 4
  Slots <- MCSlots
  Blocks <- MCBlocks4
  Tokens <- MCTokens
  Prompts <- MCPrompts
  BlockSize = 2
  MaxPrefixBlocks = 2
  MaxClock = 5
SYMMETRY MCSymmetry
SPECIFICATION KVSpec
INVARIANTS
  KVInv
  BudgetHolds
  CacheIntact
PROPERTIES
  SharedKeepContents
  EvictionIsLRU
CHECK_DEADLOCK FALSE
