------------------------ MODULE MCPagedKVCacheClient ---------------------------
(* Model-checking instance of PagedKVCacheClient: every token run up to MaxLen. *)
EXTENDS PagedKVCacheClient, TLC

CONSTANTS
  s1, s2,              \* slots
  b1, b2, b3, b4,      \* blocks
  x, y,                \* tokens
  MaxLen               \* longest token run

MCSlots == {s1, s2}
MCBlocks4 == {b1, b2, b3, b4}
MCTokens == {x, y}
MCPrompts == UNION {[1..n -> MCTokens] : n \in 1..MaxLen}

MCSymmetry == Permutations(MCSlots) \cup Permutations(MCBlocks4) \cup Permutations(MCTokens)
=============================================================================
