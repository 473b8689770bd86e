---------------------------- MODULE MCLLMEngine ----------------------------
(* Model-checking instances of LLMEngine. *)
EXTENDS LLMEngine, TLC

CONSTANTS
  s1, s2, s3,                  \* slots
  b1, b2, b3, b4, b5, b6,      \* blocks
  x, y,                        \* tokens; y is the end-of-sequence token
  PerRequest                   \* max_tokens of every request

MCSlots2 == {s1, s2}
MCSlots3 == {s1, s2, s3}
MCBlocks2 == {b1, b2}
MCBlocks3 == {b1, b2, b3}
MCBlocks4 == {b1, b2, b3, b4}
MCBlocks6 == {b1, b2, b3, b4, b5, b6}
MCTokens == {x, y}
MCMaxTokens == [r \in Ids |-> PerRequest]

\* Prompts that share a block, extend one another and end inside a block.
MCPromptsShared == {<<x, x>>, <<x, x, y>>, <<x, y>>}
\* A prompt of one block and one of two.
MCPromptsTight == {<<x>>, <<x, x, x>>}

\* With blocks of 5: a prompt that fills one block, one that extends it and one that
\* fills none; long enough to be preempted twice in a pool of two blocks.
MCPromptsBlock5 == {<<x, x>>, <<x, x, x, x, x>>, <<x, x, x, x, x, y>>}

\* With blocks of 3: two prompts that fill one block, one that fills none.
MCPromptsBlock3 == {<<x, x>>, <<x, x, x>>, <<x, y, x>>}

MCSymmetry22 == Permutations(MCSlots2) \cup Permutations(MCBlocks2)
MCSymmetry24 == Permutations(MCSlots2) \cup Permutations(MCBlocks4)
MCSymmetry34 == Permutations(MCSlots3) \cup Permutations(MCBlocks4)
MCSymmetry26 == Permutations(MCSlots2) \cup Permutations(MCBlocks6)
MCSymmetry23 == Permutations(MCSlots2) \cup Permutations(MCBlocks3)
MCSymmetry33 == Permutations(MCSlots3) \cup Permutations(MCBlocks3)
=============================================================================
