----------------------------- MODULE MCPipeline -----------------------------
(* Model-checking instances of Pipeline. *)
EXTENDS Pipeline, TLC

CONSTANTS q1, q2, q3

MCSeqs == {q1, q2, q3}

Asked(length, common) == [length |-> length, common |-> common]

\* Prompts with a common start of one block, and others.
MCPrompts == {Asked(2, 2), Asked(2, 0)}
MCShort == {Asked(1, 0), Asked(2, 0)}

Deploy(graphed, recurrent, codec, callers, slots, blocks, prompts, maxTokens) ==
  [graphed |-> graphed, recurrent |-> recurrent, codec |-> codec, callers |-> callers,
   slots |-> slots, blocks |-> blocks, prompts |-> prompts, maxTokens |-> maxTokens]

\* Eager stages under three requests at once: with room for all of them, with a
\* first stage whose pool is too small for its slots, and with a full pool that
\* prefix entries keep a part of; graphed stages with a spare slot; a recurrent
\* model whose caller sends one prompt at a time; and the stages as they are
\* without the codec's name.
MCDeployments == {
  Deploy(FALSE, FALSE, TRUE, 3, 3, <<6, 6>>, MCPrompts, 3),
  Deploy(FALSE, FALSE, TRUE, 3, 3, <<3, 6>>, MCPrompts, 3),
  Deploy(FALSE, FALSE, TRUE, 3, 2, <<4, 4>>, {Asked(3, 0)}, 2),
  Deploy(TRUE, FALSE, TRUE, 2, 3, <<6, 6>>, {Asked(2, 2)}, 3),
  Deploy(FALSE, TRUE, TRUE, 1, 3, <<6, 6>>, MCShort, 3),
  Deploy(FALSE, FALSE, FALSE, 3, 3, <<6, 6>>, MCShort, 3)}

MCGraphed == {Deploy(TRUE, FALSE, TRUE, 3, 3, <<6, 6>>, MCShort, 3)}
MCGraphed2 == {Deploy(TRUE, FALSE, TRUE, 2, 3, <<6, 6>>, MCShort, 3)}
MCRecurrent == {Deploy(FALSE, TRUE, TRUE, 3, 3, <<6, 6>>, MCShort, 3)}
MCSmallPools == {Deploy(FALSE, FALSE, TRUE, 3, 3, <<3, 3>>, MCShort, 3)}
MCFullPools == {Deploy(FALSE, FALSE, TRUE, 3, 2, <<4, 4>>, {Asked(3, 0)}, 2)}
MCNoCodec == {Deploy(FALSE, FALSE, FALSE, 3, 3, <<6, 6>>, MCShort, 3)}
MCNoWindow == {Deploy(FALSE, FALSE, TRUE, 3, 3, <<6, 6>>, {Asked(3, 0)}, 3)}
=============================================================================
