--------------------------- MODULE MCGraphedRunner ---------------------------
(* Model-checking instances of GraphedRunner. *)
EXTENDS GraphedRunner, TLC

CONSTANTS q1, q2, q3

MCSeqs3 == {q1, q2, q3}
MCSeqs2 == {q1, q2}

Deploy(layers, varlen, spec, encode, chunk, prompts) ==
  [layers |-> layers, varlen |-> varlen, spec |-> spec, encode |-> encode,
   chunk |-> chunk, prompts |-> prompts]

\* Deployments whose prefills keep clear of the prefill graphs' pads: every
\* prompt fills its bucket, or every prompt is chunked.
MCDeployments == {
  Deploy(TRUE, TRUE, FALSE, FALSE, 0, {2}),
  Deploy(TRUE, TRUE, FALSE, TRUE, 1, {2, 3}),
  Deploy(TRUE, FALSE, TRUE, FALSE, 0, {2}),
  Deploy(FALSE, TRUE, FALSE, FALSE, 1, {2})}

\* Prompts that do not fill their bucket.
MCPadded == {Deploy(TRUE, TRUE, FALSE, FALSE, 0, {1, 2})}
\* Graphed prefills, then one that is longer than the chunk size.
MCStalePage == {Deploy(TRUE, TRUE, FALSE, FALSE, 2, {2, 3})}
\* Graphed prefills and calls of encode.
MCEncodePage == {Deploy(TRUE, TRUE, FALSE, TRUE, 0, {2})}
\* Prompts of two lengths, each of them a bucket.
MCTwoBuckets == {Deploy(TRUE, TRUE, FALSE, FALSE, 0, {2, 4})}
\* Per-layer graphs disabled.
MCStepGraph == {Deploy(FALSE, TRUE, FALSE, FALSE, 0, {2})}

MCSymmetry == Permutations(MCSeqs3)
=============================================================================
