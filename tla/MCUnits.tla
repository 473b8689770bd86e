------------------------------ MODULE MCUnits ------------------------------
(***************************************************************************)
(* The parts of the system that keep their state to themselves, in one      *)
(* instance: a behaviour is a behaviour of one of them, the others stay in   *)
(* their initial states.  KV eviction, the chat stream, the layer streams,   *)
(* the experts, the recurrent layers, the boundary codec, the planner, the   *)
(* denoiser, the contiguous caches, attention, sampling, telemetry, the cut  *)
(* of a model into pipeline stages and the way of its weights.              *)
(***************************************************************************)
EXTENDS KVEviction, ChatStream, LayerStreams, Experts, RecurrentLayers, WireCodec,
        Parallelism, Denoiser, RunnerCaches, Attention, Sampling, Telemetry,
        StageSplit, Checkpoints, TLC

CONSTANTS
  s1, s2,         \* slots of the paged cache
  b1, b2, b3, b4, \* its blocks
  x, y,           \* tokens
  Halves           \* pieces that are the halves of a character

VARIABLE unit     \* the part that runs, "none" before its first step

unitsVars == <<unit, evictVars, chatVars, streamVars, expertVars, recurrentVars, wireVars,
               plannerVars, denoiseVars, cacheVars, attnVars, samplingVars, telemetryVars, splitVars,
               ckptVars>>

UnitsInit ==
  /\ unit = "none"
  /\ EvictInit
  /\ ChatInit
  /\ StreamsInit
  /\ ExpertsInit
  /\ RecurrentInit
  /\ WireInit
  /\ PlannerInit
  /\ DenoiseInit
  /\ CachesInit
  /\ AttnInit
  /\ SamplingInit
  /\ TelemetryInit
  /\ SplitInit
  /\ CkptInit

\* Part u takes a step; what the other parts hold stays.
Runs(u) ==
  /\ unit \in {"none", u} /\ unit' = u
  /\ IF u = "eviction" THEN TRUE ELSE UNCHANGED evictVars
  /\ IF u = "chat" THEN TRUE ELSE UNCHANGED chatVars
  /\ IF u = "streams" THEN TRUE ELSE UNCHANGED streamVars
  /\ IF u = "experts" THEN TRUE ELSE UNCHANGED expertVars
  /\ IF u = "recurrent" THEN TRUE ELSE UNCHANGED recurrentVars
  /\ IF u = "wire" THEN TRUE ELSE UNCHANGED wireVars
  /\ IF u = "planner" THEN TRUE ELSE UNCHANGED plannerVars
  /\ IF u = "denoiser" THEN TRUE ELSE UNCHANGED denoiseVars
  /\ IF u = "caches" THEN TRUE ELSE UNCHANGED cacheVars
  /\ IF u = "attention" THEN TRUE ELSE UNCHANGED attnVars
  /\ IF u = "sampling" THEN TRUE ELSE UNCHANGED samplingVars
  /\ IF u = "telemetry" THEN TRUE ELSE UNCHANGED telemetryVars
  /\ IF u = "split" THEN TRUE ELSE UNCHANGED splitVars
  /\ IF u = "checkpoint" THEN TRUE ELSE UNCHANGED ckptVars

UnitsNext ==
  \/ Runs("eviction") /\ EvictNext
  \/ Runs("chat") /\ ChatNext
  \/ Runs("streams") /\ StreamsNext
  \/ Runs("experts") /\ ExpertsNext
  \/ Runs("recurrent") /\ RecurrentNext
  \/ Runs("wire") /\ WireNext
  \/ Runs("planner") /\ PlannerNext
  \/ Runs("denoiser") /\ DenoiseNext
  \/ Runs("caches") /\ CachesNext
  \/ Runs("attention") /\ AttnNext
  \/ Runs("sampling") /\ SamplingNext
  \/ Runs("telemetry") /\ TelemetryNext
  \/ Runs("split") /\ SplitNext
  \/ Runs("checkpoint") /\ CkptNext

UnitsSpec == UnitsInit /\ [][UnitsNext]_unitsVars

-----------------------------------------------------------------------------
(* The instance *)

MCSlots == {s1, s2}
MCBlocks == {b1, b2, b3, b4}
MCTokens == {x, y}
\* Two texts that share their first block and one that does not, and what they
\* grow from.
MCPrompts ==
  UNION {{SubSeq(t, 1, n) : n \in 1..4} : t \in {<<x, y, x, y>>, <<x, y, y, x>>, <<y, x, x, y>>}}
MCLayers == [layers |-> 3, least |-> 1, most |-> 4]
MCSymmetry == Permutations(MCSlots) \cup Permutations(MCBlocks)

MCPieces ==
  [text   |-> {"a", "lt"} \cup Halves,
   chat   |-> {"lt", "t", "sl", "a"} \cup Halves,
   tools  |-> {"lt", "t", "sl", "call", "bad"},
   forced |-> {"json", "end"}]

MCBias == <<0, 3, 0, 1>>
MCRemote == <<0, 0, 1, 1>>
MCScores == {<<1, 2, 3, 4>>, <<4, 1, 2, 3>>, <<2, 2, 1, 1>>}

MCPairs == {{0, 1}}
MCCapable == {<<0, 1>>, <<1, 0>>, <<1, 2>>, <<2, 1>>}
MCCorrupting == {{1, 2}}

MCAsked == {<<x, y, x>>, <<y>>}
MCSays == <<x, y, x, x, y, y>>
MCLayerKinds ==
  {[window |-> 0, bf16 |-> FALSE, packs |-> TRUE], [window |-> 0, bf16 |-> TRUE, packs |-> FALSE],
   [window |-> 1, bf16 |-> FALSE, packs |-> TRUE], [window |-> 1, bf16 |-> TRUE, packs |-> TRUE]}

MCLogits == <<<<4, 2, 0>>, <<-2, 0, 2>>, <<2, 2, -2>>>>
MCGrammars == {{2, 3}, {3}}
MCBeginnings == {<<1>>}
MCParams ==
  {[temp |-> 0, topK |-> 0, topP |-> 4, penalty |-> 2, grammar |-> FALSE],
   [temp |-> 1, topK |-> 0, topP |-> 4, penalty |-> 1, grammar |-> TRUE],
   [temp |-> 1, topK |-> 1, topP |-> 4, penalty |-> 2, grammar |-> FALSE],
   [temp |-> 1, topK |-> 2, topP |-> 2, penalty |-> 1, grammar |-> FALSE]}

MCNatives == {{}, {"Q4_K"}, {"Q4_K", "Q6_K"}}
=============================================================================
