------------------------------ MODULE Sampling ------------------------------
(***************************************************************************)
(* The sampling of a batch (layers/sampler.py, driven by _sample of          *)
(* engine/model_runner.py and of dist/pipeline.py): every row of the batch    *)
(* has its own parameters, but each filter runs on the whole batch as soon    *)
(* as one row wants it, with one bound for all rows, and which history the    *)
(* repetition penalty reads depends on whether some row has a grammar.  The   *)
(* history itself is kept incrementally on the sequence                       *)
(* (engine/sequence.py) and has to survive preemption.                        *)
(*                                                                           *)
(* A score is a small integer, its probability proportional to a power of     *)
(* two; temperature is 0 or 1, top_p a number of quarters.                    *)
(***************************************************************************)
EXTENDS Integers, Sequences, SequencesExt, FiniteSets, FiniteSetsExt

CONSTANTS
  BatchRows,  \* the sequences
  Vocab,      \* token ids, 1..n
  Logits,     \* the model: its scores after each token
  Params,     \* [temp, topK, topP, penalty, grammar]
  Beginnings, \* prompts
  Grammars,   \* the sets of tokens a grammar may leave legal
  MaxDraws    \* bound on the sampling steps

ASSUME SamplingAssumption ==
  /\ IsFiniteSet(BatchRows) /\ Vocab = 1..Cardinality(Vocab) /\ Vocab # {}
  /\ Logits \in [Vocab -> [Vocab -> Int]] /\ MaxDraws \in Nat
  /\ Params \subseteq [temp : {0, 1}, topK : Nat, topP : 1..4, penalty : {1, 2},
                       grammar : BOOLEAN]
  /\ Beginnings \subseteq Seq(Vocab) \ {<<>>} /\ Grammars \subseteq SUBSET Vocab \ {{}}

VARIABLES
  params,    \* row -> its SamplingParams, Absent before it joins
  promptIds,    \* row -> prompt_ids
  outputIds,    \* row -> output_ids
  seenIds,   \* row -> _repetition_seen
  seenCount, \* row -> _repetition_seen_count
  drawn,     \* row -> what its last draw could give, and what it should
  draws

samplingVars == <<params, promptIds, outputIds, seenIds, seenCount, drawn, draws>>

NoDraw == [could |-> {}, should |-> {}]
Absent == [temp |-> 0, topK |-> 0, topP |-> 4, penalty |-> 1, grammar |-> FALSE]

SamplingInit ==
  /\ params = [r \in BatchRows |-> Absent] /\ promptIds = [r \in BatchRows |-> <<>>]
  /\ outputIds = [r \in BatchRows |-> <<>>]
  /\ seenIds = [r \in BatchRows |-> {}] /\ seenCount = [r \in BatchRows |-> 0]
  /\ drawn = [r \in BatchRows |-> NoDraw] /\ draws = 0

History2(r) == ToSet(promptIds[r] \o outputIds[r])

-----------------------------------------------------------------------------
(* The filters *)

\* A masked score is minus infinity.
Masked == -50
Probability(score) == IF score <= Masked THEN 0 ELSE 2 ^ (score + 6)
Total(row, S) == MapThenSumSet(LAMBDA t : Probability(row[t]), S)

\* Descending; equal scores by their id.
Ranked(row) ==
  SetToSortSeq(Vocab, LAMBDA t, u : row[t] > row[u] \/ (row[t] = row[u] /\ t < u))

Allow(row, legal) == [t \in Vocab |-> IF t \in legal THEN row[t] ELSE Masked]

\* _apply_repetition_penalty
Penalize(row, history, penalty) ==
  [t \in Vocab |-> IF t \notin history THEN row[t]
                   ELSE IF row[t] < 0 THEN row[t] * penalty ELSE row[t] \div penalty]

\* Mutant: every row is cut at the batch's largest top_k.
RankOfBatch(k, most) == most

\* The rank, among the most best, of a row's last kept score.
Rank(k, most) == Min({Max({k, 1}), Cardinality(Vocab)})

\* _apply_top_k: what ties with the last kept score is kept.
TopKept(row, k, most) ==
  LET best == SubSeq(Ranked(row), 1, Min({Max({most, 1}), Cardinality(Vocab)}))
      cutoff == row[best[Rank(k, most)]]
  IN  [t \in Vocab |-> IF k > 0 /\ row[t] < cutoff THEN Masked ELSE row[t]]

\* _apply_top_p: a score goes when those ranked before it have more than top_p.
NucleusKept(row, quarters) ==
  LET order == Ranked(row)
  IN  [t \in Vocab |->
         LET before == {order[i] : i \in 1..SelectInSeq(order, LAMBDA u : u = t) - 1}
         IN  IF 4 * Total(row, before) > quarters * Total(row, Vocab) THEN Masked ELSE row[t]]

Greedy(row) == Head(Ranked(row))

-----------------------------------------------------------------------------
(* A sampling step *)

\* repetition_token_ids: what it returns and leaves in the sequence.
CaughtUp(r) ==
  LET n == Len(promptIds[r])
      all == n + Len(outputIds[r])
      restarted == seenCount[r] > all
      ids0 == IF restarted THEN {} ELSE seenIds[r]
      count0 == IF restarted THEN 0 ELSE seenCount[r]
      ids1 == ids0 \cup ToSet(SubSeq(promptIds[r], count0 + 1, n))
      count1 == Max({count0, n})
  IN  [ids |-> ids1 \cup ToSet(SubSeq(outputIds[r], count1 - n + 1, Len(outputIds[r]))), count |-> all]

\* What the caller derives from the whole batch before it samples.
Controls(batch) ==
  LET Wants(P(_)) == \E q \in batch : P(params[q])
  IN  [procs   |-> Wants(LAMBDA p : p.grammar),
       penalty |-> Wants(LAMBDA p : p.penalty # 1),
       topK    |-> Wants(LAMBDA p : p.topK > 0),
       most    |-> Max({params[q].topK : q \in batch}),
       topP    |-> Wants(LAMBDA p : p.topP < 4)]

\* Sampler.forward: the tokens row r may draw.
Candidates(batch, r, scores, legal) ==
  LET c == Controls(batch)
      history == IF c.procs THEN History2(r) ELSE CaughtUp(r).ids
      masked == IF c.procs THEN Allow(scores[r], legal[r]) ELSE scores[r]
      row == IF c.penalty THEN Penalize(masked, history, params[r].penalty) ELSE masked
      top == IF c.topK THEN TopKept(row, params[r].topK, c.most) ELSE row
      nucleus == IF c.topP THEN NucleusKept(top, params[r].topP) ELSE top
  IN  IF params[r].temp = 0 THEN {Greedy(row)}
      ELSE {t \in Vocab : Probability(nucleus[t]) > 0}

\* What the row's own parameters ask for: of the legal tokens, those fewer than
\* top_k others beat; of these, those the better ones leave room for in top_p.
Asked2(r, scores, legal) ==
  LET p == params[r]
      score(t) == IF t \in History2(r)
                  THEN IF scores[r][t] < 0 THEN scores[r][t] * p.penalty
                                           ELSE scores[r][t] \div p.penalty
                  ELSE scores[r][t]
      Beats(u, t) == score(u) > score(t) \/ (score(u) = score(t) /\ u < t)
      weight(S) == MapThenSumSet(LAMBDA t : Probability(score(t)), S)
      few == {t \in legal[r] : p.topK = 0
                \/ Cardinality({u \in legal[r] : score(u) > score(t)}) < p.topK}
      likely == {t \in few : 4 * weight({u \in few : Beats(u, t)}) <= p.topP * weight(few)}
  IN  IF p.temp = 0 THEN {t \in legal[r] : \A u \in legal[r] \ {t} : Beats(t, u)} ELSE likely

\* A request joins with its prompt.
Join(r) ==
  /\ promptIds[r] = <<>>
  /\ \E p \in Params, begin \in Beginnings :
       /\ params' = [params EXCEPT ![r] = p]
       /\ promptIds' = [promptIds EXCEPT ![r] = begin]
  /\ drawn' = [q \in BatchRows |-> NoDraw]
  /\ UNCHANGED <<outputIds, seenIds, seenCount, draws>>

\* The whole batch draws; what the grammars leave legal is given.
Draw(batch) ==
  /\ batch # {} /\ draws < MaxDraws /\ draws' = draws + 1
  /\ \E legal \in [batch -> Grammars \cup {Vocab}] :
       /\ \A r \in batch : params[r].grammar \/ legal[r] = Vocab
       /\ LET scores == [r \in batch |-> Logits[Last(promptIds[r] \o outputIds[r])]]
          IN  drawn' = [r \in BatchRows |->
                IF r \in batch THEN [could |-> Candidates(batch, r, scores, legal),
                                     should |-> Asked2(r, scores, legal)]
                ELSE NoDraw]
  /\ \E tokens \in [batch -> Vocab] :
       /\ \A r \in batch : tokens[r] \in drawn'[r].could
       /\ outputIds' = [r \in BatchRows |->
                       IF r \in batch THEN Append(outputIds[r], tokens[r]) ELSE outputIds[r]]
  /\ IF Controls(batch).penalty /\ ~Controls(batch).procs
       THEN /\ seenIds' = [r \in BatchRows |->
                             IF r \in batch THEN CaughtUp(r).ids ELSE seenIds[r]]
            /\ seenCount' = [r \in BatchRows |->
                               IF r \in batch THEN CaughtUp(r).count ELSE seenCount[r]]
       ELSE UNCHANGED <<seenIds, seenCount>>
  /\ UNCHANGED <<params, promptIds>>

\* _preempt_one: the outputs become part of the prompt and stay outputs.
PreemptRow(r) ==
  /\ outputIds[r] # <<>> /\ draws < MaxDraws
  /\ promptIds' = [promptIds EXCEPT ![r] = @ \o outputIds[r]]
  /\ drawn' = [q \in BatchRows |-> NoDraw] /\ draws' = draws + 1
  /\ UNCHANGED <<params, outputIds, seenIds, seenCount>>

SamplingNext ==
  \/ \E batch \in SUBSET {r \in BatchRows : promptIds[r] # <<>>} : Draw(batch)
  \/ \E r \in BatchRows : Join(r) \/ PreemptRow(r)

-----------------------------------------------------------------------------
(* Properties *)

\* A row draws from exactly the tokens its own parameters, grammar and history
\* ask for, whatever the other rows of the batch want, whichever steps it sat
\* out and however often it was preempted.
RowsSampleAlone == \A r \in BatchRows : drawn[r].could = drawn[r].should
=============================================================================
