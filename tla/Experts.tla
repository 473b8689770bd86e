------------------------------ MODULE Experts ------------------------------
(***************************************************************************)
(* Routing of tokens to experts and the three ways their outputs are put   *)
(* together: SparseMoE and WeightStationaryMoE of models/moe.py, and       *)
(* TransportMoELayer of models/moe_transport.py, which runs the experts of *)
(* every other device in one batch.  Scores stand for the router's.  An    *)
(* output is the sequence of contributions that were added up: the token   *)
(* added to, the expert, the row it answered and the weight; normalising   *)
(* and scaling the weights is left out.                                    *)
(***************************************************************************)
EXTENDS Integers, Sequences, SequencesExt, FiniteSets

CONSTANTS
  NumExperts,    \* number of experts
  TopK,          \* experts per token
  NumGroups,     \* num_expert_groups; 1 stands for no groups
  TopGroups,     \* topk_group
  Bias,          \* e_score_correction_bias, for the sigmoid router
  Rows,          \* max_tokens_per_expert
  Remote,        \* device of each expert; 0 is the primary one
  Scores,        \* the router's scores a token may have
  MaxBatch,      \* bound on the tokens of a call
  MaxCalls       \* bound on the calls

Experts == 1..NumExperts

ASSUME ExpertsAssumption ==
  /\ {NumExperts, TopK, NumGroups, TopGroups, Rows} \subseteq Nat \ {0}
  /\ NumExperts % NumGroups = 0 /\ TopGroups <= NumGroups
  /\ TopK <= TopGroups * (NumExperts \div NumGroups)
  /\ Bias \in [Experts -> Nat] /\ Remote \in [Experts -> Nat]
  /\ Scores \subseteq [Experts -> Nat]

VARIABLES
  calls,      \* forwards begun
  batch,      \* the last call: its layer, router and scores, and the
              \* (token, slot) pairs it routed
  staged,     \* expert_buffers: the rows of each expert, <<call, token>>
  usage,      \* expert_usage_counts
  output      \* what the last call returned, or that it raised

expertVars == <<calls, batch, staged, usage, output>>

-----------------------------------------------------------------------------
(* The router *)

Sel(b, t, e) == b.scores[t][e] + (IF b.scoring = "sigmoid" THEN Bias[e] ELSE 0)

\* The n best of S; of two equals the smaller.
BestOf(S, n, score) ==
  {e \in S : Cardinality({f \in S : score[f] > score[e] \/ (score[f] = score[e] /\ f < e)}) < n}

GroupOf(e) == (e - 1) \div (NumExperts \div NumGroups)

GroupScore(b, t, g) ==
  LET in == {e \in Experts : GroupOf(e) = g}
  IN  Sel(b, t, CHOOSE e \in in : \A f \in in : Sel(b, t, f) <= Sel(b, t, e))

\* The experts of the groups chosen; the others are masked out.
Eligible(b, t) ==
  LET score == [g \in 0..(NumGroups - 1) |-> GroupScore(b, t, g)]
      chosen == BestOf(0..(NumGroups - 1), TopGroups, score)
  IN  {e \in Experts : GroupOf(e) \in chosen}

\* topi: the experts of a token, best first.
TopI(b, t) ==
  LET score == [e \in Experts |-> Sel(b, t, e)]
      above(e, f) == score[e] > score[f] \/ (score[e] = score[f] /\ e < f)
  IN  SetToSortSeq(BestOf(Eligible(b, t), TopK, score), above)

Pair(t, e, w) == [token |-> t, expert |-> e, weight |-> w]

\* The (token, slot) pairs, token by token: chosen by the biased score,
\* weighted by the plain one.
Routed(b) ==
  FlattenSeq([t \in DOMAIN b.scores |->
    LET top == TopI(b, t) IN [k \in 1..TopK |-> Pair(t, top[k], b.scores[t][top[k]])]])

AllExperts == [e \in Experts |-> e]

\* The pairs that hit expert e, in that order.
HitsOf(b, e) == SelectSeq(b.pairs, LAMBDA p : p.expert = e)

\* What a pair contributes when expert e answers row u for it.
Contribution(p, e, u, w) == <<p.token, e, u, w>>

\* SparseMoE.forward: expert by expert, over the tokens it was given.
Sparse(b) ==
  FlattenSeq([e \in Experts |->
    [j \in DOMAIN HitsOf(b, e) |->
       LET p == HitsOf(b, e)[j] IN Contribution(p, e, p.token, p.weight)]])

-----------------------------------------------------------------------------
(* WeightStationaryMoE *)

\* set_tokens raises, or there is no buffer to set.
CannotStage(b, e) == Len(HitsOf(b, e)) > 0 /\ (Len(HitsOf(b, e)) > Rows \/ Remote[e] # 0)

\* set_tokens: the first rows are overwritten, the rest stay.
StagedRows(old, call, hits) ==
  [j \in DOMAIN hits |-> <<call, hits[j].token>>] \o SubSeq(old, Len(hits) + 1, Len(old))

\* The buffers when the experts below `end` have been staged.
StagedBelow(b, call, end) ==
  [e \in Experts |-> IF e < end /\ HitsOf(b, e) # <<>>
                       THEN StagedRows(staged[e], call, HitsOf(b, e)) ELSE staged[e]]

\* _scatter_expert_outputs: the answer to buffer row j goes to hit j; a row
\* of an earlier call shows as row 0.
Scattered(b, call, buffers) ==
  FlattenSeq([e \in Experts |->
    [j \in DOMAIN HitsOf(b, e) |->
       LET p == HitsOf(b, e)[j]
           row == buffers[e][j]
       IN  Contribution(p, e, IF row[1] = call THEN row[2] ELSE 0, p.weight)]])

-----------------------------------------------------------------------------
(* TransportMoELayer *)

\* The pairs stably sorted by expert, and where expert e's begin and end.
Sorted(b) == FlattenSeq([e \in Experts |-> HitsOf(b, e)])
StartOf(b, e) == Len(SelectSeq(b.pairs, LAMBDA p : p.expert < e))
EndOf(b, e) == StartOf(b, e) + Len(HitsOf(b, e))

\* classify_experts: the active experts of a device, in order.
ActiveOn(b, d) ==
  SelectSeq(AllExperts, LAMBDA e : Remote[e] = d /\ HitsOf(b, e) # <<>>)

\* _gather: the rows of some experts, and the span of each among them.
Gathered(b, experts) ==
  FlattenSeq([i \in DOMAIN experts |->
                SubSeq(Sorted(b), StartOf(b, experts[i]) + 1, EndOf(b, experts[i]))])

SpanStart(b, experts, i) ==
  FoldLeft(LAMBDA n, e : n + EndOf(b, e) - StartOf(b, e), 0, SubSeq(experts, 1, i - 1))

\* Mutant: the weight of the token's first slot.
RowWeightFirst(b, row) ==
  b.pairs[CHOOSE i \in DOMAIN b.pairs :
            /\ b.pairs[i].token = row.token
            /\ \A j \in 1..(i - 1) : b.pairs[j].token # row.token].weight

\* w_sorted: each row keeps its own slot's weight.
RowWeight(b, row) == row.weight

\* One device's experts: each answers the rows of its span.
FromDevice(b, d) ==
  LET experts == ActiveOn(b, d)
      rows == Gathered(b, experts)
      maker(j) == CHOOSE i \in DOMAIN experts :
                    SpanStart(b, experts, i) < j /\ j <= SpanStart(b, experts, i + 1)
  IN  [j \in DOMAIN rows |->
         Contribution(rows[j], experts[maker(j)], rows[j].token, RowWeight(b, rows[j]))]

Devices == {Remote[e] : e \in Experts}

\* The local experts first, then what comes back from each other device.
Transported(b) ==
  LET devices == SetToSortSeq(Devices, <)
  IN  FlattenSeq([i \in DOMAIN devices |-> FromDevice(b, devices[i])])

-----------------------------------------------------------------------------
(* The calls *)

ExpertsInit ==
  /\ calls = 0
  /\ batch = [layer |-> "none", scoring |-> "softmax", scores |-> <<>>, pairs |-> <<>>]
  /\ staged = [e \in Experts |-> <<>>]
  /\ usage = [e \in Experts |-> 0]
  /\ output = [raised |-> FALSE, sum |-> <<>>]

Forward(layer, scoring, scores) ==
  /\ calls < MaxCalls
  /\ calls' = calls + 1
  /\ batch' = [layer |-> layer, scoring |-> scoring, scores |-> scores,
               pairs |-> Routed([scoring |-> scoring, scores |-> scores])]

CallSparse(scoring, scores) ==
  /\ Forward("sparse", scoring, scores)
  /\ output' = [raised |-> FALSE, sum |-> Sparse(batch')]
  /\ UNCHANGED <<staged, usage>>

CallTransport(scoring, scores) ==
  /\ Forward("transport", scoring, scores)
  /\ output' = [raised |-> FALSE, sum |-> Transported(batch')]
  /\ UNCHANGED <<staged, usage>>

CallStationary(scoring, scores) ==
  /\ Forward("stationary", scoring, scores)
  /\ LET bad == {e \in Experts : CannotStage(batch', e)} IN
       \/ /\ bad = {}
          /\ staged' = StagedBelow(batch', calls', NumExperts + 1)
          /\ usage' = [e \in Experts |-> usage[e] + (IF HitsOf(batch', e) = <<>> THEN 0 ELSE 1)]
          /\ output' = [raised |-> FALSE, sum |-> Scattered(batch', calls', staged')]
       \/ /\ bad # {}
          /\ staged' = StagedBelow(batch', calls', CHOOSE e \in bad : \A f \in bad : e <= f)
          /\ output' = [raised |-> TRUE, sum |-> <<>>]
          /\ UNCHANGED usage

ExpertsNext ==
  \E scoring \in {"softmax", "sigmoid"}, n \in 1..MaxBatch : \E scores \in [1..n -> Scores] :
    \/ CallSparse(scoring, scores)
    \/ CallStationary(scoring, scores)
    \/ CallTransport(scoring, scores)

-----------------------------------------------------------------------------
(* Property *)

\* The contributions every layer should make, from the scores alone.
Reference(b) ==
  UNION {LET score == [e \in Experts |-> Sel(b, t, e)]
         IN  {<<t, e, t, b.scores[t][e]>> : e \in BestOf(Eligible(b, t), TopK, score)}
         : t \in DOMAIN b.scores}

\* Whichever layer runs, whatever the staging buffers hold from earlier calls
\* and however the experts are spread over devices: every expert a token was
\* routed to answers that token's own row exactly once, with that slot's weight.
EveryExpertOnce ==
  batch.layer # "none" /\ ~ output.raised =>
    /\ Len(output.sum) = TopK * Len(batch.scores)
    /\ ToSet(output.sum) = Reference(batch)

\* A prefill that sends more tokens to one expert than its buffer has rows, or
\* any to an expert of another device, raises in WeightStationaryMoE.  False.
NeverOverflows == ~ output.raised
=============================================================================
