----------------------------- MODULE Parallelism -----------------------------
(***************************************************************************)
(* The layout planner of scheduling.py: an enumeration of (pp, ep,          *)
(* replicas) with a lexicographic score, the validator of a serving         *)
(* configuration, and the throughput estimate, whose float constants are    *)
(* left out: what is kept of it is its order between layouts.               *)
(***************************************************************************)
EXTENDS Integers, Sequences, SequencesExt, FiniteSetsExt

CONSTANTS
  MaxPP,        \* _MAX_PP_DEPTH
  LayerNumbers, \* hidden layers of the models that are planned for
  ExpertNumbers,\* their experts, 0 for a dense model
  FleetSizes    \* numbers of devices

ASSUME PlannerAssumption ==
  /\ MaxPP \in Nat \ {0} /\ LayerNumbers \subseteq Nat \ {0}
  /\ ExpertNumbers \subseteq Nat /\ FleetSizes \subseteq Nat \ {0}

VARIABLES
  model,   \* the configuration and the fleet the plan is for
  plan,    \* the layout, NoPlan before it is known
  report   \* the estimate: crossings of a token and layers of a step

plannerVars == <<model, plan, report>>

Layout(pp, ep, replicas) == [pp |-> pp, ep |-> ep, replicas |-> replicas]
NoPlan == Layout(0, 0, 0)
NoReport == [boundaries |-> 0, depth |-> 0]

PlannerInit == model = [layers |-> 0, experts |-> 0, gpus |-> 0] /\ plan = NoPlan /\ report = NoReport

-----------------------------------------------------------------------------
(* plan_parallelism *)

Least(a, b) == IF a < b THEN a ELSE b
Downwards(hi, lo) == [i \in 1..(hi - lo + 1) |-> hi - i + 1]

\* Sharding counts as meaningful with two experts or more in each group.
Bonus(m, ep) == IF ep >= 2 /\ m.experts \div ep >= 2 THEN 1 ELSE 0
Score(m, l) == <<Bonus(m, l.ep), l.pp, l.replicas>>
Above(s, t) ==
  \/ s[1] > t[1]
  \/ s[1] = t[1] /\ s[2] > t[2]
  \/ s[1] = t[1] /\ s[2] = t[2] /\ s[3] > t[3]

\* A dense model takes the deepest pipeline the cap, its layers and the share
\* of a replica allow; a model with experts only splits that use the share up.
Considered(m, r) ==
  LET share == m.gpus \div r
      deepest == Least(Least(MaxPP, m.layers), share)
  IN  IF m.experts = 0
        THEN IF deepest >= 2 THEN <<Layout(deepest, 1, r)>> ELSE <<>>
        ELSE FlattenSeq([i \in 1..Len(Downwards(deepest, 2)) |->
               LET pp == Downwards(deepest, 2)[i]
                   eps == {ep \in 1..Least(share \div pp, m.experts) : pp * ep = share}
               IN  [j \in 1..Cardinality(eps) |-> Layout(pp, SetToSeq(eps)[j], r)]])

Enumerated(m) ==
  FlattenSeq([i \in 1..m.gpus |->
    LET r == Downwards(m.gpus, 1)[i]
    IN  IF m.gpus % r = 0 THEN Considered(m, r) ELSE <<>>])

\* Mutant: the first layout that is admissible stays.
ChosenFirst(m) == IF Enumerated(m) = <<>> THEN Layout(1, 1, 1) ELSE Enumerated(m)[1]

\* The first layout with the highest score; one device if there is none.
Chosen(m) ==
  FoldLeft(LAMBDA b, l : IF Above(Score(m, l), b.score) THEN [layout |-> l, score |-> Score(m, l)]
                         ELSE b,
           [layout |-> Layout(1, 1, 1), score |-> <<-1, -1, -1>>], Enumerated(m)).layout

Plan(layers, experts, gpus) ==
  /\ plan = NoPlan
  /\ model' = [layers |-> layers, experts |-> experts, gpus |-> gpus]
  /\ plan' = IF gpus = 1 THEN Layout(1, 1, 1) ELSE Chosen(model')
  /\ UNCHANGED report

\* estimate_throughput: a token crosses every boundary, a step runs the layers
\* of one stage (rounded up).
Estimate ==
  /\ plan # NoPlan /\ report = NoReport
  /\ report' = [boundaries |-> plan.pp - 1,
                depth |-> (model.layers + plan.pp - 1) \div plan.pp]
  /\ UNCHANGED <<model, plan>>

PlannerNext ==
  \/ \E l \in LayerNumbers, e \in ExpertNumbers, g \in FleetSizes : Plan(l, e, g)
  \/ Estimate

-----------------------------------------------------------------------------
(* validate_parallel_config, of a plan that is put to use *)

Errors(pp, ep) == pp = 0 \/ ep < 0
Warned(pp) == pp > MaxPP

-----------------------------------------------------------------------------
(* Properties *)

Used(l) == l.pp * l.ep * l.replicas

\* Every way to fill the fleet with equal replicas of a pipeline of two to MaxPP
\* stages, no stage empty and no expert group empty.
Fillings(m) ==
  {l \in [pp : 2..MaxPP, ep : 1..Max({m.experts, 1}), replicas : 1..m.gpus] :
     l.pp <= m.layers /\ Used(l) = m.gpus}

\* The planner's answer fits the fleet, passes the project's own validator with
\* no error and no warning, gives every stage a layer and every group an expert,
\* and no filling of the fleet that the search may have skipped or met later is
\* better by the doctrine's order: meaningful expert groups, then depth, then
\* replicas.  With experts, a fleet that can be filled is filled.
PlanIsBest ==
  plan # NoPlan =>
    /\ Used(plan) <= model.gpus
    /\ ~ Errors(plan.pp, plan.ep) /\ ~ Warned(plan.pp)
    /\ plan.pp <= model.layers /\ plan.ep <= Max({model.experts, 1})
    /\ \A l \in Fillings(model) : ~ Above(Score(model, l), Score(model, plan))
    /\ model.experts > 0 /\ Fillings(model) # {} => Used(plan) = model.gpus
    /\ report # NoReport => report.boundaries < MaxPP /\ report.depth * plan.pp >= model.layers

\* "num_gpus: total GPUs consumed" (ParallelismStrategy).  Not kept: a dense
\* model on six devices gets one pipeline of four, a model with experts on
\* seven gets a single device.
UsesEveryGPU == plan # NoPlan => Used(plan) = model.gpus
=============================================================================
