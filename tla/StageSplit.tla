----------------------------- MODULE StageSplit -----------------------------
(***************************************************************************)
(* make_pipeline of dist/pipeline.py: a model built once on the CPU is cut   *)
(* into one slice of layers per GPU, modules that several slices share are   *)
(* copied, and one thread per GPU then moves its slice.  The slices are one   *)
(* graph of modules until the copies are made, and a thread moves whatever    *)
(* its slice reaches.                                                         *)
(***************************************************************************)
EXTENDS Integers, Sequences, SequencesExt, FiniteSets, Functions

CONSTANTS
  Depths,      \* num_hidden_layers
  RopeKinds,   \* how a family's layers hold their RoPE tables
  DeviceCounts \* len(devices)

ASSUME SplitAssumption ==
  /\ Depths \subseteq Nat /\ DeviceCounts \subseteq Nat
  /\ RopeKinds \subseteq {"one", "two", "hybrid", "own"}

VARIABLES
  net,     \* the model: its family and depth
  kids,    \* module -> its children, in order
  origin,  \* module -> the module of the model it is or was copied from
  groups,  \* module_groups, the roots of every stage; <<>> before the cut
  todo2,   \* stage -> roots its thread has still to move
  device   \* module -> the stage whose GPU holds it, 0 for the CPU

splitVars == <<net, kids, origin, groups, todo2, device>>

-----------------------------------------------------------------------------
(* Modules *)

Layer(i) == 10 * i
Mixer(i) == 10 * i + 1
OwnRope(i) == 10 * i + 2
Embed == 1
Norm == 2
LMHead == 3
Rope(i) == 4 + i

\* The table layer i rotates with: one for all, a global and a local one (Gemma),
\* one for the attention layers alone (Qwen3.5) or one of its own (MLA).
RopesOf(kind, i) ==
  CASE kind = "one" -> <<Rope(0)>>
    [] kind = "two" -> <<Rope(i % 2)>>
    [] kind = "hybrid" -> IF i % 2 = 0 THEN <<Rope(0)>> ELSE <<>>
    [] kind = "own" -> <<OwnRope(i)>>

\* build_model
Built(kind, depth) ==
  LET mixers == [m \in {Mixer(i) : i \in 1..depth} |-> RopesOf(kind, m \div 10)]
      layers == [m \in {Layer(i) : i \in 1..depth} |-> <<Mixer(m \div 10)>>]
      leaves == {Embed, Norm, LMHead} \cup UNION {Range(mixers[m]) : m \in DOMAIN mixers}
  IN  [m \in leaves \cup DOMAIN mixers \cup DOMAIN layers |->
         IF m \in leaves THEN <<>> ELSE IF m \in DOMAIN mixers THEN mixers[m] ELSE layers[m]]

\* Module.modules(): a module, then what its children yield.  Three levels deep.
Below(k, m) == <<m>> \o FlattenSeq([i \in DOMAIN k[m] |-> <<k[m][i]>> \o k[k[m][i]]])
Reached(k, roots) == UNION {Range(Below(k, r)) : r \in Range(roots)}

-----------------------------------------------------------------------------
(* The cut *)

\* bounds[i]
Bound(depth, n, i) == (i * depth) \div n

\* module_groups
Group(depth, n, st) ==
  (IF st = 1 THEN <<Embed>> ELSE <<>>)
    \o [j \in 1..(Bound(depth, n, st) - Bound(depth, n, st - 1)) |->
          Layer(Bound(depth, n, st - 1) + j)]
    \o (IF st = n THEN <<Norm, LMHead>> ELSE <<>>)

Groups(depth, n) == [st \in 1..n |-> Group(depth, n, st)]

\* Mutant: the child stays where another stage reaches it, too.
RehomedKept(w, st, parent, i) ==
  [w EXCEPT !.owner = IF w.kids[parent][i] \in DOMAIN @ THEN @
                      ELSE [c \in {w.kids[parent][i]} |-> st] @@ @]

\* The first stage that meets a child owns it; a later one gets one copy of its
\* own, wherever it meets the child.  Only leaves, RoPE tables, are ever shared.
Rehomed(w, st, parent, i) ==
  LET child == w.kids[parent][i]
      owner == IF child \in DOMAIN w.owner THEN w.owner[child] ELSE st
      copy == IF child \in DOMAIN w.copies THEN w.copies[child] ELSE - Cardinality(DOMAIN w.kids)
      kept == [w EXCEPT !.owner = [c \in {child} |-> owner] @@ @]
  IN  IF owner = st THEN kept
      ELSE [kept EXCEPT !.kids = [m \in {copy} |-> <<>>] @@ [@ EXCEPT ![parent][i] = copy],
                        !.origin = [m \in {copy} |-> child] @@ @,
                        !.copies = [m \in {child} |-> copy] @@ @]

\* One parent's children; then, a child replaced, its copy's.
VisitModule(w, st, parent) ==
  FoldLeft(LAMBDA v, i : Rehomed(v, st, parent, i), w, [i \in DOMAIN w.kids[parent] |-> i])

\* A root is walked over its modules as they were when the walk reached them; no
\* shared module has children, so the walk meets what it would have met at first.
VisitStage(w, st, roots) ==
  FoldLeft(LAMBDA v, m : VisitModule(v, st, m), [w EXCEPT !.copies = <<>>],
           FlattenSeq([j \in DOMAIN roots |-> Below(w.kids, roots[j])]))

\* _detach_shared_stage_modules
Detached(built, cut) ==
  FoldLeft(LAMBDA w, st : VisitStage(w, st, cut[st]),
           [kids |-> built, origin |-> [m \in DOMAIN built |-> m], owner |-> <<>>,
            copies |-> <<>>],
           [st \in DOMAIN cut |-> st])

-----------------------------------------------------------------------------
(* make_pipeline *)

SplitInit ==
  /\ net = [kind |-> "none", depth |-> 0]
  /\ kids = <<>> /\ origin = <<>> /\ groups = <<>> /\ todo2 = <<>> /\ device = <<>>

\* Fewer than two devices or fewer layers than devices is a ValueError.
MakePipeline(kind, depth, n) ==
  /\ groups = <<>>
  /\ n >= 2 /\ n <= depth
  /\ net' = [kind |-> kind, depth |-> depth]
  /\ groups' = Groups(depth, n)
  /\ LET w == Detached(Built(kind, depth), groups')
     IN  /\ kids' = w.kids
         /\ origin' = w.origin
         /\ device' = [m \in DOMAIN w.kids |-> 0]
  /\ todo2' = groups'

\* move_group: the stage's thread moves its next root and all below it.
MoveRoot(st) ==
  /\ todo2[st] # <<>>
  /\ device' = [m \in DOMAIN device |->
                  IF m \in Reached(kids, <<Head(todo2[st])>>) THEN st ELSE device[m]]
  /\ todo2' = [todo2 EXCEPT ![st] = Tail(@)]
  /\ UNCHANGED <<net, kids, origin, groups>>

SplitNext ==
  \/ \E kind \in RopeKinds, depth \in Depths, n \in DeviceCounts : MakePipeline(kind, depth, n)
  \/ \E st \in DOMAIN todo2 : MoveRoot(st)

-----------------------------------------------------------------------------
(* Property *)

LayersOf(st) == SelectSeq(groups[st], LAMBDA m : m % 10 = 0 /\ m > 0)

\* Whatever the order in which the threads move: no two stages reach the same
\* module, every stage has layers, together they are the model's layers in
\* order, each wired as it was built, between the embedding of the first stage
\* and the norm and head of the last; and when the threads are done, all that a
\* stage reaches is on its own GPU.
StagesApart ==
  groups # <<>> =>
    /\ \A i, j \in DOMAIN groups :
         i # j => Reached(kids, groups[i]) \cap Reached(kids, groups[j]) = {}
    /\ \A st \in DOMAIN groups : LayersOf(st) # <<>>
    /\ FlattenSeq(groups)
         = <<Embed>> \o [i \in 1..net.depth |-> Layer(i)] \o <<Norm, LMHead>>
    /\ \A st \in DOMAIN groups : \A m \in Reached(kids, groups[st]) :
         [i \in DOMAIN kids[m] |-> origin[kids[m][i]]] = Built(net.kind, net.depth)[origin[m]]
    /\ \A st \in DOMAIN groups :
         todo2[st] = <<>> => \A m \in Reached(kids, groups[st]) : device[m] = st
=============================================================================
