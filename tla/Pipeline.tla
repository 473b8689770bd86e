------------------------------ MODULE Pipeline ------------------------------
(***************************************************************************)
(* Pipeline-parallel inference (dist/pipeline.py): the layers are cut into *)
(* contiguous stages, each with its own K/V cache and recurrent cache, and *)
(* one Scheduler (engine/scheduler.py) that knows the first stage's cache  *)
(* only.  A call of step() prefills or decodes a batch through every stage *)
(* and hands each stage's output to the next with send and recv.           *)
(*                                                                         *)
(* The K/V of position p of q is the cell Cell(q, p): the prompt's common  *)
(* part is everybody's, the rest q's own; anything else is Junk.  A        *)
(* recurrent row is <<q, n>> after q's first n tokens, and what travels    *)
(* between stages is one row <<q, p>> per sequence of the batch.  Blocks,  *)
(* tables, the free list and the prefix entries of every stage are the     *)
(* code's; reference counts are not kept but read off (that they are exact *)
(* is PagedKVCache's RefcountsExact).                                      *)
(***************************************************************************)
EXTENDS Integers, FiniteSets, SequencesExt

CONSTANTS
  Seqs,            \* the requests
  NoSeq,           \* nobody's: the owner of pad and warm-up rows
  NumStages,       \* pipeline stages
  PerSeq,          \* max_blocks_per_seq
  BlockSize,
  MaxBatchTokens,  \* max_batch_tokens
  BatchBuckets,    \* batch_buckets of the stages' graphs
  ContextBucket,   \* context_bucket_size of the stages' graphs
  MaxGraphs,       \* max_graphs of the stages' graphs
  Deployments      \* see conf

ASSUME PipelineAssumption ==
  /\ NumStages \in Nat \ {0, 1}
  /\ {PerSeq, BlockSize, ContextBucket} \subseteq Nat \ {0}
  /\ BatchBuckets \subseteq Nat \ {0}
  /\ \A d \in Deployments : d.slots \in Nat \ {0} /\ d.blocks \in [1..NumStages -> Nat \ {0}]

VARIABLES
  conf,      \* [graphed, recurrent, codec: BOOLEAN, callers: requests at once,
             \* slots: max_num_seqs, blocks: one pool size per stage, prompts,
             \* maxTokens]; a prompt is [length, common], common the length of
             \* what all such prompts share
  stage,     \* per stage: [kv, rec, table, fb, entries, free, scratch, keys]
  waiting,   \* Scheduler.waiting
  running,   \* Scheduler.running
  seq,       \* per request: [state, slot, common, asked, prompt, length, out, own,
             \* over]: out counts the tokens, own says that all came from its own
             \* rows, over that is_finished()
  raised     \* the exception that left step(), No before

vars == <<conf, stage, waiting, running, seq, raised>>

Junk == <<NoSeq>>
NoSlot == -1
No == "no"
StageIds == 0..NumStages - 1
SlotIds == 0..conf.slots - 1
LastStage == NumStages - 1
StageOrder == [i \in 1..NumStages |-> i - 1]
Cap == PerSeq * BlockSize
Ceil(n, d) == (n + d - 1) \div d

Member(q, s) == q \in Range(s)
Least(S) == CHOOSE x \in S : \A y \in S : x <= y
Most(S) == CHOOSE x \in S : \A y \in S : x >= y

\* The K/V of a position depends on the tokens up to it: whose they are.
Cell(sq, q, p) == <<IF p < sq[q].common THEN NoSeq ELSE q, p>>

-----------------------------------------------------------------------------
(* A stage's cache (PagedKVCache).  A call that raises leaves its result   *)
(* with err set; what follows it in the same call is skipped.              *)

\* The block that backs position p of a slot.
BlockAt(m, slot, p) == m.table[slot][p \div BlockSize + 1]
ReadCell(m, slot, p) == m.kv[BlockAt(m, slot, p)][p % BlockSize]

Pinned(m) == UNION {Range(e.blocks) : e \in Range(m.entries)}
Held(m) == Pinned(m) \cup UNION {Range(m.table[s]) : s \in SlotIds}

\* Those of the blocks that nothing refers to any more return to the pool.
Returned(m, blocks) == [m EXCEPT !.fb = @ \o SelectSeq(blocks, LAMBDA b : b \notin Held(m))]

\* free
Freed(m, slot) ==
  Returned([m EXCEPT !.free = Append(@, slot), !.table[slot] = <<>>], m.table[slot])

\* ensure_capacity for one slot: it takes what there is before it raises.
Grow(m, slot, n) ==
  LET missing == Ceil(n, BlockSize) - Len(m.table[slot])
      k == Least({missing, Len(m.fb)})
      left == Len(m.fb) - k
  IN  IF m.err # No \/ missing <= 0 THEN m
      ELSE [m EXCEPT !.table[slot] = @ \o Reverse(SubSeq(m.fb, left + 1, Len(m.fb))),
                     !.fb = SubSeq(@, 1, left),
                     !.err = IF k < missing THEN IF m.id = 0 THEN "blocks" ELSE "starved" ELSE No]

GrowAll(m, batch, sq, len) ==
  FoldLeft(LAMBDA acc, q : Grow(acc, sq[q].slot, len[q]), m, batch)

\* The trie path of q's prompt, by its block-aligned positions, and the entry
\* at one of them, if there is one.  Entries are kept in their LRU order.
Path(sq, q) == [i \in 1..sq[q].prompt \div BlockSize |-> Cell(sq, q, i * BlockSize - 1)]
EntryAt(m, key) == SelectSeq(m.entries, LAMBDA e : e.key = key)
OffPath(m, path) == SelectSeq(m.entries, LAMBDA e : e.key \notin Range(path))
OnPath(m, path) == FlattenSeq([i \in DOMAIN path |-> EntryAt(m, path[i])])

\* lookup_prefix and share_blocks: the longest entry's blocks, all hits bumped.
Shared(m, sq, q) ==
  LET hits == OnPath(m, Path(sq, q))
  IN  IF hits = <<>> THEN m
      ELSE [m EXCEPT !.entries = OffPath(m, Path(sq, q)) \o hits,
                     !.table[sq[q].slot] = Last(hits).blocks]

\* Half the pool, as max_prefix_block_fraction says.
Budget(m) == Most({1, conf.blocks[m.id + 1] \div 2})

\* _evict_one_prefix
WithoutOldest(m) ==
  Returned([m EXCEPT !.entries = Tail(@)], Head(m.entries).blocks)

\* store_prefix: an entry at each boundary, the budget last.
Stored(m, sq, q) ==
  LET path == Path(sq, q)
      new(i) == [key |-> path[i], blocks |-> SubSeq(m.table[sq[q].slot], 1, i)]
      entry(i) == IF EntryAt(m, path[i]) = <<>> THEN <<new(i)>> ELSE EntryAt(m, path[i])
      all == OffPath(m, path) \o FlattenSeq([i \in DOMAIN path |-> entry(i)])
  IN  FoldLeft(LAMBDA acc, e : IF Cardinality(Pinned(acc)) > Budget(m) THEN WithoutOldest(acc) ELSE acc,
               [m EXCEPT !.entries = all], all)

\* What a decode row reads at a stage: its own context, and its state after it.
Intact(m, q, n) ==
  /\ \A p \in 0..n - 1 : ReadCell(m, seq[q].slot, p) = Cell(seq, q, p)
  /\ conf.recurrent => m.rec[seq[q].slot] = <<q, n>>

\* The layers of a stage on one decode row: K/V and state of the new token
\* are written, and the row that leaves is right if all it read was.
DecodeRow(m, q, act) ==
  LET n == seq[q].length
      slot == seq[q].slot
      good == act = <<q, n>> /\ Intact(m, q, n)
  IN  [m EXCEPT !.kv[BlockAt(m, slot, n)][n % BlockSize] = IF good THEN Cell(seq, q, n) ELSE Junk,
                !.rec[slot] = IF ~ conf.recurrent THEN @ ELSE IF good THEN <<q, n + 1>> ELSE Junk,
                !.acts[q] = IF good THEN act ELSE Junk]

\* block_table: a slot with more blocks than a row is wide does not fit it.
FitsTable(m, batch) == \A q \in Range(batch) : Len(m.table[seq[q].slot]) <= PerSeq

RunRows(m, batch) ==
  CASE m.err # No -> m
    [] ~ FitsTable(m, batch) -> [m EXCEPT !.err = "table"]
    [] OTHER -> FoldLeft(LAMBDA acc, q : DecodeRow(acc, q, m.acts[q]), m, batch)

\* Mutant: the rows arrive in reverse.
HandOnReversed(m, batch) ==
  [m EXCEPT !.acts = [q \in Seqs |->
     IF Member(q, batch)
     THEN m.acts[batch[Len(batch) + 1 - (CHOOSE i \in 1..Len(batch) : batch[i] = q)]]
     ELSE m.acts[q]]]

\* send and recv between stages (dist/__init__.py): every row arrives, in its
\* place.  They name the codec's module fni8, which the package never binds: as
\* the code stands (~ conf.codec) the call raises NameError.
HandOn(m, batch) ==
  IF m.err = No /\ ~ conf.codec THEN [m EXCEPT !.err = "codec"] ELSE m

-----------------------------------------------------------------------------
(* The graphs of a stage (_replay_stage over GraphedDecodeLayers).         *)

Bucket(n) ==
  LET fit == {b \in BatchBuckets : n <= b} IN IF fit = {} THEN 0 ELSE Least(fit)

Longest == Most({seq[q].length : q \in Range(running)}) + 1

GraphKey == <<Bucket(Len(running)), Least({Ceil(Longest, ContextBucket) * ContextBucket, Cap})>>

\* Whether the stage can replay this batch.
Served(m) == /\ Longest <= Cap
             /\ GraphKey \in m.keys \/ Cardinality(m.keys) < MaxGraphs

\* A warm-up or pad row: a token of nobody's at position 0 of the scratch slot.
PadRow(m) ==
  [m EXCEPT !.kv[BlockAt(m, m.scratch, 0)][0] = Junk,
            !.rec[m.scratch] = IF conf.recurrent THEN Junk ELSE @]

\* _ensure_capture: the stage's first capture takes a scratch slot from the
\* stage's own cache; each capture warms up on it.
Capture(m) ==
  CASE m.err # No \/ GraphKey \in m.keys -> m
    [] m.scratch = NoSlot /\ m.free = <<>> -> [m EXCEPT !.err = "slots"]
    [] OTHER ->
         LET s == IF m.scratch = NoSlot THEN Last(m.free) ELSE m.scratch
             took == [m EXCEPT !.free = IF m.scratch = NoSlot THEN Front(@) ELSE @,
                               !.scratch = s]
             room == Grow(took, s, 1)
         IN  IF room.err # No THEN room
             ELSE [PadRow(room) EXCEPT !.keys = @ \cup {GraphKey}]

NextLengths == [q \in Seqs |-> seq[q].length + 1]

\* Pad rows write their K/V with the batch's; of two recurrent rows scattered
\* to one slot either may win (padLast).
Replay(m, padLast) ==
  LET ready == GrowAll(Capture(m), running, seq, NextLengths)
      padded == ready.err = No /\ Bucket(Len(running)) > Len(running)
      before == IF padded THEN [PadRow(ready) EXCEPT !.rec = ready.rec] ELSE ready
      after == RunRows(before, running)
  IN  IF padded /\ conf.recurrent /\ after.err = No
         /\ (padLast \/ \A q \in Range(running) : seq[q].slot # m.scratch)
      THEN [after EXCEPT !.rec[ready.scratch] = Junk] ELSE after

-----------------------------------------------------------------------------
(* One pass of a batch through the stages: all the stages, the rows on     *)
(* their way, whether rows still flow, and err.                            *)

\* A stage's memory as its layers see it.
At(pass, s) == pass.stage[s] @@ [id |-> s, acts |-> pass.acts, err |-> pass.err]

Put(pass, s, m) ==
  [pass EXCEPT !.stage[s] = [f \in DOMAIN stage[s] |-> m[f]], !.acts = m.acts, !.err = m.err]

\* Stage s ran its layers and hands the rows on, the last stage to the sampler.
Ran(pass, s, m, batch) == Put(pass, s, IF s = LastStage THEN m ELSE HandOn(m, batch))

\* embed: the row of each sequence's last token.
Embedded(batch, at) == [q \in Seqs |-> IF Member(q, batch) THEN <<q, at[q]>> ELSE Junk]

Pass(stages, batch, at) ==
  [stage |-> stages, acts |-> Embedded(batch, at), err |-> No, flows |-> TRUE]

\* A token sampled from each row that left the last stage.
Sampled(sq, batch, pass, len) ==
  IF pass.err # No \/ ~ pass.flows THEN sq
  ELSE [q \in Seqs |->
          IF ~ Member(q, batch) THEN sq[q]
          ELSE [sq[q] EXCEPT !.out = @ + 1,
                             !.own = @ /\ pass.acts[q] = <<q, len[q] - 1>>,
                             !.length = len[q],
                             !.over = sq[q].out + 1 >= conf.maxTokens]]

-----------------------------------------------------------------------------
(* Scheduler.schedule and postprocess, on the first stage's cache.         *)

\* What schedule() works on.
Unchanged == [first |-> stage[0] @@ [id |-> 0], wait |-> waiting, run |-> running, seq |-> seq]

BlockPressure(sch) == /\ sch.wait # <<>> /\ sch.run # <<>>
                      /\ sch.first.free # <<>> /\ sch.first.fb = <<>>

Victim(sch) ==
  LET fewest == Least({sch.seq[q].out : q \in Range(sch.run)})
      i == Least({j \in 1..Len(sch.run) : sch.seq[sch.run[j]].out = fewest})
  IN  sch.run[i]

\* Mutant: the victim is not put back in the queue.
PreemptedLost(sch) ==
  [first |-> Freed(sch.first, sch.seq[Victim(sch)].slot),
   wait |-> sch.wait,
   run |-> SelectSeq(sch.run, LAMBDA q : q # Victim(sch)),
   seq |-> [sch.seq EXCEPT ![Victim(sch)].slot = NoSlot]]

\* _preempt_one.  A running sequence is not finished: postprocess saw to that.
\* All outputs are appended to the prompt, at a second preemption once more, and
\* what is computed from that is not q's own context.
Preempted(sch) ==
  LET v == Victim(sch)
  IN  [first |-> Freed(sch.first, sch.seq[v].slot),
       wait |-> Append(sch.wait, v),
       run |-> SelectSeq(sch.run, LAMBDA q : q # v),
       seq |-> [sch.seq EXCEPT ![v] = [@ EXCEPT !.prompt = @ + sch.seq[v].out, !.length = 0,
                                                !.own = @ /\ sch.seq[v].prompt = sch.seq[v].asked,
                                                !.slot = NoSlot, !.state = "waiting"]]]

\* The guards of schedule()'s admission loop.
Admissible(sch, batch) ==
  /\ Len(sch.run) + Len(batch) < conf.slots
  /\ sch.wait # <<>> /\ sch.first.free # <<>> /\ sch.first.fb # <<>>
  /\ batch # <<>> => FoldLeft(LAMBDA n, q : n + sch.seq[q].prompt, 0, Append(batch, Head(sch.wait)))
                        <= MaxBatchTokens

\* The head is admitted: alloc, lookup_prefix and share_blocks.
Admit(sch) ==
  LET q == Head(sch.wait)
      sq == [sch.seq EXCEPT ![q] = [@ EXCEPT !.state = "running", !.slot = Last(sch.first.free)]]
  IN  [sch EXCEPT !.wait = Tail(@), !.seq = sq,
                  !.first = Shared([@ EXCEPT !.free = Front(@)], sq, q)]

\* The loop: [sch, batch] once nobody more is admitted.
Admitted(sch) ==
  FoldLeft(LAMBDA acc, q : IF Admissible(acc.sch, acc.batch)
                           THEN [sch |-> Admit(acc.sch), batch |-> Append(acc.batch, Head(acc.sch.wait))]
                           ELSE acc,
           [sch |-> sch, batch |-> <<>>], sch.wait)

\* schedule(): as long as nobody is admitted under block pressure a sequence is
\* preempted, max_num_seqs of them at the most.
Schedule ==
  Admitted(FoldLeft(LAMBDA sch, i : IF BlockPressure(sch) /\ Admitted(sch).batch = <<>>
                                    THEN Preempted(sch) ELSE sch,
                    Unchanged, [i \in 1..conf.slots |-> i]))

\* postprocess: the finished give their slot back to the first stage.
Postprocess(stages, run, sq) ==
  LET over == SelectSeq(run, LAMBDA q : sq[q].over)
  IN  /\ stage' = [stages EXCEPT ![0] = FoldLeft(LAMBDA m, q : Freed(m, sq[q].slot), @, over)]
      /\ running' = SelectSeq(run, LAMBDA q : ~ sq[q].over)
      /\ seq' = [q \in Seqs |-> IF Member(q, over) THEN [sq[q] EXCEPT !.state = "done"] ELSE sq[q]]

-----------------------------------------------------------------------------
EmptyStage(n) ==
  [kv |-> [b \in 1..n |-> [o \in 0..BlockSize - 1 |-> Junk]],
   rec |-> [s \in SlotIds |-> Junk],
   table |-> [s \in SlotIds |-> <<>>],
   fb |-> [i \in 1..n |-> i],
   entries |-> <<>>,
   free |-> [i \in 1..conf.slots |-> i - 1],
   scratch |-> NoSlot,
   keys |-> {}]

Init ==
  /\ conf \in Deployments
  /\ stage = [s \in StageIds |-> EmptyStage(conf.blocks[s + 1])]
  /\ waiting = <<>> /\ running = <<>>
  /\ seq = [q \in Seqs |-> [state |-> "new", slot |-> NoSlot, common |-> 0, asked |-> 0, prompt |-> 0,
                            length |-> 0, out |-> 0, own |-> TRUE, over |-> FALSE]]
  /\ raised = No

\* add_request, by one of conf.callers callers, each of them waiting for its
\* answer before it sends another prompt.
AddRequest(q, asked) ==
  /\ raised = No
  /\ seq[q].state = "new"
  /\ Len(waiting) + Len(running) < conf.callers
  /\ seq' = [seq EXCEPT ![q] = [@ EXCEPT !.state = "waiting", !.common = asked.common,
                                      !.asked = asked.length, !.prompt = asked.length]]
  /\ waiting' = Append(waiting, q)
  /\ UNCHANGED <<conf, stage, running, raised>>

\* The end of step().  Any of the tokens sampled may be the end of its sequence;
\* then either every row came through and postprocess runs, with what the step
\* admitted, or the exception leaves the admitted in no list.
EndStep(pass, run, admitted, sampled) ==
  \E E \in SUBSET {q \in Seqs : sampled[q].out # seq[q].out} :
    LET sq == [q \in Seqs |-> [sampled[q] EXCEPT !.over = @ \/ q \in E]]
    IN  /\ raised' = pass.err
        /\ IF pass.err = No THEN Postprocess(pass.stage, run \o admitted, sq)
           ELSE /\ stage' = pass.stage /\ seq' = sq
                /\ running' = run

\* The layers of a stage on a packed prefill: lin_cache.reset() first drops
\* every slot's recurrent row; then every position of every prompt is written,
\* those in shared blocks too.
Prefilled(m, batch, sq) ==
  LET good(q) == m.acts[q] = <<q, sq[q].prompt - 1>>
      at(b, o) == {<<q, p>> \in Range(batch) \X (0..PerSeq * BlockSize + BlockSize) :
                     /\ p < sq[q].prompt /\ p % BlockSize = o
                     /\ BlockAt(m, sq[q].slot, p) = b}
      cell(w) == IF good(w[1]) THEN Cell(sq, w[1], w[2]) ELSE Junk
      owner(s) == {q \in Range(batch) : sq[q].slot = s}
  IN  [m EXCEPT
        !.kv = [b \in DOMAIN @ |-> [o \in DOMAIN @[b] |->
                  IF at(b, o) = {} THEN @[b][o] ELSE cell(CHOOSE w \in at(b, o) : TRUE)]],
        !.rec = IF ~ conf.recurrent THEN @
                ELSE [s \in SlotIds |-> IF owner(s) = {} THEN Junk
                       ELSE LET q == CHOOSE x \in owner(s) : TRUE
                            IN  IF good(q) THEN <<q, sq[q].prompt>> ELSE Junk],
        !.acts = [q \in Seqs |-> IF Member(q, batch) /\ ~ good(q) THEN Junk ELSE @[q]]]

\* ensure_capacity, the stage's layers, and store_prefix, each on one stage.
RoomOn(pass, s, q, sq) ==
  IF pass.err # No THEN pass ELSE Put(pass, s, Grow(At(pass, s), sq[q].slot, sq[q].prompt))
PrefillOn(pass, s, batch, sq) ==
  IF pass.err # No THEN pass ELSE Ran(pass, s, Prefilled(At(pass, s), batch, sq), batch)
StoreOn(pass, s, q, sq) ==
  IF pass.err # No THEN pass ELSE Put(pass, s, Stored(At(pass, s), sq, q))

\* _prefill: room on every stage, sequence by sequence, the stages, and in the end
\* the prompts' prefixes stored on every stage.
PrefillPass(stages, batch, sq) ==
  LET start == Pass(stages, batch, [q \in Seqs |-> sq[q].prompt - 1])
      room(acc, q) == FoldLeft(LAMBDA st, s : RoomOn(st, s, q, sq), acc, StageOrder)
      store(acc, q) == FoldLeft(LAMBDA st, s : StoreOn(st, s, q, sq), acc, StageOrder)
      through == FoldLeft(LAMBDA acc, s : PrefillOn(acc, s, batch, sq),
                          FoldLeft(room, start, batch), StageOrder)
  IN  FoldLeft(store, through, batch)

\* step() when schedule() admits somebody.
StepPrefill ==
  LET end == Schedule
      batch == end.batch
      sq == end.sch.seq
      first == [f \in DOMAIN stage[0] |-> end.sch.first[f]]
      pass == PrefillPass([stage EXCEPT ![0] = first], batch, sq)
  IN  /\ raised = No
      /\ batch # <<>>
      /\ waiting' = end.sch.wait
      /\ EndStep(pass, end.sch.run, batch,
                 Sampled(sq, batch, pass, [q \in Seqs |-> sq[q].prompt]))
      /\ UNCHANGED conf

\* schedule() returns the running ones.  It has preempted nobody then
\* (PreemptionAdmits).
Decoding == raised = No /\ running # <<>> /\ Schedule.batch = <<>>

Lengths == [q \in Seqs |-> seq[q].length]

\* _decode_microbatched: pairs of rows, each pair through every stage and
\* sampled before the next.
Micros == [i \in 1..Ceil(Len(running), 2) |->
             SubSeq(running, 2 * i - 1, Least({2 * i, Len(running)}))]

RowsOn(pass, s, mb) ==
  IF pass.err # No THEN pass
  ELSE Ran(pass, s, RunRows(GrowAll(At(pass, s), mb, seq, NextLengths), mb), mb)

MicroStep(acc, mb) ==
  LET start == [acc.pass EXCEPT !.acts = Embedded(mb, Lengths)]
      pass == FoldLeft(LAMBDA rows, s : RowsOn(rows, s, mb), start, StageOrder)
  IN  IF acc.pass.err # No THEN acc
      ELSE [pass |-> pass, seq |-> Sampled(acc.seq, mb, pass, NextLengths)]

DecodeMicrobatched ==
  LET start == [pass |-> Pass(stage, running, Lengths), seq |-> seq]
      end == FoldLeft(LAMBDA acc, mb : MicroStep(acc, mb), start, Micros)
  IN  /\ Decoding
      /\ ~ conf.graphed \/ Bucket(Len(running)) = 0
      /\ EndStep(end.pass, running, <<>>, end.seq)
      /\ UNCHANGED <<conf, waiting>>

\* _decode_async: a stage that cannot replay the batch stops the rows, and
\* the step then ends without a token.
ReplayOrStop(pass, s, padLast) ==
  IF pass.err # No \/ ~ pass.flows THEN pass
  ELSE IF ~ Served(pass.stage[s]) THEN [pass EXCEPT !.flows = FALSE]
  ELSE Ran(pass, s, Replay(At(pass, s), padLast), running)

DecodeAsync(padLast) ==
  LET pass == FoldLeft(LAMBDA acc, s : ReplayOrStop(acc, s, padLast),
                       Pass(stage, running, Lengths), StageOrder)
  IN  /\ Decoding
      /\ conf.graphed /\ Bucket(Len(running)) # 0
      /\ EndStep(pass, running, <<>>, Sampled(seq, running, pass, NextLengths))
      /\ UNCHANGED <<conf, waiting>>

Step == \/ StepPrefill
        \/ DecodeMicrobatched
        \/ \E padLast \in BOOLEAN : DecodeAsync(padLast)

Next == \/ \E q \in Seqs, asked \in conf.prompts : AddRequest(q, asked)
        \/ Step

\* Whether a call of step() changes anything: it prefills, or it decodes and
\* a graphed decode finds its graph.
CanStep ==
  \/ raised = No /\ Schedule.batch # <<>>
  \/ Decoding /\ (conf.graphed /\ Bucket(Len(running)) # 0 => Served(stage[0]))

\* generate() calls step() for as long as the scheduler has work: WF_vars(Step),
\* with CanStep for ENABLED <<Step>>_vars, which TLC is too slow at.
StepFairness == ([]<>~ CanStep) \/ ([]<><<Step>>_vars)

PipeSpec == Init /\ [][Next]_vars /\ StepFairness

-----------------------------------------------------------------------------
PipeTypeOK ==
  /\ running \in Seq(Seqs) /\ IsInjective(running)
  /\ waiting \in Seq(Seqs) /\ IsInjective(waiting)
  /\ \A q \in Seqs : /\ seq[q].state \in {"new", "waiting", "running", "done"}
                     /\ seq[q].slot \in SlotIds \cup {NoSlot}
                     /\ Member(q, waiting) <=> seq[q].state = "waiting"
                     /\ Member(q, running) => seq[q].state = "running"

\* Every block of every stage is in its pool, once, or in a table or prefix
\* entry; the first stage's slots are free, scratch, or one running sequence's.
PoolsConserved ==
  /\ \A s \in StageIds :
       /\ IsInjective(stage[s].fb)
       /\ Range(stage[s].fb) = (1..conf.blocks[s + 1]) \ Held(stage[s])
  /\ IsInjective(stage[0].free)
  /\ \A q, r \in Range(running) : q # r => seq[q].slot # seq[r].slot
  /\ \A q \in Range(running) :
       seq[q].slot \notin Range(stage[0].free) \cup {stage[0].scratch}

\* The type invariant, and no slot or block lost or held twice over a whole
\* run of admissions, shares, evictions, preemptions and frees (Scheduler,
\* PagedKVCache).
PipeInv == PipeTypeOK /\ PoolsConserved

\* What q's tokens are computed from is q's own context, on every stage: its
\* K/V and recurrent rows, and the row each of its tokens was sampled from.
OwnContext(q) ==
  /\ Member(q, running) => \A s \in StageIds : Intact(stage[s], q, seq[q].length)
  /\ seq[q].own

\* The output is the one a single GPU computes (tests/test_pipeline.py).
MatchesSingleGpu == \A q \in Seqs : OwnContext(q)

\* The same, but for the sequence in whose slot a later stage keeps its
\* scratch rows: interleaved prefills, pairs and replays mix no others.
OthersMatchSingleGpu ==
  \A q \in Seqs :
    (\A s \in StageIds \ {0} : stage[s].scratch # seq[q].slot \/ seq[q].slot = NoSlot)
      => OwnContext(q)

\* No step raises.
StagesNeverStarve == raised = No

\* Only the first stage can run out of blocks, and only when its pool is smaller
\* than its slots' tables or prefix entries alone keep some of it; the later
\* stages, which hear of no freed slot, never do.  Where the codec's name is
\* unbound the boundary raises and nothing else.
RaisesOnlyForBlocks ==
  \/ raised = No
  \/ raised = "codec" /\ ~ conf.codec
  \/ /\ raised = "blocks"
     /\ \/ conf.blocks[1] < conf.slots * PerSeq
        \/ Pinned(stage[0]) \ UNION {Range(stage[0].table[s]) : s \in SlotIds} # {}

\* A call of schedule() that preempts, however often and though pinned blocks do
\* not come back, admits the head of the queue in the end.
PreemptionAdmits ==
  raised = No /\ BlockPressure(Unchanged) /\ Admitted(Unchanged).batch = <<>> => Schedule.batch # <<>>

\* Through admissions, shared and evicted prefixes, preemptions, frees and reused
\* slots that only the first stage hears of, every stage keeps its pool whole, no
\* later stage runs out of blocks, a preemption is never in vain and every sequence
\* is computed from its own context (PipelineEngine.step).
PipeSafe == PipeInv /\ OthersMatchSingleGpu /\ RaisesOnlyForBlocks /\ PreemptionAdmits

\* generate() returns: every request added is finished, unless a step raises.
EveryRequestServed ==
  \A q \in Seqs : seq[q].state # "new" ~> seq[q].state = "done" \/ raised # No
=============================================================================
