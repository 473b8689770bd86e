---------------------------- MODULE GraphedRunner ----------------------------
(***************************************************************************)
(* The execution paths of EngineRunner (engine/model_runner.py) over the   *)
(* CUDA graphs of engine/cuda_graph.py: eager, chunked, packed and graphed *)
(* prefill; per-layer graphed and eager decode; eager and graphed verify.  *)
(*                                                                         *)
(* A captured graph replays against tensors whose addresses never change:  *)
(* "bufs" holds, for each captured key, the rows those tensors describe,   *)
(* refreshed in place before each replay; rows beyond the live batch are   *)
(* pads and must point at a scratch slot.  The K/V pool is a function from *)
(* flat rows (block * block_size + offset) to cells.  A cell is <<q, p>>   *)
(* when it holds the K/V of sequence q's position p computed from q's own  *)
(* intact context, and Junk otherwise, so a row that reads or writes the   *)
(* wrong memory shows up as a cell that is not its owner's.  The recurrent *)
(* state of a slot is <<q, n>> after q's first n tokens.                   *)
(***************************************************************************)
EXTENDS Integers, FiniteSets, SequencesExt

CONSTANTS
  Seqs,             \* the requests
  NoSeq,            \* nobody's: the owner of pad and warm-up tokens
  MaxSeqs,          \* max_num_seqs
  BlockSize,        \* tokens per block
  BlocksPerSeq,     \* max_blocks_per_seq
  Deployments,      \* configurations: see Conf below
  BatchBuckets,     \* batch_buckets of the decode graphs
  ContextBucket,    \* context_bucket_size
  PrefillBuckets,   \* seq_buckets of the prefill graphs
  MaxGraphs,        \* layer-graph captures at most
  MaxDraft          \* _spec_k

ASSUME GraphSizesAssumption ==
  /\ {MaxSeqs, BlockSize, BlocksPerSeq, ContextBucket} \subseteq Nat \ {0}
  /\ {MaxGraphs, MaxDraft} \subseteq Nat
  /\ BatchBuckets \cup PrefillBuckets \subseteq Nat \ {0}
  /\ NoSeq \notin Seqs

VARIABLES
  conf,        \* [layers, varlen, spec, encode: BOOLEAN, chunk: Nat, prompts: lengths]
  freeSlots,   \* _free_slots, a stack
  freeBlocks,  \* _free_blocks, a stack
  table,       \* _slot_blocks
  kv,          \* the K/V pool, one cell per flat row
  rec,         \* the recurrent state buffer, one row per slot
  running,     \* the scheduler's running list
  seq,         \* per request: state, slot, prompt length, seq.length, carried base
  scratch,     \* the scratch slot of each graph object, NoSlot before its first use
  bufs,        \* captured decode and verify keys -> rows of their static buffers
  rowIdx,      \* lin_cache._row_idx: the captured key bound, NoKey when eager
  pages,       \* every tensor _prefill_blocks_static was ever bound to
  captured,    \* captured prefill buckets -> the index in pages their graph reads
  raised       \* how an exception left the runner: No, Starved or Uncapturable

vars == <<conf, freeSlots, freeBlocks, table, kv, rec, running, seq, scratch,
          bufs, rowIdx, pages, captured, raised>>

Zero == <<>>
Junk == <<NoSeq>>
NoSlot == -1
No == "no"
Starved == "starved"
Uncapturable == "uncapturable"
NoKey == <<>>
Objects == {"layers", "verify", "prefill"}

Cap == BlocksPerSeq * BlockSize
Ceil(n, d) == (n + d - 1) \div d

\* Mutant: one spare slot for whichever object asks first.
OneExtraSlot(c) == 1

\* _extra_graph_slots: the slots LLMEngine adds for the scratch rows of the
\* graph objects.
ExtraSlots(c) == IF c.layers THEN 3 ELSE 1

NumSlots(c) == MaxSeqs + ExtraSlots(c)
NumBlocks(c) == NumSlots(c) * BlocksPerSeq
UpTo(n) == [i \in 1..n |-> i - 1]          \* list(range(n))

\* _next_bucket: the narrowest bucket that holds n, 0 when none does.
NextBucket(buckets, n) ==
  LET fit == {b \in buckets : n <= b} IN IF fit = {} THEN 0 ELSE Min(fit)

-----------------------------------------------------------------------------
(* The pool.  A pool is a record [fs, fb, tab, ok] of the two stacks, the  *)
(* tables, and whether every request so far was met.                       *)

Pool == [fs |-> freeSlots, fb |-> freeBlocks, tab |-> table, ok |-> TRUE]

\* ensure_capacity for one slot: pops blocks until n positions fit, raises
\* when the pool runs dry.
Grow(pool, s, n) ==
  LET missing == Ceil(n, BlockSize) - Len(pool.tab[s])
      have == Len(pool.fb)
      take == IF missing <= have THEN missing ELSE have
  IN  IF missing <= 0 \/ ~ pool.ok THEN pool
      ELSE [fs |-> pool.fs,
            fb |-> SubSeq(pool.fb, 1, have - take),
            tab |-> [pool.tab EXCEPT ![s] = @ \o [i \in 1..take |-> pool.fb[have + 1 - i]]],
            ok |-> take = missing]

\* ensure_capacity over a list of <<slot, length>> pairs.
GrowAll(pool, pairs) ==
  LET grown[i \in 0..Len(pairs)] ==
        IF i = 0 THEN pool ELSE Grow(grown[i - 1], pairs[i][1], pairs[i][2])
  IN  grown[Len(pairs)]

\* alloc: the last free slot is taken.
Taken(pool) == [fs |-> Front(pool.fs), fb |-> pool.fb, tab |-> pool.tab, ok |-> pool.ok]

\* Mutant: the object names a slot without taking it off the free list.
ScratchPeeks(pool, obj, n) ==
  IF scratch[obj] # NoSlot THEN [pool |-> Grow(pool, scratch[obj], n), slot |-> scratch[obj]]
  ELSE IF pool.fs = <<>> THEN [pool |-> [pool EXCEPT !.ok = FALSE], slot |-> NoSlot]
  ELSE [pool |-> Grow(pool, Last(pool.fs), n), slot |-> Last(pool.fs)]

\* _scratch: a slot of its own, allocated at the object's first use, with
\* room for n positions.  Yields the pool and the slot.
Scratch(pool, obj, n) ==
  IF scratch[obj] # NoSlot THEN [pool |-> Grow(pool, scratch[obj], n), slot |-> scratch[obj]]
  ELSE IF pool.fs = <<>> THEN [pool |-> [pool EXCEPT !.ok = FALSE], slot |-> NoSlot]
  ELSE [pool |-> Grow(Taken(pool), Last(pool.fs), n), slot |-> Last(pool.fs)]

\* The flat row of position p of a block table (_slot_mapping).
Flat(blocks, p) == blocks[(p \div BlockSize) + 1] * BlockSize + (p % BlockSize)
-----------------------------------------------------------------------------
(* A forward pass.  A row is one batch entry of it:                        *)
(*   q: the sequence, or NoSeq for a pad;  pos: its first position;         *)
(*   cells: the flat rows its tokens' K/V is written to;                   *)
(*   blocks, ctx: the block table and context length it attends through;   *)
(*   st: its row of the recurrent state.                                   *)

Mem == [kv |-> kv, rec |-> rec]

\* A row computes its own sequence's next values iff it attends every earlier
\* position of that sequence and continues that sequence's recurrence; the
\* last of its a accepted tokens still lies inside the attended maximum.
Computes(m, row, a, maxContext) ==
  /\ row.q # NoSeq
  /\ row.ctx = row.pos + 1
  /\ row.pos + a <= maxContext
  /\ \A p \in 0..row.pos - 1 :
       /\ p \div BlockSize < Len(row.blocks)
       /\ m.kv[Flat(row.blocks, p)] = <<row.q, p>>
  /\ m.rec[row.st] = <<row.q, row.pos>>

\* One forward over rows, of whose tokens the first acc[i] count: K/V is
\* written before it is attended, two rows that write one flat row leave
\* either value, and the recurrence of a row ends after its last token that
\* counts.
Forward(m, rows, acc, maxContext) ==
  LET writers(c) == {i \in DOMAIN rows : c \in Range(rows[i].cells)}
      lone(i) == \A c \in Range(rows[i].cells) : writers(c) = {i}
      clean == [m EXCEPT !.kv = [c \in DOMAIN m.kv |-> IF writers(c) = {} THEN m.kv[c] ELSE Junk]]
      good == {i \in DOMAIN rows : lone(i) /\ Computes(clean, rows[i], acc[i], maxContext)}
      value(i, c) ==
        LET t == CHOOSE j \in DOMAIN rows[i].cells : rows[i].cells[j] = c
        IN  IF t <= acc[i] THEN <<rows[i].q, rows[i].pos + t - 1>> ELSE Junk
      owners(s) == {i \in DOMAIN rows : rows[i].st = s}
  IN  [kv |-> [c \in DOMAIN m.kv |->
                 IF writers(c) \cap good = {} THEN clean.kv[c]
                 ELSE value(CHOOSE i \in writers(c) : TRUE, c)],
       rec |-> [s \in DOMAIN m.rec |->
                  IF owners(s) = {} THEN m.rec[s]
                  ELSE LET i == CHOOSE j \in owners(s) : TRUE
                       IN  IF owners(s) = {i} /\ i \in good
                             THEN <<rows[i].q, rows[i].pos + acc[i]>> ELSE Junk]]

Cells(blocks, p, width) == [t \in 1..width |-> Flat(blocks, p + t - 1)]

\* A pad row: token 0 from position 0 of the scratch slot, context length 1.
PadRow(tab, sc, width) ==
  [q |-> NoSeq, pos |-> 0, cells |-> Cells(tab[sc], 0, width), blocks |-> tab[sc],
   ctx |-> 1, st |-> sc]

\* The row of running sequence q from position p on.
LiveRow(tab, q, p, width) ==
  [q |-> q, pos |-> p, cells |-> Cells(tab[seq[q].slot], p, width),
   blocks |-> tab[seq[q].slot], ctx |-> p + 1, st |-> seq[q].slot]

LiveRows(tab, qs, shift, width) ==
  [i \in DOMAIN qs |-> LiveRow(tab, qs[i], seq[qs[i]].len + shift, width)]

\* Mutant: rows beyond the batch keep what the previous replay left there.
FillRowsStale(old, live, pad) ==
  [i \in DOMAIN old |-> IF i <= Len(live) THEN live[i] ELSE old[i]]

\* Refresh the static buffers in place before a replay: ids, positions,
\* context lengths, slot mapping, block table and row index of every row.
FillRows(old, live, pad) ==
  [i \in DOMAIN old |-> IF i <= Len(live) THEN live[i] ELSE pad]

\* Mutant: an eager forward leaves the graph's row index bound.
BindKeepsIndex == rowIdx

\* lin_cache.bind: an eager forward addresses the recurrent rows by its own
\* list of slots, whatever a graph bound before.
Bind == NoKey

\* The recurrent row that row i of a forward addresses while key is bound.
Bound(rows, key) ==
  [i \in DOMAIN rows |->
     IF key = NoKey \/ i > Len(bufs[key]) THEN rows[i] ELSE [rows[i] EXCEPT !.st = bufs[key][i].st]]

-----------------------------------------------------------------------------
(* The sequences and the scheduler's calls.  The scheduler prefills what   *)
(* it has just admitted and otherwise decodes the whole running list.      *)

Waiting == {q \in Seqs : seq[q].state = "waiting"}
NewSeq == [state |-> "waiting", slot |-> NoSlot, len |-> 0, carry |-> FALSE]

GraphInit ==
  /\ conf \in Deployments
  /\ freeSlots = UpTo(NumSlots(conf))
  /\ freeBlocks = UpTo(NumBlocks(conf))
  /\ table = [s \in 0..NumSlots(conf) - 1 |-> <<>>]
  /\ kv = [c \in 0..NumBlocks(conf) * BlockSize - 1 |-> Zero]
  /\ rec = [s \in 0..NumSlots(conf) - 1 |-> Zero]
  /\ running = <<>>
  /\ seq = [q \in Seqs |-> NewSeq]
  /\ scratch = [o \in Objects |-> NoSlot]
  /\ bufs = <<>>
  /\ rowIdx = NoKey
  /\ pages = <<>>
  /\ captured = <<>>
  /\ raised = No

SetPool(pool) ==
  /\ freeSlots' = pool.fs
  /\ freeBlocks' = pool.fb
  /\ table' = pool.tab
  /\ raised' = IF pool.ok THEN No ELSE Starved

SetMem(m) == kv' = m.kv /\ rec' = m.rec

\* Scheduler.schedule has slots and a place in running for qs.
CanAdmit(qs) ==
  /\ raised = No
  /\ Range(qs) \subseteq Waiting
  /\ Len(running) + Len(qs) <= MaxSeqs
  /\ Len(qs) <= Len(freeSlots)

\* alloc for each of qs (a stack, last slot first).
Alloc(qs) == [i \in DOMAIN qs |-> freeSlots[Len(freeSlots) + 1 - i]]
AfterAlloc(qs) ==
  [fs |-> SubSeq(freeSlots, 1, Len(freeSlots) - Len(qs)), fb |-> freeBlocks, tab |-> table, ok |-> TRUE]

Start(qs, slots, ns) ==
  /\ running' = running \o qs
  /\ seq' = [q \in Seqs |->
               IF q \in Range(qs)
                 THEN LET i == CHOOSE j \in DOMAIN qs : qs[j] = q
                      IN  [NewSeq EXCEPT !.state = "running", !.slot = slots[i], !.len = ns[i]]
                 ELSE seq[q]]

\* lin_cache.clear_slot.
ClearSlot(r, s) == [r EXCEPT ![s] = Zero]

\* The recurrence over a prompt of n tokens that starts in state old.
Scan(old, q, n) == IF old = Zero THEN <<q, n>> ELSE Junk

-----------------------------------------------------------------------------
(* Prefill                                                                 *)

\* The table an eager write_prefill maps positions through: once a prefill
\* graph was captured, the static tensor, as the last graphed prefill left it.
WriteTable(blocks) == IF pages = <<>> THEN blocks ELSE Last(pages)

\* write_prefill of q's positions 0..n-1 through blocks, the K/V of positions
\* from "sound" on being computed from reads that went wrong.
WritePrompt(k, blocks, q, n, sound) ==
  LET at(p) == Flat(blocks, p)
  IN  [c \in DOMAIN k |->
         LET ps == {p \in 0..n - 1 : at(p) = c}
         IN  IF ps = {} THEN k[c]
             ELSE IF Cardinality(ps) = 1 /\ Max(ps) < sound THEN <<q, Max(ps)>> ELSE Junk]

\* Eager and chunked prefill of one sequence on slot s.  Only a later chunk
\* reads K/V back through the pool, so only it suffers from stray writes.
EagerPrompt(pool, r, q, s, n) ==
  LET chunk == IF conf.chunk > 0 /\ n > conf.chunk THEN conf.chunk ELSE n
      own == pool.tab[s]
      to == WriteTable(own)
      sound == IF SubSeq(to, 1, Len(own)) = own THEN n ELSE chunk
      row == Bound(<<[st |-> s]>>, Bind)[1].st
  IN  [kv |-> WritePrompt(kv, to, q, n, sound),
       rec |-> [r EXCEPT ![row] = IF sound = n THEN Scan(@, q, n) ELSE Junk]]

Chunked(n) == conf.chunk > 0 /\ n > conf.chunk

\* prefill of one sequence that no graph serves: its prompt is chunked, or
\* longer than every bucket.
PrefillEager(q, n) ==
  /\ CanAdmit(<<q>>)
  /\ Chunked(n) \/ NextBucket(PrefillBuckets, n) = 0
  /\ LET s == Alloc(<<q>>)[1]
         pool == Grow(AfterAlloc(<<q>>), s, n)
     IN  /\ SetPool(pool)
         /\ SetMem(EagerPrompt(pool, ClearSlot(rec, s), q, s, n))
         /\ rowIdx' = Bind
         /\ Start(<<q>>, <<s>>, <<n>>)
  /\ UNCHANGED <<conf, scratch, bufs, pages, captured>>

\* _prefill_varlen: several sequences packed into one forward, each token's
\* flat row computed on the host.
PrefillVarlen(qs, ns) ==
  /\ CanAdmit(qs) /\ Len(qs) > 1 /\ conf.varlen
  /\ LET slots == Alloc(qs)
         pool == GrowAll(AfterAlloc(qs), [i \in DOMAIN qs |-> <<slots[i], ns[i]>>])
         cleared == [s \in DOMAIN rec |-> IF s \in Range(slots) THEN Zero ELSE rec[s]]
         rows == Bound([i \in DOMAIN qs |-> [st |-> slots[i]]], Bind)
         packed[i \in 0..Len(qs)] ==
           IF i = 0 THEN [kv |-> kv, rec |-> cleared]
           ELSE [kv |-> WritePrompt(packed[i - 1].kv, pool.tab[slots[i]], qs[i], ns[i], ns[i]),
                 rec |-> [packed[i - 1].rec EXCEPT
                            ![rows[i].st] = Scan(cleared[rows[i].st], qs[i], ns[i])]]
     IN  /\ SetPool(pool)
         /\ SetMem(packed[Len(qs)])
         /\ Start(qs, slots, ns)
  /\ rowIdx' = Bind
  /\ UNCHANGED <<conf, scratch, bufs, pages, captured>>

\* bind_graph_write_prefill: the slot's blocks overwrite the front of the
\* static tensor, what lies behind them stays.
BindPage(page, blocks) ==
  [i \in DOMAIN page |-> IF i <= Len(blocks) THEN blocks[i] ELSE page[i]]

\* A first hit on a bucket: enable_graph_prefill replaces the static tensor
\* by a new one, and the warm-up runs on the scratch slot.
CapturePrefill(b, sc, pool) ==
  LET page == BindPage([i \in 1..NumBlocks(conf) |-> 0], pool.tab[sc])
  IN  [pages |-> Append(pages, page),
       captured |-> [x \in DOMAIN captured \cup {b} |->
                       IF x = b THEN Len(pages) + 1 ELSE captured[x]],
       kv |-> WritePrompt(kv, page, NoSeq, b, 0),
       rec |-> [rec EXCEPT ![sc] = Junk]]

\* The replay of bucket b's graph for a prompt of n tokens.  The graph writes
\* through the tensor that was current at its capture.  The b - n pads carry
\* position 0, so they map to the same flat row as the prompt's first token,
\* in no defined order, and the recurrence runs over them too.
ReplayPrefill(m, page, r, q, s, n, b) ==
  LET w == WritePrompt(m, page, q, n, n)
  IN  {[kv |-> IF padLast THEN [w EXCEPT ![Flat(page, 0)] = Junk] ELSE w,
        rec |-> [r EXCEPT ![s] = IF n = b THEN Scan(@, q, n) ELSE Junk]] :
         padLast \in IF n = b THEN {FALSE} ELSE BOOLEAN}

\* prefill of one sequence through its bucket's graph (try_prefill).
PrefillGraphed(q, n) ==
  /\ CanAdmit(<<q>>)
  /\ ~ Chunked(n)
  /\ LET b == NextBucket(PrefillBuckets, n)
         s == Alloc(<<q>>)[1]
         grown == Grow(AfterAlloc(<<q>>), s, n)
         sc == Scratch(grown, "prefill", b)
         pool == IF b \in DOMAIN captured THEN grown ELSE sc.pool
         cap == IF b \in DOMAIN captured
                  THEN [pages |-> pages, captured |-> captured, kv |-> kv, rec |-> rec]
                  ELSE CapturePrefill(b, sc.slot, pool)
         bound == [cap.pages EXCEPT ![Len(cap.pages)] = BindPage(@, pool.tab[s])]
     IN  /\ b > 0
         /\ SetPool(pool)
         /\ Start(<<q>>, <<s>>, <<n>>)
         /\ IF pool.ok
              THEN /\ scratch' = [scratch EXCEPT !["prefill"] = sc.slot]
                   /\ pages' = bound
                   /\ captured' = cap.captured
                   /\ bufs' = [x \in DOMAIN bufs \cup {<<"prefill", b, 1>>} |->
                                 IF x = <<"prefill", b, 1>> THEN <<[st |-> s]>> ELSE bufs[x]]
                   /\ rowIdx' = <<"prefill", b, 1>>
                   /\ \E m \in ReplayPrefill(cap.kv, bound[cap.captured[b]],
                                             ClearSlot(cap.rec, s), q, s, n, b) : SetMem(m)
              ELSE UNCHANGED <<scratch, pages, captured, bufs, rowIdx, kv, rec>>
  /\ UNCHANGED conf

\* encode of one sequence: an eager prefill whose slot is freed at once.
Released(pool, s) ==
  [fs |-> Append(pool.fs, s), fb |-> pool.fb \o pool.tab[s],
   tab |-> [pool.tab EXCEPT ![s] = <<>>], ok |-> pool.ok]

Encode(q, n) ==
  /\ conf.encode
  /\ CanAdmit(<<q>>)
  /\ LET s == Alloc(<<q>>)[1]
         pool == Grow(AfterAlloc(<<q>>), s, n)
     IN  /\ SetPool(IF pool.ok THEN Released(pool, s) ELSE pool)
         /\ kv' = WritePrompt(kv, WriteTable(pool.tab[s]), q, n, n)
         /\ rec' = LET row == Bound(<<[st |-> s]>>, Bind)[1].st
                   IN  [ClearSlot(rec, s) EXCEPT ![row] = Scan(@, q, n)]
         /\ rowIdx' = Bind
  /\ seq' = [seq EXCEPT ![q].state = "done"]
  /\ UNCHANGED <<conf, running, scratch, bufs, pages, captured>>

-----------------------------------------------------------------------------
(* Decode                                                                  *)

Rounded(n) == LET up == Ceil(n, ContextBucket) * ContextBucket IN IF up < Cap THEN up ELSE Cap
Longest == Max({seq[q].len : q \in Range(running)})
Captures(obj) == {key \in DOMAIN bufs : key[1] = obj}

\* No live sequence may outgrow its block table (the window ends it first).
Decodable == raised = No /\ running # <<>> /\ Longest + 1 <= Cap

DecodeKey == <<"layers", NextBucket(BatchBuckets, Len(running)), Rounded(Longest + 1)>>

\* GraphedDecodeLayers.try_decode has a graph for this batch or may capture it.
LayerGraphServes ==
  /\ conf.layers
  /\ DecodeKey[2] > 0
  /\ DecodeKey \in DOMAIN bufs \/ Cardinality(Captures("layers")) < MaxGraphs

\* GraphedDecode.try_decode takes the batch that the layer graphs declined.
StepGraphTaken == ~ LayerGraphServes /\ NextBucket(BatchBuckets, Len(running)) > 0

Needs(shift) == [i \in DOMAIN running |-> <<seq[running[i]].slot, seq[running[i]].len + shift>>]

Ones(S) == [i \in S |-> 1]

Advance(by) == seq' = [q \in Seqs |-> IF q \in Range(running)
                                        THEN [seq[q] EXCEPT !.len = @ + by[q]] ELSE seq[q]]

\* Capture, when the key is new, refresh of the static rows, and replay, for
\* graph object obj from memory m and pool p; each row has width tokens, the
\* first at seq.length + shift.
Replay(obj, key, m, p, shift, width, acc) ==
  LET new == key \notin DOMAIN bufs
      sc == Scratch(p, obj, IF obj = "verify" THEN width + 1 ELSE width)
      pool == GrowAll(sc.pool, Needs(shift + width))
      pad == PadRow(pool.tab, sc.slot, width)
      old == IF new THEN [i \in 1..key[2] |-> pad] ELSE bufs[key]
      warm == IF new THEN Forward(m, old, [i \in DOMAIN old |-> 1], key[3]) ELSE m
      rows == FillRows(old, LiveRows(pool.tab, running, shift, width), pad)
      counts == [i \in DOMAIN rows |-> IF i <= Len(running) THEN acc[running[i]] ELSE 1]
  IN  /\ SetPool(pool)
      /\ IF pool.ok
           THEN /\ SetMem(Forward(warm, rows, counts, key[3]))
                /\ scratch' = [scratch EXCEPT ![obj] = sc.slot]
                /\ bufs' = [x \in DOMAIN bufs \cup {key} |-> IF x = key THEN rows ELSE bufs[x]]
           ELSE UNCHANGED <<kv, rec, scratch, bufs>>

\* decode through the per-layer graphs.
DecodeGraphed ==
  /\ ~ conf.spec /\ Decodable /\ LayerGraphServes
  /\ Replay("layers", DecodeKey, Mem, Pool, 0, 1, Ones(Seqs))
  /\ rowIdx' = DecodeKey
  /\ Advance(Ones(Seqs))
  /\ UNCHANGED <<conf, running, pages, captured>>

\* decode falls through to the whole-step graph.  It takes its scratch slot
\* and captures, but the record of the captured graph names a variable that
\* does not exist, so no whole step is ever replayed.
DecodeStepGraph ==
  /\ ~ conf.spec /\ Decodable /\ StepGraphTaken
  /\ LET sc == Scratch(Pool, "verify", 1)
     IN  /\ freeSlots' = sc.pool.fs
         /\ freeBlocks' = sc.pool.fb
         /\ table' = sc.pool.tab
         /\ raised' = IF sc.pool.ok THEN Uncapturable ELSE Starved
         /\ scratch' = [scratch EXCEPT !["verify"] = sc.slot]
  /\ UNCHANGED <<conf, kv, rec, running, seq, bufs, rowIdx, pages, captured>>

EagerForward(m, pool, qs, shift, width, acc) ==
  Forward(m, Bound(LiveRows(pool.tab, qs, shift, width), Bind),
          [i \in DOMAIN qs |-> acc[qs[i]]], Cap)

\* _decode_eager: the batch is wider than every bucket.
DecodeEager ==
  /\ ~ conf.spec /\ Decodable /\ ~ LayerGraphServes /\ ~ StepGraphTaken
  /\ LET pool == GrowAll(Pool, Needs(1))
     IN  /\ SetPool(pool)
         /\ IF pool.ok THEN SetMem(EagerForward(Mem, pool, running, 0, 1, Ones(Seqs)))
                       ELSE UNCHANGED <<kv, rec>>
  /\ rowIdx' = Bind
  /\ Advance(Ones(Seqs))
  /\ UNCHANGED <<conf, running, scratch, bufs, pages, captured>>

-----------------------------------------------------------------------------
(* Speculative decode (_spec_decode_eager): every running sequence is      *)
(* greedy.  Which drafts there are and how many the target accepts is left *)
(* open; SpecDecode models both.                                           *)

\* _draft_bucket: the verify width, rounded up so that few graphs serve all.
DraftBucket(n) == Min({b \in {1, 2, 4, 8, 16, 32} : n <= b /\ b < MaxDraft} \cup {MaxDraft})

\* The sequences without a carried base, in running order.
Bases ==
  LET bases[i \in 0..Len(running)] ==
        IF i = 0 THEN <<>>
        ELSE IF seq[running[i]].carry THEN bases[i - 1] ELSE Append(bases[i - 1], running[i])
  IN  bases[Len(running)]

\* The base token of every sequence that carries none, by an eager forward.
BasePool == GrowAll(Pool, [i \in DOMAIN Bases |-> <<seq[Bases[i]].slot, seq[Bases[i]].len + 1>>])
BaseMem == IF Bases = <<>> THEN Mem
           ELSE EagerForward(Mem, BasePool, Bases, 0, 1, Ones(Seqs))

\* No drafter proposes: the base tokens are emitted and the carry is dropped.
SpecNoProposal ==
  /\ conf.spec /\ Decodable
  /\ SetPool(BasePool)
  /\ IF BasePool.ok THEN SetMem(BaseMem) ELSE UNCHANGED <<kv, rec>>
  /\ rowIdx' = IF Bases = <<>> THEN rowIdx ELSE Bind
  /\ seq' = [q \in Seqs |-> IF q \in Range(running)
                              THEN [seq[q] EXCEPT !.len = @ + 1, !.carry = FALSE] ELSE seq[q]]
  /\ UNCHANGED <<conf, running, scratch, bufs, pages, captured>>

VerifyKey(width) ==
  <<"verify", NextBucket(BatchBuckets, Len(running)), Rounded(Longest + 1 + width), width>>

\* GraphedVerify.try_run has a graph for this step or may capture one.
VerifyGraphServes(width) ==
  /\ conf.layers
  /\ VerifyKey(width)[2] > 0
  /\ VerifyKey(width) \in DOMAIN bufs \/ Cardinality(Captures("verify")) < MaxGraphs

\* The verify forward over the base token and the drafts of each row, of
\* which acc[q] tokens are accepted; commit_verify keeps the recurrent state
\* after the last accepted one, and the next base token is carried.
SpecVerify(drafts, acc) ==
  LET width == DraftBucket(Max(Range(drafts))) + 1
  IN  /\ conf.spec /\ Decodable
      /\ Longest + 1 + width <= Cap
      /\ IF ~ BasePool.ok
           THEN SetPool(BasePool) /\ UNCHANGED <<kv, rec, scratch, bufs>>
         ELSE IF VerifyGraphServes(width)
           THEN Replay("verify", VerifyKey(width), BaseMem, BasePool, 1, width, acc)
           ELSE LET pool == GrowAll(BasePool, Needs(1 + width))
                IN  /\ SetPool(pool)
                    /\ IF pool.ok
                         THEN SetMem(EagerForward(BaseMem, pool, running, 1, width, acc))
                         ELSE UNCHANGED <<kv, rec>>
                    /\ UNCHANGED <<scratch, bufs>>
      /\ rowIdx' = Bind
      /\ seq' = [q \in Seqs |-> IF q \in Range(running)
                                  THEN [seq[q] EXCEPT !.len = @ + acc[q], !.carry = TRUE] ELSE seq[q]]
      /\ UNCHANGED <<conf, running, pages, captured>>

-----------------------------------------------------------------------------
\* A request finishes or is cancelled: PagedKVCache.free.
Finish(q) ==
  /\ q \in Range(running) /\ raised = No
  /\ SetPool(Released(Pool, seq[q].slot))
  /\ running' = RemoveFirst(running, q)
  /\ seq' = [seq EXCEPT ![q] = [NewSeq EXCEPT !.state = "done"]]
  /\ UNCHANGED <<conf, kv, rec, scratch, bufs, rowIdx, pages, captured>>

Prompts == conf.prompts

SpecNext ==
  \E drafts \in [Range(running) -> 0..MaxDraft] :
    \E acc \in [Range(running) -> 1..MaxDraft + 1] :
      /\ \A q \in Range(running) : acc[q] <= drafts[q] + 1
      /\ Max(Range(drafts)) > 0
      /\ SpecVerify(drafts, acc)

GraphNext ==
  \/ \E q \in Waiting, n \in Prompts :
       PrefillEager(q, n) \/ PrefillGraphed(q, n) \/ Encode(q, n)
  \/ \E q1, q2 \in Waiting, n1, n2 \in Prompts :
       q1 # q2 /\ PrefillVarlen(<<q1, q2>>, <<n1, n2>>)
  \/ DecodeGraphed
  \/ DecodeStepGraph
  \/ DecodeEager
  \/ SpecNoProposal
  \/ running # <<>> /\ SpecNext
  \/ \E q \in Seqs : Finish(q)

GraphSpec == GraphInit /\ [][GraphNext]_vars

-----------------------------------------------------------------------------
(* Properties *)

LiveSlots == {seq[q].slot : q \in Range(running)}
ScratchSlots == {scratch[o] : o \in Objects} \ {NoSlot}
Held == LiveSlots \cup ScratchSlots

GraphTypeOK ==
  /\ running \in Seq(Seqs) /\ IsInjective(running)
  /\ \A q \in Seqs : /\ seq[q].state \in {"waiting", "running", "done"}
                     /\ seq[q].state = "running" <=> q \in Range(running)
                     /\ seq[q].len \in 0..Cap
                     /\ seq[q].slot \in DOMAIN table \cup {NoSlot}
  /\ rowIdx = NoKey \/ rowIdx \in DOMAIN bufs
  /\ raised \in {No, Starved, Uncapturable}

\* The scratch slots and blocks of the graph objects are never a live
\* sequence's nor free: a pad row can only damage what nobody reads.  No slot
\* and no block is held twice.
ScratchReserved ==
  /\ Cardinality(LiveSlots) = Len(running)
  /\ LiveSlots \cap ScratchSlots = {}
  /\ Held \cap Range(freeSlots) = {}
  /\ IsInjective(freeSlots) /\ IsInjective(freeBlocks)
  /\ \A s \in Held :
       /\ IsInjective(table[s])
       /\ Range(table[s]) \cap Range(freeBlocks) = {}
       /\ \A t \in Held \ {s} : Range(table[s]) \cap Range(table[t]) = {}

Committed(q) == seq[q].len + (IF seq[q].carry THEN 1 ELSE 0)

\* Whatever mixture of eager, packed, chunked and graphed steps served it,
\* every running sequence finds the K/V of each of its committed positions
\* where its block table says, computed from its own context; a carried base
\* token already counts.
KVIntact ==
  \A q \in Range(running) : \A p \in 0..Committed(q) - 1 :
    kv[Flat(table[seq[q].slot], p)] = <<q, p>>

\* Likewise its recurrent row stands exactly after its committed tokens: no
\* graphed, eager or verify forward of another sequence went through it, and
\* no rejected draft did.
StateIntact ==
  \A q \in Range(running) : rec[seq[q].slot] = <<q, Committed(q)>>

\* At full load with every graph object holding its scratch slot, neither a
\* slot nor a block is ever missing (_extra_graph_slots in llm_engine.py).
NeverStarved == raised # Starved

\* The slots and blocks of pads are kept apart from those of sequences, and
\* there are enough of both (the scratch slots of cuda_graph.py).
GraphInv == GraphTypeOK /\ ScratchReserved /\ NeverStarved

\* Every running sequence finds its own K/V and its own recurrent row, however
\* eager and graphed steps alternated (EngineRunner.decode, GraphedDecode).
ContextsIntact == KVIntact /\ StateIntact

\* decode falls back "per-step whenever the graph can't serve a batch"
\* (model_runner.py:167): it never raises.
FallsBackToEager == raised # Uncapturable
=============================================================================
