# superl8-serve in TLA+

superl8-serve is a single-process LLM server: an HTTP application, one worker
thread that owns a generation engine, a continuous-batching scheduler, a paged
KV cache with a prefix cache, and a model runner with speculative decoding.
This directory models the parts of it whose correctness is a matter of control
rather than of arithmetic, checks them with TLC, and proves with TLAPS, for every size of
the system, what the KV cache, the engine, the worker thread and the batch API
promise.

Contents: 1 the system, 2 the modules and how they correspond to the code,
3 the runs, 4 the proofs, 5 what the code does not keep, 6 limits and what is
not modelled, 7 the plan.

## 1. The system

All paths are below `src/superl8serve/`.

| Component | State | Operations | What is hard | What makes it correct |
|---|---|---|---|---|
| Paged KV cache (`engine/kv_cache.py`, `PagedKVCache`) | free slots, free blocks, a block table per slot, reference counts, the prefix trie and its pin counts, an LRU counter | `alloc`, `lookup_prefix`, `share_blocks`, `ensure_capacity`, writes, `store_prefix`, `_enforce_prefix_budget`, `free` | blocks shared by slots and by overlapping trie entries; eviction under a budget of distinct blocks | exact counts, no leak and no double free, shared blocks keep their contents, budget, LRU |
| Scheduler and engine (`engine/scheduler.py`, `engine/llm_engine.py`, `engine/sequence.py`) | `waiting`, `running`, per-sequence prompt, outputs, slot and length | `add_request`, `step`, `encode`, `cancel`, `schedule`, `_preempt_one`, `postprocess` | preemption under block pressure, re-admission, cancellation, `encode()` through the same scheduler, exceptions half-way | one owner per slot, each sequence attends to its own tokens, cap, FIFO, everyone is served |
| Model runner (`engine/model_runner.py`) | per-slot caches, the pipelined base token of a sequence | `prefill`, `decode`, `encode`, `_spec_decode_eager`, `_truncate_emit` | several tokens a step, rejected drafts already written, a token carried between steps | output equals plain greedy decoding |
| Drafters, grammar, draft head (`engine/drafters.py`, `structured.py`, `models/mtp.py`, `models/cache.py`) | matcher and its watermark, recurrent rows, draft prefixes | propose, `sync`, `commit_verify`, `extend` | four pieces of state advanced by three kinds of step | each stands for exactly the committed tokens |
| Engine worker (`api/runtime.py`) | inbox, `_pending`, a queue per request, `terminal` and `_closed` flags | `submit`, `stream`, `encode`, `close`; `_run`, `_intake`, `_coalesce_idle_start`, `_dispatch`, `_cancel` | threads interleave at every shared access; consumers leave; the engine may raise | every token once and in order, then one Done; nobody waits for ever |
| Batch API (`api/batches.py`) | file store, batch records | `create_file`, `create_batch`, `_drain_jobs`, downloads | many waits on one executor; FIFO eviction; one line failing | output line per input line, calls end |
| CUDA graphs, staging (`engine/cuda_graph.py`, `engine/staging.py`) | graphs per bucket, static buffers, scratch slots | capture, refresh, replay, fallback | stale buffers, padded rows, scratch slots against the pool, streams without an order | pads touch scratch only, every sequence finds its own K/V and state, layers run in order |
| Diffusion decoding (`engine/decode_strategy.py`) | a span of masked tokens | one denoising loop | divisions that spread the span over the steps | no mask left, no empty forward, nothing by chance |
| Pipeline parallelism (`dist/pipeline.py`) | per-stage caches and graphs, boundary tensors | prefill, micro-batched and graphed decode, cut into stages | the scheduler knows the first stage's cache only | pools whole, each sequence computed from its own context, every request finished |
| Codecs and routes (`dist/entropy.py`, `dist/codec_quality.py`, `dist/peer_routes.py`, ...) | a coder's state, a route cache | choose a scheme and a route, encode, copy, decode | boundaries, rounding, peers that corrupt | the receiver gets what was sent |
| Planner (`scheduling.py`) | none | `plan_parallelism`, validate, estimate | boundaries, ties | no better layout was skipped |
| HTTP application (`api/app.py`, `request_helpers.py`, `reasoning.py`, `../tool_calls.py`, ...) | a request's deltas | validate, stream, split, finish | markers and characters cut by token boundaries | the stream adds up to the message |
| MoE and its transport (`models/moe.py`, `models/moe_transport.py`) | staging buffers, expert placement | route, group, run, combine | row bookkeeping over devices, stale rows | each expert answers each of its tokens once |
| Layers (`layers/`) | paged store, convolution tails and recurrent states, penalty history | dense, chunked and packed prefill, decode, verify; sample | six computations of a cell's address; filters with one bound for all rows | the same result by every path, next to whatever other rows |
| Contiguous caches (`models/cache.py`, `models/runner.py`) | one length for all rows | allocate, append, reset | rows that come and go | a row sees its own history |
| Metrics (`metrics.py`) | gauges, counters, windows, deques | record, snapshot | a snapshot between any two records | counts and rates agree with what happened |
| Weights (`convert.py`, `gguf_import.py`, `gguf_native.py`, `loader.py`, `models/weights.py`) | shards on disk, the output file, a state dict | rename, split, dequantize, quantize, write, delete; import; merge, take, build | names that change between a tensor and its scale, rows under another scheme than the one they are read by, a source deleted while it is converted | every parameter decodes to its own rows, once, in order, with its own value |
| Multimodal, training | tensors and files | load, train | arithmetic and I/O | not modelled |

How they interact. A handler thread calls `EngineWorker.submit`, which puts an
item into the worker's inbox; the worker thread drains the inbox into the engine
(`add_request`, `encode`, `cancel`), calls `engine.step()` while anything is
pending, and copies new tokens from each sequence's `output_ids` into the
request's queue, which the handler reads. `step()` calls `Scheduler.schedule`,
which allocates slots, looks prompts up in the prefix cache and may preempt; the
model runner then makes room (`ensure_capacity`), writes K/V, and appends
tokens; `store_prefix` and `postprocess` end the step. The batch API sits on
`EngineWorker.submit` and waits on the same thread executor as live streams do.

`PROJECT.json` lists every hazard of this code that we know of, at its line,
with the properties that cover it or the reason why none does.

## 2. The modules

    PagedKVCache <-- PagedKVCacheClient <-- MCPagedKVCacheClient
         |
      LLMEngine  --implements-->  EngineContract
                                       ^ (built on)
                                  EngineWorker  --implements-->  StreamContract
                                       ^ (StreamEnds is the fairness
                                       :  Batches assumes of its worker)
                                    Batches
      SpecDecode     (one step of LLMEngine's decode, opened up)
      GraphedRunner  (the same runner's execution paths, with its graphs)
      Pipeline       (the engine over several devices)

      KVEviction (extends PagedKVCacheClient), ChatStream, LayerStreams, Experts,
      RecurrentLayers, WireCodec, Parallelism, Denoiser, RunnerCaches, Attention,
      Sampling, Telemetry, StageSplit, Checkpoints: parts that share no state;
      MCUnits runs each of them alone

The proofs are beside what they are about (section 4):

    PagedKVCacheProofs  <--  PagedKVCacheClientProofs  (the client's, KVEviction's, RunnerCaches')
         ^
    LLMEngineProofs  (the engine's and Denoiser's)
         |
         v
    QueueLemmas  <--  SpecDecodeProofs, EngineWorkerProofs, BatchesProofs,
                      GraphedRunnerProofs

(an arrow points at the module that is extended)

The composition is by contract. `LLMEngine` uses `PagedKVCache` as it is and is
shown to implement `EngineContract`, the life of a request. `EngineWorker` is
built on `EngineContract` instead of the whole engine and is shown to implement
the safety half of `StreamContract`, what a handler is promised (`StreamsIntact`);
the other half, that Done arrives, holds until somebody calls `close()` and while
no step raises (`StreamEnds`). `Batches` assumes of the worker that it feeds
every line it was given.

**PagedKVCache** is the cache: variables and one operator per method, no
next-state relation of its own. The two Python free lists are bags
(`freeSlots`, `freeBlocks` count how often an element is in the list), so that a
double free is a count of two and not invisible; which element is popped is left
open. The radix trie is the function `entries` from the token prefixes that
carry an `_entry` to its blocks and timestamp. `data[b]` is what block `b`'s
tensors stand for: attention makes the K/V of a position a function of all the
tokens up to it, so a block stands for a token run. `ctx[s]` is the run slot
`s` is meant to see. `StorePrefix` includes the eviction it ends with; the
one-at-a-time eviction loop is written as its result, `Survivors`. Two identities
of the code are kept because they could go wrong: `dict.get(blk, 1)` (an absent
count reads as one, `CountOf`), and `ensure_capacity` keeps the blocks it popped
when it raises (`Popped`).

**PagedKVCacheClient** is the cache under any client that keeps its protocol
(a slot is used between `alloc` and `free`; capacity before a write; a stored
prompt is written). A write appends behind the slot's run (`ClientWrite`) or, as a
packed prefill does, lays down a whole prompt from position 0, the blocks shared with
others included (`ClientRewrite`, `kv_cache.py:1062-1067`). What it shows is owed to
the cache alone.

**LLMEngine** is `LLMEngine`, `Scheduler`, `Sequence` and the runner's calls on
the cache. One thread owns the engine; `pc` says where that thread is in
`step()` or `encode()`: `schedule` (one admission or preemption an action),
`ensure` and `write` (one sequence an action, one by one or, for decode and for
a packed prefill, all of `ensure` first), `store`, `post`. `add_request` and
`cancel` come only between calls, as the worker thread makes them. The token a
forward produces is any token. `raised` is the `RuntimeError` of
`ensure_capacity` leaving `step()`; out of `encode()` it is relayed to the caller
and the engine goes on (`RelayRaise`).

**EngineContract** and **StreamContract** are the two abstract specifications.

**EngineWorker** has one action for each access to shared state: test of
`_closed`, put into the inbox, get from a queue, set `terminal`, put Done, and so
on. The engine's `step()` is a run of `StepEmit` and `StepFinish` closed by
`StepReturn`, which is not taken before some live request has gained a token (a
step is a prefill or a decode of at least one sequence) and before requests that
have all their tokens are finished. A token is the number of its place in the
output, so loss, repetition and reordering are visible. `encode()` may finish
any live requests it swept into its batch, or raise after `schedule()` admitted some:
those are then `lost`, running in no list, so no step gives them a token, a cancel
finds nothing and their entry stays in `_pending`. Two simplifications make the engine
end sooner than it does: a request that `encode()` marked finished is over at once (in
the engine it may decode on for nobody), and `encode()`'s own request, which goes on
as a generation when its batch did not hold it, shows only as a step that gives no
live request a token. The entries `_dispatch` ended are
deleted one an action (`Forget`) before the worker goes on (`DispatchEnd`).

**SpecDecode** opens up the runner's decode: the gate, the bootstrap of the base
token, the drafters' proposals, the verify forward, acceptance, truncation and
the carry, with the KV cache, the recurrent state, the grammar matcher and the
draft head's prefix. The model is a fixed greedy continuation, `Greedy[r]`;
asked from any context but the right one (a stale position, a recurrent state or
matcher elsewhere) it may answer anything (`Pick`). So an output that is not
`Greedy[r]` is reachable as soon as any piece of state is wrong when used.

**Batches** is the file store and the batch calls as coroutines of one event
loop, with the executor's queue of waiters.

**GraphedRunner** is the runner's choice among its paths (eager, packed, chunked
and graphed prefill; graphed and eager decode; speculative verify) over memory
that is told apart by address. The K/V pool is a function from flat rows to
cells, a captured graph is a key with the rows its static buffers describe
(`bufs`), and a replay reads and writes what the buffers say, refreshed or not.
A cell is its owner's only if it was computed from the owner's intact context;
anything else is `Junk`, and so is whatever is computed from it. Warm-up and
capture write too, and take their scratch slot from the same pool as sequences.

**Pipeline** is `PipelineEngine`: one scheduler over stage 0's cache, every
stage's own blocks, tables, prefix entries, recurrent cache, scratch slot and graphs.
The scheduler looks up, shares and frees on stage 0; every stage grows its tables and
stores its prefixes, also those nobody will look up. `schedule()` is one operator:
admit, else preempt and try again, as often as the code does. A row carries the
request and position it was computed from, a cell whose it is, so a row handed to the
wrong stage, in the wrong order or computed from overwritten cells shows.
**StageSplit** is the cut of a model into stages: modules are nodes of a graph
that slices share until `_detach_shared_stage_modules` copies them; the threads
that move the slices interleave.

**KVEviction** adds `compact` and the policies' choices to the cache's own
actions. **LayerStreams** is the replay of per-layer graphs on two CUDA streams:
the host enqueues, `wait_stream` is an entry in a queue, operations of different
streams overlap. **RecurrentLayers** makes a state the sequence of inputs it
absorbed and a convolution's output the window it saw, so two results are equal
exactly when they were made from the same inputs. **Attention** is the same idea
for keys: a query records the runs of tokens behind the cells it read, by each
path's own address computation. **Sampling** has small whole-number scores and
compares the tokens a row may draw with those its own parameters ask for.
**RunnerCaches** is the contiguous and the latent cache under their two clients.
**Experts** keeps each contribution to a sum (token, expert, row, weight).
**WireCodec** is one transfer: scheme, rANS coder with its widths as constants,
route, copy, decode. **ChatStream** is the chat handler from validation to the
last chunk; a text is a sequence of pieces, so that a marker or a character cut
in two by a token boundary is a sequence of its halves. **Denoiser**,
**Parallelism** and **Telemetry** are the diffusion loop, the planner against a
reference enumeration, and the collector with a snapshot between any two records.

**Checkpoints** is the way of the weights: a checkpoint is converted shard by
shard (`ConvertShard`, and `ShardRaises` with its `finally`), finalized and loaded,
or a GGUF file is imported or loaded as it is; then the builder takes its
parameters out of the state dict one by one. A tensor is a sequence of rows that
know which row of the model they are, what was done to their value and which
scheme their bytes are in, so that a lost scale, a swapped half, a gain with one
added too often or a merge of two schemes is visible in the parameter.

**MCUnits** puts these fourteen into one instance: a behaviour is a behaviour of
one of them while the others keep their initial state, so the state space is the
sum of theirs and not the product.

`PROJECT.json` "map" gives for each definition the lines it stands for. Operators
commented "Mutant:" are not part of the model: each is a plausible bug that makes
the property it is listed with fail.

## 3. The runs

Bounds are in the cfg files; every bound on a counter is a named constant.

| Run | Properties | Instance and why it is enough |
|---|---|---|
| `KVCache` | `KVInv` (counts exact, no block lost or freed twice, pins exact: the invariant of section 4), `BudgetHolds`, `CacheIntact` (slots and entries read their own run of tokens), `SharedKeepContents` (a block that others read holds the same after every step), `EvictionIsLRU`, whatever the client, packed prefills over shared blocks included | 2 slots, 4 blocks of 2, budget 2, 5 ticks of the LRU clock, prompts that nest, diverge and end inside a block: sharing by two slots and two entries at once, eviction of one of two overlapping entries and a dry pool all occur. 45,743 states. |
| `EngineShared` | `EngineInv` (types, the cache intact under the real engine, one owner a slot), `ContextIsOwn`, `FirstAdmissionFIFO`, `ImplementsContract` | 3 requests on 2 slots and 2 blocks of 5, so one always waits and a running one is preempted, twice too; prompts that fill a block, extend one another or fill none; packed prefill. 1,520,917 states. |
| `EngineEncode` | `PathsSafe` (counts exact, no block lost, cap), on the error paths too | one `encode()` between two generations, 3 blocks, so that `ensure_capacity` does raise. 26,692 states. |
| `EnginePressure` | `PreemptionAdmits`, `EveryRequestServed` | 2 slots on 2 blocks: no two requests of more than a block fit together; 2 generations and an `encode()` that sweeps up whom it meets and may raise. 113,387 states, liveness, no symmetry. |
| `WorkerSafety` | `WorkerInv` (nothing runs without a reader, nothing is lost, a stopped worker leaves nothing), `StreamsIntact` (every token once, in order, then Done) | 2 handlers, an `encode()` caller, `close()`, a step and an `encode()` that may raise, 2 tokens each, coalescing. 604,385 states. |
| `WorkerLiveness` | `CallersServed` (until `close()`, or an `encode()` that failed, each stream gets Done; until `close()` each `encode()` its vector or error), `AbandonedIsCancelled` (of all that a failed `encode()` left in a list), `CloseStops` (unless one failed) | the same threads, 1 token each, no step that raises. 199,501 states. |
| `SpecGreedy` | `SpecInv` (K/V, recurrent state, matcher and draft prefix stand for the committed tokens), `OutputIsGreedy`, `RaisesOnlyNearEnd` | 2 requests, drafts of any tokens up to 2 long, budgets and an end-of-sequence token that fall inside an accepted run, one preemption, cancellation; a table one position longer than the window, so that the widest verify forward outgrows it and narrower ones do not. 137,666 states. |
| `Batches` | `BatchSafe` (answers its input line by line, from finished generations, readable as long as promised), `BatchEnds` | 2 calls and a stream on one executor thread (the smallest pool is the worst), a store of 2 files, 3 uploads and outputs more than it holds. 88,484 states. |
| `Graphs` | `GraphInv` (pads touch scratch slots only, no slot or block is missing at full load), `ContextsIntact` (K/V and recurrent rows are their owner's) | 3 requests on 3 slots, blocks of 2, 3 blocks a sequence; four deployments: per-layer graphs with prompts that fill their bucket, with chunks of 1 and `encode()`, with speculative verifies, and without per-layer graphs. Batches of 1 to 3 against a bucket of 2: padded, full and too large. 2 captures at most, so that the cap on graphs is met. 90,991 states. |
| `Pipeline` | `PipeSafe` (each stage's pool whole, sequences outside a later stage's scratch slot computed from their own context, only the first stage runs out of blocks and only when its pool or pins explain it, a preemption is never in vain), `EveryRequestServed` (unless a step raises) | 3 requests, 2 stages, blocks of 2, packed prefills of two prompts, micro-batches of 1 and 2; six deployments: eager stages with prompts that share a block; the same with a first pool of half the blocks (preemption, also twice in one call of `schedule()` because the first victim's block is pinned; a step that raises); 2 slots with a full pool that pinned prefixes leave short; graphed stages with a spare slot; a recurrent model with one caller; and stages without the codec's name. 35,154 states. |
| `Units` | one property for each part, below | 105,083 states in all. |

The parts of `Units`, their property and their bounds:

| Part | Property | Instance |
|---|---|---|
| `KVEviction` | `EvictionIsSafe`: an eviction loses no block and no kept token | 2 slots, 4 blocks of 2, every policy, budgets 2 and 3 |
| `ChatStream` | `StreamedIsWhole`: the deltas add up to the message of the same tokens without streaming | 4 tokens of every sequence of pieces, three parsers, text, chat, tools and forced calls, prompts that leave room, one token, none |
| `LayerStreams` | `LayersInOrder` | 1 to 4 layers (both parities of the two streams), 3 steps |
| `Experts` | `EveryExpertOnce` | 4 experts on 2 devices, 2 a token, groups, 2 tokens, 2 calls (the second meets the first one's staged rows) |
| `RecurrentLayers` | `CutsDoNotShow`: tails, states and outputs are those of one pass, however the text was cut | kernel 3, texts of 3, chunks of 1 to 3, verify of 2, 2 slots and a second holder |
| `WireCodec` | `WireLossless` | 3 codes, 3-bit frequencies, a 7-bit state: rounding up, rounding to zero and both corrections occur; 3 devices, a pair that corrupts |
| `Parallelism` | `PlanIsBest` | up to 8 layers, up to 8 experts, 12 fleet sizes up to 16 |
| `Denoiser` | `DenoisedOnce` | spans of 0 to 6 by 0 to 4 steps: shorter, equal, longer, no divisor |
| `RunnerCaches` | `RowsSeeHistory` | 2 rows of 4, prompts of 1 to 3, 4 requests |
| `Attention` | `AttendsOwnPast` | 2 slots, 3 pages of 2, full and window-1 layers in both stream types, chunks of 2, a draft of 2, 3 requests (pages are reused) |
| `Sampling` | `RowsSampleAlone` | 2 rows, 3 tokens, greedy, top-k, top-p, penalty and grammar rows mixed, preemption |
| `Telemetry` | `ReportIsTrue` | 2 requests of 1 or 3 tokens, a window of 1 tick, a deque of 1 |
| `StageSplit` | `StagesApart` | 1 to 5 layers on 1 to 3 devices, four ways to hold RoPE tables |
| `Checkpoints` | `CheckpointIntact`: every parameter decodes to its own rows, with their value unless it is one of the misread ones it names; no builder misses a weight, and a source it cannot build is refused, not served; a converter that deletes its source has written what it deleted, the one shard that raised and an FP8 source's bare scales apart | 2 experts, 1 key row, 2 value rows; two shards split every way; 8 and 4 bits over odd, short and grouped widths; FP8 block and MX scales; text and VLM names, fused and separate projections; four GGUF types in every menu, native k-quants or none, imports and native loads, with experts, hybrid layers and gates apart |

A property whose name ends in `Inv`, `Safe` or `Intact` is the conjunction of the
named parts above its definition; each part can be checked alone.

Deadlock checking is off except for `SpecDecode` because these systems may
rightly stop: everyone has finished, the counters have reached their bound, or
the worker has stopped. `SpecDecode` has an explicit `Done` and is checked for
deadlock.

Fairness, and why the code justifies it. `LLMEngine`: weak fairness of the
engine's thread (`EngineStep`): the worker calls `step()` as long as anything is
pending; new requests and cancellations are not fair. `EngineWorker`: weak
fairness of the worker thread, of each handler that is reading or cancelling, of
a close that has begun and of an `encode()` caller past its test; strong fairness
of `~ Failed /\ StepEmit(r)`: as long as no `encode()` failed the engine gives each
live request its next token in some later step, which is what `EveryRequestServed`
shows of the engine on the run `EnginePressure`, whose requests meet an `encode()` and
which has the same exception. Of a request that a failed `encode()` lost nothing is
assumed. A consumer may abandon its stream or not, so nothing is assumed
of `Abandon`. `Batches`: the event loop runs what is ready, a thread of the
executor returns when its item is there, and the worker feeds every submitted
line (`StreamEnds`). `Pipeline`: `generate()` calls `step()` as long as the
scheduler has work and no step raised (`StepFairness`); new requests are not fair. The other
modules state safety only: their code runs to the end of a call or waits for
nobody.

## 4. The proofs

Every theorem holds for all values of its module's constants that satisfy the
module's named assumption (`SizesAssumption`, `ClientAssumption`,
`EngineAssumption`, ...), which say what the code's configuration says and no
more; where a result needs a hypothesis besides, the theorem states it and it is
named below. Each invariant was
checked by TLC before it was proved.

**The cache** (`PagedKVCacheProofs`, `PagedKVCacheClientProofs`), for any finite sets of slots and blocks, any token
set, block size, budget, set of prompts and bound on the clock:

* `CacheInvariant`: `KVSpec => []KVInv`, and of its parts `CacheTypeCorrect`,
  `CacheRefcountsExact` (a block's count is the number of tables and entries that
  hold it), `CachePoolConserved` (a block is in the free list, once, exactly when
  nothing holds it), `CachePinsExact` (the pin counts agree with the entries)
* `CacheContentsIntact`: every slot and every entry reads its own run of tokens
* `CacheKeepsShared`: no step of any client changes a block that somebody else
  reads; a packed prefill does write such blocks, with what they hold already
* `CacheBudgetHolds`: the entries never pin more distinct blocks than the budget
* `CacheEvictionIsLRU`: no eviction drops what was used later than what it keeps
* `EvictionKeepsAll`: with `~ EvictShared` and `~ EvictWithinBlock`,
  `EvictSpec /\ [][~ CompactLoses]_evictVars => []EvictionIsSafe`; compacting
  slots after their prefill loses no block and no kept token
* `RowsReadBack`: `CachesSpec => []RowsSeeHistory`, without a hypothesis; in the
  contiguous store of `models/cache.py`, whose one length all rows share and which is
  set back to 0 between batches (`RunnerCaches`), a row is handed its own request's
  whole history and nothing of the batch before

No part of `KVInv` is inductive alone. `free` and eviction decide by the count
whether a block goes back to the pool, so `PoolConserved` needs `RefcountsExact`
and the reverse: a block popped by `ensure_capacity` must be known to be held by
nobody. `alloc` hands out a table that must be empty (`FreeSlotsEmpty`), an entry's
blocks are a prefix of the table only because the table covers what was written
(`ContextsCovered`), and a shared table is as long as the prefix it stands for
because entries are block-aligned (`EntriesAligned`). The argument has one lemma
per action, each with a step per conjunct. Those about a method are stated of the
method's effect on the counts (`CountsInv`), without the client, so that the
engine's proofs use them as they are. The long one is `store_prefix`'s: it splits
the entries that pin a block into those that were there, those added and those
evicted (`SplitCount`), so that adding and removing references in one step leaves
the counts equal to the cardinalities.

That the contents stay intact needs `CacheInv == KVInv /\ CacheIntact`: a block may
be overwritten because a count of one with the writer's table in it leaves no
other holder (`SoleHolder`), a table names no block twice (`BlocksDistinct`), and
what a slot writes anew lies beyond everything it shares (`TailsPrivate`). A packed
prefill also rewrites the blocks it shares, from its first position on; an entry or
table that shares them stands for the same run of tokens so far, so the rewrite
stores what is there (`CacheKeepsShared`).
The budget and the order are separate. The eviction loop leaves the entries that
fit together with everything not older than themselves; that the *set* of
survivors fits is `SurvivorsFit`: the oldest survivor (`OldestExists`) alone bounds
all of them.

Prompt-time eviction breaks `CacheInv`: `compact` gives its new blocks no count,
and a slot that only goes on from a shorter run finds more in its last block than
it reads. The proof sees such a cache as another one: `K` is `PagedKVCacheProofs`
with the counts as `CountOf` reads them (`Counted`) in place of `refs`, and what
readers see of a block (`Seen`) in place of `data`. `EvictInv` says that `K` has
`CacheInv`, that no entry pins a block without a count (`Unpinned`), that a
shortened slot shares nothing (`EvictedAlone`) and that its blocks hold the run it
goes on from (`EvictedRead`). Each method called on the real cache is then the
same method called on `K` (`AdmitCounted`, `GrowCounted`, `WriteCounted`,
`StoreCounted`, `FreeCounted`), so the lemmas about the methods are used through
`K` as they are; only `compact` is no method of `K` and is proved by hand
(`ShortensInv`). The three hypotheses are the three `Units.cfg` rows of section 5
about eviction: a slot that shares blocks, a shorter run that `compact` did not
move, and a pool that runs dry after blocks were popped. Where `compact` raises
with the pool already empty nothing is lost, and the theorem covers it.

`RowsSeeHistory` speaks of one read and is not inductive: the store has one length
for all rows, and what lies behind it belongs to the batches before. `CachesInv`
says that, with `ModelRunner` as the client, every row has as many tokens as that
length and holds its own request up to it (`RowHolds`). A prefill starts the length
anew and fills every row from its start, and a decode writes every row at the length
before any is read, so nothing older is ever inside the part that is handed out.

**The engine** (`LLMEngineProofs`, with `QueueLemmas` about lists and deques), for any number of requests, prompts, slots, blocks and caps:

* `EngineHeld`: `Spec => []HeldInv`, and from it `EngineAdmissionCap` and
  `EnginePathsSafe`: whatever `encode()` and raising steps do, no block is lost, no
  reference miscounted, no cap exceeded
* `EngineServes`: `EngineInv`, the cache intact under the real engine and one owner
  a slot
* `EngineFIFO`: `FirstAdmissionFIFO`
* `EngineKeepsContract`: `ImplementsContract`; every step of the engine is a step
  of `EngineContract` or a stutter of it
* `EnginePreemptionAdmits`: `PreemptionAdmits`; nobody is preempted for nothing

`HeldInv` ties the thread's place (`pc`, `todo`, `batch`) to the lists: `ControlOK`
says what each place guarantees, `QueuesApart` that nobody is in two lists,
`HeldSlots` that owners hold different slots that are taken, `RoomMade` that a
sequence written next has had its blocks ensured, `FreshBatch` that a batch being
prefilled has no outputs that the write would not cover. It holds with every
behaviour of `encode()`. `ServedInv == CacheInv /\ QueuesServed /\ ContextsOwn /\
OutputsOK` does not: an `encode()` that sweeps generation requests into its batch
leaves them running with length 0, and the cache under them is no longer intact
(section 5). So `EngineServes`, `EngineFIFO`, `EngineKeepsContract` and
`EnginePreemptionAdmits` assume `Embeds = {}`: a server that nobody asks for
embeddings, which is how `EngineShared` is run. (`EnginePressure` has an `encode()`,
and TLC finds `PreemptionAdmits` kept there too.)
`EnginePreemptionAdmits` also assumes `MaxPrefixBlocks < Cardinality(Blocks)`, which
the default budget, half the pool, satisfies as soon as there are two blocks
(`kv_cache.py:452`, `546-547`): a
prefix cache that may pin everything leaves a preemption nothing to free. Its
invariant adds what a victim gives back (`VacatedOK`) to `BudgetHolds`.

The last part of the module is about a strategy that replaces decoding,
`Denoiser`, for any span, number of steps and order in which positions are
unmasked:

* `SpanDenoised`: `DenoiseSpec => []DenoisedOnce`, without a hypothesis; each
  position of the span is decided once, no forward is spent on nothing, and the
  last step leaves no mask

That nothing is left rests on division: with `Open` positions masked and `Left`
steps to go a step unmasks `Open \div Left`, at least one. `SpreadBy(q)`
bounds `Open` by `q * Left` and `(q + 1) * Left` and says that every forward so far
decided `q` or `q + 1` positions; that a step keeps it is arithmetic
(`PortionFacts`).

**The worker** (`EngineWorkerProofs`), for any number of handlers, `encode()` callers,
budgets and coalescing targets:

* `WorkerServes`: `SafeSpec => []WorkerInv`, and `FairWorkerServes` the same of `Spec`
* `WorkerKeepsStreams`: `StreamsIntact`, the refinement of `StreamContract`'s safety

Their invariant is `ServiceInv`. `InboxOK` says which handlers may have an item in the
inbox, `PendingOK` that a live request of the engine is in `_pending`, `VisitsOK` how
far `_dispatch` has come in its list (a request whose `terminal` flag is set is the
one being visited, or is among those to delete), and `LogsOK` that what a handler
has read followed by what its queue holds is 1, 2, ..., `sent`, and then Done once
it was put: a statement about three variables that the handler, `_dispatch` and
`close` change at different times.

**The batch API** (`BatchesProofs`), for any calls, uploads, lines, live streams,
executor threads and store size:

* `BatchesSafe`: `Spec => []BatchSafe`

`BatchInv` says that the store is the end of the sequence of everything ever put
(`KeptOfKept`: dropping the oldest at each put comes to the same), that the output so
far is the answer to the lines so far, and that what a call has read belongs to the
line it is at (`ReadsOK`): without the last, a line could be answered from the items
of the line before, because one counter is reused. A file stays readable because
its place in the sequence is counted by the files put after it (`KeptWhileNew`).

**Speculative decoding** (`SpecDecodeProofs`), for any requests, slots, vocabulary,
greedy continuations, budgets, block tables, draft lengths and drafts, with
recurrent layers and grammars or without:

* `SpeculationInvisible`: `OutputIsGreedy`; whatever the drafters propose, a
  request is told what plain greedy decoding would tell it
* `SpecState`: `SpecInv`; between two steps no rejected draft is left in the K/V, the
  recurrent state, the matcher or the draft head's prefix
* `RaisesNearTableEnd`: `RaisesOnlyNearEnd`
* `RowsInStep`: the inductive invariant `InStep` they follow from

`OutputIsGreedy` alone says nothing of what the next forward will read. `InStep` says
of every row how far each of its parts has come along `Greedy[r]`: its K/V and its
recurrent state agree with its outputs through `Reached(r)`, which is one position
further while a base token is carried; the carried token is the one `Greedy[r]` says
next; the matcher of a structured request stands where its watermark says
(`StateOK`). `StepOK` says what each phase of a step may rely on: in the base forward
exactly the rows to come carry nothing, at the verify forward every row to come
carries a token and its matcher has caught up (`Caught`). The step that matters is
the accept loop: by the least position at which it would fail, each accepted draft
is what `Greedy[r]` says there, because the truth it was compared with was computed
from K/V, a recurrent state and a matcher that were right up to it (`TruthRight`,
`AcceptedRight`); truncation keeps a start of it (`EmitRight`); and what was written
of the rejected rest lies beyond the new length (`Overwritten`), where nothing
reads it. A row that has ended is excused from `StateOK`: its truncated step commits
less than it wrote, and its slot is given back before anybody reads it.

The theorems assume `Granted`: the gate does not close over a carried base token
(`CloseWithCarry = FALSE`), budgets end within the window, and no structured request
is preempted; `SpecState` also assumes that every prefill primes the draft head
(`Unprimed = FALSE`). Section 5 shows each of the four to be needed. The module's
own assumptions say that `Greedy[r]` is as long as the budget, and that what the
masked model says of a structured request is legal until it ends
(`GrammarAssumption`): a mask admits legal tokens only.

**The graphed runner** (`GraphedRunnerProofs`), for any number of requests, any
buckets, block size, window and cap, and any set of deployments:

* `RunnerIsSafe`: `AllFit => (GraphSpec => []GraphInv)`; no path hands a slot or a
  block to two holders, pads touch scratch slots only, and the slots that
  `_extra_slots` adds for the graph objects are always enough
* `ContextsKept`: `AllFit /\ AllOneWay => (GraphSpec => []ContextsIntact)`; between
  two calls every running sequence reads its own tokens through its table,
  whichever paths wrote them

`GraphInv` is about the pool and not inductive: that nobody starves has to be
counted. `RunnerInv` says that the free list, the scratch slots and the running
sequences' slots share nothing and leave nothing out (`SlotsApart`), the same of
blocks and tables (`BlocksApart`), and which of the three graph objects may hold
a scratch slot (`ObjectsInv`). From those two partitions follow the two counting
arguments: while a table is shorter than its row a block is free (`BlockLeft`,
because the pool is `NumSlots * BlocksPerSeq`), and an object that asks for its
scratch slot finds one, because fewer than `MaxSeqs` sequences and at most
`ExtraSlots - 1` other objects hold theirs (`SlotLeft`). `AllFit` is what the
settings must grant: no prompt is longer than the window (`add_request` rejects
it, `llm_engine.py:187`), its bucket lies in the window, and where per-layer
graphs are off only one graph object asks for a scratch slot. Without the last,
`NeverStarved` is violated (section 5, `MCStepGraph`).

`ContextsIntact` needs to know what every write left alone. `ContextInv` adds to
`RunnerInv` that memory holds one cell for each position of each block (`MemoryOf`),
that each sequence's cells hold its tokens (`Holds`), that a graph's buffers have the
shape they were captured with (`BufsInv`), and that a prefill graph's static page
is the table it was last bound to (`PagesInv`): a replay writes through that page
and not through the table of the slot it prefills. The lemmas beneath say where a
forward writes: two positions of one table never share a cell (`FlatApart`), what lies
under one sequence's positions is not under another's (`RowsApart`), a forward computes
what its rows may see and leaves the rest (`ForwardKeeps`, `ForwardComputes`), and a
pad row reaches only its object's scratch blocks (`PadsKeep`, `ReplayComputes`).
`AllOneWay` is needed as well: a deployment either keeps its prompts off the
prefill graphs, or has no `encode()` and prompts that fill one bucket. The rows
`MCPadded`, `MCStalePage`, `MCEncodePage` and `MCTwoBuckets` of section 5 show that
outside of it the code does not keep `KVIntact`; TLC finds `AllOneWay` true of every
deployment of `Graphs.cfg`.

**The layer streams** (`GraphedRunnerProofs`, its last part), for any number of
layers and of steps:

* `ReplayInOrder`: `StreamsSpec => []LayersInOrder`, without a hypothesis; however
  the streams interleave, each layer reads what the layer before it wrote in this
  step, and the norm reads the last one's

Only the events that `wait_stream` waits for order the three streams, and an event
is a count of what a stream has ended since it was made. The invariant
(`StreamsSafe`) therefore says exactly what still stands in the queues: the k-th
operation left on a side stream is the k-th layer of that stream's remaining share,
and waits for as many ends of the other stream as put it one layer behind
(`LayerOp`). From that follow the facts about time: the stream of the odd layers is
ahead by no layer or by one, only the stream whose turn it is can have an operation
under way (`SideInv`), the buffers of all layers that ended hold this step
(`MadeSoFar`), and the norm starts only when its side stream is empty (`TwoStreams`).
With one layer there is a single stream and the same is plain order (`OneStream`).

What stays with TLC. All liveness properties (`EveryRequestServed`, `CallersServed`,
`AbandonedIsCancelled`, `CloseStops`, `BatchEnds`): fairness is ENABLED, which TLAPS
does not handle. `ContextIsOwn`: it says what a running sequence attends to after
any number of preemptions, the repeated folding of section 5 included, and is
checked with requests that are preempted twice, not proved. `PipeSafe`, and of the
properties of `Units` all but `EvictionIsSafe`, `LayersInOrder`, `RowsSeeHistory`
and `DenoisedOnce`: not proved (section 7).

## 5. What the code does not keep

The run `EngineEncodeAnswer` checks a sentence that the repository says of itself
and that the code does not keep: `encode()` returns the vector of the first
sequence of whatever batch `schedule()` builds (`llm_engine.py:279`), while
`runtime.py:163` promises the embedding of the prompt it was given.

The same modules show more, each with a small change of a listed configuration:
write the property in place of the configuration's own, apply the change, and
TLC reports it violated. Most explain a restriction of a passing run. (The
definitions named `MC...` are in the configuration's MC module.)

| Configuration, changed by | Property | What happens |
|---|---|---|
| `EnginePressure.cfg` | `PreemptedPromptIsWhole` | `_preempt_one` folds the outputs into `prompt_ids` without emptying `output_ids`; at a second preemption the first outputs enter the prompt twice (`scheduler.py:95`). |
| `EnginePressure.cfg`: `MaxLen = 6` | `LengthMeansWindow` | after a preemption the window check (`sequence.py:112`) counts the folded outputs twice and finishes the request with "length" too early. |
| `EngineShared.cfg`: `Blocks <- MCBlocks4`, `MaxPrefixBlocks = 2`, `Prompts <- MCPromptsBlock3`, `PerRequest = 4`, `BlockSize = 3`, `MaxLen = 6`, `SYMMETRY MCSymmetry24` | `DefaultPoolNeverStarves` | blocks pinned by the prefix cache come out of a pool sized for the slots alone (`kv_cache.py:479-482`): a free slot, no free block. |
| `EngineEncode.cfg`: `Slots <- MCSlots2`, `Blocks <- MCBlocks4`, `MaxPrefixBlocks = 2`, `Embeds = {1}`, `MaxBatchTokens = 5`, `SYMMETRY MCSymmetry24` | `EntriesIntact` | `encode()` leaves generation requests of its batch running with length 0; the decode that follows writes into a block a prefix entry shares (`llm_engine.py:276`). |
| `WorkerLiveness.cfg`: `StepMayRaise = TRUE`, `CanClose = FALSE` | `StreamsServed` | a `RuntimeError` out of `step()` ends the worker thread; every open stream waits for ever (`runtime.py:236`). |
| `WorkerLiveness.cfg` | `EncodeAnswered` | `encode()` tests `_closed`, `close()` posts the sentinel, `encode()` queues behind it (`runtime.py:171`); nobody answers. A stream submitted in that window waits likewise. |
| `WorkerLiveness.cfg`: `CanClose = FALSE` | `StreamsServed` | `engine.encode()` raises after `schedule()` took other requests out of the waiting list (`llm_engine.py:269-273`); the worker catches it (`runtime.py:280-283`) and goes on, with those requests in neither of the scheduler's lists: no step finds them, and their streams wait for ever. |
| `WorkerLiveness.cfg` | `AbandonedIsFreed` | the cancellation of such a request finds it in no list and returns False (`scheduler.py:63-80`): its slot stays taken. |
| `WorkerLiveness.cfg` | `ThreadStops` | with such a request `_pending` never empties, so a worker told to stop goes on calling `step()` for ever. |
| `SpecGreedy.cfg`: `CloseWithCarry = TRUE` | `OutputIsGreedy` | a step on which the gate is closed leaves the carried base token as it is; the next speculative step emits it again (`model_runner.py:639`). |
| `SpecGreedy.cfg`: `MaxTokens <- LongBudgetDef`, `Window = 4`, `TableLen = 8`, `Constrained = {}` | `OutputIsGreedy` | truncation knows the budget and the end-of-sequence token, not the window (`model_runner.py:865`). |
| `SpecGreedy.cfg`: `TableLen = 5` | `NeverRaises` | the verify forward asks for positions that truncation will drop; near the end of a full window it raises (`model_runner.py:721`). |
| `SpecGreedy.cfg`: `Preemptible = {r1}` | `MatcherInSync` | a re-admitted structured request's matcher accepts its earlier outputs a second time (`structured.py:131`). |
| `SpecGreedy.cfg`: `Unprimed = TRUE` | `MtpAuthoritative` | the chunked and graphed prefill paths neither prime nor clear the slot's draft prefix (`model_runner.py:336`); outputs are still right, verification decides. |
| `BatchesAll.cfg` | `NoLineSinksBatch` | a forced tool call cut short by `max_tokens` makes `json.loads` raise outside any `try` (`batches.py:234`): the whole batch fails. |
| `Graphs.cfg`: `Deployments <- MCPadded` | `KVIntact` | a prompt shorter than its prefill bucket: the replay's pads carry position 0 and map to the row of the prompt's first token, so either may win, although `cuda_graph.py:1334-1335` says that they are harmless. |
| `Pipeline.cfg`: `Deployments <- MCGraphed2` | `MatchesSingleGpu` | a later stage's graphs take as scratch a slot that the scheduler, which knows stage 0's cache only, hands out (`pipeline.py:603`); `tests/test_pipeline.py` compares the outputs with a single GPU's. |
| `Pipeline.cfg`: `Deployments <- MCRecurrent` | `MatchesSingleGpu` | a prefill resets a stage's whole recurrent cache, the rows of running sequences included (`pipeline.py:940`). |
| `Graphs.cfg`: `MaxSeqs = 2`, `Deployments <- MCStalePage` | `KVIntact` | a chunked prefill after a graphed one writes through the static page the graph was last bound to: its second block is not the slot's own. |
| `Graphs.cfg`: `MaxSeqs = 2`, `Deployments <- MCEncodePage` | `KVIntact` | `encode()` after a graphed prefill writes its prompt through that page too, into a running sequence's block. |
| `Graphs.cfg`: `MaxSeqs = 2`, `Deployments <- MCTwoBuckets`, `PrefillBuckets = {2, 4}` | `KVIntact` | the capture for a second bucket replaces the static page; the first bucket's graph goes on writing through the one it was captured with, which nobody refreshes. |
| `Graphs.cfg` | `FallsBackToEager` | without per-layer graphs, or once their number is at its cap, decode takes the whole-step graph, whose record reads `out_idx`, no parameter of its constructor (`cuda_graph.py:136`): the first capture raises `NameError`, though decode is said to fall back (`model_runner.py:167`). |
| `Graphs.cfg`: `MaxSeqs = 2`, `Deployments <- MCStepGraph` | `NeverStarved` | without per-layer graphs there is one spare slot, which the prefill graph has taken when the whole-step graph wants its own. |
| `Pipeline.cfg`: `Deployments <- MCGraphed`, `BatchBuckets = {4}` | `StagesNeverStarve` | every slot is taken by sequences when a stage's graph wants its scratch slot. |
| `Pipeline.cfg`: `Deployments <- MCSmallPools` | `StagesNeverStarve` | with pools smaller than the slots' tables a decode that needs a block raises: preemption comes with admission only. |
| `Pipeline.cfg`: `Deployments <- MCFullPools` | `StagesNeverStarve` | blocks that prefix entries pin come out of a pool sized for the slots alone (`kv_cache.py:479-482`): a decode that needs a block raises. |
| `Pipeline.cfg`: `Deployments <- MCNoCodec` | `StagesNeverStarve` | `send` reads the name `fni8` (`dist/__init__.py:189`, `300`; `codec_quality.py:49-50` reads it before), which the package binds in no configuration: no row passes a stage boundary. |
| `Pipeline.cfg`: `Deployments <- MCNoWindow` | `StagesNeverStarve` | the pipeline gives its sequences no window: one that outgrows its block table is decoded all the same, and the table does not fit. |
| `Pipeline.cfg`: `Deployments <- MCGraphed2`, `MaxGraphs = 0` | `EveryRequestServed` | a graphed decode that finds no graph skips the step without a token and `generate()` tries again, for ever. |
| `Units.cfg`: `EvictShared = TRUE` | `EvictionConserves` | `compact` returns a slot's old blocks to the pool whatever their reference count (`kv_cache.py:299`, against `kv_cache.py:710-711`). |
| `Units.cfg`: `BlockSize = 1`, `KVBudgets = {2}` | `EvictionConserves` | `compact` raises when the pool runs dry and loses the blocks it popped (`kv_cache.py:244`). |
| `Units.cfg`: `EvictWithinBlock = TRUE` | `EvictionIntact` | when no block would become free, `compact` leaves the slot as it is but the caller goes on from the shorter context. |
| `Units.cfg`: `LateThinking = TRUE` | `StreamedIsWhole` | a closing marker without an opening one: what was streamed as content belongs to the reasoning of the whole message (`reasoning.py:48-49`). |
| `Units.cfg`: `Halves = {"head", "tail"}` | `StreamedIsWhole` | half a character is sent as U+FFFD, and its other half never corrects it. |
| `Units.cfg`: `UsedBy = {"engine"}` | `EngineSeesHistory` | the engine never moves the latent cache's one length: a decode writes at position 0 and attends to its newest token alone (`models/cache.py:398-424`, against lines 409-410). |
| `Units.cfg`: `UsedBy = {"runner"}` | `NewestIsSeen` | a write past `max_len` is dropped without an error. |
| `Units.cfg` | `ReadsItsInputs` | the first side stream does not wait for the copies of the step's inputs (`cuda_graph.py:1241`). |
| `Units.cfg` | `NeverOverflows` | more tokens for one expert than its staging buffer has rows. |
| `Units.cfg` | `UsesEveryGPU` | a dense model on six devices gets one pipeline of four (`scheduling.py:54`). |
| `Units.cfg` | `WindowHolds` | a packed prefill on a sliding layer passes no window and sees all of its prompt (`gqa_attention.py:91-101`, against line 11). |
| `Units.cfg` | `ValuesKept` | the converter renames a VLM's or hybrid model's weights before it looks for their FP8 scales, which were collected under the names in the file (`convert.py:153`): none is found and the codes are quantized as if they were values. And the vision tower's matmuls are quantized like any other, but their builder takes their `.data`, the codes without the scales (`qwen3_5_vit.py:95-106`). |
| `Units.cfg` | `EverySourceBuilt` | what is imported or loaded from a GGUF file cannot always be built: `merge_qtensor` raises where a merged group has a float or a second scheme (`models/weights.py:75-115`); an import of a model with experts or hybrid layers has names no builder asks for, although `gguf_import.py:18` lists experts; a native load concatenates separate gates with `torch.cat`, which takes no quantized tensor (`gguf_native.py:819`, against `790-792`). |
| `Units.cfg` | `ShardsOutliveErrors` | a shard whose conversion raises is deleted by the `finally` (`convert.py:384-386`), although lines 310-311 say that a shard goes once its tensors are written. |
| `Units.cfg` | `OwnScalesKept` | a tensor of the model that is itself called `.scale` is dropped from every FP8 source as if it were a block scale (`convert.py:148-149`, `339`). |
| `Units.cfg` | `CountsOutput` | the prefill's token and a verify step's extra tokens are not counted as output (`llm_engine.py:229-230`). |

One more thing that needs no run: `DiffusionDecodeStrategy` never reaches its
final multinomial when `num_steps` is at least 1 (`DenoisedOnce` says so),
although `decode_strategy.py:4-6` describes it as a step of the strategy.

The passing runs are set up so that these do not hide the rest. Where a case is
left out of an instance, a constant of its cfg says so; where it is let in, the
property names what it does not promise then.

Left out: `EngineShared` has no `encode()` call (`Embeds = {}`). `WorkerLiveness` has no
step that raises (`StepMayRaise = FALSE`). `SpecGreedy` closes its gate only between
carries (`CloseWithCarry = FALSE`), clamps budgets to the window, always primes
(`Unprimed = FALSE`) and preempts only the unstructured request. `Graphs` has prompts
that fill their prefill bucket or are chunked. `Pipeline` gives a recurrent model one
caller at a time and assumes the codec's name bound in five of its six deployments
(`codec` in `Deploy`): as the code stands no installation binds it, so those five show
what the scheduler, the stages and the caches do once it is. In `Units`,
`EvictShared`, `EvictWithinBlock`, `LateThinking` and `Halves` are off.

Let in: after a failed `encode()`, `CallersServed`, `AbandonedIsCancelled` and `CloseStops`
promise nothing to whom it lost (`Failed`, `lost`), and `EveryRequestServed` of the engine
nothing further (`EncodeFailed`); `CallersServed` ends with `close()`. `ContextIsOwn` allows
a prompt the repeated folding that `PreemptedPromptIsWhole` shows (`PromptAfter`).
`PipeSafe` leaves the sequence in whose slot a later stage keeps its scratch rows
out of its comparison (`OthersMatchSingleGpu`) and lets the first stage run out of
blocks where its pool is small or pinned; `EveryRequestServed` of the pipeline ends
with a step that raises, so the deployment without the codec owes it nothing more.
`CheckpointIntact` names the parameters whose value is misread (`Misread`), the
sources that cannot be built (`Unbuildable`) and what a converter may delete
(`MayGo`).

One more consequence is described here and has no run of its own: when `encode()` raises
after admission, the sequences of its batch keep their slots and are in no list, so
`SlotsOwned` fails in the run `EngineEncode`.

## 6. Limits and what is not modelled

* Tensors are token runs, the model is a choice. Quantised cache formats, the
  arithmetic of kernels and samplers and image inputs are not modelled; two
  image prompts with the same placeholder tokens share a prefix entry in the
  code, and the models cannot see it.
* `LLMEngine` has the eager paths of the runner: speculative decoding is
  `SpecDecode`'s, CUDA graphs and chunked prefill `GraphedRunner`'s, the
  diffusion strategy `Denoiser`'s; the four are not composed. `max_prefix_entries` is None, its default.
* `LLMEngine` does not model the repair that a later `encode()` may do to a slot
  an earlier one left damaged (`EncodeOne`), and `add_request` never raises: the
  HTTP layer refuses over-long prompts before (`api/app.py`, `api/batches.py`).
* `SpecDecode` has prompts of equal length, so positions are counted from their
  end; one request per prefill; a request is preempted at most once; the gate is
  nondeterministic where the code looks at other rows, the n-gram table or free
  memory; which drafter proposes what is not modelled, every list of drafts is.
* `EngineWorker` sees the engine through its contract; the timer of
  `_coalesce_idle_start` may end at any moment.
* `Batches` has no size caps and no wording of bodies; a line's kind (good, bad,
  cut) is part of the input.
* `GraphedRunner` has its own slots and blocks without prefix sharing; eviction,
  preemption and the grammar are left to `LLMEngine` and `SpecDecode`. Kernels
  run to their end before the next call; their overlap is `LayerStreams`'s.
* `Pipeline` reads reference counts off tables and entries instead of keeping them;
  one wire scheme for all boundaries; timing statistics and the draft head's tail
  stage are left out. No pool of its instance is tight enough to preempt one
  sequence twice; that case is `EngineShared`'s.
* `SpecDecode` has the verify forward as wide as its drafts; the graphed path rounds
  the batch up to a bucket (`model_runner.py:699-703`), which changes neither the
  positions asked for at `SpecK = 2` nor the bound on them.
* `RecurrentLayers`, `Attention`, `Experts` and `Sampling` show which inputs a
  result was made from, not that the arithmetic on them is right.
* `WireCodec` has small widths in place of 12-bit frequencies and a 23-bit state;
  the quantisation itself, the low-rank codec and the transfer-time model are
  floating-point arithmetic and are not modelled. Its `send` finds the codec; what
  happens without it is in `Pipeline` (`MCNoCodec`).
* `Checkpoints` has one layer of each kind. Left out: the transpositions of
  Unsloth's GGUF files, LFM2's names, the MTP head's weights, the configuration
  read out of a GGUF file, partial loads (a stage's or a trainer's), and an FP8
  checkpoint with fused hybrid projections.

Not modelled at all: publishing weights (an upload), multimodal
preprocessing (image arithmetic and I/O), training (one loop over tensors), the
dashboard's drawing, the layers' arithmetic and the model families'
configuration. Which drafts each drafter proposes is left open on purpose:
`SpecDecode` takes every list, which includes theirs.

## 7. The plan

Done, in this order: `PagedKVCache` with its proofs; `LLMEngine` and
`EngineContract`; `EngineWorker` and `StreamContract`; `SpecDecode`; `Batches`;
`GraphedRunner` and `LayerStreams`; `Pipeline`, `StageSplit` and `WireCodec`;
the layers and caches (`Attention`, `RecurrentLayers`, `RunnerCaches`,
`Sampling`, `Experts`); `KVEviction`; `ChatStream`, `Telemetry`, `Parallelism`,
`Denoiser`; `Checkpoints`; the proofs of the cache's contents, the engine, the
worker, the batch API, speculative decoding, the graphed runner, its layer streams
and eviction.

Left:

1. Theorems: `PipeSafe` and `ContextIsOwn`; of the parts, `CutsDoNotShow` and
   `StagesApart`.
2. The drafters against a reference definition (they need recursion over the
   n-gram table), and `SpecDecode` on `GraphedRunner`'s verify path.
3. Image prompts in the prefix cache, once inputs other than tokens are modelled.
