---------------------------- MODULE PagedKVCache ----------------------------
(***************************************************************************)
(* The paged KV cache of engine/kv_cache.py (class PagedKVCache): a pool   *)
(* of physical blocks, one block table per slot, reference counts, and the *)
(* radix prefix cache that pins the blocks of completed prompts.           *)
(*                                                                         *)
(* The two Python free lists are modelled as bags (how often an element is *)
(* in the list), so a double free shows as a count of two; the order in    *)
(* which elements are popped is left open.  The radix trie is the function *)
(* "entries" from the token prefixes that carry an "_entry" to it.  What a *)
(* block's K/V tensors hold is "data": the tokens up to and including the  *)
(* last position written, because attention makes the K/V of a position a  *)
(* function of every token before it.                                      *)
(***************************************************************************)
EXTENDS Integers, Sequences, FiniteSets, Functions

CONSTANTS
  Slots,            \* range(num_slots)
  Blocks,           \* range(num_blocks)
  Tokens,           \* token ids
  BlockSize,        \* tokens per block
  MaxPrefixBlocks   \* _max_prefix_blocks: distinct blocks the trie may pin

ASSUME SizesAssumption ==
  /\ BlockSize \in Nat \ {0}
  /\ MaxPrefixBlocks \in Nat \ {0}
  /\ IsFiniteSet(Slots)
  /\ IsFiniteSet(Blocks)

VARIABLES
  freeSlots,   \* _free_slots, as a bag
  freeBlocks,  \* _free_blocks, as a bag
  table,       \* _slot_blocks
  refs,        \* _block_refcount; 0 stands for an absent key
  entries,     \* the trie's _entry records, keyed by their token prefix
  pins,        \* _prefix_block_refs; 0 stands for an absent key
  clock,       \* _prefix_trie["_lru"]
  data,        \* what the K/V tensors of a block hold
  ctx          \* the tokens whose K/V a slot's table gives access to

kvVars == <<freeSlots, freeBlocks, table, refs, entries, pins, clock, data, ctx>>

-----------------------------------------------------------------------------
(* Helpers *)

\* Number of blocks that hold n positions (ceiling division).
BlocksFor(n) == (n + BlockSize - 1) \div BlockSize

\* Mutant: the count is not consulted, every release looks like the last one.
CountOfLast(b) == 1

\* dict.get(blk, 1): an absent count reads as one reference.
CountOf(b) == IF refs[b] = 0 THEN 1 ELSE refs[b]

\* Mutant: also takes the partly filled last block for a boundary.
BoundariesPartial(tokens) ==
  {SubSeq(tokens, 1, i) : i \in {j \in 1..Len(tokens) : j % BlockSize = 0 \/ j = Len(tokens)}}

\* The block-aligned prefixes of a token run: the trie positions that may
\* carry an entry.
Boundaries(tokens) ==
  {SubSeq(tokens, 1, i * BlockSize) : i \in 1..(Len(tokens) \div BlockSize)}

Longest(prefixes) ==
  CHOOSE p \in prefixes : \A q \in prefixes : Len(q) <= Len(p)

\* The entries among es that hold block b.
Pinning(es, b) == {p \in DOMAIN es : b \in Range(es[p].blocks)}

\* Distinct blocks that the entries of the set ps pin.
PinnedBy(es, ps) == UNION {Range(es[p].blocks) : p \in ps}

\* Eviction order: least recently used first; entries of one store or lookup
\* share a timestamp and the walk meets the shorter (outer) one first.
Older(es, p, q) ==
  \/ es[p].lru < es[q].lru
  \/ es[p].lru = es[q].lru /\ Len(p) < Len(q)

\* Mutant: evicts from the most recently used end.
SurvivorsNewestFirst(es) ==
  {p \in DOMAIN es :
     Cardinality(PinnedBy(es, {q \in DOMAIN es : ~ Older(es, p, q)})) <= MaxPrefixBlocks}

\* Mutant: stops one block too late.
SurvivorsOffByOne(es) ==
  {p \in DOMAIN es :
     Cardinality(PinnedBy(es, {q \in DOMAIN es : ~ Older(es, q, p)})) <= MaxPrefixBlocks + 1}

\* Entries left when the oldest are evicted one at a time until the distinct
\* pinned blocks fit the budget: p stays iff it and all that are not older fit.
Survivors(es) ==
  {p \in DOMAIN es :
     Cardinality(PinnedBy(es, {q \in DOMAIN es : ~ Older(es, q, p)})) <= MaxPrefixBlocks}

HasFreeSlot == \E s \in Slots : freeSlots[s] > 0

HasFreeBlock == \E b \in Blocks : freeBlocks[b] > 0

-----------------------------------------------------------------------------
(* Operations.  Each is the effect of one method on the cache's variables. *)

KVInit ==
  /\ freeSlots = [s \in Slots |-> 1]
  /\ freeBlocks = [b \in Blocks |-> 1]
  /\ table = [s \in Slots |-> <<>>]
  /\ refs = [b \in Blocks |-> 0]
  /\ entries = <<>>
  /\ pins = [b \in Blocks |-> 0]
  /\ clock = 0
  /\ data = [b \in Blocks |-> <<>>]
  /\ ctx = [s \in Slots |-> <<>>]

\* What lookup_prefix returns for tokens: the longest prefix that has an
\* entry, <<>> when none has.
MatchedPrefix(tokens) ==
  LET hits == Boundaries(tokens) \cap DOMAIN entries
  IN  IF hits = {} THEN <<>> ELSE Longest(hits)

\* Mutant: forgets to count the new reference.
ShareBlocksUncounted(s, blocks) ==
  /\ table' = [table EXCEPT ![s] = blocks]
  /\ UNCHANGED refs

\* share_blocks on a freshly allocated slot: the table points at the shared
\* blocks and each gains a reference.
ShareBlocks(s, blocks) ==
  /\ table' = [table EXCEPT ![s] = blocks]
  /\ refs' = [b \in Blocks |-> IF b \in Range(blocks) THEN CountOf(b) + 1 ELSE refs[b]]

\* alloc, lookup_prefix and, on a hit, share_blocks, which Scheduler.schedule
\* always calls in this order for the sequence it admits.  Every entry on the
\* looked-up path has its timestamp bumped.
AllocAndShare(s, tokens) ==
  LET hits == Boundaries(tokens) \cap DOMAIN entries
      matched == MatchedPrefix(tokens)
  IN  /\ freeSlots[s] > 0
      /\ freeSlots' = [freeSlots EXCEPT ![s] = @ - 1]
      /\ clock' = clock + 1
      /\ entries' = [p \in DOMAIN entries |->
                       IF p \in hits THEN [entries[p] EXCEPT !.lru = clock + 1] ELSE entries[p]]
      /\ IF hits = {}
           THEN UNCHANGED <<table, refs>>
           ELSE ShareBlocks(s, entries[matched].blocks)
      /\ ctx' = [ctx EXCEPT ![s] = matched]
      /\ UNCHANGED <<freeBlocks, pins, data>>

\* The runs of distinct free blocks the loop of ensure_capacity may have
\* popped for n positions when it ends: as many as are missing, or, when the
\* pool runs dry and it raises, all that were left.
Popped(s, n) ==
  LET free == {b \in Blocks : freeBlocks[b] > 0}
      missing == BlocksFor(n) - Len(table[s])
      k == IF missing <= 0 THEN 0
           ELSE IF missing <= Cardinality(free) THEN missing ELSE Cardinality(free)
  IN  {q \in [1..k -> free] : \A i, j \in 1..k : q[i] = q[j] => i = j}

\* ensure_capacity for one slot.
EnsureCapacity(s, n) ==
  \E q \in Popped(s, n) :
    /\ table' = [table EXCEPT ![s] = @ \o q]
    /\ refs' = [b \in Blocks |-> IF b \in Range(q) THEN 1 ELSE refs[b]]
    /\ freeBlocks' = [b \in Blocks |-> IF b \in Range(q) THEN freeBlocks[b] - 1 ELSE freeBlocks[b]]
    /\ UNCHANGED <<freeSlots, entries, pins, clock, data, ctx>>

\* ensure_capacity raises "no free blocks" for n positions of slot s.
Exhausted(s, n) ==
  BlocksFor(n) - Len(table[s]) > Cardinality({b \in Blocks : freeBlocks[b] > 0})

\* Slot s has room for n positions.
HasCapacity(s, n) == BlocksFor(n) <= Len(table[s])

\* The table indices that writing positions from..(n-1) touches.
Touched(from, n) == {i \in 1..BlocksFor(n) : i * BlockSize > from}

\* write_prefill / write_decode through slot s's table: the positions from
\* "from" to the end of tokens are (re)written as part of the run tokens.
WriteKV(s, from, tokens) ==
  LET n == Len(tokens)
      wrote == Touched(from, n)
  IN  /\ data' = [b \in Blocks |->
                    IF \E i \in wrote : table[s][i] = b
                      THEN LET i == CHOOSE j \in wrote : table[s][j] = b
                           IN  SubSeq(tokens, 1, IF i * BlockSize < n THEN i * BlockSize ELSE n)
                      ELSE data[b]]
      /\ ctx' = [ctx EXCEPT ![s] = tokens]
      /\ UNCHANGED <<freeSlots, freeBlocks, table, refs, entries, pins, clock>>

\* Mutant: replaces the entry a prefix already has.
StoredReplacing(s, tokens) ==
  LET keys == Boundaries(tokens)
  IN  [p \in DOMAIN entries \cup keys |->
         IF p \in keys
           THEN [blocks |-> SubSeq(table[s], 1, Len(p) \div BlockSize), lru |-> clock + 1]
           ELSE entries[p]]

\* Mutant: an entry takes one block more than its tokens fill.
StoredOneMore(s, tokens) ==
  LET keys == Boundaries(tokens)
      least(a, b) == IF a < b THEN a ELSE b
  IN  [p \in DOMAIN entries \cup keys |->
         IF p \in DOMAIN entries
           THEN IF p \in keys THEN [entries[p] EXCEPT !.lru = clock + 1] ELSE entries[p]
           ELSE [blocks |-> SubSeq(table[s], 1, least(Len(table[s]), Len(p) \div BlockSize + 1)),
                 lru |-> clock + 1]]

\* The entries once store_prefix(tokens, s) has walked its boundaries: the
\* missing ones are added over the slot's blocks, the others only bumped.
Stored(s, tokens) ==
  LET keys == Boundaries(tokens)
  IN  [p \in DOMAIN entries \cup keys |->
         IF p \in DOMAIN entries
           THEN IF p \in keys THEN [entries[p] EXCEPT !.lru = clock + 1] ELSE entries[p]
           ELSE [blocks |-> SubSeq(table[s], 1, Len(p) \div BlockSize), lru |-> clock + 1]]

\* store_prefix, with the _enforce_prefix_budget it ends with.
StorePrefix(s, tokens) ==
  LET stored == Stored(s, tokens)
      kept == Survivors(stored)
      added(b) == Cardinality(Pinning(stored, b) \ DOMAIN entries)
      evicted(b) == Cardinality(Pinning(stored, b) \ kept)
  IN  IF Boundaries(tokens) = {}
        THEN UNCHANGED kvVars
        ELSE /\ clock' = clock + 1
             /\ entries' = Restrict(stored, kept)
             /\ refs' = [b \in Blocks |->
                           (IF added(b) > 0 THEN CountOf(b) ELSE refs[b]) + added(b) - evicted(b)]
             /\ pins' = [b \in Blocks |-> pins[b] + added(b) - evicted(b)]
             /\ freeBlocks' = [b \in Blocks |->
                                 IF evicted(b) > 0 /\ refs'[b] = 0
                                   THEN freeBlocks[b] + 1 ELSE freeBlocks[b]]
             /\ data' = [b \in Blocks |-> IF freeBlocks'[b] > 0 THEN <<>> ELSE data[b]]
             /\ UNCHANGED <<freeSlots, table, ctx>>

\* free: every block of the table loses a reference, the last one returns it
\* to the pool; the slot returns to the free list.
Free(s) ==
  LET held == Range(table[s])
      last(b) == b \in held /\ CountOf(b) = 1
  IN  /\ refs' = [b \in Blocks |-> IF b \in held THEN CountOf(b) - 1 ELSE refs[b]]
      /\ freeBlocks' = [b \in Blocks |-> IF last(b) THEN freeBlocks[b] + 1 ELSE freeBlocks[b]]
      /\ data' = [b \in Blocks |-> IF last(b) THEN <<>> ELSE data[b]]
      /\ table' = [table EXCEPT ![s] = <<>>]
      /\ freeSlots' = [freeSlots EXCEPT ![s] = @ + 1]
      /\ ctx' = [ctx EXCEPT ![s] = <<>>]
      /\ UNCHANGED <<entries, pins, clock>>

-----------------------------------------------------------------------------
(* Properties *)

\* Every variable has its type; the free lists hold an element at most once.
KVTypeOK ==
  /\ freeSlots \in [Slots -> 0..1]
  /\ freeBlocks \in [Blocks -> 0..1]
  /\ table \in [Slots -> Seq(Blocks)]
  /\ refs \in [Blocks -> Nat]
  /\ pins \in [Blocks -> Nat]
  /\ IsFiniteSet(DOMAIN entries)
  /\ \A p \in DOMAIN entries : /\ p \in Seq(Tokens)
                               /\ p # <<>>
                               /\ entries[p] \in [blocks : Seq(Blocks), lru : Nat]
  /\ clock \in Nat
  /\ data \in [Blocks -> Seq(Tokens)]
  /\ ctx \in [Slots -> Seq(Tokens)]

\* The slots whose table holds block b.
Holders(b) == {s \in Slots : b \in Range(table[s])}

\* A block's reference count is the number of tables and prefix entries that
\* hold it, through every share, store, eviction and free.
RefcountsExact ==
  \A b \in Blocks : refs[b] = Cardinality(Holders(b)) + Cardinality(Pinning(entries, b))

\* A block is in the free list, once, exactly when nothing holds it: no block
\* is freed while a slot or an entry still names it (use after free), freed
\* twice, or lost to the pool (leak).
PoolConserved ==
  \A b \in Blocks : freeBlocks[b] = IF refs[b] = 0 THEN 1 ELSE 0

\* _prefix_block_refs counts the entries that pin a block, so the number of
\* its keys that the budget and the telemetry read is the number of blocks
\* the trie really pins.
PinsExact ==
  \A b \in Blocks : pins[b] = Cardinality(Pinning(entries, b))

\* A slot in the free list has no blocks: alloc hands out an empty table.
FreeSlotsEmpty == \A s \in Slots : freeSlots[s] # 0 => table[s] = <<>> /\ ctx[s] = <<>>

\* A slot's table has room for what was written through it.
ContextsCovered == \A s \in Slots : HasCapacity(s, Len(ctx[s]))

\* An entry has one block for each BlockSize tokens of its key.
EntriesAligned == \A p \in DOMAIN entries : Len(entries[p].blocks) * BlockSize = Len(p)

\* No table and no entry names a block twice.
BlocksDistinct ==
  /\ \A s \in Slots : \A i, j \in DOMAIN table[s] : table[s][i] = table[s][j] => i = j
  /\ \A p \in DOMAIN entries :
       \A i, j \in DOMAIN entries[p].blocks :
         entries[p].blocks[i] = entries[p].blocks[j] => i = j

\* A block that a slot has not filled is its own: what is shared is whole, so
\* copying a block before a write is never called for.
TailsPrivate ==
  \A s \in Slots :
    \A i \in DOMAIN table[s] : i * BlockSize > Len(ctx[s]) => refs[table[s][i]] = 1

\* No entry was looked up or stored later than now.
StampsPast == \A p \in DOMAIN entries : entries[p].lru <= clock

\* Every count is the number of holders it stands for, and no block is leaked,
\* freed twice or freed under a holder.
CountsInv ==
  /\ KVTypeOK
  /\ RefcountsExact
  /\ PoolConserved
  /\ PinsExact
  /\ FreeSlotsEmpty
  /\ ContextsCovered
  /\ EntriesAligned

\* Whatever shares, stores, evictions and frees come in whatever order, the
\* counts are exact and only whole blocks are shared (alloc_and_share,
\* store_prefix, free).
KVInv == CountsInv /\ BlocksDistinct /\ TailsPrivate /\ StampsPast

\* The prefix cache never pins more distinct blocks than its budget, whatever
\* the mix of overlapping prefixes.
BudgetHolds == Cardinality({b \in Blocks : pins[b] > 0}) <= MaxPrefixBlocks

\* A prefix hit hands out K/V of exactly the matched tokens: the i-th block of
\* an entry still holds the first i blocks of its key.
EntriesIntact ==
  \A p \in DOMAIN entries :
    /\ Len(entries[p].blocks) * BlockSize = Len(p)
    /\ \A i \in 1..Len(entries[p].blocks) :
         data[entries[p].blocks[i]] = SubSeq(p, 1, i * BlockSize)

\* A live slot's table always leads to the K/V of its own tokens, whatever the
\* other slots and the prefix cache do with the blocks it shares.
SlotsIntact ==
  \A s \in Slots :
    /\ HasCapacity(s, Len(ctx[s]))
    /\ \A i \in 1..BlocksFor(Len(ctx[s])) :
         data[table[s][i]] =
           SubSeq(ctx[s], 1, IF i * BlockSize < Len(ctx[s]) THEN i * BlockSize ELSE Len(ctx[s]))

\* No reader of the cache ever sees another run's K/V: neither a request that
\* hits an entry nor a slot through its table.
CacheIntact == EntriesIntact /\ SlotsIntact
=============================================================================
