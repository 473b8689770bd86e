------------------------ MODULE PagedKVCacheClientProofs ------------------------
(***************************************************************************)
(* Theorems about the paged KV cache under every client that keeps to the  *)
(* protocol of its methods, and under one that also evicts.  The first     *)
(* part rests on one inductive invariant, CacheInv, which                  *)
(* PagedKVCacheProofs shows every operation to keep.                       *)
(*                                                                         *)
(* Eviction breaks CacheInv: compact gives its new blocks no count, and a  *)
(* slot that evict only shortened finds more in its last block than it     *)
(* reads.  The second part sees such a cache as one that keeps counts and  *)
(* whose blocks hold what their readers see of them: K is the cache module *)
(* with those two variables substituted, each call of the evicting client  *)
(* is the same call of K, and K keeps CacheInv.  Only evict is no call of  *)
(* K; ShortensInv shows that it keeps CacheInv of K all the same.          *)
(*                                                                         *)
(* The last part is about the contiguous caches of RunnerCaches.           *)
(***************************************************************************)
EXTENDS KVEviction, RunnerCaches, PagedKVCacheProofs

\* A prompt of the client is a token run.
LEMMA PromptFacts ==
  ASSUME NEW tokens \in Prompts
  PROVE  tokens \in Seq(Tokens) /\ Len(tokens) \in Nat
<1>1. tokens \in Seq(Tokens)
    BY ClientAssumption
<1> QED
    BY <1>1, LenProperties

\* Every step of a client keeps the invariant.
LEMMA StepInv == CacheInv /\ [KVNext]_kvVars => CacheInv'
<1> SUFFICES ASSUME CacheInv, [KVNext]_kvVars PROVE CacheInv'
    OBVIOUS
<1>1. ASSUME NEW s \in Slots, NEW tokens \in Prompts, ClientAdmit(s, tokens) PROVE CacheInv'
    BY <1>1, PromptFacts, AllocAndShareInv DEF ClientAdmit
<1>2. ASSUME NEW s \in Slots, NEW tokens \in Prompts, ClientGrow(s, tokens) PROVE CacheInv'
    BY <1>2, PromptFacts, EnsureCapacityInv DEF ClientGrow, InUse
<1>3. ASSUME NEW s \in Slots, NEW tokens \in Prompts, ClientWrite(s, tokens) PROVE CacheInv'
  <2>1. Len(ctx[s]) \in Nat
      BY LenProperties DEF CacheInv, KVInv, CountsInv, KVTypeOK
  <2>2. Len(ctx[s]) \in 0..Len(ctx[s]) /\ Len(ctx[s]) <= Len(tokens)
      BY <1>3, <2>1, PromptFacts DEF ClientWrite
  <2> QED
      BY <1>3, <2>2, PromptFacts, WriteKVInv DEF ClientWrite, InUse
<1>4. ASSUME NEW s \in Slots, NEW tokens \in Prompts, ClientRewrite(s, tokens) PROVE CacheInv'
  <2>1. Len(ctx[s]) \in Nat
      BY LenProperties DEF CacheInv, KVInv, CountsInv, KVTypeOK
  <2>2. 0 \in 0..Len(ctx[s])
      BY <2>1
  <2> QED
      BY <1>4, <2>2, PromptFacts, WriteKVInv DEF ClientRewrite, InUse
<1>5. ASSUME NEW s \in Slots, ClientStore(s) PROVE CacheInv'
    BY <1>5, StorePrefixInv DEF ClientStore
<1>6. ASSUME NEW s \in Slots, ClientFree(s) PROVE CacheInv'
    BY <1>6, FreeInv DEF ClientFree, InUse
<1>7. CASE UNCHANGED kvVars
    BY <1>7, StutterInv
<1> QED
    BY <1>1, <1>2, <1>3, <1>4, <1>5, <1>6, <1>7 DEF KVNext

LEMMA AlwaysInv == KVSpec => []CacheInv
BY InitInv, StepInv, PTL DEF KVSpec

-----------------------------------------------------------------------------
(* What holds in every state *)

\* Whatever shares, stores, evictions and frees come in whatever order, counts
\* are exact, no block is leaked or freed twice, and only whole blocks are
\* shared.
THEOREM CacheInvariant == KVSpec => []KVInv
<1>1. CacheInv => KVInv
    BY DEF CacheInv
<1> QED
    BY <1>1, AlwaysInv, PTL

\* No reader of the cache sees another run's K/V: an entry still holds the
\* blocks of its key, and a slot's table leads to the K/V of its own tokens.
THEOREM CacheContentsIntact == KVSpec => []CacheIntact
<1>1. CacheInv => CacheIntact
    BY DEF CacheInv
<1> QED
    BY <1>1, AlwaysInv, PTL

\* Every variable of the cache keeps its type, and each free list holds an
\* element at most once.
THEOREM CacheTypeCorrect == KVSpec => []KVTypeOK
<1>1. KVInv => KVTypeOK
    BY DEF KVInv, CountsInv
<1> QED
    BY <1>1, CacheInvariant, PTL

\* Reference counts are exact: alloc, share_blocks, ensure_capacity,
\* store_prefix with its evictions, and free never lose or invent a reference.
THEOREM CacheRefcountsExact == KVSpec => []RefcountsExact
<1>1. KVInv => RefcountsExact
    BY DEF KVInv, CountsInv
<1> QED
    BY <1>1, CacheInvariant, PTL

\* No block is freed while it is in use, freed twice, or lost to the pool.
THEOREM CachePoolConserved == KVSpec => []PoolConserved
<1>1. KVInv => PoolConserved
    BY DEF KVInv, CountsInv
<1> QED
    BY <1>1, CacheInvariant, PTL

\* The pin counts that the prefix budget reads are exact.
THEOREM CachePinsExact == KVSpec => []PinsExact
<1>1. KVInv => PinsExact
    BY DEF KVInv, CountsInv
<1> QED
    BY <1>1, CacheInvariant, PTL

LEMMA BudgetStep == CacheInv /\ BudgetHolds /\ [KVNext]_kvVars => BudgetHolds'
<1> SUFFICES ASSUME CacheInv, BudgetHolds, [KVNext]_kvVars PROVE BudgetHolds'
    OBVIOUS
<1>1. CASE pins' = pins
    BY <1>1 DEF BudgetHolds
<1>2. ASSUME NEW s \in Slots, ClientStore(s) PROVE BudgetHolds'
    BY <1>2, OwnRun, StorePrefixBudget DEF ClientStore, CacheInv, KVInv
<1> QED
    BY <1>1, <1>2 DEF KVNext, kvVars, ClientAdmit, ClientGrow, ClientWrite, ClientRewrite, ClientFree,
                      AllocAndShare, EnsureCapacity, WriteKV, Free

\* The prefix cache never pins more distinct blocks than its budget: the walk
\* of _enforce_prefix_budget ends within it from any mix of overlapping
\* entries, so the cache cannot starve the pool of more than that.
THEOREM CacheBudgetHolds == KVSpec => []BudgetHolds
<1>1. KVInit => BudgetHolds
  <2> SUFFICES ASSUME KVInit PROVE BudgetHolds
      OBVIOUS
  <2>1. {b \in Blocks : pins[b] > 0} = {}
      BY DEF KVInit
  <2> QED
      BY <2>1, FS_EmptySet, SizesAssumption DEF BudgetHolds
<1> QED
    BY <1>1, AlwaysInv, BudgetStep, PTL DEF KVSpec

-----------------------------------------------------------------------------
(* What no step does *)

\* A write behind what a slot reads changes only unfilled blocks of its own.
LEMMA WriteIsPrivate ==
  ASSUME CacheInv, NEW s \in Slots, NEW tokens \in Seq(Tokens), HasCapacity(s, Len(tokens)),
         WriteKV(s, Len(ctx[s]), tokens), NEW b \in Blocks, data'[b] # data[b]
  PROVE  refs[b] = 1
<1> DEFINE n == Len(tokens)
           from == Len(ctx[s])
<1>1. CountsInv /\ TailsPrivate /\ KVTypeOK
    BY DEF CacheInv, KVInv, CountsInv
<1>2. PICK i \in Touched(from, n) : table[s][i] = b
    BY DEF WriteKV
<1>3. table[s] \in Seq(Blocks) /\ DOMAIN table[s] = 1..Len(table[s]) /\ Len(table[s]) \in Nat
    BY <1>1, LenProperties DEF KVTypeOK
<1>4. BlocksFor(n) <= Len(table[s]) /\ BlocksFor(n) \in Nat
  <2>1. n \in Nat
      BY LenProperties
  <2> QED
      BY <2>1, BlocksForType DEF HasCapacity
<1>5. i \in DOMAIN table[s] /\ i * BlockSize > Len(ctx[s])
    BY <1>3, <1>4 DEF Touched
<1> QED
    BY <1>1, <1>2, <1>5, TailAlone

\* A packed prefill, which writes through shared blocks, is such a write: in
\* the blocks the slot already reads it finds what it puts there.
LEMMA RewriteIsPrivate ==
  ASSUME CacheInv, NEW s \in Slots, NEW tokens \in Prompts, ClientRewrite(s, tokens)
  PROVE  WriteKV(s, Len(ctx[s]), tokens)
<1>1. /\ data \in [Blocks -> Seq(Tokens)] /\ table[s] \in Seq(Blocks) /\ ctx[s] \in Seq(Tokens)
      /\ SlotsIntact /\ BlocksDistinct
    BY DEF CacheInv, KVInv, CacheIntact, CountsInv, KVTypeOK
<1>2. \A i \in DOMAIN table[s] :
        i * BlockSize <= Len(ctx[s]) => data[table[s][i]] = SubSeq(ctx[s], 1, i * BlockSize)
  <2> SUFFICES ASSUME NEW i \in DOMAIN table[s], i * BlockSize <= Len(ctx[s])
               PROVE  data[table[s][i]] = SubSeq(ctx[s], 1, i * BlockSize)
      OBVIOUS
  <2>1. Len(ctx[s]) \in Nat /\ i \in Nat /\ 1 <= i
      BY <1>1, LenProperties
  <2>2. (IF i * BlockSize < Len(ctx[s]) THEN i * BlockSize ELSE Len(ctx[s])) = i * BlockSize
      BY <2>1, WholeBlock
  <2>3. i \in 1..BlocksFor(Len(ctx[s]))
      BY <2>1, WholeBlock
  <2>4. data[table[s][i]] =
          SubSeq(ctx[s], 1, IF i * BlockSize < Len(ctx[s]) THEN i * BlockSize ELSE Len(ctx[s]))
      BY <1>1, <2>3 DEF SlotsIntact
  <2> QED
      BY <2>2, <2>4
<1>3. \A i, j \in DOMAIN table[s] : table[s][i] = table[s][j] => i = j
    BY <1>1 DEF BlocksDistinct
<1> QED
    BY <1>1, <1>2, <1>3, PromptFacts, RewriteIsWrite DEF ClientRewrite

\* The packed prefill writes the blocks of a shared prefix again, and yet no
\* write changes a block that another slot or a prefix entry reads: prefix
\* sharing needs no copy-on-write.
THEOREM CacheKeepsShared == KVSpec => SharedKeepContents
<1> DEFINE Private == \A b \in Blocks : (data'[b] # data[b] /\ data'[b] # <<>>) => refs[b] = 1
<1>1. CacheInv /\ [KVNext]_kvVars => [Private]_kvVars
  <2> SUFFICES ASSUME CacheInv, [KVNext]_kvVars, NEW b \in Blocks, data'[b] # data[b], data'[b] # <<>>
               PROVE  refs[b] = 1
      OBVIOUS
  <2>1. ASSUME NEW s \in Slots, NEW tokens \in Prompts, ClientWrite(s, tokens) PROVE refs[b] = 1
      BY <2>1, PromptFacts, WriteIsPrivate DEF ClientWrite
  <2>0. ASSUME NEW s \in Slots, NEW tokens \in Prompts, ClientRewrite(s, tokens) PROVE refs[b] = 1
    <3>1. WriteKV(s, Len(ctx[s]), tokens)
        BY <2>0, RewriteIsPrivate
    <3> QED
        BY <2>0, <3>1, PromptFacts, WriteIsPrivate DEF ClientRewrite
  <2>2. ASSUME NEW s \in Slots, ClientStore(s) PROVE FALSE
    <3>1. StorePrefix(s, ctx[s])
        BY <2>2 DEF ClientStore
    <3>2. CASE Boundaries(ctx[s]) = {}
        BY <3>1, <3>2 DEF StorePrefix, kvVars
    <3>3. CASE Boundaries(ctx[s]) # {}
      <4>1. data' = [c \in Blocks |-> IF freeBlocks'[c] > 0 THEN <<>> ELSE data[c]]
          BY <3>1, <3>3, StorePrefixEffect
      <4> QED
          BY <4>1
    <3> QED
        BY <3>2, <3>3
  <2>3. ASSUME NEW s \in Slots, ClientFree(s) PROVE FALSE
    <3>1. \A c \in Blocks : data'[c] \in {<<>>, data[c]}
        BY <2>3 DEF ClientFree, Free
    <3> QED
        BY <3>1
  <2>4. ASSUME data' = data PROVE FALSE
      BY <2>4
  <2> QED
      BY <2>0, <2>1, <2>2, <2>3, <2>4
         DEF KVNext, kvVars, ClientAdmit, ClientGrow, AllocAndShare, EnsureCapacity
<1> QED
    BY <1>1, AlwaysInv, PTL DEF KVSpec, SharedKeepContents

\* Eviction is by age in every step: no entry goes while an older one stays,
\* and a prompt loses a boundary it has just stored only when nothing older is
\* left to evict.
THEOREM CacheEvictionIsLRU == KVSpec => EvictionIsLRU
<1> DEFINE OldestFirst ==
             /\ \A p \in DOMAIN entries \ DOMAIN entries' :
                  ~ \E q \in DOMAIN entries \cap DOMAIN entries' :
                       /\ entries'[q].lru = entries[q].lru
                       /\ entries[q].lru < entries[p].lru
             /\ \A s \in Slots :
                  ClientStore(s) /\ (\E q \in DOMAIN entries' : entries'[q].lru < clock')
                    => Boundaries(ctx[s]) \subseteq DOMAIN entries'
<1>1. CacheInv /\ [KVNext]_kvVars => [OldestFirst]_kvVars
  <2> SUFFICES ASSUME CacheInv, [KVNext]_kvVars PROVE OldestFirst
      OBVIOUS
  <2>1. ASSUME NEW s \in Slots, ClientStore(s)
        PROVE  /\ \A p \in DOMAIN entries \ DOMAIN entries' :
                    ~ \E q \in DOMAIN entries \cap DOMAIN entries' :
                         /\ entries'[q].lru = entries[q].lru
                         /\ entries[q].lru < entries[p].lru
               /\ (\E q \in DOMAIN entries' : entries'[q].lru < clock')
                    => Boundaries(ctx[s]) \subseteq DOMAIN entries'
      BY <2>1, StorePrefixEvicts DEF ClientStore
  <2>2. (\E s \in Slots : ClientStore(s)) \/ DOMAIN entries' = DOMAIN entries
      BY DEF KVNext, kvVars, ClientAdmit, ClientGrow, ClientWrite, ClientRewrite, ClientFree,
             AllocAndShare, EnsureCapacity, WriteKV, Free
  <2> QED
      BY <2>1, <2>2
<1> QED
    BY <1>1, AlwaysInv, PTL DEF KVSpec, EvictionIsLRU

-----------------------------------------------------------------------------
(* The cache that keeps its counts *)

\* The counts as CountOf reads them: a block that compact took counts once.
CountedOf(free, count) ==
  [b \in Blocks |-> IF free[b] > 0 THEN count[b] ELSE IF count[b] = 0 THEN 1 ELSE count[b]]

Counted == CountedOf(freeBlocks, refs)

\* What block i of slot s gives its reader, who goes on from the run c[s].
Shown(c, s, i) == SubSeq(c[s], 1, Lesser(i * BlockSize, Len(c[s])))

Shows(short, tab, c, b, run) ==
  \E s \in short : \E i \in 1..BlocksFor(Len(c[s])) : tab[s][i] = b /\ run = Shown(c, s, i)

\* A block of a slot that was shortened is taken for what its reader sees of it.
SeenOf(short, tab, c, held) ==
  [b \in Blocks |-> IF \E run : Shows(short, tab, c, b, run)
                      THEN CHOOSE run : Shows(short, tab, c, b, run) ELSE held[b]]

Seen == SeenOf(evicted, table, ctx, data)

K == INSTANCE PagedKVCacheProofs WITH refs <- Counted, data <- Seen

\* Only a block that compact took has no count, and no entry pins it.
Unpinned == \A b \in Blocks : refs[b] = 0 /\ freeBlocks[b] = 0 => Pinning(entries, b) = {}

\* A shortened slot is in use and shares nothing.
EvictedAlone ==
  /\ evicted \subseteq Slots
  /\ \A s \in evicted : freeSlots[s] = 0 /\ \A b \in Range(table[s]) : Counted[b] = 1

\* Its blocks hold the run it goes on from, and maybe more behind it.
EvictedRead ==
  \A s \in evicted : \A i \in 1..BlocksFor(Len(ctx[s])) :
    LET held == data[table[s][i]]
    IN  /\ Len(held) >= Lesser(i * BlockSize, Len(ctx[s]))
        /\ SubSeq(held, 1, Lesser(i * BlockSize, Len(ctx[s]))) = Shown(ctx, s, i)

EvictInv ==
  /\ K!CacheInv
  /\ refs \in [Blocks -> Nat] /\ data \in [Blocks -> Seq(Tokens)]
  /\ Unpinned /\ EvictedAlone /\ EvictedRead

-----------------------------------------------------------------------------
(* The operators of the instance *)

\* The instance has the sizes of the module.
LEMMA Sized == K!SizesAssumption
BY SizesAssumption DEF IsFiniteSet, K!IsFiniteSet

\* Its operators are the module's own: sizes and block counts,
LEMMA SameSizes == /\ \A S : K!Cardinality(S) = Cardinality(S)
                   /\ \A S : K!IsFiniteSet(S) = IsFiniteSet(S)
                   /\ \A n : K!BlocksFor(n) = BlocksFor(n)
BY DEF K!Cardinality, Cardinality, K!IsFiniteSet, IsFiniteSet, K!BlocksFor, BlocksFor

\* what a sequence names,
LEMMA SameRange == \A f : K!Range(f) = Range(f)
BY DEF K!Range, Range

\* a function on fewer keys,
LEMMA SameRestrict == \A f, S : K!Restrict(f, S) = Restrict(f, S)
BY DEF K!Restrict, Restrict

\* the entries that hold a block,
LEMMA SamePins == \A es, b : K!Pinning(es, b) = Pinning(es, b)
BY SameRange DEF K!Pinning, Pinning

\* the slots that hold one,
LEMMA SameHolders == /\ \A b : K!Holders(b) = Holders(b)
                     /\ \A s, n : K!HasCapacity(s, n) = HasCapacity(s, n)
BY SameRange, SameSizes DEF K!Holders, Holders, K!HasCapacity, HasCapacity

\* the lookup,
LEMMA SameBoundaries == /\ \A t : K!Boundaries(t) = Boundaries(t)
                        /\ \A ps : K!Longest(ps) = Longest(ps)
                        /\ \A t : K!MatchedPrefix(t) = MatchedPrefix(t)
BY DEF K!Boundaries, Boundaries, K!Longest, Longest, K!MatchedPrefix, MatchedPrefix

\* the entries after a store,
LEMMA SameStored == \A s, t : K!Stored(s, t) = Stored(s, t)
BY SameBoundaries DEF K!Stored, Stored

\* and those the budget leaves.
LEMMA SameSurvivors == \A es : K!Survivors(es) = Survivors(es)
<1>1. \A es, ps : K!PinnedBy(es, ps) = PinnedBy(es, ps)
    BY SameRange DEF K!PinnedBy, PinnedBy
<1>2. \A es, p, q : K!Older(es, p, q) <=> Older(es, p, q)
    BY DEF K!Older, Older
<1>3. ASSUME NEW es, NEW p
      PROVE  {q \in DOMAIN es : ~ K!Older(es, q, p)} = {q \in DOMAIN es : ~ Older(es, q, p)}
    BY <1>2
<1>4. ASSUME NEW es, NEW p
      PROVE  K!Cardinality(K!PinnedBy(es, {q \in DOMAIN es : ~ K!Older(es, q, p)}))
               = Cardinality(PinnedBy(es, {q \in DOMAIN es : ~ Older(es, q, p)}))
    BY <1>1, <1>3, SameSizes
<1> QED
    BY <1>4 DEF K!Survivors, Survivors

-----------------------------------------------------------------------------
(* What readers see *)

\* No two shortened slots, and no two places of one, name the same block.
LEMMA SeenOn ==
  ASSUME NEW short, NEW tab, NEW c, NEW held,
         \A s, t \in short :
           \A i \in 1..BlocksFor(Len(c[s])), j \in 1..BlocksFor(Len(c[t])) :
             tab[s][i] = tab[t][j] => s = t /\ i = j,
         NEW s \in short, NEW i \in 1..BlocksFor(Len(c[s])), tab[s][i] \in Blocks
  PROVE  SeenOf(short, tab, c, held)[tab[s][i]] = Shown(c, s, i)
<1> DEFINE b == tab[s][i]
<1>1. \A run : Shows(short, tab, c, b, run) <=> run = Shown(c, s, i)
    BY DEF Shows
<1>2. SeenOf(short, tab, c, held)[b] = CHOOSE run : Shows(short, tab, c, b, run)
    BY <1>1 DEF SeenOf
<1> QED
    BY <1>1, <1>2

\* A block no shortened slot reads is what it holds.
LEMMA SeenOff ==
  ASSUME NEW short, NEW tab, NEW c, NEW held, NEW b \in Blocks,
         \A s \in short : \A i \in 1..BlocksFor(Len(c[s])) : tab[s][i] # b
  PROVE  SeenOf(short, tab, c, held)[b] = held[b]
BY DEF SeenOf, Shows

\* What is seen depends on what the shortened slots read, no more.
LEMMA SeenAlike ==
  ASSUME NEW short, NEW tab, NEW tab2, NEW c, NEW c2, NEW held,
         \A s \in short : c2[s] = c[s],
         \A s \in short : \A i \in 1..BlocksFor(Len(c[s])) : tab2[s][i] = tab[s][i]
  PROVE  SeenOf(short, tab2, c2, held) = SeenOf(short, tab, c, held)
<1>1. \A b, run : Shows(short, tab2, c2, b, run) <=> Shows(short, tab, c, b, run)
    BY DEF Shows, Shown
<1>2. ASSUME NEW b PROVE (CHOOSE run : Shows(short, tab2, c2, b, run)) = CHOOSE run : Shows(short, tab, c, b, run)
    BY <1>1
<1> QED
    BY <1>1, <1>2 DEF SeenOf

-----------------------------------------------------------------------------
(* What the invariant says *)

\* The parts of the invariant the proofs keep using.
LEMMA Facts ==
  ASSUME EvictInv
  PROVE  /\ freeSlots \in [Slots -> 0..1] /\ freeBlocks \in [Blocks -> 0..1]
         /\ table \in [Slots -> Seq(Blocks)] /\ ctx \in [Slots -> Seq(Tokens)]
         /\ refs \in [Blocks -> Nat] /\ data \in [Blocks -> Seq(Tokens)]
         /\ Counted \in [Blocks -> Nat] /\ Seen \in [Blocks -> Seq(Tokens)]
         /\ \A p \in DOMAIN entries : p \in Seq(Tokens) /\ entries[p].blocks \in Seq(Blocks)
         /\ \A s \in Slots : BlocksFor(Len(ctx[s])) <= Len(table[s])
         /\ \A b \in Blocks : freeBlocks[b] = IF Counted[b] = 0 THEN 1 ELSE 0
         /\ \A s \in Slots : freeSlots[s] # 0 => table[s] = <<>> /\ ctx[s] = <<>>
         /\ \A s \in Slots : \A i, j \in DOMAIN table[s] : table[s][i] = table[s][j] => i = j
         /\ evicted \subseteq Slots /\ \A s \in evicted : freeSlots[s] = 0
<1>1. K!KVTypeOK /\ K!PoolConserved /\ K!FreeSlotsEmpty /\ K!ContextsCovered /\ K!BlocksDistinct
    BY DEF EvictInv, K!CacheInv, K!KVInv, K!CountsInv
<1>2. \A p \in DOMAIN entries : p \in Seq(Tokens) /\ entries[p].blocks \in Seq(Blocks)
    BY <1>1 DEF K!KVTypeOK
<1>3. \A s \in Slots : BlocksFor(Len(ctx[s])) <= Len(table[s])
    BY <1>1, SameSizes DEF K!ContextsCovered, K!HasCapacity
<1>4. \A s \in Slots : \A i, j \in DOMAIN table[s] : table[s][i] = table[s][j] => i = j
    BY <1>1 DEF K!BlocksDistinct
<1> QED
    BY <1>1, <1>2, <1>3, <1>4
       DEF EvictInv, EvictedAlone, K!KVTypeOK, K!PoolConserved, K!FreeSlotsEmpty

\* A slot's table names blocks, enough of them for its run.
LEMMA TableFacts ==
  ASSUME EvictInv, NEW s \in Slots
  PROVE  /\ Len(table[s]) \in Nat /\ DOMAIN table[s] = 1..Len(table[s])
         /\ \A i \in 1..Len(table[s]) : table[s][i] \in Blocks /\ table[s][i] \in Range(table[s])
         /\ \A b \in Range(table[s]) : b \in Blocks /\ \E i \in 1..Len(table[s]) : table[s][i] = b
         /\ Len(ctx[s]) \in Nat /\ BlocksFor(Len(ctx[s])) \in Nat
         /\ 1..BlocksFor(Len(ctx[s])) \subseteq 1..Len(table[s])
<1>1. table[s] \in Seq(Blocks) /\ ctx[s] \in Seq(Tokens) /\ BlocksFor(Len(ctx[s])) <= Len(table[s])
    BY Facts
<1>2. /\ Len(table[s]) \in Nat /\ DOMAIN table[s] = 1..Len(table[s]) /\ Len(ctx[s]) \in Nat
      /\ \A i \in 1..Len(table[s]) : table[s][i] \in Blocks
    BY <1>1, LenProperties, ElementOfSeq
<1>3. BlocksFor(Len(ctx[s])) \in Nat
    BY <1>2, BlocksForType
<1> QED
    BY <1>1, <1>2, <1>3 DEF Range

\* What is held is counted.
LEMMA InUseCounted ==
  ASSUME EvictInv, NEW b \in Blocks,
         \/ \E s \in Slots : b \in Range(table[s])
         \/ \E p \in DOMAIN entries : b \in Range(entries[p].blocks)
  PROVE  /\ freeBlocks[b] = 0 /\ Counted[b] = CountOf(b)
         /\ CountOf(b) \in Nat /\ CountOf(b) > 0 /\ K!CountOf(b) = CountOf(b)
<1>1. K!KVTypeOK /\ K!RefcountsExact
    BY DEF EvictInv, K!CacheInv, K!KVInv, K!CountsInv
<1>2. Counted[b] \in Nat /\ Counted[b] > 0 /\ K!CountOf(b) = Counted[b]
    BY <1>1, K!HeldCounted, Sized, SameRange
<1>3. freeBlocks[b] = 0
    BY <1>2, Facts
<1>4. Counted[b] = CountOf(b)
    BY <1>3 DEF Counted, CountedOf, CountOf
<1> QED
    BY <1>2, <1>3, <1>4

\* A free block has no count and no holder.
LEMMA FreeUncounted ==
  ASSUME EvictInv, NEW b \in Blocks, freeBlocks[b] > 0
  PROVE  /\ freeBlocks[b] = 1 /\ refs[b] = 0 /\ Counted[b] = 0
         /\ Holders(b) = {} /\ Pinning(entries, b) = {}
<1>1. K!KVTypeOK /\ K!RefcountsExact /\ K!PoolConserved
    BY DEF EvictInv, K!CacheInv, K!KVInv, K!CountsInv
<1>2. Counted[b] = 0 /\ Holders(b) = {} /\ Pinning(entries, b) = {}
    BY <1>1, K!FreeUnheld, Sized, SameHolders, SamePins
<1>3. freeBlocks[b] = 1 /\ refs[b] = 0
    BY <1>2, Facts DEF Counted, CountedOf
<1> QED
    BY <1>2, <1>3

\* Who holds a block that counts once holds it alone.
LEMMA OnlyHolder ==
  ASSUME EvictInv, NEW s \in Slots, NEW b \in Range(table[s]), Counted[b] = 1
  PROVE  /\ b \in Blocks /\ freeBlocks[b] = 0
         /\ Holders(b) = {s} /\ Pinning(entries, b) = {}
         /\ \A t \in Slots \ {s} : b \notin Range(table[t])
         /\ \A p \in DOMAIN entries : b \notin Range(entries[p].blocks)
<1>1. K!CountsInv
    BY DEF EvictInv, K!CacheInv, K!KVInv
<1>2. b \in Blocks /\ freeBlocks[b] = 0
    BY TableFacts, InUseCounted
<1>3. Holders(b) = {s} /\ Pinning(entries, b) = {}
    BY <1>1, <1>2, K!SoleHolder, Sized, SameRange, SameHolders, SamePins
<1> QED
    BY <1>2, <1>3 DEF Holders, Pinning

\* A block of a shortened slot is its own.
LEMMA Shortened ==
  ASSUME EvictInv, NEW s \in evicted, NEW b \in Range(table[s])
  PROVE  /\ b \in Blocks /\ freeBlocks[b] = 0 /\ Counted[b] = 1
         /\ Holders(b) = {s} /\ Pinning(entries, b) = {}
         /\ \A t \in Slots \ {s} : b \notin Range(table[t])
         /\ \A p \in DOMAIN entries : b \notin Range(entries[p].blocks)
BY OnlyHolder DEF EvictInv, EvictedAlone

\* The blocks that shortened slots read are all different.
LEMMA Separate ==
  ASSUME EvictInv
  PROVE  \A s, t \in evicted :
           \A i \in 1..BlocksFor(Len(ctx[s])), j \in 1..BlocksFor(Len(ctx[t])) :
             /\ table[s][i] \in Blocks
             /\ table[s][i] = table[t][j] => s = t /\ i = j
<1> SUFFICES ASSUME NEW s \in evicted, NEW t \in evicted,
                    NEW i \in 1..BlocksFor(Len(ctx[s])), NEW j \in 1..BlocksFor(Len(ctx[t]))
             PROVE  /\ table[s][i] \in Blocks
                    /\ table[s][i] = table[t][j] => s = t /\ i = j
    OBVIOUS
<1>1. s \in Slots /\ t \in Slots
    BY Facts
<1>2. /\ i \in 1..Len(table[s]) /\ j \in 1..Len(table[t])
      /\ table[s][i] \in Blocks /\ table[s][i] \in Range(table[s]) /\ table[t][j] \in Range(table[t])
      /\ i \in DOMAIN table[s] /\ j \in DOMAIN table[t]
    BY <1>1, TableFacts
<1>3. table[s][i] = table[t][j] => s = t
    BY <1>1, <1>2, Shortened
<1> QED
    BY <1>1, <1>2, <1>3, Facts

\* A shortened slot's block is seen as its reader reads it, another as it is.
LEMMA SeenBlocks ==
  ASSUME EvictInv
  PROVE  /\ \A s \in evicted : \A i \in 1..BlocksFor(Len(ctx[s])) : Seen[table[s][i]] = Shown(ctx, s, i)
         /\ \A b \in Blocks : (\A s \in evicted : b \notin Range(table[s])) => Seen[b] = data[b]
<1>1. ASSUME NEW s \in evicted, NEW i \in 1..BlocksFor(Len(ctx[s]))
      PROVE  Seen[table[s][i]] = Shown(ctx, s, i)
    BY Separate, SeenOn DEF Seen
<1>2. ASSUME NEW b \in Blocks, \A s \in evicted : b \notin Range(table[s])
      PROVE  Seen[b] = data[b]
  <2>1. \A s \in evicted : \A i \in 1..BlocksFor(Len(ctx[s])) : table[s][i] # b
    <3> SUFFICES ASSUME NEW s \in evicted, NEW i \in 1..BlocksFor(Len(ctx[s])) PROVE table[s][i] # b
        OBVIOUS
    <3>1. s \in Slots
        BY Facts
    <3>2. table[s][i] \in Range(table[s])
        BY <3>1, TableFacts
    <3> QED
        BY <1>2, <3>2
  <2> QED
      BY <2>1, SeenOff DEF Seen
<1> QED
    BY <1>1, <1>2

-----------------------------------------------------------------------------
(* Each call is a call of the cache that keeps its counts *)

\* It holds at the start, when nothing is shortened.
LEMMA EvictInitInv == EvictInit => EvictInv
<1> SUFFICES ASSUME EvictInit PROVE EvictInv
    OBVIOUS
<1>1. KVInit /\ evicted = {}
    BY DEF EvictInit
<1>2. Counted = refs
    BY <1>1 DEF KVInit, Counted, CountedOf
<1>3. Seen = data
    BY <1>1 DEF KVInit, Seen, SeenOf, Shows
<1>4. K!KVInit
    BY <1>1, <1>2, <1>3 DEF KVInit, K!KVInit
<1>5. K!CacheInv
    BY <1>4, K!InitInv, Sized
<1>6. refs \in [Blocks -> Nat] /\ data \in [Blocks -> Seq(Tokens)]
    BY <1>1, EmptySeq DEF KVInit
<1>7. Unpinned
    BY <1>1 DEF KVInit, Unpinned
<1> QED
    BY <1>1, <1>5, <1>6, <1>7 DEF EvictInv, EvictedAlone, EvictedRead

\* The three parts about shortened slots, in a step that leaves what they read.
LEMMA ShortenedKept ==
  ASSUME EvictInv, evicted' = evicted,
         \A s \in evicted : /\ ctx'[s] = ctx[s]
                            /\ \A i \in 1..BlocksFor(Len(ctx[s])) :
                                 table'[s][i] = table[s][i] /\ data'[table[s][i]] = data[table[s][i]]
  PROVE  EvictedRead'
<1> SUFFICES ASSUME NEW s \in evicted', NEW i \in 1..BlocksFor(Len(ctx'[s]))
             PROVE  /\ Len(data'[table'[s][i]]) >= Lesser(i * BlockSize, Len(ctx'[s]))
                    /\ SubSeq(data'[table'[s][i]], 1, Lesser(i * BlockSize, Len(ctx'[s]))) = Shown(ctx', s, i)
    BY DEF EvictedRead
<1>1. s \in evicted /\ ctx'[s] = ctx[s] /\ i \in 1..BlocksFor(Len(ctx[s]))
    OBVIOUS
<1>2. data'[table'[s][i]] = data[table[s][i]]
    BY <1>1
<1>3. /\ Len(data[table[s][i]]) >= Lesser(i * BlockSize, Len(ctx[s]))
      /\ SubSeq(data[table[s][i]], 1, Lesser(i * BlockSize, Len(ctx[s]))) = Shown(ctx, s, i)
    BY <1>1 DEF EvictInv, EvictedRead
<1>4. Shown(ctx', s, i) = Shown(ctx, s, i)
    BY <1>1 DEF Shown
<1> QED
    BY <1>1, <1>2, <1>3, <1>4

\* A step that leaves the shortened slots and the data leaves what is seen.
LEMMA SeenUnchanged ==
  ASSUME evicted' = evicted, data' = data,
         \A s \in evicted : /\ ctx'[s] = ctx[s]
                            /\ \A i \in 1..BlocksFor(Len(ctx[s])) : table'[s][i] = table[s][i]
  PROVE  Seen' = Seen
<1>1. SeenOf(evicted, table', ctx', data) = SeenOf(evicted, table, ctx, data)
    BY SeenAlike
<1> QED
    BY <1>1 DEF Seen

\* An admission counts the shared blocks, none of which compact took.
LEMMA AdmitCounted ==
  ASSUME EvictInv, NEW s \in Slots, NEW tokens \in Seq(Tokens), AllocAndShare(s, tokens),
         evicted' = evicted
  PROVE  EvictInv'
<1> DEFINE hits == Boundaries(tokens) \cap DOMAIN entries
           matched == MatchedPrefix(tokens)
           blocks == IF hits = {} THEN <<>> ELSE entries[matched].blocks
<1>1. /\ freeSlots[s] > 0 /\ freeSlots' = [freeSlots EXCEPT ![s] = @ - 1]
      /\ clock' = clock + 1
      /\ entries' = [p \in DOMAIN entries |->
                       IF p \in hits THEN [entries[p] EXCEPT !.lru = clock + 1] ELSE entries[p]]
      /\ hits = {} => UNCHANGED <<table, refs>>
      /\ hits # {} => /\ table' = [table EXCEPT ![s] = blocks]
                      /\ refs' = [b \in Blocks |-> IF b \in Range(blocks) THEN CountOf(b) + 1 ELSE refs[b]]
      /\ ctx' = [ctx EXCEPT ![s] = matched]
      /\ freeBlocks' = freeBlocks /\ pins' = pins /\ data' = data
    BY DEF AllocAndShare, ShareBlocks
<1>2. s \notin evicted
    BY <1>1, Facts
<1>3. hits # {} => matched \in DOMAIN entries
    BY K!MatchedHasEntry, Sized, SameBoundaries
<1>4. \A b \in Range(blocks) : b \in Blocks => freeBlocks[b] = 0 /\ K!CountOf(b) = CountOf(b) /\ CountOf(b) \in Nat
  <2> SUFFICES ASSUME NEW b \in Range(blocks), b \in Blocks
               PROVE  freeBlocks[b] = 0 /\ K!CountOf(b) = CountOf(b) /\ CountOf(b) \in Nat
      OBVIOUS
  <2>1. hits # {}
      BY DEF Range
  <2> QED
      BY <1>3, <2>1, InUseCounted
<1>5. hits # {} => Counted' = [b \in Blocks |-> IF b \in Range(blocks) THEN K!CountOf(b) + 1 ELSE Counted[b]]
  <2> SUFFICES ASSUME hits # {}, NEW b \in Blocks
               PROVE  Counted'[b] = IF b \in Range(blocks) THEN K!CountOf(b) + 1 ELSE Counted[b]
      BY DEF Counted, CountedOf
  <2>1. Counted'[b] = IF freeBlocks[b] > 0 THEN refs'[b] ELSE IF refs'[b] = 0 THEN 1 ELSE refs'[b]
      BY <1>1 DEF Counted, CountedOf
  <2>2. CASE b \in Range(blocks)
      BY <1>1, <1>4, <2>1, <2>2
  <2>3. CASE b \notin Range(blocks)
      BY <1>1, <2>1, <2>3 DEF Counted, CountedOf
  <2> QED
      BY <2>2, <2>3
<1>6. hits = {} => Counted' = Counted
    BY <1>1 DEF Counted
<1>7. \A t \in evicted : t # s /\ table'[t] = table[t] /\ ctx'[t] = ctx[t]
    BY <1>1, <1>2, Facts
<1>8. Seen' = Seen
    BY <1>1, <1>7, SeenUnchanged
<1>9. K!AllocAndShare(s, tokens)
    BY <1>1, <1>5, <1>6, <1>8, SameBoundaries, SameRange DEF K!AllocAndShare, K!ShareBlocks
<1>10. K!CacheInv'
    BY <1>9, K!AllocAndShareInv, Sized DEF EvictInv
<1>11. refs' \in [Blocks -> Nat] /\ data' \in [Blocks -> Seq(Tokens)]
  <2>1. refs \in [Blocks -> Nat] /\ data \in [Blocks -> Seq(Tokens)]
      BY Facts
  <2>2. CASE hits = {}
      BY <1>1, <2>1, <2>2
  <2>3. CASE hits # {}
    <3>1. \A b \in Blocks : (IF b \in Range(blocks) THEN CountOf(b) + 1 ELSE refs[b]) \in Nat
      <4> SUFFICES ASSUME NEW b \in Blocks
                   PROVE  (IF b \in Range(blocks) THEN CountOf(b) + 1 ELSE refs[b]) \in Nat
          OBVIOUS
      <4>1. CASE b \in Range(blocks)
        <5>1. CountOf(b) \in Nat
            BY <1>4, <4>1
        <5> QED
            BY <4>1, <5>1
      <4>2. CASE b \notin Range(blocks)
          BY <2>1, <4>2
      <4> QED
          BY <4>1, <4>2
    <3> QED
        BY <1>1, <2>1, <2>3, <3>1
  <2> QED
      BY <2>2, <2>3
<1>12. \A b : Pinning(entries', b) = Pinning(entries, b)
  <2>1. DOMAIN entries' = DOMAIN entries
      BY <1>1
  <2>2. \A p \in DOMAIN entries : entries'[p].blocks = entries[p].blocks
      BY <1>1, Facts DEF K!KVTypeOK, EvictInv, K!CacheInv, K!KVInv, K!CountsInv
  <2> QED
      BY <2>1, <2>2 DEF Pinning
<1>13. \A b \in Blocks : refs'[b] = 0 => refs[b] = 0
    BY <1>1, <1>4
<1>14. Unpinned'
    BY <1>1, <1>12, <1>13 DEF Unpinned, EvictInv
<1>15. EvictedAlone'
  <2>1. ASSUME NEW t \in evicted, NEW b \in Range(table[t]) PROVE Counted'[b] = 1
    <3>1. b \in Blocks /\ Counted[b] = 1 /\ \A p \in DOMAIN entries : b \notin Range(entries[p].blocks)
        BY <2>1, Shortened
    <3>2. hits # {} => b \notin Range(blocks)
        BY <1>3, <3>1
    <3> QED
        BY <1>5, <1>6, <3>1, <3>2
  <2>2. \A t \in evicted : freeSlots'[t] = 0
      BY <1>1, <1>7, Facts
  <2> QED
      BY <1>7, <2>1, <2>2, Facts DEF EvictedAlone
<1>16. EvictedRead'
    BY <1>1, <1>7, ShortenedKept
<1> QED
    BY <1>10, <1>11, <1>14, <1>15, <1>16 DEF EvictInv

\* What f \o g names, f or g names.
LEMMA ConcatRange ==
  ASSUME NEW T, NEW f \in Seq(T), NEW g \in Seq(T)
  PROVE  Range(f \o g) \subseteq Range(f) \cup Range(g)
<1>1. /\ Len(f) \in Nat /\ Len(g) \in Nat
      /\ DOMAIN f = 1..Len(f) /\ DOMAIN g = 1..Len(g)
    BY LenProperties
<1>2. /\ f \o g \in Seq(T) /\ Len(f \o g) = Len(f) + Len(g)
      /\ \A i \in 1..Len(f) + Len(g) : (f \o g)[i] = IF i <= Len(f) THEN f[i] ELSE g[i - Len(f)]
    BY ConcatProperties
<1>3. DOMAIN (f \o g) = 1..Len(f) + Len(g)
    BY <1>2, LenProperties
<1> SUFFICES ASSUME NEW i \in 1..Len(f) + Len(g) PROVE (f \o g)[i] \in Range(f) \cup Range(g)
    BY <1>3 DEF Range
<1>4. CASE i <= Len(f)
    BY <1>1, <1>2, <1>4 DEF Range
<1>5. CASE i > Len(f)
  <2>1. i - Len(f) \in DOMAIN g
      BY <1>1, <1>5
  <2> QED
      BY <1>1, <1>2, <1>5, <2>1 DEF Range
<1> QED
    BY <1>1, <1>4, <1>5

\* A longer run needs no fewer blocks.
LEMMA MoreBlocks ==
  ASSUME NEW m \in Nat, NEW n \in Nat, m <= n
  PROVE  BlocksFor(m) <= BlocksFor(n)
BY SizesAssumption DEF BlocksFor

\* ensure_capacity takes blocks that are free for both caches.
LEMMA GrowCounted ==
  ASSUME EvictInv, NEW s \in Slots, freeSlots[s] = 0, NEW n \in Nat, EnsureCapacity(s, n),
         evicted' = evicted
  PROVE  EvictInv'
<1>1. K!Popped(s, n) = Popped(s, n)
  <2> DEFINE free == {b \in Blocks : freeBlocks[b] > 0}
             count(missing, left) == IF missing <= 0 THEN 0 ELSE IF missing <= left THEN missing ELSE left
             k == count(BlocksFor(n) - Len(table[s]), Cardinality(free))
             l == count(K!BlocksFor(n) - Len(table[s]), K!Cardinality(free))
  <2>1. Popped(s, n) = {q \in [1..k -> free] : \A i, j \in 1..k : q[i] = q[j] => i = j}
      BY DEF Popped
  <2>2. K!Popped(s, n) = {q \in [1..l -> free] : \A i, j \in 1..l : q[i] = q[j] => i = j}
      BY DEF K!Popped
  <2>3. k = l
    <3> HIDE DEF free, count
    <3> QED
        BY SameSizes
  <2> HIDE DEF k, l
  <2> QED
      BY <2>1, <2>2, <2>3
<1>2. PICK q \in Popped(s, n) :
        /\ table' = [table EXCEPT ![s] = @ \o q]
        /\ refs' = [b \in Blocks |-> IF b \in Range(q) THEN 1 ELSE refs[b]]
        /\ freeBlocks' = [b \in Blocks |-> IF b \in Range(q) THEN freeBlocks[b] - 1 ELSE freeBlocks[b]]
        /\ UNCHANGED <<freeSlots, entries, pins, clock, data, ctx>>
    BY DEF EnsureCapacity
<1>3. q \in Seq(Blocks) /\ \A b \in Range(q) : b \in Blocks /\ freeBlocks[b] > 0
  <2> DEFINE free == {b \in Blocks : freeBlocks[b] > 0}
  <2>1. PICK k \in Nat : q \in [1..k -> free]
    <3>1. IsFiniteSet(free)
        BY SizesAssumption, FS_Subset
    <3>2. Cardinality(free) \in Nat /\ BlocksFor(n) \in Nat /\ Len(table[s]) \in Nat
        BY <3>1, FS_CardinalityType, BlocksForType, TableFacts
    <3> DEFINE missing == BlocksFor(n) - Len(table[s])
               k == IF missing <= 0 THEN 0
                    ELSE IF missing <= Cardinality(free) THEN missing ELSE Cardinality(free)
    <3>3. q \in [1..k -> free]
        BY DEF Popped
    <3> HIDE DEF free
    <3>4. k \in Nat
        BY <3>2
    <3> HIDE DEF k
    <3> QED
        BY <3>3, <3>4
  <2>2. q \in Seq(free)
      BY <2>1
  <2> QED
      BY <2>1, <2>2 DEF Range
<1>4. \A b \in Range(q) : /\ b \in Blocks /\ freeBlocks[b] = 1 /\ refs[b] = 0
                          /\ Holders(b) = {} /\ Pinning(entries, b) = {}
    BY <1>3, FreeUncounted
<1>5. Counted' = [b \in Blocks |-> IF b \in Range(q) THEN 1 ELSE Counted[b]]
  <2> SUFFICES ASSUME NEW b \in Blocks PROVE Counted'[b] = IF b \in Range(q) THEN 1 ELSE Counted[b]
      BY DEF Counted, CountedOf
  <2>1. Counted'[b] = IF freeBlocks'[b] > 0 THEN refs'[b] ELSE IF refs'[b] = 0 THEN 1 ELSE refs'[b]
      BY DEF Counted, CountedOf
  <2>2. CASE b \in Range(q)
      BY <1>2, <1>4, <2>1, <2>2
  <2>3. CASE b \notin Range(q)
      BY <1>2, <2>1, <2>3 DEF Counted, CountedOf
  <2> QED
      BY <2>2, <2>3
<1>6. \A t \in evicted : /\ t \in Slots /\ ctx'[t] = ctx[t]
                         /\ \A i \in 1..BlocksFor(Len(ctx[t])) : table'[t][i] = table[t][i]
  <2> SUFFICES ASSUME NEW t \in evicted, NEW i \in 1..BlocksFor(Len(ctx[t])) PROVE table'[t][i] = table[t][i]
      BY <1>2, Facts
  <2>1. t \in Slots
      BY Facts
  <2>2. i \in 1..Len(table[t]) /\ table[t] \in Seq(Blocks)
      BY <2>1, TableFacts, Facts
  <2>3. CASE t = s
    <3>1. (table[s] \o q)[i] = table[s][i]
        BY <1>3, <2>2, <2>3, ConcatProperties
    <3> QED
        BY <1>2, <2>1, <2>3, <3>1, Facts
  <2>4. CASE t # s
      BY <1>2, <2>1, <2>4, Facts
  <2> QED
      BY <2>3, <2>4
<1>7. Seen' = Seen
    BY <1>2, <1>6, SeenUnchanged
<1>8. K!EnsureCapacity(s, n)
    BY <1>1, <1>2, <1>5, <1>7, SameRange DEF K!EnsureCapacity
<1>9. K!CacheInv'
    BY <1>8, K!EnsureCapacityInv, Sized DEF EvictInv
<1>10. refs' \in [Blocks -> Nat] /\ data' \in [Blocks -> Seq(Tokens)]
    BY <1>2, Facts
<1>11. Unpinned'
    BY <1>2 DEF Unpinned, EvictInv, Pinning
<1>12. EvictedAlone'
  <2> SUFFICES ASSUME NEW t \in evicted PROVE freeSlots'[t] = 0 /\ \A b \in Range(table'[t]) : Counted'[b] = 1
      BY <1>6 DEF EvictedAlone
  <2>1. t \in Slots /\ freeSlots'[t] = 0 /\ table[t] \in Seq(Blocks)
      BY <1>2, Facts
  <2>2. \A b \in Range(table[t]) : Counted'[b] = 1
      BY <1>5, Shortened
  <2>3. CASE t # s
      BY <1>2, <2>1, <2>2, <2>3, Facts
  <2>4. CASE t = s
    <3>1. table'[t] = table[t] \o q
        BY <1>2, <2>1, <2>4, Facts
    <3>2. Range(table[t] \o q) \subseteq Range(table[t]) \cup Range(q)
        BY <1>3, <2>1, ConcatRange
    <3> QED
        BY <1>4, <1>5, <2>1, <2>2, <3>1, <3>2
  <2> QED
      BY <2>3, <2>4
<1>13. EvictedRead'
    BY <1>2, <1>6, ShortenedKept
<1> QED
    BY <1>9, <1>10, <1>11, <1>12, <1>13 DEF EvictInv

\* A packed prefill, whose slot was not shortened, writes nothing new over what
\* the slot already reads.
LEMMA RewriteCounted ==
  ASSUME EvictInv, NEW s \in Slots, s \notin evicted, NEW tokens \in Seq(Tokens),
         Len(ctx[s]) <= Len(tokens), SubSeq(tokens, 1, Len(ctx[s])) = ctx[s],
         HasCapacity(s, Len(tokens)), WriteKV(s, 0, tokens)
  PROVE  WriteKV(s, Len(ctx[s]), tokens)
<1>1. /\ data \in [Blocks -> Seq(Tokens)] /\ table[s] \in Seq(Blocks) /\ ctx[s] \in Seq(Tokens)
      /\ DOMAIN table[s] = 1..Len(table[s]) /\ Len(table[s]) \in Nat
    BY Facts, LenProperties
\* Nothing it holds is a shortened slot's.
<1>2. \A i \in DOMAIN table[s] : table[s][i] \in Blocks /\ table[s][i] \in Range(table[s])
    BY <1>1, ElementOfSeq DEF Range
<1>3. \A i \in DOMAIN table[s] : \A t \in evicted : table[s][i] \notin Range(table[t])
  <2> SUFFICES ASSUME NEW i \in DOMAIN table[s], NEW t \in evicted, table[s][i] \in Range(table[t])
               PROVE  FALSE
      OBVIOUS
  <2>1. t \in Slots /\ t # s /\ Counted[table[s][i]] = 1
      BY Facts DEF EvictInv, EvictedAlone
  <2>2. PICK k \in DOMAIN table[t] : table[t][k] = table[s][i]
      BY DEF Range
  <2>3. \A u \in Slots \ {t} : table[t][k] \notin Range(table[u])
      BY <2>1, <2>2, OnlyHolder
  <2> QED
      BY <1>2, <2>1, <2>2, <2>3
<1>4. \A i \in DOMAIN table[s] : Seen[table[s][i]] = data[table[s][i]]
  <2> TAKE i \in DOMAIN table[s]
  <2>1. \A t \in evicted : \A k \in 1..BlocksFor(Len(ctx[t])) : table[t][k] # table[s][i]
    <3> TAKE t \in evicted
    <3> TAKE k \in 1..BlocksFor(Len(ctx[t]))
    <3>1. table[t][k] \in Range(table[t])
        BY Facts, TableFacts
    <3> QED
        BY <1>3, <3>1
  <2> QED
      BY <1>2, <2>1, SeenOff DEF Seen
<1>5. K!SlotsIntact
    BY DEF EvictInv, K!CacheInv, K!CacheIntact
<1>6. \A i \in DOMAIN table[s] :
        i * BlockSize <= Len(ctx[s]) => Seen[table[s][i]] = SubSeq(ctx[s], 1, i * BlockSize)
  <2> SUFFICES ASSUME NEW i \in DOMAIN table[s], i * BlockSize <= Len(ctx[s])
               PROVE  Seen[table[s][i]] = SubSeq(ctx[s], 1, i * BlockSize)
      OBVIOUS
  <2>1. Len(ctx[s]) \in Nat /\ i \in Nat /\ 1 <= i
      BY <1>1, LenProperties
  <2>2. (IF i * BlockSize < Len(ctx[s]) THEN i * BlockSize ELSE Len(ctx[s])) = i * BlockSize
      BY <2>1, WholeBlock
  <2>3. i \in 1..BlocksFor(Len(ctx[s]))
      BY <2>1, WholeBlock
  <2>4. Seen[table[s][i]] =
          SubSeq(ctx[s], 1, IF i * BlockSize < Len(ctx[s]) THEN i * BlockSize ELSE Len(ctx[s]))
      BY <1>5, <2>3, SameSizes DEF K!SlotsIntact
  <2> QED
      BY <2>2, <2>4
<1>7. \A i, j \in DOMAIN table[s] : table[s][i] = table[s][j] => i = j
    BY Facts
<1> QED
    BY <1>1, <1>4, <1>6, <1>7, RewriteIsWrite

\* A write lands in blocks of its slot, and extends what a shortened slot reads.
LEMMA WriteCounted ==
  ASSUME EvictInv, NEW s \in Slots, freeSlots[s] = 0, NEW tokens \in Seq(Tokens),
         Len(ctx[s]) <= Len(tokens), SubSeq(tokens, 1, Len(ctx[s])) = ctx[s],
         HasCapacity(s, Len(tokens)), WriteKV(s, Len(ctx[s]), tokens), evicted' = evicted
  PROVE  EvictInv'
<1> DEFINE n == Len(tokens)
           m == Len(ctx[s])
           wrote == Touched(m, n)
           upto(i) == IF i * BlockSize < n THEN i * BlockSize ELSE n
<1>1. /\ data' = [b \in Blocks |-> IF \E i \in wrote : table[s][i] = b
                                     THEN LET i == CHOOSE j \in wrote : table[s][j] = b
                                          IN  SubSeq(tokens, 1, upto(i))
                                     ELSE data[b]]
      /\ ctx' = [ctx EXCEPT ![s] = tokens]
      /\ UNCHANGED <<freeSlots, freeBlocks, table, refs, entries, pins, clock>>
    BY DEF WriteKV
<1>2. /\ n \in Nat /\ m \in Nat /\ m <= n /\ BlocksFor(n) \in Nat /\ BlocksFor(m) \in Nat
      /\ BlocksFor(n) <= Len(table[s]) /\ Len(table[s]) \in Nat
    BY BlocksForType, LenProperties, Facts DEF HasCapacity
<1>3. \A i \in wrote : /\ i \in Nat /\ i \in DOMAIN table[s] /\ i \in 1..BlocksFor(n) /\ i * BlockSize > m
                       /\ table[s][i] \in Blocks /\ table[s][i] \in Range(table[s])
  <2> SUFFICES ASSUME NEW i \in wrote
               PROVE  /\ i \in Nat /\ i \in DOMAIN table[s] /\ i \in 1..BlocksFor(n) /\ i * BlockSize > m
                      /\ table[s][i] \in Blocks /\ table[s][i] \in Range(table[s])
      OBVIOUS
  <2>1. i \in 1..BlocksFor(n) /\ i * BlockSize > m
      BY DEF Touched
  <2>2. i \in 1..Len(table[s])
      BY <1>2, <2>1
  <2> QED
      BY <2>1, <2>2, TableFacts
<1>4. \A i, j \in wrote : table[s][i] = table[s][j] => i = j
    BY <1>3, Facts
<1>5. \A i \in wrote : data'[table[s][i]] = SubSeq(tokens, 1, upto(i))
  <2> TAKE i \in wrote
  <2>1. (CHOOSE j \in wrote : table[s][j] = table[s][i]) = i
      BY <1>4
  <2> QED
      BY <1>1, <1>3, <2>1
<1>6. \A b \in Blocks : (\A i \in wrote : table[s][i] # b) => data'[b] = data[b]
    BY <1>1
<1>7. Counted' = Counted
    BY <1>1 DEF Counted
<1>8. ctx'[s] = tokens /\ \A t \in Slots \ {s} : ctx'[t] = ctx[t]
    BY <1>1, Facts
\* What s writes, nobody else has.
<1>9. \A i \in wrote : Holders(table[s][i]) = {s} /\ \A t \in evicted \ {s} : table[s][i] \notin Range(table[t])
  <2> TAKE i \in wrote
  <2>1. Counted[table[s][i]] = 1
      BY <1>3 DEF EvictInv, K!CacheInv, K!KVInv, K!TailsPrivate
  <2>2. /\ Holders(table[s][i]) = {s}
        /\ \A t \in Slots \ {s} : table[s][i] \notin Range(table[t])
      BY <1>3, <2>1, OnlyHolder
  <2> QED
      BY <2>2, Facts
\* The new places read by the slot that was shortened.
<1>10. \A i \in (1..BlocksFor(n)) \ wrote : /\ i \in 1..BlocksFor(m) /\ i * BlockSize \in Nat /\ i * BlockSize <= m
  <2> SUFFICES ASSUME NEW i \in 1..BlocksFor(n), ~ (i * BlockSize > m)
               PROVE  i \in 1..BlocksFor(m) /\ i * BlockSize \in Nat /\ i * BlockSize <= m
      BY DEF Touched
  <2>1. i \in Nat /\ i >= 1 /\ BlockSize \in Nat
      BY <1>2, SizesAssumption
  <2>2. i * BlockSize \in Nat /\ i * BlockSize <= m
      BY <1>2, <2>1
  <2>3. i <= BlocksFor(m)
      BY <1>2, <2>1, <2>2, K!WholeIndex, Sized, SameSizes
  <2> QED
      BY <1>2, <2>1, <2>2, <2>3
<1>11. \A i \in (1..BlocksFor(n)) \ wrote : Shown(ctx', s, i) = Shown(ctx, s, i)
  <2> TAKE i \in (1..BlocksFor(n)) \ wrote
  <2> DEFINE k == i * BlockSize
  <2>1. k \in Nat /\ k <= m /\ m <= n /\ i \in 1..BlocksFor(m)
      BY <1>2, <1>10
  <2> HIDE DEF k
  <2>2. SubSeq(SubSeq(tokens, 1, m), 1, k) = SubSeq(tokens, 1, k)
      BY <1>2, <2>1, K!PrefixOfPrefix, Sized
  <2>3. Lesser(k, n) = k /\ Lesser(k, m) = k
      BY <1>2, <2>1 DEF Lesser
  <2> QED
      BY <1>8, <2>2, <2>3 DEF Shown, k
<1>12. \A i \in wrote : Shown(ctx', s, i) = SubSeq(tokens, 1, upto(i))
    BY <1>8 DEF Shown, Lesser
<1>13. \A t \in evicted : \A i \in 1..BlocksFor(Len(ctx'[t])) :
         i \in 1..Len(table[t]) /\ table[t][i] \in Blocks /\ table[t][i] \in Range(table[t])
  <2> SUFFICES ASSUME NEW t \in evicted, NEW i \in 1..BlocksFor(Len(ctx'[t]))
               PROVE  i \in 1..Len(table[t]) /\ table[t][i] \in Blocks /\ table[t][i] \in Range(table[t])
      OBVIOUS
  <2>1. t \in Slots
      BY Facts
  <2>2. i \in 1..Len(table[t])
    <3>1. CASE t = s
        BY <1>2, <1>8, <3>1
    <3>2. CASE t # s
        BY <1>8, <2>1, <3>2, TableFacts
    <3> QED
        BY <3>1, <3>2
  <2> QED
      BY <2>1, <2>2, TableFacts
<1>14. \A t \in evicted : \A i \in 1..BlocksFor(Len(ctx'[t])) : Seen'[table[t][i]] = Shown(ctx', t, i)
  <2>1. \A t, u \in evicted :
          \A i \in 1..BlocksFor(Len(ctx'[t])), j \in 1..BlocksFor(Len(ctx'[u])) :
            table[t][i] = table[u][j] => t = u /\ i = j
    <3> SUFFICES ASSUME NEW t \in evicted, NEW u \in evicted,
                        NEW i \in 1..BlocksFor(Len(ctx'[t])), NEW j \in 1..BlocksFor(Len(ctx'[u])),
                        table[t][i] = table[u][j]
                 PROVE  t = u /\ i = j
        OBVIOUS
    <3>1. t \in Slots /\ u \in Slots
        BY Facts
    <3>2. t = u
        BY <1>13, <3>1, Shortened
    <3>3. i \in DOMAIN table[t] /\ j \in DOMAIN table[u]
        BY <1>13, <3>1, TableFacts
    <3> QED
        BY <3>1, <3>2, <3>3, Facts
  <2>2. Seen' = SeenOf(evicted, table, ctx', data')
      BY <1>1 DEF Seen
  <2> QED
      BY <1>13, <2>1, <2>2, SeenOn
<1>15. \A b \in Blocks : (\A t \in evicted : b \notin Range(table[t])) => Seen'[b] = data'[b]
  <2> SUFFICES ASSUME NEW b \in Blocks, \A t \in evicted : b \notin Range(table[t]) PROVE Seen'[b] = data'[b]
      OBVIOUS
  <2>1. \A t \in evicted : \A i \in 1..BlocksFor(Len(ctx'[t])) : table[t][i] # b
      BY <1>13
  <2>2. Seen' = SeenOf(evicted, table, ctx', data')
      BY <1>1 DEF Seen
  <2> QED
      BY <2>1, <2>2, SeenOff
<1>16. \A i \in wrote : Seen'[table[s][i]] = SubSeq(tokens, 1, upto(i))
  <2> TAKE i \in wrote
  <2>1. CASE s \in evicted
      BY <1>3, <1>8, <1>12, <1>14, <2>1
  <2>2. CASE s \notin evicted
    <3>1. \A t \in evicted : table[s][i] \notin Range(table[t])
        BY <1>9, <2>2
    <3> QED
        BY <1>3, <1>5, <1>15, <3>1
  <2> QED
      BY <2>1, <2>2
<1>17. \A b \in Blocks : (\A i \in wrote : table[s][i] # b) => Seen'[b] = Seen[b]
  <2> SUFFICES ASSUME NEW b \in Blocks, \A i \in wrote : table[s][i] # b PROVE Seen'[b] = Seen[b]
      OBVIOUS
  <2>1. CASE \A t \in evicted : b \notin Range(table[t])
      BY <1>6, <1>15, <2>1, SeenBlocks
  <2>2. CASE \E t \in evicted : \E i \in 1..BlocksFor(Len(ctx[t])) : table[t][i] = b
    <3>0. PICK t \in evicted : \E i \in 1..BlocksFor(Len(ctx[t])) : table[t][i] = b
        BY <2>2
    <3>1. PICK i \in 1..BlocksFor(Len(ctx[t])) : table[t][i] = b
        BY <3>0
    <3>2. t \in Slots
        BY Facts
    <3>3. i \in 1..BlocksFor(Len(ctx'[t])) /\ Shown(ctx', t, i) = Shown(ctx, t, i)
      <4>1. CASE t # s
          BY <1>8, <3>2, <4>1 DEF Shown
      <4>2. CASE t = s
        <5>1. BlocksFor(m) <= BlocksFor(n)
            BY <1>2, MoreBlocks
        <5>2. i \in 1..BlocksFor(n)
            BY <1>2, <4>2, <5>1
        <5>3. i \notin wrote
            BY <2>2, <3>1, <4>2
        <5> QED
            BY <1>8, <1>11, <4>2, <5>2, <5>3
      <4> QED
          BY <4>1, <4>2
    <3> QED
        BY <1>14, <3>1, <3>3, SeenBlocks
  <2>3. CASE /\ \E t \in evicted : b \in Range(table[t])
             /\ \A t \in evicted : \A i \in 1..BlocksFor(Len(ctx[t])) : table[t][i] # b
    <3>1. Seen[b] = data[b]
        BY <2>3, SeenOff DEF Seen
    <3>2. \A t \in evicted : \A i \in 1..BlocksFor(Len(ctx'[t])) : table[t][i] # b
      <4> TAKE t \in evicted
      <4> TAKE i \in 1..BlocksFor(Len(ctx'[t]))
      <4>1. t \in Slots
          BY Facts
      <4>2. CASE t # s
          BY <1>8, <2>3, <4>1, <4>2
      <4>3. CASE t = s
        <5>1. i \in 1..BlocksFor(n)
            BY <1>8, <4>3
        <5>2. CASE i \in wrote
            BY <2>2, <4>3, <5>2
        <5>3. CASE i \notin wrote
            BY <1>10, <2>3, <4>3, <5>1, <5>3
        <5> QED
            BY <5>2, <5>3
      <4> QED
          BY <4>2, <4>3
    <3>3. Seen' = SeenOf(evicted, table, ctx', data')
        BY <1>1 DEF Seen
    <3>4. Seen'[b] = data'[b]
        BY <3>2, <3>3, SeenOff
    <3> QED
        BY <1>6, <3>1, <3>4
  <2> QED
      BY <2>1, <2>2, <2>3
<1>18. K!WriteKV(s, m, tokens)
  <2>1. K!Touched(m, n) = wrote
      BY SameSizes DEF K!Touched, Touched
  <2>2. Seen' = [b \in Blocks |-> IF \E i \in wrote : table[s][i] = b
                                    THEN LET i == CHOOSE j \in wrote : table[s][j] = b
                                         IN  SubSeq(tokens, 1, upto(i))
                                    ELSE Seen[b]]
    <3> SUFFICES ASSUME NEW b \in Blocks
                 PROVE  Seen'[b] = IF \E i \in wrote : table[s][i] = b
                                    THEN LET i == CHOOSE j \in wrote : table[s][j] = b
                                         IN  SubSeq(tokens, 1, upto(i))
                                    ELSE Seen[b]
      <4>1. Seen' = [b \in Blocks |-> Seen'[b]]
          BY DEF Seen, SeenOf
      <4> HIDE DEF wrote, upto
      <4> QED
          BY <4>1
    <3>1. CASE \A i \in wrote : table[s][i] # b
        BY <1>17, <3>1
    <3>2. ASSUME NEW i \in wrote, table[s][i] = b PROVE Seen'[b] = SubSeq(tokens, 1, upto(CHOOSE j \in wrote : table[s][j] = b))
      <4>1. (CHOOSE j \in wrote : table[s][j] = b) = i
          BY <1>4, <3>2
      <4> QED
          BY <1>16, <3>2, <4>1
    <3> QED
        BY <3>1, <3>2
  <2> HIDE DEF upto
  <2> QED
      BY <1>1, <1>7, <2>1, <2>2 DEF K!WriteKV, upto
<1>19. K!CacheInv'
  <2>1. K!HasCapacity(s, Len(tokens))
      BY SameHolders
  <2>2. m \in 0..m
      BY <1>2
  <2> QED
      BY <1>2, <1>18, <2>1, <2>2, K!WriteKVInv, Sized DEF EvictInv
<1>20. refs' \in [Blocks -> Nat] /\ data' \in [Blocks -> Seq(Tokens)]
  <2>1. \A b \in Blocks : data'[b] \in Seq(Tokens)
    <3> TAKE b \in Blocks
    <3>1. CASE \A i \in wrote : table[s][i] # b
        BY <1>6, <3>1, Facts
    <3>2. ASSUME NEW i \in wrote, table[s][i] = b PROVE data'[b] \in Seq(Tokens)
      <4>1. upto(i) \in 0..n
          BY <1>2, <1>3, <3>2, SizesAssumption
      <4>2. \A j \in 1..upto(i) : tokens[j] \in Tokens
          BY <1>2, <4>1, ElementOfSeq
      <4>3. upto(i) \in Int
          BY <1>2, <4>1
      <4>4. SubSeq(tokens, 1, upto(i)) \in Seq(Tokens)
          BY <4>2, <4>3, SubSeqProperties
      <4> QED
          BY <1>5, <3>2, <4>4
    <3> QED
        BY <3>1, <3>2
  <2> QED
      BY <1>1, <2>1, Facts
<1>21. Unpinned'
    BY <1>1 DEF Unpinned, EvictInv, Pinning
<1>22. EvictedAlone'
    BY <1>1, <1>7 DEF EvictedAlone, EvictInv
<1>23. EvictedRead'
  <2>0. evicted' = evicted /\ table' = table
      BY <1>1
  <2> SUFFICES ASSUME NEW t \in evicted', NEW i \in 1..BlocksFor(Len(ctx'[t]))
               PROVE  /\ Len(data'[table'[t][i]]) >= Lesser(i * BlockSize, Len(ctx'[t]))
                      /\ SubSeq(data'[table'[t][i]], 1, Lesser(i * BlockSize, Len(ctx'[t]))) = Shown(ctx', t, i)
      BY DEF EvictedRead
  <2>1. t \in Slots /\ t \in evicted
      BY <2>0, Facts
  <2>2. CASE t = s /\ i \in wrote
    <3> DEFINE k == upto(i)
    <3>1. k \in 0..n /\ Lesser(i * BlockSize, n) = k
        BY <1>2, <1>3, <2>2, SizesAssumption DEF Lesser
    <3>2. data'[table[s][i]] = SubSeq(tokens, 1, k)
        BY <1>5, <2>2
    <3>3. Shown(ctx', s, i) = SubSeq(tokens, 1, k)
        BY <1>12, <2>2
    <3> HIDE DEF k
    <3>4. SubSeq(SubSeq(tokens, 1, k), 1, k) = SubSeq(tokens, 1, k)
        BY <1>2, <3>1, K!PrefixOfPrefix, Sized
    <3>5. \A j \in 1..k : tokens[j] \in Tokens
        BY <1>2, <3>1, ElementOfSeq
    <3>6. Len(SubSeq(tokens, 1, k)) = k
        BY <1>2, <3>1, <3>5, SubSeqProperties
    <3> QED
        BY <1>2, <1>8, <2>0, <2>2, <3>1, <3>2, <3>3, <3>4, <3>6
  <2>3. CASE t # s \/ i \notin wrote
    <3>1. /\ i \in 1..BlocksFor(Len(ctx[t])) /\ Shown(ctx', t, i) = Shown(ctx, t, i)
          /\ Lesser(i * BlockSize, Len(ctx'[t])) = Lesser(i * BlockSize, Len(ctx[t]))
      <4>1. CASE t # s
          BY <1>8, <2>1, <4>1 DEF Shown
      <4>2. CASE t = s
        <5>1. i \in (1..BlocksFor(n)) \ wrote
            BY <1>8, <2>3, <4>2
        <5> DEFINE k == i * BlockSize
        <5>2. i \in 1..BlocksFor(m) /\ k \in Nat /\ k <= m
            BY <1>10, <5>1
        <5> HIDE DEF k
        <5>3. Lesser(k, n) = k /\ Lesser(k, m) = k
            BY <1>2, <5>2 DEF Lesser
        <5> QED
            BY <1>8, <1>11, <4>2, <5>1, <5>2, <5>3 DEF k
      <4> QED
          BY <4>1, <4>2
    <3>2. data'[table[t][i]] = data[table[t][i]]
      <4>1. table[t][i] \in Blocks /\ table[t][i] \in Range(table[t])
          BY <1>13, <2>1
      <4>2. \A j \in wrote : table[s][j] # table[t][i]
        <5>1. CASE t # s
            BY <1>9, <2>1, <4>1, <5>1
        <5>2. CASE t = s
          <6>1. i \in DOMAIN table[s] /\ i \notin wrote
              BY <1>13, <2>1, <2>3, <5>2, TableFacts
          <6> QED
              BY <1>3, <5>2, <6>1, Facts
        <5> QED
            BY <5>1, <5>2
      <4> QED
          BY <1>6, <4>1, <4>2
    <3> QED
        BY <2>0, <2>1, <3>1, <3>2 DEF EvictInv, EvictedRead
  <2> QED
      BY <2>2, <2>3
<1> QED
    BY <1>19, <1>20, <1>21, <1>22, <1>23 DEF EvictInv

\* Nothing changes.
LEMMA StutterCounted ==
  ASSUME EvictInv, UNCHANGED kvVars, evicted' = evicted
  PROVE  EvictInv'
<1>1. /\ freeSlots' = freeSlots /\ freeBlocks' = freeBlocks /\ table' = table /\ refs' = refs
      /\ entries' = entries /\ pins' = pins /\ clock' = clock /\ data' = data /\ ctx' = ctx
    BY DEF kvVars
<1>2. Counted' = Counted /\ Seen' = Seen
    BY <1>1 DEF Counted, Seen
<1>3. K!CacheInv'
    BY <1>1, <1>2, K!StutterInv, Sized DEF EvictInv, K!kvVars
<1>4. Unpinned' /\ EvictedAlone' /\ EvictedRead'
    BY <1>1, <1>2 DEF EvictInv, Unpinned, EvictedAlone, EvictedRead, Pinning
<1> QED
    BY <1>1, <1>3, <1>4 DEF EvictInv

\* A store pins and unpins blocks of slots that are not shortened.
LEMMA StoreCounted ==
  ASSUME EvictInv, NEW s \in Slots, s \notin evicted, StorePrefix(s, ctx[s]), evicted' = evicted
  PROVE  EvictInv'
<1> DEFINE stored == Stored(s, ctx[s])
           kept == Survivors(stored)
           added(b) == Cardinality(Pinning(stored, b) \ DOMAIN entries)
           gone(b) == Cardinality(Pinning(stored, b) \ kept)
           count(b) == (IF added(b) > 0 THEN K!CountOf(b) ELSE Counted[b]) + added(b) - gone(b)
<1>1. CASE Boundaries(ctx[s]) = {}
    BY <1>1, StutterCounted DEF StorePrefix
<1>2. CASE Boundaries(ctx[s]) # {}
  <2>1. /\ clock' = clock + 1 /\ entries' = Restrict(stored, kept)
        /\ refs' = [b \in Blocks |-> (IF added(b) > 0 THEN CountOf(b) ELSE refs[b]) + added(b) - gone(b)]
        /\ pins' = [b \in Blocks |-> pins[b] + added(b) - gone(b)]
        /\ freeBlocks' = [b \in Blocks |-> IF gone(b) > 0 /\ refs'[b] = 0 THEN freeBlocks[b] + 1 ELSE freeBlocks[b]]
        /\ data' = [b \in Blocks |-> IF freeBlocks'[b] > 0 THEN <<>> ELSE data[b]]
        /\ freeSlots' = freeSlots /\ table' = table /\ ctx' = ctx
      BY <1>2 DEF StorePrefix
  <2>2. /\ DOMAIN stored = DOMAIN entries \cup Boundaries(ctx[s]) /\ IsFiniteSet(DOMAIN stored)
        /\ \A p \in DOMAIN entries : stored[p].blocks = entries[p].blocks
        /\ \A p \in DOMAIN stored \ DOMAIN entries : Range(stored[p].blocks) \subseteq Range(table[s])
    <3>1. K!CountsInv /\ ctx[s] \in Seq(Tokens) /\ K!HasCapacity(s, Len(ctx[s]))
        BY Facts, SameSizes DEF EvictInv, K!CacheInv, K!KVInv, K!HasCapacity
    <3>2. /\ DOMAIN K!Stored(s, ctx[s]) = DOMAIN entries \cup K!Boundaries(ctx[s])
          /\ K!IsFiniteSet(DOMAIN K!Stored(s, ctx[s]))
          /\ \A p \in DOMAIN entries : K!Stored(s, ctx[s])[p].blocks = entries[p].blocks
          /\ \A p \in DOMAIN K!Stored(s, ctx[s]) \ DOMAIN entries :
               K!Range(K!Stored(s, ctx[s])[p].blocks) \subseteq K!Range(table[s])
        BY <3>1, K!StoredFacts, Sized
    <3> QED
        BY <3>2, SameStored, SameBoundaries, SameSizes, SameRange
  <2>3. \A b : IsFiniteSet(Pinning(stored, b)) /\ added(b) \in Nat /\ gone(b) \in Nat
    <3> TAKE b
    <3>1. Pinning(stored, b) \in SUBSET (DOMAIN stored)
        BY DEF Pinning
    <3>2. IsFiniteSet(Pinning(stored, b))
        BY <2>2, <3>1, FS_Subset
    <3>3. IsFiniteSet(Pinning(stored, b) \ DOMAIN entries) /\ IsFiniteSet(Pinning(stored, b) \ kept)
        BY <3>2, FS_Difference
    <3> QED
        BY <3>2, <3>3, FS_CardinalityType
  <2>4. ASSUME NEW b, Pinning(entries, b) = {}, added(b) = 0
        PROVE  Pinning(stored, b) = {} /\ gone(b) = 0
    <3>1. IsFiniteSet(Pinning(stored, b) \ DOMAIN entries)
        BY <2>3, FS_Difference
    <3>2. Pinning(stored, b) \ DOMAIN entries = {}
        BY <2>4, <3>1, FS_EmptySet
    <3>3. Pinning(stored, b) = {}
        BY <2>2, <2>4, <3>2 DEF Pinning
    <3>4. Pinning(stored, b) \ kept = {}
        BY <3>3
    <3> QED
        BY <3>3, <3>4, FS_EmptySet
  <2>5. ASSUME NEW b, Pinning(entries, b) = {}, b \notin Range(table[s])
        PROVE  Pinning(stored, b) = {} /\ added(b) = 0 /\ gone(b) = 0
    <3>1. Pinning(stored, b) = {}
        BY <2>2, <2>5 DEF Pinning
    <3>2. Pinning(stored, b) \ DOMAIN entries = {} /\ Pinning(stored, b) \ kept = {}
        BY <3>1
    <3> QED
        BY <3>1, <3>2, FS_EmptySet
  <2>6. ASSUME NEW b \in Blocks, freeBlocks[b] > 0
        PROVE  added(b) = 0 /\ gone(b) = 0 /\ Counted[b] = 0 /\ refs[b] = 0 /\ freeBlocks[b] = 1
    <3>1. /\ freeBlocks[b] = 1 /\ refs[b] = 0 /\ Counted[b] = 0
          /\ Holders(b) = {} /\ Pinning(entries, b) = {}
        BY <2>6, FreeUncounted
    <3>2. b \notin Range(table[s])
        BY <3>1 DEF Holders
    <3> QED
        BY <2>5, <3>1, <3>2
  <2>7. ASSUME NEW b \in Blocks, ~ (freeBlocks[b] > 0)
        PROVE  /\ freeBlocks[b] = 0 /\ Counted[b] = CountOf(b) /\ K!CountOf(b) = CountOf(b)
               /\ CountOf(b) \in Nat /\ CountOf(b) > 0 /\ refs[b] \in Nat
               /\ refs[b] = 0 => CountOf(b) = 1
               /\ refs[b] > 0 => CountOf(b) = refs[b]
    <3>1. freeBlocks[b] = 0 /\ Counted[b] \in Nat /\ Counted[b] # 0 /\ refs[b] \in Nat
        BY <2>7, Facts
    <3>2. Counted[b] = CountOf(b)
        BY <3>1 DEF Counted, CountedOf, CountOf
    <3> QED
        BY <3>1, <3>2 DEF CountOf, K!CountOf
  <2>8. ASSUME NEW b \in Blocks, refs[b] = 0, added(b) = 0
        PROVE  gone(b) = 0 /\ (~ (freeBlocks[b] > 0) => Pinning(stored, b) = {})
    <3>1. CASE freeBlocks[b] > 0
        BY <2>6, <3>1
    <3>2. CASE ~ (freeBlocks[b] > 0)
      <4>1. Pinning(entries, b) = {}
          BY <2>7, <2>8, <3>2 DEF EvictInv, Unpinned
      <4> QED
          BY <2>4, <2>8, <4>1
    <3> QED
        BY <3>1, <3>2
  <2> HIDE DEF stored, kept, added, gone
  <2>9. \A b \in Blocks :
          /\ Counted'[b] = count(b)
          /\ gone(b) > 0 => (refs'[b] = 0 <=> count(b) = 0)
          /\ refs'[b] = 0 /\ freeBlocks'[b] = 0 => Pinning(stored, b) = {}
          /\ refs'[b] = 0 \/ refs'[b] = Counted'[b]
    <3> TAKE b \in Blocks
    <3>1. refs'[b] = (IF added(b) > 0 THEN CountOf(b) ELSE refs[b]) + added(b) - gone(b)
        BY <2>1
    <3>2. freeBlocks'[b] = IF gone(b) > 0 /\ refs'[b] = 0 THEN freeBlocks[b] + 1 ELSE freeBlocks[b]
        BY <2>1
    <3>3. Counted'[b] = IF freeBlocks'[b] > 0 THEN refs'[b] ELSE IF refs'[b] = 0 THEN 1 ELSE refs'[b]
        BY DEF Counted, CountedOf
    <3>4. added(b) \in Nat /\ gone(b) \in Nat
        BY <2>3
    <3>5. CASE freeBlocks[b] > 0
        BY <2>6, <3>1, <3>2, <3>3, <3>4, <3>5
    <3>6. CASE ~ (freeBlocks[b] > 0) /\ (added(b) > 0 \/ refs[b] > 0)
      <4>1. /\ freeBlocks[b] = 0 /\ Counted[b] = CountOf(b) /\ K!CountOf(b) = CountOf(b)
            /\ CountOf(b) \in Nat /\ CountOf(b) > 0 /\ (refs[b] > 0 => CountOf(b) = refs[b])
          BY <2>7, <3>6
      <4>2. refs'[b] = CountOf(b) + added(b) - gone(b) /\ count(b) = refs'[b]
          BY <3>1, <3>4, <3>6, <4>1
      <4>3. refs'[b] = 0 => gone(b) > 0
          BY <3>4, <4>1, <4>2
      <4>4. refs'[b] = 0 => freeBlocks'[b] = 1
          BY <3>2, <4>1, <4>3
      <4>5. refs'[b] # 0 => freeBlocks'[b] = 0
          BY <3>2, <4>1
      <4> QED
          BY <3>3, <4>2, <4>4, <4>5
    <3>7. CASE ~ (freeBlocks[b] > 0) /\ ~ (added(b) > 0 \/ refs[b] > 0)
      <4>1. /\ freeBlocks[b] = 0 /\ Counted[b] = CountOf(b) /\ refs[b] \in Nat
            /\ CountOf(b) \in Nat /\ (refs[b] = 0 => CountOf(b) = 1)
          BY <2>7, <3>7
      <4>2. refs[b] = 0 /\ added(b) = 0
          BY <3>4, <3>7, <4>1
      <4>3. gone(b) = 0 /\ Pinning(stored, b) = {}
          BY <2>8, <3>7, <4>2
      <4> QED
          BY <3>1, <3>2, <3>3, <4>1, <4>2, <4>3
    <3> QED
        BY <3>5, <3>6, <3>7
  <2>10. Counted' = [b \in Blocks |-> count(b)]
    <3>1. Counted' = [b \in Blocks |-> Counted'[b]]
        BY DEF Counted, CountedOf
    <3> HIDE DEF count
    <3> QED
        BY <2>9, <3>1
  <2>11. \A t \in evicted : \A b \in Range(table[t]) :
           b \in Blocks /\ added(b) = 0 /\ gone(b) = 0 /\ freeBlocks'[b] = 0 /\ data'[b] = data[b] /\ Counted'[b] = 1
    <3> SUFFICES ASSUME NEW t \in evicted, NEW b \in Range(table[t])
                 PROVE  b \in Blocks /\ added(b) = 0 /\ gone(b) = 0 /\ freeBlocks'[b] = 0 /\ data'[b] = data[b] /\ Counted'[b] = 1
        OBVIOUS
    <3>1. /\ b \in Blocks /\ freeBlocks[b] = 0 /\ Counted[b] = 1 /\ Pinning(entries, b) = {}
          /\ \A u \in Slots \ {t} : b \notin Range(table[u])
        BY Shortened
    <3>2. b \notin Range(table[s])
        BY <3>1
    <3>3. added(b) = 0 /\ gone(b) = 0
        BY <2>5, <3>1, <3>2
    <3>4. freeBlocks'[b] = 0
        BY <2>1, <3>1, <3>3
    <3>5. count(b) = 1
        BY <3>1, <3>3
    <3> QED
        BY <2>1, <2>9, <3>1, <3>3, <3>4, <3>5
  <2>12. Seen' = [b \in Blocks |-> IF freeBlocks'[b] > 0 THEN <<>> ELSE Seen[b]]
    <3> SUFFICES ASSUME NEW b \in Blocks PROVE Seen'[b] = IF freeBlocks'[b] > 0 THEN <<>> ELSE Seen[b]
      <4>1. Seen' = [b \in Blocks |-> Seen'[b]]
          BY DEF Seen, SeenOf
      <4> QED
          BY <4>1
    <3>1. Seen' = SeenOf(evicted, table, ctx, data')
        BY <2>1 DEF Seen
    <3>2. CASE \E t \in evicted : b \in Range(table[t])
      <4>1. freeBlocks'[b] = 0 /\ data'[b] = data[b]
          BY <2>11, <3>2
      <4>2. SeenOf(evicted, table, ctx, data')[b] = SeenOf(evicted, table, ctx, data)[b]
          BY <4>1 DEF SeenOf
      <4> QED
          BY <3>1, <4>1, <4>2 DEF Seen
    <3>3. CASE \A t \in evicted : b \notin Range(table[t])
      <4>1. \A t \in evicted : \A i \in 1..BlocksFor(Len(ctx[t])) : table[t][i] # b
        <5> TAKE t \in evicted
        <5> TAKE i \in 1..BlocksFor(Len(ctx[t]))
        <5>1. t \in Slots
            BY Facts
        <5> QED
            BY <3>3, <5>1, TableFacts
      <4>2. Seen'[b] = data'[b] /\ Seen[b] = data[b]
          BY <3>1, <4>1, SeenOff DEF Seen
      <4> QED
          BY <2>1, <4>2
    <3> QED
        BY <3>2, <3>3
  <2>13. K!StorePrefix(s, ctx[s])
    <3>1. \A b : /\ added(b) = K!Cardinality(K!Pinning(K!Stored(s, ctx[s]), b) \ DOMAIN entries)
                 /\ gone(b) = K!Cardinality(K!Pinning(K!Stored(s, ctx[s]), b) \ K!Survivors(K!Stored(s, ctx[s])))
        BY SameSizes, SamePins, SameStored, SameSurvivors DEF added, gone, stored, kept
    <3>2. entries' = K!Restrict(K!Stored(s, ctx[s]), K!Survivors(K!Stored(s, ctx[s])))
        BY <2>1, SameRestrict, SameStored, SameSurvivors DEF stored, kept
    <3>3. freeBlocks' = [b \in Blocks |-> IF gone(b) > 0 /\ Counted'[b] = 0 THEN freeBlocks[b] + 1 ELSE freeBlocks[b]]
      <4> HIDE DEF count
      <4> QED
          BY <2>1, <2>9
    <3> QED
        BY <1>2, <2>1, <2>10, <2>12, <3>1, <3>2, <3>3, SameBoundaries DEF K!StorePrefix
  <2>14. K!CacheInv'
      BY <2>13, K!StorePrefixInv, Sized DEF EvictInv
  <2>15. refs' \in [Blocks -> Nat] /\ data' \in [Blocks -> Seq(Tokens)]
    <3>1. Counted' \in [Blocks -> Nat]
        BY <2>14 DEF K!CacheInv, K!KVInv, K!CountsInv, K!KVTypeOK
    <3>2. \A b \in Blocks : refs'[b] \in Nat
        BY <2>9, <3>1
    <3>3. refs' = [b \in Blocks |-> refs'[b]]
        BY <2>1
    <3>4. <<>> \in Seq(Tokens)
        BY EmptySeq
    <3> QED
        BY <2>1, <3>2, <3>3, <3>4, Facts
  <2>16. Unpinned'
    <3>1. \A b : Pinning(entries', b) \subseteq Pinning(stored, b)
        BY <2>1 DEF Pinning, Restrict, kept, Survivors
    <3> QED
        BY <2>9, <3>1 DEF Unpinned
  <2>17. EvictedAlone'
      BY <2>1, <2>11 DEF EvictedAlone, EvictInv
  <2>18. EvictedRead'
    <3>1. \A t \in evicted : \A i \in 1..BlocksFor(Len(ctx[t])) : data'[table[t][i]] = data[table[t][i]]
      <4> TAKE t \in evicted
      <4> TAKE i \in 1..BlocksFor(Len(ctx[t]))
      <4>1. t \in Slots
          BY Facts
      <4>2. table[t][i] \in Range(table[t])
          BY <4>1, TableFacts
      <4> QED
          BY <2>11, <4>2
    <3> QED
        BY <2>1, <3>1, ShortenedKept
  <2> QED
      BY <2>14, <2>15, <2>16, <2>17, <2>18 DEF EvictInv
<1> QED
    BY <1>1, <1>2

\* A slot's free takes one reference of each block; one without a count has one.
LEMMA FreeCounted ==
  ASSUME EvictInv, NEW s \in Slots, freeSlots[s] = 0, Free(s), evicted' = evicted \ {s}
  PROVE  EvictInv'
<1> DEFINE held == Range(table[s])
           last(b) == b \in held /\ CountOf(b) = 1
<1>1. /\ refs' = [b \in Blocks |-> IF b \in held THEN CountOf(b) - 1 ELSE refs[b]]
      /\ freeBlocks' = [b \in Blocks |-> IF last(b) THEN freeBlocks[b] + 1 ELSE freeBlocks[b]]
      /\ data' = [b \in Blocks |-> IF last(b) THEN <<>> ELSE data[b]]
      /\ table' = [table EXCEPT ![s] = <<>>]
      /\ freeSlots' = [freeSlots EXCEPT ![s] = @ + 1]
      /\ ctx' = [ctx EXCEPT ![s] = <<>>]
      /\ entries' = entries /\ pins' = pins /\ clock' = clock
    BY DEF Free
<1>2. \A b \in held : /\ b \in Blocks /\ freeBlocks[b] = 0 /\ Counted[b] = CountOf(b)
                      /\ CountOf(b) \in Nat /\ CountOf(b) > 0 /\ K!CountOf(b) = CountOf(b)
    BY TableFacts, InUseCounted
<1>3. \A t \in evicted \ {s} : /\ t \in Slots /\ table'[t] = table[t] /\ ctx'[t] = ctx[t]
                               /\ freeSlots'[t] = 0 /\ \A b \in Range(table[t]) : b \notin held
    BY <1>1, Facts, Shortened
<1>4. s \in evicted => \A b \in held : last(b)
    BY <1>2, Shortened
<1>5. Counted' = [b \in Blocks |-> IF b \in held THEN K!CountOf(b) - 1 ELSE Counted[b]]
  <2> SUFFICES ASSUME NEW b \in Blocks
               PROVE  Counted'[b] = IF b \in held THEN K!CountOf(b) - 1 ELSE Counted[b]
      BY DEF Counted, CountedOf
  <2>1. Counted'[b] = IF freeBlocks'[b] > 0 THEN refs'[b] ELSE IF refs'[b] = 0 THEN 1 ELSE refs'[b]
      BY DEF Counted, CountedOf
  <2>2. CASE b \in held
      BY <1>1, <1>2, <2>1, <2>2
  <2>3. CASE b \notin held
      BY <1>1, <2>1, <2>3 DEF Counted, CountedOf
  <2> QED
      BY <2>2, <2>3
<1>6. \A t \in evicted \ {s} : \A i \in 1..BlocksFor(Len(ctx[t])) : table[t][i] \in Range(table[t])
    BY <1>3, TableFacts
<1>7. Seen' = SeenOf(evicted \ {s}, table', ctx', data')
    BY DEF Seen
<1>8. SeenOf(evicted \ {s}, table', ctx', data') = SeenOf(evicted \ {s}, table, ctx, data')
    BY <1>3, SeenAlike
<1>9. ASSUME NEW b \in Blocks PROVE Seen'[b] = IF last(b) THEN <<>> ELSE Seen[b]
  <2>1. CASE b \in held
    <3>1. \A t \in evicted \ {s} : \A i \in 1..BlocksFor(Len(ctx[t])) : table[t][i] # b
        BY <1>3, <1>6, <2>1
    <3>2. Seen'[b] = data'[b]
        BY <1>7, <1>8, <3>1, SeenOff
    <3>3. CASE last(b)
        BY <1>1, <3>2, <3>3
    <3>4. CASE ~ last(b)
      <4>1. s \notin evicted
          BY <1>4, <2>1, <3>4
      <4>2. Seen[b] = data[b]
          BY <3>1, <4>1, SeenOff DEF Seen
      <4> QED
          BY <1>1, <3>2, <3>4, <4>2
    <3> QED
        BY <3>3, <3>4
  <2>2. CASE b \notin held
    <3>1. \A run : Shows(evicted \ {s}, table, ctx, b, run) <=> Shows(evicted, table, ctx, b, run)
      <4>1. \A i \in 1..BlocksFor(Len(ctx[s])) : table[s][i] # b
          BY <2>2, TableFacts
      <4> QED
          BY <4>1 DEF Shows
    <3>2. data'[b] = data[b]
        BY <1>1, <2>2
    <3>3. (CHOOSE run : Shows(evicted \ {s}, table, ctx, b, run)) = CHOOSE run : Shows(evicted, table, ctx, b, run)
        BY <3>1
    <3>4. SeenOf(evicted \ {s}, table, ctx, data')[b] = SeenOf(evicted, table, ctx, data)[b]
        BY <3>1, <3>2, <3>3 DEF SeenOf
    <3> QED
        BY <1>7, <1>8, <2>2, <3>4 DEF Seen
  <2> QED
      BY <2>1, <2>2
<1>10. Seen' = [b \in Blocks |-> IF last(b) THEN <<>> ELSE Seen[b]]
  <2>1. Seen' = [b \in Blocks |-> Seen'[b]]
      BY DEF Seen, SeenOf
  <2> HIDE DEF last
  <2> QED
      BY <1>9, <2>1
<1>11. K!Free(s)
  <2>1. \A b \in Blocks : last(b) <=> b \in K!Range(table[s]) /\ K!CountOf(b) = 1
      BY <1>2, SameRange
  <2>2. freeBlocks' = [b \in Blocks |-> IF b \in K!Range(table[s]) /\ K!CountOf(b) = 1
                                          THEN freeBlocks[b] + 1 ELSE freeBlocks[b]]
      BY <1>1, <2>1
  <2>3. Seen' = [b \in Blocks |-> IF b \in K!Range(table[s]) /\ K!CountOf(b) = 1 THEN <<>> ELSE Seen[b]]
    <3> HIDE DEF last
    <3> QED
        BY <1>10, <2>1
  <2>4. Counted' = [b \in Blocks |-> IF b \in K!Range(table[s]) THEN K!CountOf(b) - 1 ELSE Counted[b]]
      BY <1>5, SameRange
  <2> QED
      BY <1>1, <2>2, <2>3, <2>4 DEF K!Free
<1>12. K!CacheInv'
    BY <1>11, K!FreeInv, Sized DEF EvictInv
<1>13. refs' \in [Blocks -> Nat] /\ data' \in [Blocks -> Seq(Tokens)]
  <2>1. \A b \in Blocks : (IF b \in held THEN CountOf(b) - 1 ELSE refs[b]) \in Nat
      BY <1>2, Facts
  <2>2. <<>> \in Seq(Tokens)
      BY EmptySeq
  <2> QED
      BY <1>1, <2>1, <2>2, Facts
<1>14. Unpinned'
  <2> SUFFICES ASSUME NEW b \in Blocks, refs'[b] = 0, freeBlocks'[b] = 0 PROVE Pinning(entries, b) = {}
      BY <1>1 DEF Unpinned, Pinning
  <2>1. CASE b \in held
      BY <1>1, <1>2, <2>1
  <2>2. CASE b \notin held
      BY <1>1, <2>2 DEF EvictInv, Unpinned
  <2> QED
      BY <2>1, <2>2
<1>15. EvictedAlone'
  <2> SUFFICES ASSUME NEW t \in evicted \ {s}, NEW b \in Range(table[t]) PROVE Counted'[b] = 1
      BY <1>3 DEF EvictedAlone
  <2>1. b \in Blocks /\ Counted[b] = 1 /\ b \notin held
      BY <1>3, Shortened
  <2> QED
      BY <1>5, <2>1
<1>16. EvictedRead'
  <2> SUFFICES ASSUME NEW t \in evicted', NEW i \in 1..BlocksFor(Len(ctx'[t]))
               PROVE  /\ Len(data'[table'[t][i]]) >= Lesser(i * BlockSize, Len(ctx'[t]))
                      /\ SubSeq(data'[table'[t][i]], 1, Lesser(i * BlockSize, Len(ctx'[t]))) = Shown(ctx', t, i)
      BY DEF EvictedRead
  <2>1. t \in evicted /\ t \in evicted \ {s}
      OBVIOUS
  <2>2. table'[t] = table[t] /\ ctx'[t] = ctx[t] /\ i \in 1..BlocksFor(Len(ctx[t]))
      BY <1>3, <2>1
  <2>3. table[t][i] \in Range(table[t]) /\ table[t][i] \notin held /\ table[t][i] \in Blocks
      BY <1>3, <1>6, <2>1, <2>2, Shortened
  <2>4. data'[table[t][i]] = data[table[t][i]]
      BY <1>1, <2>3
  <2>5. Shown(ctx', t, i) = Shown(ctx, t, i)
      BY <2>2 DEF Shown
  <2> QED
      BY <2>1, <2>2, <2>4, <2>5 DEF EvictInv, EvictedRead
<1> QED
    BY <1>12, <1>13, <1>14, <1>15, <1>16 DEF EvictInv

-----------------------------------------------------------------------------
(* The kept positions *)

\* f lists S from the least to the greatest.
Lists(f, S) ==
  /\ f \in [1..Cardinality(S) -> S]
  /\ \A i, j \in 1..Cardinality(S) : i < j => f[i] < f[j]

\* A nonempty set of positions up to n has a greatest one.
LEMMA GreatestExists ==
  ASSUME NEW n \in Nat, NEW S \in SUBSET (1..n), S # {}
  PROVE  \E m \in S : \A k \in S : k <= m
<1> DEFINE gaps == {n - p : p \in S}
<1>1. gaps \subseteq Nat /\ gaps # {}
  <2>1. \A p \in S : p \in 1..n /\ n - p \in Nat
      OBVIOUS
  <2> QED
      BY <2>1
<1>2. PICK g \in gaps : \A h \in gaps : <<h, g>> \notin OpToRel(<, Nat)
  <2> HIDE DEF gaps
  <2> QED
      BY <1>1, NatLessThanWellFounded, WFMin
<1>3. \A h \in gaps : ~ (h < g)
    BY <1>1, <1>2 DEF OpToRel
<1>4. PICK m \in S : g = n - m
    OBVIOUS
<1>5. ASSUME NEW k \in S PROVE k <= m
  <2>1. ~ (n - k < n - m)
      BY <1>3, <1>4
  <2> QED
      BY <2>1
<1> QED
    BY <1>5

\* A set of positions is finite.
LEMMA PositionsFinite ==
  ASSUME NEW n \in Nat, NEW S \in SUBSET (1..n)
  PROVE  IsFiniteSet(S) /\ Cardinality(S) \in Nat
<1>1. IsFiniteSet(1..n)
    BY FS_Interval
<1>2. IsFiniteSet(S)
    BY <1>1, FS_Subset
<1> QED
    BY <1>2, FS_CardinalityType

\* Every set of positions can be listed in order.
LEMMA ListExists ==
  ASSUME NEW n \in Nat
  PROVE  \A S \in SUBSET (1..n) : \E f : Lists(f, S)
<1> DEFINE short == {m \in Nat : \E S \in SUBSET (1..n) : Cardinality(S) = m /\ ~ \E f : Lists(f, S)}
<1>1. \A S \in SUBSET (1..n) : IsFiniteSet(S) /\ Cardinality(S) \in Nat
    BY PositionsFinite
<1>2. ASSUME short # {} PROVE FALSE
  <2>1. PICK m \in short : \A k \in short : <<k, m>> \notin OpToRel(<, Nat)
    <3>1. short \subseteq Nat
        OBVIOUS
    <3> HIDE DEF short
    <3> QED
        BY <1>2, <3>1, NatLessThanWellFounded, WFMin
  <2>2. \A k \in short : ~ (k < m)
      BY <2>1 DEF OpToRel
  <2>3. PICK S \in SUBSET (1..n) : Cardinality(S) = m /\ ~ \E f : Lists(f, S)
      OBVIOUS
  <2>4. m # 0
    <3> SUFFICES ASSUME m = 0 PROVE FALSE
        OBVIOUS
    <3>1. S = {}
        BY <1>1, <2>3, FS_EmptySet
    <3>2. Lists(<<>>, S)
        BY <2>3, <3>1 DEF Lists
    <3> QED
        BY <2>3, <3>2
  <2>5. S # {}
      BY <2>3, <2>4, FS_EmptySet
  <2>6. PICK x \in S : \A k \in S : k <= x
      BY <2>5, GreatestExists
  <2>7. Cardinality(S \ {x}) = m - 1 /\ m \in Nat
      BY <1>1, <2>3, FS_RemoveElement
  <2>8. m - 1 \notin short /\ m - 1 \in Nat
      BY <2>2, <2>4, <2>7
  <2>9. PICK f : Lists(f, S \ {x})
    <3>1. S \ {x} \in SUBSET (1..n)
        OBVIOUS
    <3> QED
        BY <2>7, <2>8, <3>1
  <2>10. /\ f \in [1..(m - 1) -> S \ {x}]
         /\ \A i, j \in 1..(m - 1) : i < j => f[i] < f[j]
      BY <2>7, <2>9 DEF Lists
  <2> DEFINE g == [i \in 1..m |-> IF i = m THEN x ELSE f[i]]
  <2>11. g \in [1..m -> S]
    <3> SUFFICES ASSUME NEW i \in 1..m, i # m PROVE f[i] \in S
        OBVIOUS
    <3>1. i \in 1..(m - 1)
        BY <2>7
    <3> QED
        BY <2>10, <3>1
  <2>12. ASSUME NEW i \in 1..m, NEW j \in 1..m, i < j PROVE g[i] < g[j]
    <3>1. i \in 1..(m - 1) /\ i # m
        BY <2>7, <2>12
    <3>2. f[i] \in S /\ f[i] # x /\ g[i] = f[i]
        BY <2>10, <3>1
    <3>3. CASE j = m
      <4>1. f[i] <= x /\ f[i] \in 1..n /\ x \in 1..n
          BY <2>6, <3>2
      <4>2. f[i] < x
          BY <3>2, <4>1
      <4> QED
          BY <3>2, <3>3, <4>2
    <3>4. CASE j # m
      <4>1. j \in 1..(m - 1) /\ g[j] = f[j]
          BY <2>7, <3>4
      <4> QED
          BY <2>10, <2>12, <3>1, <3>2, <4>1
    <3> QED
        BY <3>3, <3>4
  <2>13. Lists(g, S)
    <3> HIDE DEF g
    <3> QED
        BY <2>3, <2>11, <2>12 DEF Lists
  <2> QED
      BY <2>3, <2>13
<1> QED
    BY <1>1, <1>2

\* InOrder does that.
LEMMA InOrderLists ==
  ASSUME NEW n \in Nat, NEW S \in SUBSET (1..n)
  PROVE  Lists(InOrder(S), S) /\ Cardinality(S) \in Nat
<1>1. Cardinality(S) \in Nat
    BY PositionsFinite
<1> DEFINE k == Cardinality(S)
           P(q) == \A i, j \in DOMAIN q : i < j => q[i] < q[j]
<1>2. PICK f : Lists(f, S)
    BY ListExists
<1>3. f \in [1..k -> S] /\ P(f)
    BY <1>2 DEF Lists
<1>4. InOrder(S) = CHOOSE q \in [1..k -> S] : P(q)
    BY DEF InOrder
<1>5. InOrder(S) \in [1..k -> S] /\ P(InOrder(S))
    BY <1>3, <1>4
<1> QED
    BY <1>1, <1>5 DEF Lists

\* Listed in order, the first k positions are 1 to k.
LEMMA FirstInOrder ==
  ASSUME NEW k \in Nat
  PROVE  Cardinality(1..k) = k /\ InOrder(1..k) = [i \in 1..k |-> i]
<1> DEFINE f == InOrder(1..k)
<1>1. Cardinality(1..k) = k
    BY FS_Interval
<1>2. f \in [1..k -> 1..k] /\ \A i, j \in 1..k : i < j => f[i] < f[j]
    BY <1>1, InOrderLists DEF Lists
<1> HIDE DEF f
<1>3. \A i \in 1..k : f[i] >= i
  <2> DEFINE low == {i \in 1..k : ~ (f[i] >= i)}
  <2> SUFFICES ASSUME low # {} PROVE FALSE
      OBVIOUS
  <2>1. PICK i \in low : \A j \in low : <<j, i>> \notin OpToRel(<, Nat)
    <3>1. low \subseteq Nat
        OBVIOUS
    <3> HIDE DEF low
    <3> QED
        BY <3>1, NatLessThanWellFounded, WFMin
  <2>2. \A j \in low : ~ (j < i)
    <3>1. low \subseteq Nat
        OBVIOUS
    <3> HIDE DEF low
    <3> QED
        BY <2>1, <3>1 DEF OpToRel
  <2>3. i \in 1..k /\ f[i] \in 1..k /\ f[i] < i
      BY <1>2
  <2>4. i - 1 \in 1..k /\ i - 1 < i
      BY <2>3
  <2>5. f[i - 1] >= i - 1 /\ f[i - 1] < f[i] /\ f[i - 1] \in 1..k
      BY <1>2, <2>2, <2>3, <2>4
  <2> QED
      BY <2>3, <2>5
<1>4. \A i \in 1..k : f[i] <= i
  <2> DEFINE high == {i \in 1..k : ~ (f[i] <= i)}
  <2> SUFFICES ASSUME high # {} PROVE FALSE
      OBVIOUS
  <2>1. PICK i \in high : \A j \in high : j <= i
    <3>1. high \in SUBSET (1..k)
        OBVIOUS
    <3> HIDE DEF high
    <3> QED
        BY <3>1, GreatestExists
  <2>2. i \in 1..k /\ f[i] \in 1..k /\ f[i] > i
      BY <1>2
  <2>3. i + 1 \in 1..k /\ ~ (i + 1 <= i)
      BY <2>2
  <2>4. f[i + 1] <= i + 1 /\ f[i] < f[i + 1] /\ f[i + 1] \in 1..k
      BY <1>2, <2>1, <2>2, <2>3
  <2> QED
      BY <2>2, <2>4
<1>5. \A i \in 1..k : f[i] = i
    BY <1>2, <1>3, <1>4
<1> QED
    BY <1>1, <1>2, <1>5 DEF f

\* Every policy selects positions of the prompt.
LEMMA SelectionPositions ==
  ASSUME NEW n \in Nat, NEW policy \in Policies, NEW budget \in Nat, NEW S \in Selections(policy, budget, n)
  PROVE  S \in SUBSET (1..n)
<1>1. \A c : Best(c, n) \subseteq SUBSET (1..n)
    BY DEF Best, kSubset
<1>2. policy \in {"snapkv", "adakv", "duoattn", "first", "mask"}
    BY EvictionAssumption
<1>3. CASE policy = "snapkv"
    BY <1>1, <1>3 DEF Selections
<1>4. CASE policy = "adakv"
    BY <1>1, <1>4 DEF Selections
<1>5. CASE policy = "duoattn"
  <2>1. PICK B \in Best(budget, n) : S = B \cup (Greater(1, n - Window + 1)..n)
      BY <1>5 DEF Selections
  <2>2. Greater(1, n - Window + 1) \in Nat /\ Greater(1, n - Window + 1) >= 1
      BY EvictionAssumption DEF Greater
  <2> QED
      BY <1>1, <2>1, <2>2
<1>6. CASE policy = "first"
  <2>1. S = 1..Lesser(budget, n)
      BY <1>6 DEF Selections, First
  <2>2. Lesser(budget, n) \in Nat /\ Lesser(budget, n) <= n
      BY DEF Lesser
  <2> QED
      BY <2>1, <2>2
<1>7. CASE policy = "mask"
    BY <1>7 DEF Selections
<1> QED
    BY <1>2, <1>3, <1>4, <1>5, <1>6, <1>7

\* Position p of a run of n lies in one of its blocks.
LEMMA PlaceOf ==
  ASSUME NEW n \in Nat, NEW p \in 1..n
  PROVE  /\ 1 + (p - 1) \div BlockSize \in 1..BlocksFor(n)
         /\ p <= (1 + (p - 1) \div BlockSize) * BlockSize
<1> DEFINE q == (p - 1) \div BlockSize
           m == n + BlockSize - 1
           k == m \div BlockSize
<1>1. BlockSize \in Nat /\ BlockSize >= 1 /\ p - 1 \in Nat /\ m \in Nat /\ p - 1 + BlockSize <= m
    BY SizesAssumption
<1>2. q \in Nat /\ q * BlockSize <= p - 1 /\ p - 1 < (q + 1) * BlockSize
    BY <1>1
<1>3. k \in Nat /\ m < (k + 1) * BlockSize
    BY <1>1
<1>4. BlocksFor(n) = k
    BY DEF BlocksFor
<1> HIDE DEF q, m, k
<1>5. (q + 1) * BlockSize = q * BlockSize + BlockSize /\ q * BlockSize \in Nat
    BY <1>1, <1>2
<1>6. ASSUME k + 1 <= q + 1 PROVE (k + 1) * BlockSize <= (q + 1) * BlockSize
    BY <1>1, <1>2, <1>3, <1>6
<1>7. q + 1 <= k
    BY <1>1, <1>2, <1>3, <1>5, <1>6
<1>8. 1 + q \in 1..BlocksFor(n) /\ p <= (1 + q) * BlockSize
    BY <1>1, <1>2, <1>3, <1>4, <1>5, <1>7
<1> QED
    BY <1>8 DEF q

\* A prefix of a run is a run, with the same tokens.
LEMMA PrefixFacts ==
  ASSUME NEW t \in Seq(Tokens), NEW m \in 0..Len(t)
  PROVE  /\ SubSeq(t, 1, m) \in Seq(Tokens) /\ Len(SubSeq(t, 1, m)) = m
         /\ \A i \in 1..m : SubSeq(t, 1, m)[i] = t[i]
<1>1. m \in Nat /\ Len(t) \in Nat
    BY LenProperties
<1>2. \A i \in 1..m : t[i] \in Tokens
    BY <1>1, ElementOfSeq
<1> QED
    BY <1>1, <1>2, SubSeqProperties

\* What a block gives its reader is a run of tokens.
LEMMA ShownFacts ==
  ASSUME NEW c, NEW s, c[s] \in Seq(Tokens), NEW i \in Nat
  PROVE  /\ Lesser(i * BlockSize, Len(c[s])) \in 0..Len(c[s])
         /\ Shown(c, s, i) \in Seq(Tokens)
         /\ Shown(c, s, i) = SubSeq(c[s], 1, IF i * BlockSize < Len(c[s]) THEN i * BlockSize ELSE Len(c[s]))
<1>1. BlockSize \in Nat /\ Len(c[s]) \in Nat /\ i * BlockSize \in Nat
    BY SizesAssumption, LenProperties
<1>2. Lesser(i * BlockSize, Len(c[s])) \in 0..Len(c[s])
    BY <1>1 DEF Lesser
<1> QED
    BY <1>2, PrefixFacts DEF Shown, Lesser

\* What is kept is a run of as many tokens as there are positions.
LEMMA KeptFacts ==
  ASSUME EvictInv, NEW s \in Slots, NEW S \in SUBSET (1..Len(ctx[s]))
  PROVE  /\ Cardinality(S) \in Nat
         /\ Kept(s, S) \in Seq(Tokens) /\ Len(Kept(s, S)) = Cardinality(S)
         /\ \A i \in 1..Cardinality(S) : InOrder(S)[i] \in 1..Len(ctx[s])
         /\ Kept(s, S) = [i \in 1..Cardinality(S) |-> ctx[s][InOrder(S)[i]]]
<1>1. ctx[s] \in Seq(Tokens) /\ Len(ctx[s]) \in Nat
    BY Facts, LenProperties
<1> DEFINE k == Cardinality(S)
           keep == InOrder(S)
<1>2. k \in Nat /\ keep \in [1..k -> S]
    BY <1>1, InOrderLists DEF Lists
<1>3. Kept(s, S) = [i \in 1..k |-> ctx[s][keep[i]]]
    BY DEF Kept
<1> HIDE DEF k, keep
<1>4. \A i \in 1..k : keep[i] \in 1..Len(ctx[s]) /\ ctx[s][keep[i]] \in Tokens
    BY <1>1, <1>2, ElementOfSeq
<1>5. Kept(s, S) \in [1..k -> Tokens]
    BY <1>3, <1>4
<1>6. Kept(s, S) \in Seq(Tokens)
    BY <1>2, <1>5
<1>7. Len(Kept(s, S)) = k
    BY <1>2, <1>3, <1>6, LenProperties
<1> QED
    BY <1>2, <1>3, <1>4, <1>6, <1>7 DEF k, keep

\* Of a slot that is not shortened, compact copies the K/V of the kept tokens.
LEMMA CopiedKept ==
  ASSUME EvictInv, NEW s \in Slots, s \notin evicted, NEW S \in SUBSET (1..Len(ctx[s]))
  PROVE  Copied(s, S) = Kept(s, S)
<1> DEFINE k == Cardinality(S)
           keep == InOrder(S)
           at(p) == 1 + (p - 1) \div BlockSize
<1>1. ctx[s] \in Seq(Tokens) /\ Len(ctx[s]) \in Nat
    BY Facts, LenProperties
<1>2. \A i \in 1..k : keep[i] \in 1..Len(ctx[s])
    BY KeptFacts
<1>3. ASSUME NEW p \in 1..Len(ctx[s]) PROVE data[table[s][at(p)]][p] = ctx[s][p]
  <2>1. at(p) \in 1..BlocksFor(Len(ctx[s])) /\ p <= at(p) * BlockSize
      BY <1>1, PlaceOf
  <2> HIDE DEF at
  <2>2. at(p) \in Nat /\ table[s][at(p)] \in Blocks /\ table[s][at(p)] \in Range(table[s])
      BY <2>1, TableFacts
  <2>3. Seen[table[s][at(p)]] = data[table[s][at(p)]]
    <3>1. \A t \in evicted : table[s][at(p)] \notin Range(table[t])
        BY <2>2, Shortened
    <3> QED
        BY <2>2, <3>1, SeenBlocks
  <2>4. Seen[table[s][at(p)]] = SubSeq(ctx[s], 1, IF at(p) * BlockSize < Len(ctx[s]) THEN at(p) * BlockSize ELSE Len(ctx[s]))
      BY <2>1, SameSizes DEF EvictInv, K!CacheInv, K!CacheIntact, K!SlotsIntact
  <2>5. Seen[table[s][at(p)]] = SubSeq(ctx[s], 1, Lesser(at(p) * BlockSize, Len(ctx[s])))
      BY <2>4 DEF Lesser
  <2>6. /\ Lesser(at(p) * BlockSize, Len(ctx[s])) \in 0..Len(ctx[s])
        /\ p \in 1..Lesser(at(p) * BlockSize, Len(ctx[s]))
    <3>1. at(p) * BlockSize \in Nat
        BY <2>2, SizesAssumption
    <3> QED
        BY <1>1, <2>1, <3>1 DEF Lesser
  <2> QED
      BY <1>1, <2>3, <2>5, <2>6, PrefixFacts
<1>4. Copied(s, S) = [i \in 1..k |-> data[table[s][at(keep[i])]][keep[i]]]
    BY DEF Copied
<1>5. Kept(s, S) = [i \in 1..k |-> ctx[s][keep[i]]]
    BY DEF Kept
<1> HIDE DEF k, keep, at
<1> QED
    BY <1>2, <1>3, <1>4, <1>5

-----------------------------------------------------------------------------
(* A slot is shortened *)

\* Only slot s changes, which had its blocks for itself; the blocks it has
\* now nobody else names, and they hold the run it goes on from.
Shortens(s) ==
  /\ s \notin evicted /\ freeSlots[s] = 0
  /\ \A b \in Range(table[s]) : Counted[b] = 1
  /\ evicted' = evicted \cup {s}
  /\ freeSlots' = freeSlots /\ entries' = entries /\ pins' = pins /\ clock' = clock
  /\ table' = [table EXCEPT ![s] = table'[s]] /\ table'[s] \in Seq(Blocks)
  /\ ctx' = [ctx EXCEPT ![s] = ctx'[s]] /\ ctx'[s] \in Seq(Tokens)
  /\ data' \in [Blocks -> Seq(Tokens)]
  /\ BlocksFor(Len(ctx'[s])) <= Len(table'[s])
  /\ \A i, j \in DOMAIN table'[s] : table'[s][i] = table'[s][j] => i = j
  /\ \A b \in Range(table'[s]) : /\ \A t \in Slots \ {s} : b \notin Range(table[t])
                                 /\ \A p \in DOMAIN entries : b \notin Range(entries[p].blocks)
  /\ \A b \in Blocks : b \notin Range(table[s]) \cup Range(table'[s]) => data'[b] = data[b]
  /\ \A i \in 1..BlocksFor(Len(ctx'[s])) :
       /\ Len(data'[table'[s][i]]) >= Lesser(i * BlockSize, Len(ctx'[s]))
       /\ SubSeq(data'[table'[s][i]], 1, Lesser(i * BlockSize, Len(ctx'[s]))) = Shown(ctx', s, i)

\* The other slots stay as they are.
LEMMA OthersKept ==
  ASSUME EvictInv, NEW s \in Slots, Shortens(s)
  PROVE  /\ \A t \in Slots \ {s} : table'[t] = table[t] /\ ctx'[t] = ctx[t]
         /\ \A t \in Slots \ {s} : \A b \in Range(table[t]) :
              b \in Blocks /\ b \notin Range(table[s]) \cup Range(table'[s]) /\ data'[b] = data[b]
         /\ \A t \in evicted : t \in Slots \ {s}
         /\ Range(table'[s]) \subseteq Blocks
         /\ \A i \in 1..BlocksFor(Len(ctx'[s])) : table'[s][i] \in Range(table'[s])
<1>1. \A t \in Slots \ {s} : table'[t] = table[t] /\ ctx'[t] = ctx[t]
  <2>1. table' = [table EXCEPT ![s] = table'[s]] /\ ctx' = [ctx EXCEPT ![s] = ctx'[s]]
      BY DEF Shortens
  <2> QED
      BY <2>1, Facts
<1>2. ASSUME NEW t \in Slots \ {s}, NEW b \in Range(table[t])
      PROVE  b \in Blocks /\ b \notin Range(table[s]) \cup Range(table'[s]) /\ data'[b] = data[b]
  <2>1. b \in Blocks
      BY TableFacts
  <2>2. b \notin Range(table[s])
      BY OnlyHolder DEF Shortens
  <2>3. b \notin Range(table'[s])
      BY DEF Shortens
  <2> QED
      BY <2>1, <2>2, <2>3 DEF Shortens
<1>3. \A t \in evicted : t \in Slots \ {s}
    BY Facts DEF Shortens
<1>4. Range(table'[s]) \subseteq Blocks
    BY RangeOfSeq DEF Shortens
<1>5. \A i \in 1..BlocksFor(Len(ctx'[s])) : table'[s][i] \in Range(table'[s])
  <2>1. table'[s] \in Seq(Blocks) /\ ctx'[s] \in Seq(Tokens) /\ BlocksFor(Len(ctx'[s])) <= Len(table'[s])
      BY DEF Shortens
  <2>2. BlocksFor(Len(ctx'[s])) \in Nat /\ Len(table'[s]) \in Nat /\ DOMAIN table'[s] = 1..Len(table'[s])
      BY <2>1, LenProperties, BlocksForType
  <2> QED
      BY <2>1, <2>2 DEF Range
<1> QED
    BY <1>1, <1>2, <1>3, <1>4, <1>5

\* What is seen once s is shortened: its run in its blocks, the rest as before.
LEMMA SeenAfter ==
  ASSUME EvictInv, NEW s \in Slots, Shortens(s)
  PROVE  /\ Seen' \in [Blocks -> Seq(Tokens)]
         /\ \A i \in 1..BlocksFor(Len(ctx'[s])) : Seen'[table'[s][i]] = Shown(ctx', s, i)
         /\ \A b \in Blocks : b \notin Range(table[s]) \cup Range(table'[s]) => Seen'[b] = Seen[b]
<1>1. Seen' = SeenOf(evicted \cup {s}, table', ctx', data')
    BY DEF Seen, Shortens
<1>2. ASSUME NEW t \in evicted \cup {s}, NEW u \in evicted \cup {s},
             NEW i \in 1..BlocksFor(Len(ctx'[t])), NEW j \in 1..BlocksFor(Len(ctx'[u])),
             table'[t][i] = table'[u][j]
      PROVE  t = u /\ i = j
  <2>1. CASE t # s /\ u # s
      BY <1>2, <2>1, OthersKept, Separate
  <2>2. CASE t = s /\ u = s
    <3>1. table'[s] \in Seq(Blocks) /\ ctx'[s] \in Seq(Tokens) /\ BlocksFor(Len(ctx'[s])) <= Len(table'[s])
        BY DEF Shortens
    <3>2. BlocksFor(Len(ctx'[s])) \in Nat /\ Len(table'[s]) \in Nat /\ DOMAIN table'[s] = 1..Len(table'[s])
        BY <3>1, LenProperties, BlocksForType
    <3>3. i \in DOMAIN table'[s] /\ j \in DOMAIN table'[s]
        BY <2>2, <3>1, <3>2
    <3> QED
        BY <1>2, <2>2, <3>3 DEF Shortens
  <2>3. CASE t = s /\ u # s
    <3>1. table[u][j] \in Range(table[u]) /\ table'[u][j] = table[u][j]
        BY <2>3, OthersKept, TableFacts
    <3>2. u \in Slots \ {s} /\ table[u][j] \notin Range(table'[s])
        BY <2>3, <3>1, OthersKept
    <3>3. table'[t][i] \in Range(table'[s])
        BY <2>3, OthersKept
    <3> QED
        BY <1>2, <3>1, <3>2, <3>3
  <2>4. CASE t # s /\ u = s
    <3>1. table[t][i] \in Range(table[t]) /\ table'[t][i] = table[t][i]
        BY <2>4, OthersKept, TableFacts
    <3>2. t \in Slots \ {s} /\ table[t][i] \notin Range(table'[s])
        BY <2>4, <3>1, OthersKept
    <3>3. table'[u][j] \in Range(table'[s])
        BY <2>4, OthersKept
    <3> QED
        BY <1>2, <3>1, <3>2, <3>3
  <2> QED
      BY <2>1, <2>2, <2>3, <2>4
<1>3. ASSUME NEW t \in evicted \cup {s}, NEW i \in 1..BlocksFor(Len(ctx'[t]))
      PROVE  table'[t][i] \in Blocks /\ Seen'[table'[t][i]] = Shown(ctx', t, i)
  <2>1. table'[t][i] \in Blocks
    <3>1. CASE t = s
        BY <3>1, OthersKept
    <3>2. CASE t # s
        BY <3>2, OthersKept, TableFacts
    <3> QED
        BY <3>1, <3>2
  <2> QED
      BY <1>1, <1>2, <2>1, SeenOn
<1>4. ASSUME NEW b \in Blocks, \A t \in evicted \cup {s} : \A i \in 1..BlocksFor(Len(ctx'[t])) : table'[t][i] # b
      PROVE  Seen'[b] = data'[b]
    BY <1>1, <1>4, SeenOff
<1>5. Seen' \in [Blocks -> Seq(Tokens)]
  <2>1. Seen' = [b \in Blocks |-> Seen'[b]]
      BY DEF Seen, SeenOf
  <2>2. ASSUME NEW b \in Blocks PROVE Seen'[b] \in Seq(Tokens)
    <3>1. CASE \A t \in evicted \cup {s} : \A i \in 1..BlocksFor(Len(ctx'[t])) : table'[t][i] # b
        BY <1>4, <3>1 DEF Shortens
    <3>2. CASE ~ \A t \in evicted \cup {s} : \A i \in 1..BlocksFor(Len(ctx'[t])) : table'[t][i] # b
      <4>1. PICK t \in evicted \cup {s} : \E i \in 1..BlocksFor(Len(ctx'[t])) : table'[t][i] = b
          BY <3>2
      <4>2. PICK i \in 1..BlocksFor(Len(ctx'[t])) : table'[t][i] = b
          BY <4>1
      <4>3. ctx'[t] \in Seq(Tokens)
          BY OthersKept, Facts DEF Shortens
      <4>4. Shown(ctx', t, i) \in Seq(Tokens)
          BY <4>3, ShownFacts
      <4> QED
          BY <1>3, <4>2, <4>4
    <3> QED
        BY <3>1, <3>2
  <2> QED
      BY <2>1, <2>2
<1>6. ASSUME NEW b \in Blocks, b \notin Range(table[s]) \cup Range(table'[s])
      PROVE  Seen'[b] = Seen[b]
  <2>1. data'[b] = data[b]
      BY <1>6 DEF Shortens
  <2>2. \A i \in 1..BlocksFor(Len(ctx'[s])) : table'[s][i] # b
      BY <1>6, OthersKept
  <2>3. CASE \E t \in evicted : \E i \in 1..BlocksFor(Len(ctx[t])) : table[t][i] = b
    <3>1. PICK t \in evicted : \E i \in 1..BlocksFor(Len(ctx[t])) : table[t][i] = b
        BY <2>3
    <3>2. PICK i \in 1..BlocksFor(Len(ctx[t])) : table[t][i] = b
        BY <3>1
    <3>3. table'[t] = table[t] /\ ctx'[t] = ctx[t]
        BY OthersKept
    <3>4. Seen'[b] = Shown(ctx', t, i)
        BY <1>3, <3>2, <3>3
    <3>5. Seen[b] = Shown(ctx, t, i)
        BY <3>2, SeenBlocks
    <3> QED
        BY <3>3, <3>4, <3>5 DEF Shown
  <2>4. CASE ~ \E t \in evicted : \E i \in 1..BlocksFor(Len(ctx[t])) : table[t][i] = b
    <3>1. Seen[b] = data[b]
        BY <2>4, SeenOff DEF Seen
    <3>2. \A t \in evicted \cup {s} : \A i \in 1..BlocksFor(Len(ctx'[t])) : table'[t][i] # b
        BY <2>2, <2>4, OthersKept
    <3> QED
        BY <1>4, <2>1, <3>1, <3>2
  <2> QED
      BY <2>3, <2>4
<1> QED
    BY <1>3, <1>5, <1>6

\* The counts and the pool, when a slot is shortened: what it has now counts
\* once, what it had besides is free.
Recounts(s) ==
  /\ refs' \in [Blocks -> Nat] /\ freeBlocks' \in [Blocks -> 0..1]
  /\ \A b \in Range(table'[s]) : freeBlocks'[b] = 0 /\ Counted'[b] = 1
  /\ \A b \in Range(table[s]) \ Range(table'[s]) : freeBlocks'[b] = 1 /\ Counted'[b] = 0
  /\ \A b \in Blocks : b \notin Range(table[s]) \cup Range(table'[s]) =>
       freeBlocks'[b] = freeBlocks[b] /\ refs'[b] = refs[b]

\* Every block that is held counts as often as it is held.
LEMMA CountsOfHolders ==
  ASSUME EvictInv, NEW b \in Blocks
  PROVE  Counted[b] = Cardinality(Holders(b)) + Cardinality(Pinning(entries, b))
BY SameSizes, SameHolders, SamePins DEF EvictInv, K!CacheInv, K!KVInv, K!CountsInv, K!RefcountsExact

\* The counts stay exact and the pool conserved.
LEMMA ShortensCounts ==
  ASSUME EvictInv, NEW s \in Slots, Shortens(s), Recounts(s)
  PROVE  /\ Counted' \in [Blocks -> Nat]
         /\ \A b \in Blocks : b \notin Range(table[s]) \cup Range(table'[s]) => Counted'[b] = Counted[b]
         /\ K!RefcountsExact' /\ K!PoolConserved'
<1>1. ASSUME NEW b \in Blocks, b \notin Range(table[s]) \cup Range(table'[s])
      PROVE  Counted'[b] = Counted[b] /\ freeBlocks'[b] = freeBlocks[b]
    BY <1>1 DEF Recounts, Counted, CountedOf
<1>2. Counted' \in [Blocks -> Nat]
  <2>1. Counted' = [b \in Blocks |-> Counted'[b]]
      BY DEF Counted, CountedOf
  <2>2. \A b \in Blocks : Counted'[b] \in Nat
      BY <1>1, Facts DEF Recounts
  <2> QED
      BY <2>1, <2>2
<1>3. ASSUME NEW b \in Blocks
      PROVE  Counted'[b] = Cardinality({t \in Slots : b \in Range(table'[t])}) + Cardinality(Pinning(entries, b))
  <2> DEFINE H == {t \in Slots : b \in Range(table'[t])}
  <2>1. CASE b \in Range(table'[s])
    <3>1. \A t \in Slots \ {s} : b \notin Range(table'[t])
        BY <2>1, OthersKept DEF Shortens
    <3>2. H = {s}
        BY <2>1, <3>1
    <3>3. Pinning(entries, b) = {}
        BY <2>1 DEF Shortens, Pinning
    <3>4. Cardinality(Pinning(entries, b)) = 0
        BY <3>3, FS_EmptySet
    <3>5. Cardinality({s}) = 1
        BY FS_Singleton
    <3>6. Counted'[b] = 1
        BY <2>1 DEF Recounts
    <3> QED
        BY <3>2, <3>4, <3>5, <3>6
  <2>2. CASE b \in Range(table[s]) \ Range(table'[s])
    <3>1. /\ \A t \in Slots \ {s} : b \notin Range(table[t])
          /\ Pinning(entries, b) = {}
        BY <2>2, OnlyHolder DEF Shortens
    <3>2. H = {}
        BY <2>2, <3>1, OthersKept
    <3>3. Cardinality(H) = 0 /\ Cardinality(Pinning(entries, b)) = 0
        BY <3>1, <3>2, FS_EmptySet
    <3> QED
        BY <2>2, <3>3 DEF Recounts
  <2>3. CASE b \notin Range(table[s]) \cup Range(table'[s])
    <3>1. H = Holders(b)
        BY <2>3, OthersKept DEF Holders
    <3> QED
        BY <1>1, <2>3, <3>1, CountsOfHolders
  <2> QED
      BY <2>1, <2>2, <2>3
<1>4. K!RefcountsExact'
  <2>1. entries' = entries
      BY DEF Shortens
  <2> SUFFICES ASSUME NEW b \in Blocks
               PROVE  Counted'[b] = K!Cardinality({t \in Slots : b \in K!Range(table'[t])})
                                      + K!Cardinality(K!Pinning(entries', b))
      BY DEF K!RefcountsExact, K!Holders
  <2>2. {t \in Slots : b \in K!Range(table'[t])} = {t \in Slots : b \in Range(table'[t])}
      BY SameRange
  <2>3. K!Pinning(entries', b) = Pinning(entries, b)
      BY <2>1, SamePins
  <2> QED
      BY <1>3, <2>2, <2>3, SameSizes
<1>5. K!PoolConserved'
  <2> SUFFICES ASSUME NEW b \in Blocks
               PROVE  freeBlocks'[b] = IF Counted'[b] = 0 THEN 1 ELSE 0
      BY DEF K!PoolConserved
  <2>1. CASE b \in Range(table'[s])
      BY <2>1 DEF Recounts
  <2>2. CASE b \in Range(table[s]) \ Range(table'[s])
      BY <2>2 DEF Recounts
  <2>3. CASE b \notin Range(table[s]) \cup Range(table'[s])
      BY <1>1, <2>3, Facts
  <2> QED
      BY <2>1, <2>2, <2>3
<1> QED
    BY <1>1, <1>2, <1>4, <1>5

\* So do the other facts about tables and counts.
LEMMA ShortensKV ==
  ASSUME EvictInv, NEW s \in Slots, Shortens(s), Recounts(s)
  PROVE  K!KVInv'
<1>1. K!KVTypeOK /\ K!PinsExact /\ K!FreeSlotsEmpty /\ K!ContextsCovered /\ K!EntriesAligned
      /\ K!BlocksDistinct /\ K!TailsPrivate /\ K!StampsPast
    BY DEF EvictInv, K!CacheInv, K!KVInv, K!CountsInv
<1>2. /\ freeSlots' = freeSlots /\ entries' = entries /\ pins' = pins /\ clock' = clock
      /\ table' = [table EXCEPT ![s] = table'[s]] /\ table'[s] \in Seq(Blocks)
      /\ ctx' = [ctx EXCEPT ![s] = ctx'[s]] /\ ctx'[s] \in Seq(Tokens)
      /\ freeSlots[s] = 0
    BY DEF Shortens
<1>3. table' \in [Slots -> Seq(Blocks)] /\ ctx' \in [Slots -> Seq(Tokens)]
    BY <1>2, Facts
<1>4. K!KVTypeOK'
  <2>1. freeBlocks' \in [Blocks -> 0..1] /\ Counted' \in [Blocks -> Nat] /\ Seen' \in [Blocks -> Seq(Tokens)]
      BY ShortensCounts, SeenAfter DEF Recounts
  <2> QED
      BY <1>1, <1>2, <1>3, <2>1 DEF K!KVTypeOK
<1>5. K!PinsExact'
    BY <1>1, <1>2 DEF K!PinsExact, K!Pinning
<1>6. K!FreeSlotsEmpty'
  <2> SUFFICES ASSUME NEW t \in Slots, freeSlots'[t] # 0 PROVE table'[t] = <<>> /\ ctx'[t] = <<>>
      BY DEF K!FreeSlotsEmpty
  <2>1. t # s /\ freeSlots[t] # 0
      BY <1>2
  <2>2. table'[t] = table[t] /\ ctx'[t] = ctx[t]
      BY <2>1, OthersKept
  <2> QED
      BY <2>1, <2>2, Facts
<1>7. K!ContextsCovered'
  <2> SUFFICES ASSUME NEW t \in Slots PROVE K!BlocksFor(Len(ctx'[t])) <= Len(table'[t])
      BY DEF K!ContextsCovered, K!HasCapacity
  <2>1. CASE t = s
      BY <2>1, SameSizes DEF Shortens
  <2>2. CASE t # s
      BY <2>2, OthersKept, Facts, SameSizes
  <2> QED
      BY <2>1, <2>2
<1>8. K!EntriesAligned' /\ K!StampsPast'
    BY <1>1, <1>2 DEF K!EntriesAligned, K!StampsPast
<1>9. K!BlocksDistinct'
  <2>1. ASSUME NEW t \in Slots, NEW i \in DOMAIN table'[t], NEW j \in DOMAIN table'[t], table'[t][i] = table'[t][j]
        PROVE  i = j
    <3>1. CASE t = s
        BY <2>1, <3>1 DEF Shortens
    <3>2. CASE t # s
      <4>1. table'[t] = table[t]
          BY <3>2, OthersKept
      <4> QED
          BY <2>1, <4>1, Facts
    <3> QED
        BY <3>1, <3>2
  <2> QED
      BY <1>1, <1>2, <2>1 DEF K!BlocksDistinct
<1>10. K!TailsPrivate'
  <2> SUFFICES ASSUME NEW t \in Slots, NEW i \in DOMAIN table'[t], i * BlockSize > Len(ctx'[t])
               PROVE  Counted'[table'[t][i]] = 1
      BY DEF K!TailsPrivate
  <2>1. CASE t = s
    <3>1. table'[s][i] \in Range(table'[s])
        BY <2>1 DEF Range
    <3> QED
        BY <2>1, <3>1 DEF Recounts
  <2>2. CASE t # s
    <3>1. table'[t] = table[t] /\ ctx'[t] = ctx[t]
        BY <2>2, OthersKept
    <3>2. table[t][i] \in Range(table[t])
        BY <3>1 DEF Range
    <3>3. Counted'[table[t][i]] = Counted[table[t][i]]
        BY <2>2, <3>2, OthersKept, ShortensCounts
    <3> QED
        BY <1>1, <3>1, <3>3 DEF K!TailsPrivate
  <2> QED
      BY <2>1, <2>2
<1> QED
    BY <1>4, <1>5, <1>6, <1>7, <1>8, <1>9, <1>10, ShortensCounts DEF K!KVInv, K!CountsInv

\* Entries and the other slots see what they saw.
LEMMA ShortensIntact ==
  ASSUME EvictInv, NEW s \in Slots, Shortens(s), Recounts(s)
  PROVE  K!CacheIntact'
<1>1. K!EntriesIntact /\ K!SlotsIntact
    BY DEF EvictInv, K!CacheInv, K!CacheIntact
<1>2. K!EntriesIntact'
  <2>1. entries' = entries
      BY DEF Shortens
  <2>2. ASSUME NEW p \in DOMAIN entries, NEW i \in 1..Len(entries[p].blocks)
        PROVE  Seen'[entries[p].blocks[i]] = Seen[entries[p].blocks[i]]
    <3> DEFINE b == entries[p].blocks[i]
    <3>1. entries[p].blocks \in Seq(Blocks)
        BY Facts
    <3>2. b \in Blocks /\ b \in Range(entries[p].blocks)
        BY <3>1, LenProperties, ElementOfSeq DEF Range
    <3>3. b \notin Range(table[s])
        BY <3>2, OnlyHolder DEF Shortens
    <3>4. b \notin Range(table'[s])
        BY <3>2 DEF Shortens
    <3> QED
        BY <3>2, <3>3, <3>4, SeenAfter
  <2> QED
      BY <1>1, <2>1, <2>2 DEF K!EntriesIntact
<1>3. K!SlotsIntact'
  <2> SUFFICES ASSUME NEW t \in Slots
               PROVE  /\ K!BlocksFor(Len(ctx'[t])) <= Len(table'[t])
                      /\ \A i \in 1..K!BlocksFor(Len(ctx'[t])) :
                           Seen'[table'[t][i]] =
                             SubSeq(ctx'[t], 1, IF i * BlockSize < Len(ctx'[t]) THEN i * BlockSize ELSE Len(ctx'[t]))
      BY DEF K!SlotsIntact, K!HasCapacity
  <2>1. CASE t = s
    <3>1. BlocksFor(Len(ctx'[s])) <= Len(table'[s]) /\ ctx'[s] \in Seq(Tokens)
        BY DEF Shortens
    <3>2. ASSUME NEW i \in 1..BlocksFor(Len(ctx'[s]))
          PROVE  Seen'[table'[s][i]] =
                   SubSeq(ctx'[s], 1, IF i * BlockSize < Len(ctx'[s]) THEN i * BlockSize ELSE Len(ctx'[s]))
      <4>1. Seen'[table'[s][i]] = Shown(ctx', s, i)
          BY SeenAfter
      <4> QED
          BY <3>1, <4>1, ShownFacts
    <3> QED
        BY <2>1, <3>1, <3>2, SameSizes
  <2>2. CASE t # s
    <3>1. table'[t] = table[t] /\ ctx'[t] = ctx[t]
        BY <2>2, OthersKept
    <3>2. ASSUME NEW i \in 1..BlocksFor(Len(ctx[t])) PROVE Seen'[table[t][i]] = Seen[table[t][i]]
      <4>1. table[t][i] \in Range(table[t])
          BY TableFacts
      <4> QED
          BY <2>2, <4>1, OthersKept, SeenAfter
    <3>3. /\ K!BlocksFor(Len(ctx[t])) <= Len(table[t])
          /\ \A i \in 1..K!BlocksFor(Len(ctx[t])) :
               Seen[table[t][i]] =
                 SubSeq(ctx[t], 1, IF i * BlockSize < Len(ctx[t]) THEN i * BlockSize ELSE Len(ctx[t]))
        BY <1>1 DEF K!SlotsIntact, K!HasCapacity
    <3> QED
        BY <3>1, <3>2, <3>3, SameSizes
  <2> QED
      BY <2>1, <2>2
<1> QED
    BY <1>2, <1>3 DEF K!CacheIntact

\* Shortening a slot that shares nothing keeps the invariant.
LEMMA ShortensInv ==
  ASSUME EvictInv, NEW s \in Slots, Shortens(s), Recounts(s)
  PROVE  EvictInv'
<1>1. K!CacheInv'
    BY ShortensKV, ShortensIntact DEF K!CacheInv
<1>2. refs' \in [Blocks -> Nat] /\ data' \in [Blocks -> Seq(Tokens)]
    BY DEF Shortens, Recounts
<1>3. Unpinned'
  <2> SUFFICES ASSUME NEW b \in Blocks, refs'[b] = 0, freeBlocks'[b] = 0 PROVE Pinning(entries, b) = {}
      BY DEF Unpinned, Shortens
  <2>1. CASE b \in Range(table'[s])
      BY <2>1 DEF Shortens, Pinning
  <2>2. CASE b \in Range(table[s])
      BY <2>2, OnlyHolder DEF Shortens
  <2>3. CASE b \notin Range(table[s]) \cup Range(table'[s])
      BY <2>3 DEF Recounts, EvictInv, Unpinned
  <2> QED
      BY <2>1, <2>2, <2>3
<1>4. EvictedAlone'
  <2> SUFFICES ASSUME NEW t \in evicted'
               PROVE  t \in Slots /\ freeSlots'[t] = 0 /\ \A b \in Range(table'[t]) : Counted'[b] = 1
      BY DEF EvictedAlone
  <2>1. evicted' = evicted \cup {s} /\ freeSlots' = freeSlots
      BY DEF Shortens
  <2>2. CASE t = s
      BY <2>1, <2>2 DEF Recounts, Shortens
  <2>3. CASE t # s
    <3>1. t \in evicted /\ t \in Slots \ {s} /\ table'[t] = table[t] /\ freeSlots[t] = 0
        BY <2>1, <2>3, OthersKept, Facts
    <3>2. \A b \in Range(table[t]) : b \in Blocks /\ Counted[b] = 1 /\ Counted'[b] = Counted[b]
        BY <3>1, Shortened, OthersKept, ShortensCounts
    <3> QED
        BY <2>1, <3>1, <3>2
  <2> QED
      BY <2>2, <2>3
<1>5. EvictedRead'
  <2> SUFFICES ASSUME NEW t \in evicted', NEW i \in 1..BlocksFor(Len(ctx'[t]))
               PROVE  /\ Len(data'[table'[t][i]]) >= Lesser(i * BlockSize, Len(ctx'[t]))
                      /\ SubSeq(data'[table'[t][i]], 1, Lesser(i * BlockSize, Len(ctx'[t]))) = Shown(ctx', t, i)
      BY DEF EvictedRead
  <2>1. evicted' = evicted \cup {s}
      BY DEF Shortens
  <2>2. CASE t = s
      BY <2>2 DEF Shortens
  <2>3. CASE t # s
    <3>1. t \in evicted /\ t \in Slots \ {s} /\ table'[t] = table[t] /\ ctx'[t] = ctx[t]
        BY <2>1, <2>3, OthersKept
    <3>2. i \in 1..BlocksFor(Len(ctx[t])) /\ table[t][i] \in Range(table[t])
        BY <3>1, TableFacts
    <3>3. data'[table[t][i]] = data[table[t][i]]
        BY <3>1, <3>2, OthersKept
    <3>4. Shown(ctx', t, i) = Shown(ctx, t, i)
        BY <3>1 DEF Shown
    <3> QED
        BY <3>1, <3>2, <3>3, <3>4 DEF EvictInv, EvictedRead
  <2> QED
      BY <2>2, <2>3
<1> QED
    BY <1>1, <1>2, <1>3, <1>4, <1>5 DEF EvictInv

-----------------------------------------------------------------------------
(* evict *)

\* The slot keeps a prefix in the blocks it has.
LEMMA IdlesShortens ==
  ASSUME EvictInv, NEW s \in Slots, s \notin evicted, freeSlots[s] = 0,
         \A b \in Range(table[s]) : Counted[b] = 1,
         NEW k \in Nat, k <= Len(ctx[s]), CompactIdles(s, 1..k)
  PROVE  EvictInv'
<1>1. ctx[s] \in Seq(Tokens) /\ Len(ctx[s]) \in Nat /\ table[s] \in Seq(Blocks) /\ DOMAIN table[s] = 1..Len(table[s])
    BY Facts, TableFacts
<1>2. /\ ctx' = [ctx EXCEPT ![s] = Kept(s, 1..k)] /\ evicted' = evicted \cup {s}
      /\ freeSlots' = freeSlots /\ freeBlocks' = freeBlocks /\ table' = table /\ refs' = refs
      /\ entries' = entries /\ pins' = pins /\ clock' = clock /\ data' = data
    BY DEF CompactIdles
<1>3. Cardinality(1..k) = k /\ InOrder(1..k) = [i \in 1..k |-> i]
    BY FirstInOrder
<1>4. /\ SubSeq(ctx[s], 1, k) \in Seq(Tokens) /\ Len(SubSeq(ctx[s], 1, k)) = k
      /\ \A i \in 1..k : SubSeq(ctx[s], 1, k)[i] = ctx[s][i]
    BY <1>1, PrefixFacts
<1>5. Kept(s, 1..k) = SubSeq(ctx[s], 1, k)
  <2>1. 1..k \in SUBSET (1..Len(ctx[s]))
      BY <1>1
  <2>2. Kept(s, 1..k) \in Seq(Tokens) /\ Len(Kept(s, 1..k)) = k
      BY <1>3, <2>1, KeptFacts
  <2>3. Kept(s, 1..k) = [i \in 1..k |-> ctx[s][InOrder(1..k)[i]]]
      BY <1>3, <2>1, KeptFacts
  <2>4. \A i \in 1..k : Kept(s, 1..k)[i] = ctx[s][i]
      BY <1>3, <2>3
  <2> QED
      BY <1>4, <2>2, <2>4, SeqEqual
<1>6. ctx'[s] = SubSeq(ctx[s], 1, k) /\ ctx' = [ctx EXCEPT ![s] = ctx'[s]]
    BY <1>2, <1>5, Facts
<1>7. BlocksFor(k) <= BlocksFor(Len(ctx[s])) /\ BlocksFor(k) \in Nat /\ BlocksFor(Len(ctx[s])) \in Nat
    BY <1>1, MoreBlocks, BlocksForType
<1>8. ASSUME NEW i \in 1..BlocksFor(k)
      PROVE  /\ Len(data[table[s][i]]) >= Lesser(i * BlockSize, k)
             /\ SubSeq(data[table[s][i]], 1, Lesser(i * BlockSize, k)) = Shown(ctx', s, i)
  <2> DEFINE n == Len(ctx[s])
             m == Lesser(i * BlockSize, n)
             l == Lesser(i * BlockSize, k)
  <2>1. i \in 1..BlocksFor(n) /\ i \in 1..Len(table[s]) /\ table[s][i] \in Range(table[s]) /\ table[s][i] \in Blocks
      BY <1>7, TableFacts
  <2>2. Seen[table[s][i]] = data[table[s][i]]
    <3>1. \A t \in evicted : table[s][i] \notin Range(table[t])
        BY <2>1, Shortened
    <3> QED
        BY <2>1, <3>1, SeenBlocks
  <2>3. Seen[table[s][i]] = SubSeq(ctx[s], 1, IF i * BlockSize < n THEN i * BlockSize ELSE n)
      BY <2>1, SameSizes DEF EvictInv, K!CacheInv, K!CacheIntact, K!SlotsIntact
  <2>4. data[table[s][i]] = SubSeq(ctx[s], 1, m)
      BY <2>2, <2>3 DEF Lesser
  <2>5. m \in 0..n /\ l \in 0..m /\ l \in 0..k /\ k \in 0..n
    <3>1. i * BlockSize \in Nat
        BY SizesAssumption
    <3> QED
        BY <1>1, <3>1 DEF Lesser
  <2> HIDE DEF m, l
  <2>6. Len(data[table[s][i]]) = m
      BY <1>1, <2>4, <2>5, PrefixFacts
  <2>7. SubSeq(data[table[s][i]], 1, l) = SubSeq(ctx[s], 1, l)
      BY <1>1, <2>4, <2>5, PrefixOfPrefix
  <2>8. SubSeq(SubSeq(ctx[s], 1, k), 1, l) = SubSeq(ctx[s], 1, l)
      BY <1>1, <2>5, PrefixOfPrefix
  <2>9. Shown(ctx', s, i) = SubSeq(ctx'[s], 1, Lesser(i * BlockSize, Len(ctx'[s])))
      BY DEF Shown
  <2>10. Shown(ctx', s, i) = SubSeq(SubSeq(ctx[s], 1, k), 1, l)
      BY <1>4, <1>6, <2>9 DEF l
  <2>11. Len(data[table[s][i]]) >= l
      BY <1>1, <2>5, <2>6
  <2> QED
      BY <2>7, <2>8, <2>10, <2>11 DEF l
<1>9. Shortens(s)
  <2>1. BlocksFor(Len(ctx'[s])) <= Len(table'[s])
      BY <1>1, <1>2, <1>4, <1>6, <1>7, TableFacts, Facts
  <2>2. \A i, j \in DOMAIN table'[s] : table'[s][i] = table'[s][j] => i = j
      BY <1>2, Facts
  <2>3. \A b \in Range(table'[s]) : /\ \A t \in Slots \ {s} : b \notin Range(table[t])
                                    /\ \A p \in DOMAIN entries : b \notin Range(entries[p].blocks)
      BY <1>2, OnlyHolder
  <2>4. \A i \in 1..BlocksFor(Len(ctx'[s])) :
          /\ Len(data'[table'[s][i]]) >= Lesser(i * BlockSize, Len(ctx'[s]))
          /\ SubSeq(data'[table'[s][i]], 1, Lesser(i * BlockSize, Len(ctx'[s]))) = Shown(ctx', s, i)
    <3>1. Len(ctx'[s]) = k /\ table' = table /\ data' = data
        BY <1>2, <1>4, <1>6
    <3> QED
        BY <1>8, <3>1
  <2>5. table' = [table EXCEPT ![s] = table'[s]] /\ table'[s] \in Seq(Blocks) /\ data' \in [Blocks -> Seq(Tokens)]
      BY <1>2, Facts
  <2> QED
      BY <1>2, <1>4, <1>6, <2>1, <2>2, <2>3, <2>4, <2>5 DEF Shortens
<1>10. Recounts(s)
  <2>1. Counted' = Counted
      BY <1>2 DEF Counted
  <2>2. \A b \in Range(table[s]) : freeBlocks[b] = 0
      BY OnlyHolder
  <2> QED
      BY <1>2, <2>1, <2>2, Facts DEF Recounts
<1> QED
    BY <1>9, <1>10, ShortensInv

\* The kept positions move into free blocks, and the old blocks are freed.
LEMMA MovesShortens ==
  ASSUME EvictInv, NEW s \in Slots, s \notin evicted, freeSlots[s] = 0,
         \A b \in Range(table[s]) : Counted[b] = 1,
         NEW S \in SUBSET (1..Len(ctx[s])), CompactMoves(s, S)
  PROVE  EvictInv'
<1> DEFINE run == Copied(s, S)
           needed == BlocksFor(Len(run))
           held == Range(table[s])
<1>1. PICK new \in [1..needed -> FreeSet] :
        /\ \A i, j \in 1..needed : new[i] = new[j] => i = j
        /\ data' = [b \in Blocks |->
                      IF b \in Range(new)
                        THEN LET i == CHOOSE j \in 1..needed : new[j] = b
                             IN  SubSeq(run, 1, Lesser(i * BlockSize, Len(run)))
                        ELSE IF Returned(s)[b] THEN <<>> ELSE data[b]]
        /\ freeBlocks' = [b \in Blocks |->
                            freeBlocks[b] + (IF Returned(s)[b] THEN 1 ELSE 0)
                                          - (IF b \in Range(new) THEN 1 ELSE 0)]
        /\ refs' = [b \in Blocks |-> IF Returned(s)[b] THEN 0 ELSE refs[b]]
        /\ table' = [table EXCEPT ![s] = new]
        /\ ctx' = [ctx EXCEPT ![s] = Kept(s, S)]
        /\ evicted' = evicted \cup {s}
        /\ UNCHANGED <<freeSlots, entries, pins, clock>>
    BY DEF CompactMoves
<1>2. run = Kept(s, S) /\ run \in Seq(Tokens) /\ Len(run) \in Nat /\ needed \in Nat
  <2>1. run = Kept(s, S)
      BY CopiedKept
  <2>2. run \in Seq(Tokens)
      BY <2>1, KeptFacts
  <2> QED
      BY <2>1, <2>2, LenProperties, BlocksForType
<1> HIDE DEF run, needed
<1>3. /\ \A b \in Range(new) : b \in Blocks /\ freeBlocks[b] > 0 /\ \E i \in 1..needed : new[i] = b
      /\ \A i \in 1..needed : new[i] \in Range(new) /\ new[i] \in Blocks
      /\ DOMAIN new = 1..needed
  <2>1. \A i \in 1..needed : new[i] \in Blocks /\ freeBlocks[new[i]] > 0
      BY DEF FreeSet
  <2> QED
      BY <2>1 DEF Range
<1>4. \A b \in Range(new) : /\ freeBlocks[b] = 1 /\ refs[b] = 0
                            /\ Holders(b) = {} /\ Pinning(entries, b) = {}
    BY <1>3, FreeUncounted
<1>5. \A b \in Range(new) : /\ \A t \in Slots : b \notin Range(table[t])
                            /\ \A p \in DOMAIN entries : b \notin Range(entries[p].blocks)
    BY <1>4 DEF Holders, Pinning
<1>6. new \in Seq(Blocks) /\ Len(new) = needed
  <2>1. new \in [1..needed -> Blocks]
      BY <1>3
  <2>2. new \in Seq(Blocks)
      BY <1>2, <2>1
  <2> QED
      BY <1>2, <1>3, <2>2, LenProperties
<1>7. /\ table' = [table EXCEPT ![s] = new] /\ table'[s] = new
      /\ ctx' = [ctx EXCEPT ![s] = run] /\ ctx'[s] = run
  <2>1. table' = [table EXCEPT ![s] = new] /\ ctx' = [ctx EXCEPT ![s] = run]
      BY <1>1, <1>2
  <2> QED
      BY <2>1, Facts
<1>8. \A b \in Blocks : Returned(s)[b] <=> b \in held
    BY DEF Returned
<1>9. \A b \in held : b \in Blocks /\ freeBlocks[b] = 0 /\ b \notin Range(new)
    BY <1>5, OnlyHolder
<1>10. \A i \in 1..needed : data'[new[i]] = SubSeq(run, 1, Lesser(i * BlockSize, Len(run)))
  <2> TAKE i \in 1..needed
  <2>1. (CHOOSE j \in 1..needed : new[j] = new[i]) = i
      BY <1>1
  <2> QED
      BY <1>1, <1>3, <2>1
<1>11. \A b \in Blocks : b \notin held \cup Range(new) =>
         data'[b] = data[b] /\ freeBlocks'[b] = freeBlocks[b] /\ refs'[b] = refs[b]
  <2> SUFFICES ASSUME NEW b \in Blocks, b \notin held \cup Range(new)
               PROVE  data'[b] = data[b] /\ freeBlocks'[b] = freeBlocks[b] /\ refs'[b] = refs[b]
      OBVIOUS
  <2>1. ~ Returned(s)[b] /\ b \notin Range(new)
      BY DEF Returned
  <2>2. freeBlocks[b] \in Nat
    <3>1. freeBlocks \in [Blocks -> 0..1]
        BY Facts
    <3> QED
        BY <3>1
  <2> QED
      BY <1>1, <2>1, <2>2
<1>12. data' \in [Blocks -> Seq(Tokens)]
  <2>1. ASSUME NEW b \in Blocks PROVE data'[b] \in Seq(Tokens)
    <3>1. CASE b \in Range(new)
      <4>1. PICK i \in 1..needed : new[i] = b
          BY <1>3, <3>1
      <4>2. Lesser(i * BlockSize, Len(run)) \in 0..Len(run)
        <5>1. i * BlockSize \in Nat
            BY <1>2, SizesAssumption
        <5> QED
            BY <1>2, <5>1 DEF Lesser
      <4>3. SubSeq(run, 1, Lesser(i * BlockSize, Len(run))) \in Seq(Tokens)
          BY <1>2, <4>2, PrefixFacts
      <4> QED
          BY <1>10, <4>1, <4>3
    <3>2. CASE b \in held
      <4>1. data'[b] = <<>>
          BY <1>1, <1>8, <1>9, <3>2
      <4> QED
          BY <4>1, EmptySeq
    <3>3. CASE b \notin held \cup Range(new)
        BY <1>11, <3>3, Facts
    <3> QED
        BY <3>1, <3>2, <3>3
  <2>2. data' = [b \in Blocks |-> data'[b]]
      BY <1>1
  <2> QED
      BY <2>1, <2>2
<1>13. Shortens(s)
  <2>1. \A i \in 1..BlocksFor(Len(ctx'[s])) :
          /\ Len(data'[table'[s][i]]) >= Lesser(i * BlockSize, Len(ctx'[s]))
          /\ SubSeq(data'[table'[s][i]], 1, Lesser(i * BlockSize, Len(ctx'[s]))) = Shown(ctx', s, i)
    <3> SUFFICES ASSUME NEW i \in 1..needed
                 PROVE  /\ Len(data'[new[i]]) >= Lesser(i * BlockSize, Len(run))
                        /\ SubSeq(data'[new[i]], 1, Lesser(i * BlockSize, Len(run))) = Shown(ctx', s, i)
        BY <1>7 DEF needed
    <3> DEFINE l == Lesser(i * BlockSize, Len(run))
    <3>1. l \in 0..Len(run) /\ l \in 0..l
      <4>1. i * BlockSize \in Nat
          BY <1>2, SizesAssumption
      <4> QED
          BY <1>2, <4>1 DEF Lesser
    <3>2. data'[new[i]] = SubSeq(run, 1, l)
        BY <1>10
    <3>3. Shown(ctx', s, i) = SubSeq(run, 1, l)
        BY <1>7 DEF Shown
    <3> HIDE DEF l
    <3>4. Len(SubSeq(run, 1, l)) = l
        BY <1>2, <3>1, PrefixFacts
    <3>5. SubSeq(SubSeq(run, 1, l), 1, l) = SubSeq(run, 1, l)
        BY <1>2, <3>1, PrefixOfPrefix
    <3>6. Len(data'[new[i]]) >= l
        BY <3>1, <3>2, <3>4
    <3> QED
        BY <3>2, <3>3, <3>5, <3>6 DEF l
  <2>2. BlocksFor(Len(ctx'[s])) <= Len(table'[s])
      BY <1>2, <1>6, <1>7 DEF needed
  <2>3. \A b \in Blocks : b \notin Range(table[s]) \cup Range(table'[s]) => data'[b] = data[b]
      BY <1>7, <1>11
  <2>4. /\ table' = [table EXCEPT ![s] = table'[s]] /\ table'[s] \in Seq(Blocks)
        /\ ctx' = [ctx EXCEPT ![s] = ctx'[s]] /\ ctx'[s] \in Seq(Tokens)
      BY <1>2, <1>6, <1>7
  <2>5. \A i, j \in DOMAIN table'[s] : table'[s][i] = table'[s][j] => i = j
      BY <1>1, <1>3, <1>7
  <2>6. \A b \in Range(table'[s]) : /\ \A t \in Slots \ {s} : b \notin Range(table[t])
                                    /\ \A p \in DOMAIN entries : b \notin Range(entries[p].blocks)
      BY <1>5, <1>7
  <2> QED
      BY <1>1, <1>12, <2>1, <2>2, <2>3, <2>4, <2>5, <2>6 DEF Shortens
<1>14. Recounts(s)
  <2>1. \A b \in Blocks : Counted'[b] = IF freeBlocks'[b] > 0 THEN refs'[b] ELSE IF refs'[b] = 0 THEN 1 ELSE refs'[b]
      BY DEF Counted, CountedOf
  <2>2. ASSUME NEW b \in Range(new) PROVE freeBlocks'[b] = 0 /\ Counted'[b] = 1
    <3>1. b \in Blocks /\ ~ Returned(s)[b] /\ freeBlocks[b] = 1 /\ refs[b] = 0
        BY <1>3, <1>4, <1>5, <1>8
    <3>2. freeBlocks'[b] = 0 /\ refs'[b] = 0
        BY <1>1, <3>1
    <3> QED
        BY <2>1, <3>1, <3>2
  <2>3. ASSUME NEW b \in held PROVE freeBlocks'[b] = 1 /\ Counted'[b] = 0
    <3>1. b \in Blocks /\ Returned(s)[b] /\ freeBlocks[b] = 0 /\ b \notin Range(new)
        BY <1>8, <1>9
    <3>2. freeBlocks'[b] = 1 /\ refs'[b] = 0
        BY <1>1, <3>1
    <3> QED
        BY <2>1, <3>1, <3>2
  <2>4. refs' \in [Blocks -> Nat]
    <3>1. \A b \in Blocks : (IF Returned(s)[b] THEN 0 ELSE refs[b]) \in Nat
        BY Facts
    <3> QED
        BY <1>1, <3>1
  <2>5. freeBlocks' \in [Blocks -> 0..1]
    <3>1. \A b \in Blocks : freeBlocks'[b] \in 0..1
        BY <1>11, <2>2, <2>3, Facts
    <3>2. freeBlocks' = [b \in Blocks |-> freeBlocks'[b]]
        BY <1>1
    <3> QED
        BY <3>1, <3>2
  <2> QED
      BY <1>7, <1>11, <2>2, <2>3, <2>4, <2>5 DEF Recounts
<1> QED
    BY <1>13, <1>14, ShortensInv

-----------------------------------------------------------------------------
(* Every step *)

\* compact raises after it has popped blocks, which then belong to nobody.
CompactLoses == FreeSet # {} /\ \E s \in Slots : \E S \in SUBSET Nat : CompactRaises(s, S)

\* evict keeps the invariant, unless compact loses blocks.
LEMMA EvictKeeps ==
  ASSUME EvictInv, ~ EvictShared, ~ EvictWithinBlock, NEW s \in Slots, Evict(s), ~ CompactLoses
  PROVE  EvictInv'
<1>1. s \notin evicted /\ freeSlots[s] = 0 /\ Alone(s)
    BY DEF Evict, InUse
<1>2. \A b \in Range(table[s]) : Counted[b] = 1
  <2> TAKE b \in Range(table[s])
  <2>1. b \in Blocks /\ CountOf(b) = 1
      BY <1>1, TableFacts DEF Alone
  <2> QED
      BY <2>1, InUseCounted
<1>3. Len(ctx[s]) \in Nat
    BY TableFacts
<1>4. PICK policy \in Policies, budget \in KVBudgets :
        \E S \in Selections(policy, budget, Len(ctx[s])) :
          /\ Cardinality(S) < Len(ctx[s])
          /\ Cardinality(S) <= MaxKept
          /\ EvictWithinBlock \/ ~ Pointless(s, S) \/ S = 1..Cardinality(S)
          /\ IF Pointless(s, S) THEN CompactIdles(s, S)
             ELSE IF Cardinality(FreeSet) < BlocksFor(Cardinality(S)) THEN CompactRaises(s, S)
             ELSE CompactMoves(s, S)
    BY DEF Evict
<1>5. PICK S \in Selections(policy, budget, Len(ctx[s])) :
        /\ Cardinality(S) < Len(ctx[s])
        /\ ~ Pointless(s, S) \/ S = 1..Cardinality(S)
        /\ IF Pointless(s, S) THEN CompactIdles(s, S)
           ELSE IF Cardinality(FreeSet) < BlocksFor(Cardinality(S)) THEN CompactRaises(s, S)
           ELSE CompactMoves(s, S)
    BY <1>4
<1>6. S \in SUBSET (1..Len(ctx[s])) /\ Cardinality(S) \in Nat
  <2>1. budget \in Nat
      BY EvictionAssumption
  <2>2. S \in SUBSET (1..Len(ctx[s]))
      BY <1>3, <2>1, SelectionPositions
  <2> QED
      BY <1>3, <2>2, PositionsFinite
<1>7. CASE Pointless(s, S)
  <2> DEFINE k == Cardinality(S)
  <2>1. S = 1..k /\ CompactIdles(s, S) /\ k < Len(ctx[s])
      BY <1>5, <1>7
  <2> HIDE DEF k
  <2>2. CompactIdles(s, 1..k)
      BY <2>1
  <2>3. k \in Nat /\ k <= Len(ctx[s])
      BY <1>3, <1>6, <2>1 DEF k
  <2> QED
      BY <1>1, <1>2, <2>2, <2>3, IdlesShortens
<1>8. CASE ~ Pointless(s, S) /\ Cardinality(FreeSet) < BlocksFor(Cardinality(S))
  <2>1. CompactRaises(s, S) /\ S \in SUBSET Nat
      BY <1>5, <1>6, <1>8
  <2>2. FreeSet = {}
      BY <2>1 DEF CompactLoses
  <2>3. \A b \in Blocks : freeBlocks[b] = 0
      BY <2>2, Facts DEF FreeSet
  <2>4. freeBlocks' = freeBlocks
      BY <2>1, <2>3, Facts DEF CompactRaises
  <2> QED
      BY <2>1, <2>4, StutterCounted DEF CompactRaises, kvVars
<1>9. CASE ~ Pointless(s, S) /\ ~ (Cardinality(FreeSet) < BlocksFor(Cardinality(S)))
  <2>1. CompactMoves(s, S)
      BY <1>5, <1>9
  <2> QED
      BY <1>1, <1>2, <1>6, <2>1, MovesShortens
<1> QED
    BY <1>7, <1>8, <1>9

\* Every step of the evicting client does.
LEMMA EvictStepInv ==
  ASSUME ~ EvictShared, ~ EvictWithinBlock
  PROVE  EvictInv /\ [EvictNext]_evictVars /\ [~ CompactLoses]_evictVars => EvictInv'
<1> SUFFICES ASSUME EvictInv, [EvictNext]_evictVars, [~ CompactLoses]_evictVars PROVE EvictInv'
    OBVIOUS
<1>1. CASE UNCHANGED evictVars
    BY <1>1, StutterCounted DEF evictVars
<1>2. CASE EvictNext /\ ~ CompactLoses
  <2>1. PICK s \in Slots :
          \/ \E tokens \in Prompts :
               /\ \/ ClientAdmit(s, tokens) \/ ClientGrow(s, tokens) \/ ClientWrite(s, tokens)
                  \/ s \notin evicted /\ ClientRewrite(s, tokens)
               /\ UNCHANGED evicted
          \/ s \notin evicted /\ ClientStore(s) /\ UNCHANGED evicted
          \/ ClientFree(s) /\ evicted' = evicted \ {s}
          \/ Evict(s)
      BY <1>2 DEF EvictNext
  <2>2. ASSUME NEW tokens \in Prompts, ClientAdmit(s, tokens), UNCHANGED evicted PROVE EvictInv'
      BY <2>2, PromptFacts, AdmitCounted DEF ClientAdmit
  <2>3. ASSUME NEW tokens \in Prompts, ClientGrow(s, tokens), UNCHANGED evicted PROVE EvictInv'
      BY <2>3, PromptFacts, GrowCounted DEF ClientGrow, InUse
  <2>4. ASSUME NEW tokens \in Prompts, ClientWrite(s, tokens), UNCHANGED evicted PROVE EvictInv'
    <3>1. Len(ctx[s]) <= Len(tokens)
      <4>1. Len(ctx[s]) \in Nat
          BY Facts, LenProperties
      <4> QED
          BY <2>4, <4>1, PromptFacts DEF ClientWrite
    <3> QED
        BY <2>4, <3>1, PromptFacts, WriteCounted DEF ClientWrite, InUse
  <2>8. ASSUME NEW tokens \in Prompts, s \notin evicted, ClientRewrite(s, tokens), UNCHANGED evicted PROVE EvictInv'
    <3>1. WriteKV(s, Len(ctx[s]), tokens)
        BY <2>8, PromptFacts, RewriteCounted DEF ClientRewrite
    <3> QED
        BY <2>8, <3>1, PromptFacts, WriteCounted DEF ClientRewrite, InUse
  <2>5. ASSUME s \notin evicted, ClientStore(s), UNCHANGED evicted PROVE EvictInv'
      BY <2>5, StoreCounted DEF ClientStore
  <2>6. ASSUME ClientFree(s), evicted' = evicted \ {s} PROVE EvictInv'
      BY <2>6, FreeCounted DEF ClientFree, InUse
  <2>7. ASSUME Evict(s) PROVE EvictInv'
      BY <1>2, <2>7, EvictKeeps
  <2> QED
      BY <2>1, <2>2, <2>3, <2>4, <2>5, <2>6, <2>7, <2>8
<1> QED
    BY <1>1, <1>2

\* The invariant says of the real counts and blocks what the property asks.
LEMMA EvictInvSafe == EvictInv => EvictionIsSafe
<1> SUFFICES ASSUME EvictInv PROVE EvictionIsSafe
    OBVIOUS
<1>1. EvictionConserves
  <2> SUFFICES ASSUME NEW b \in Blocks
               PROVE  LET held == Cardinality(Holders(b)) + Cardinality(Pinning(entries, b))
                      IN  /\ freeBlocks[b] = IF held = 0 THEN 1 ELSE 0
                          /\ IF held = 0 THEN refs[b] = 0 ELSE CountOf(b) = held
      BY DEF EvictionConserves
  <2>1. Counted[b] = Cardinality(Holders(b)) + Cardinality(Pinning(entries, b))
      BY CountsOfHolders
  <2>2. freeBlocks[b] = IF Counted[b] = 0 THEN 1 ELSE 0
      BY Facts
  <2>3. Counted[b] = IF freeBlocks[b] > 0 THEN refs[b] ELSE CountOf(b)
      BY DEF Counted, CountedOf, CountOf
  <2> QED
      BY <2>1, <2>2, <2>3
<1>2. EntriesIntact
  <2>1. K!EntriesIntact
      BY DEF EvictInv, K!CacheInv, K!CacheIntact
  <2>2. ASSUME NEW p \in DOMAIN entries, NEW i \in 1..Len(entries[p].blocks)
        PROVE  Seen[entries[p].blocks[i]] = data[entries[p].blocks[i]]
    <3> DEFINE b == entries[p].blocks[i]
    <3>1. entries[p].blocks \in Seq(Blocks)
        BY Facts
    <3>2. b \in Blocks /\ b \in Range(entries[p].blocks)
        BY <3>1, LenProperties, ElementOfSeq DEF Range
    <3>3. \A t \in evicted : b \notin Range(table[t])
        BY <3>2, Shortened
    <3> QED
        BY <3>2, <3>3, SeenBlocks
  <2> QED
      BY <2>1, <2>2 DEF EntriesIntact, K!EntriesIntact
<1>3. ASSUME NEW s \in Slots PROVE HasCapacity(s, Len(ctx[s]))
    BY Facts DEF HasCapacity
<1>4. ASSUME NEW s \in Slots, NEW i \in 1..BlocksFor(Len(ctx[s]))
      PROVE  LET read == Lesser(i * BlockSize, Len(ctx[s]))
                 held == data[table[s][i]]
             IN  Len(held) >= read /\ SubSeq(held, 1, read) = SubSeq(ctx[s], 1, read)
  <2>1. CASE s \in evicted
      BY <2>1 DEF EvictInv, EvictedRead, Shown
  <2>2. CASE s \notin evicted
    <3> DEFINE l == Lesser(i * BlockSize, Len(ctx[s]))
    <3>1. table[s][i] \in Range(table[s]) /\ table[s][i] \in Blocks
        BY TableFacts
    <3>2. Seen[table[s][i]] = data[table[s][i]]
      <4>1. \A t \in evicted : table[s][i] \notin Range(table[t])
          BY <2>2, <3>1, Shortened
      <4> QED
          BY <3>1, <4>1, SeenBlocks
    <3>3. Seen[table[s][i]] = SubSeq(ctx[s], 1, IF i * BlockSize < Len(ctx[s]) THEN i * BlockSize ELSE Len(ctx[s]))
        BY SameSizes DEF EvictInv, K!CacheInv, K!CacheIntact, K!SlotsIntact
    <3>4. data[table[s][i]] = SubSeq(ctx[s], 1, l)
        BY <3>2, <3>3 DEF Lesser
    <3>5. ctx[s] \in Seq(Tokens) /\ l \in 0..Len(ctx[s]) /\ l \in 0..l
      <4>1. ctx[s] \in Seq(Tokens) /\ i * BlockSize \in Nat /\ Len(ctx[s]) \in Nat
          BY Facts, TableFacts, SizesAssumption
      <4> QED
          BY <4>1 DEF Lesser
    <3> HIDE DEF l
    <3>6. Len(data[table[s][i]]) = l
        BY <3>4, <3>5, PrefixFacts
    <3>7. SubSeq(data[table[s][i]], 1, l) = SubSeq(ctx[s], 1, l)
        BY <3>4, <3>5, PrefixOfPrefix
    <3> QED
        BY <3>5, <3>6, <3>7 DEF l
  <2> QED
      BY <2>1, <2>2
<1>5. EvictionIntact
    BY <1>2, <1>3, <1>4 DEF EvictionIntact
<1> QED
    BY <1>1, <1>5 DEF EvictionIsSafe

\* Where only slots that share nothing are evicted, the caller goes on from a
\* shorter run only when compact moved it or kept a prefix, and the pool does
\* not run dry half way, no eviction loses a block or a kept token.
THEOREM EvictionKeepsAll ==
  ASSUME ~ EvictShared, ~ EvictWithinBlock
  PROVE  EvictSpec /\ [][~ CompactLoses]_evictVars => []EvictionIsSafe
<1>1. EvictInit => EvictInv
    BY EvictInitInv
<1>2. EvictInv /\ [EvictNext]_evictVars /\ [~ CompactLoses]_evictVars => EvictInv'
    BY EvictStepInv
<1>3. EvictInv => EvictionIsSafe
    BY EvictInvSafe
<1> QED
    BY <1>1, <1>2, <1>3, PTL DEF EvictSpec

-----------------------------------------------------------------------------
(* The contiguous caches of RunnerCaches.                                   *)

\* What a position of the store may hold: a request and a position of its text.
Cells == Int \X Int
StoreRows == [1..StoreLen -> Cells]

\* A row that serves a request holds what the request wrote, up to the end of the
\* store, and the length is the number of its tokens; its last decode attended to
\* that, if the store was not yet full.
RowHolds(r) ==
  /\ jobs[r].tokens = length2
  /\ \A p \in 1..StoreLen : p <= length2 => store[r][p] = <<jobs[r].id, p>>
  /\ attended[r] # <<>> /\ jobs[r].tokens <= StoreLen => attended[r] = History(r)

\* The shapes of the variables.
CachesTypeOK ==
  /\ length2 \in Nat /\ made \in Nat
  /\ store \in [Rows2 -> StoreRows]
  /\ jobs \in [Rows2 -> [id : Int, tokens : Int]]
  /\ attended \in [Rows2 -> Seq(Cells)]

\* Under ModelRunner every row holds its request.
CachesInv ==
  /\ CachesTypeOK
  /\ client = "runner" => \A r \in Rows2 : RowHolds(r)

\* Reading up to a position within the store is a plain prefix.
LEMMA UpToFacts ==
  ASSUME NEW row \in StoreRows, NEW p \in Nat
  PROVE  /\ UpTo(row, p) \in Seq(Cells)
         /\ p <= StoreLen => UpTo(row, p) = [i \in 1..p |-> row[i]]
<1>1. StoreLen \in Nat
    BY CachesAssumption
<1>2. PICK n \in Nat : n <= StoreLen /\ n <= p /\ Min({p, StoreLen}) = n /\ (p <= StoreLen => n = p)
  <2>1. CASE p <= StoreLen
    <3>1. Min({p, StoreLen}) = p
        BY <1>1, <2>1 DEF Min
    <3> QED
        BY <2>1, <3>1
  <2>2. CASE ~ p <= StoreLen
    <3>1. Min({p, StoreLen}) = StoreLen
        BY <1>1, <2>2 DEF Min
    <3> QED
        BY <1>1, <2>2, <3>1
  <2> QED
      BY <2>1, <2>2
<1>3. UpTo(row, p) = [i \in 1..n |-> row[i]]
  <2>1. UpTo(row, p) = SubSeq(row, 1, n)
      BY <1>2 DEF UpTo
  <2>2. row \in Seq(Cells) /\ Len(row) = StoreLen
      BY <1>1 DEF StoreRows
  <2>3. SubSeq(row, 1, n) \in Seq(Cells) /\ Len(SubSeq(row, 1, n)) = n
        /\ \A i \in 1..n : SubSeq(row, 1, n)[i] = row[i]
      BY <1>1, <1>2, <2>2
  <2>4. DOMAIN SubSeq(row, 1, n) = 1..n
      BY <1>2, <2>3
  <2>5. SubSeq(row, 1, n) = [i \in 1..n |-> SubSeq(row, 1, n)[i]]
      BY <2>3, <2>4
  <2> QED
      BY <2>1, <2>3, <2>5
<1>4. \A i \in 1..n : row[i] \in Cells
    BY <1>1, <1>2 DEF StoreRows
<1> QED
    BY <1>1, <1>2, <1>3, <1>4

\* A row that is filled or put to keeps its shape.
LEMMA FilledFacts ==
  ASSUME NEW row \in StoreRows, NEW id \in Int, NEW n \in Int
  PROVE  Filled(row, id, n) \in StoreRows
<1>1. \A p \in 1..StoreLen : <<id, p>> \in Cells
    BY CachesAssumption DEF Cells
<1> QED
    BY <1>1 DEF Filled, StoreRows

LEMMA PutFacts ==
  ASSUME NEW row \in StoreRows, NEW p \in Int, NEW id \in Int, NEW k \in Int
  PROVE  Put(row, p, <<id, k>>) \in StoreRows
<1>1. <<id, k>> \in Cells
    BY DEF Cells
<1> QED
    BY <1>1, CachesAssumption DEF Put, StoreRows

\* Before the first call nothing is stored.
LEMMA CachesStart == CachesInit => CachesInv
<1>1. Unwritten \in Cells
    BY DEF Unwritten, Cells
<1> QED
    BY <1>1, CachesAssumption DEF CachesInit, CachesInv, CachesTypeOK, NoJob, StoreRows

\* A prefill starts the length anew and fills every row from its beginning.
LEMMA RunnerPrefillKeeps ==
  ASSUME CachesInv, NEW n \in PromptRange, RunnerPrefill(n)
  PROVE  CachesInv'
<1>1. n \in Nat /\ n <= StoreLen /\ StoreLen \in Nat
    BY CachesAssumption
<1>2. PICK ids \in [Rows2 -> (made + 1)..(made + Cardinality(Rows2))] :
        /\ store' = [r \in Rows2 |-> Filled(store[r], ids[r], n)]
        /\ jobs' = [r \in Rows2 |-> [id |-> ids[r], tokens |-> n]]
    BY DEF RunnerPrefill
<1>3. /\ client' = "runner" /\ length2' = n /\ attended' = [r \in Rows2 |-> <<>>]
    BY DEF RunnerPrefill, ResetLength
<1>4. ASSUME NEW r \in Rows2
      PROVE  /\ store'[r] \in StoreRows /\ jobs'[r] \in [id : Int, tokens : Int]
             /\ RowHolds(r)'
  <2>1. ids[r] \in Int
      OBVIOUS
  <2>2. store[r] \in StoreRows
      BY DEF CachesInv, CachesTypeOK
  <2>3. store'[r] = Filled(store[r], ids[r], n) /\ jobs'[r] = [id |-> ids[r], tokens |-> n]
      BY <1>2
  <2>4. store'[r] \in StoreRows
      BY <1>1, <2>1, <2>2, <2>3, FilledFacts
  <2>5. \A p \in 1..StoreLen : p <= n => store'[r][p] = <<ids[r], p>>
      BY <2>3 DEF Filled
  <2> QED
      BY <1>1, <1>3, <2>1, <2>3, <2>4, <2>5 DEF RowHolds
<1>5. DOMAIN store' = Rows2 /\ DOMAIN jobs' = Rows2
      /\ store' = [r \in Rows2 |-> store'[r]] /\ jobs' = [r \in Rows2 |-> jobs'[r]]
    BY <1>2
<1>6. store' \in [Rows2 -> StoreRows] /\ jobs' \in [Rows2 -> [id : Int, tokens : Int]]
    BY <1>4, <1>5
<1>7. attended' \in [Rows2 -> Seq(Cells)]
    BY <1>3
<1>8. made' \in Nat
    BY CachesAssumption, FS_CardinalityType DEF RunnerPrefill, CachesInv, CachesTypeOK
<1> QED
    BY <1>1, <1>3, <1>4, <1>6, <1>7, <1>8 DEF CachesInv, CachesTypeOK

\* A decode adds one position to every row.
LEMMA RunnerDecodeKeeps ==
  ASSUME CachesInv, RunnerDecode
  PROVE  CachesInv'
<1> DEFINE p == length2 + 1
<1>1. /\ StoreLen \in Nat /\ length2 \in Nat /\ p \in Nat
    BY CachesAssumption DEF CachesInv, CachesTypeOK
<1>2. /\ client = "runner" /\ client' = client /\ length2' = p
      /\ store' = [r \in Rows2 |-> Put(store[r], p, <<jobs[r].id, jobs[r].tokens + 1>>)]
      /\ attended' = [r \in Rows2 |-> UpTo(store'[r], p)]
      /\ jobs' = [r \in Rows2 |-> [jobs[r] EXCEPT !.tokens = @ + 1]]
    BY DEF RunnerDecode
<1> HIDE DEF p
<1>3. ASSUME NEW r \in Rows2
      PROVE  /\ store'[r] \in StoreRows /\ jobs'[r] \in [id : Int, tokens : Int]
             /\ attended'[r] \in Seq(Cells)
             /\ RowHolds(r)'
  <2>1. /\ jobs[r] \in [id : Int, tokens : Int] /\ store[r] \in StoreRows
        /\ RowHolds(r)
      BY <1>2 DEF CachesInv, CachesTypeOK
  <2>2. /\ jobs[r].id \in Int /\ jobs[r].tokens \in Int /\ jobs[r].tokens + 1 = p
        /\ jobs'[r] \in [id : Int, tokens : Int]
        /\ jobs'[r].id = jobs[r].id /\ jobs'[r].tokens = p
      BY <1>1, <1>2, <2>1 DEF RowHolds, p
  <2>3. store'[r] = Put(store[r], p, <<jobs[r].id, p>>)
      BY <1>2, <2>2
  <2>4. store'[r] \in StoreRows
      BY <1>1, <2>1, <2>2, <2>3, PutFacts
  <2>5. ASSUME NEW i \in 1..StoreLen, i <= p
        PROVE  store'[r][i] = <<jobs[r].id, i>>
    <3>1. CASE i = p
        BY <1>1, <2>1, <2>3, <3>1 DEF Put, StoreRows
    <3>2. CASE i # p
      <4>1. i <= length2
          BY <1>1, <2>5, <3>2 DEF p
      <4>2. store[r][i] = <<jobs[r].id, i>>
          BY <2>1, <4>1 DEF RowHolds
      <4> QED
          BY <2>1, <2>3, <3>2, <4>2 DEF Put, StoreRows
    <3> QED
        BY <3>1, <3>2
  <2>6. attended'[r] = UpTo(store'[r], p) /\ attended'[r] \in Seq(Cells)
      BY <1>1, <1>2, <2>4, UpToFacts
  <2>7. p <= StoreLen => attended'[r] = [i \in 1..p |-> <<jobs[r].id, i>>]
    <3> SUFFICES ASSUME p <= StoreLen PROVE attended'[r] = [i \in 1..p |-> <<jobs[r].id, i>>]
        OBVIOUS
    <3>1. attended'[r] = [i \in 1..p |-> store'[r][i]]
        BY <1>1, <2>4, <2>6, UpToFacts
    <3>2. \A i \in 1..p : store'[r][i] = <<jobs[r].id, i>>
        BY <1>1, <2>5
    <3> QED
        BY <3>1, <3>2
  <2>8. jobs'[r].tokens <= StoreLen => attended'[r] = History(r)'
      BY <2>2, <2>7 DEF History
  <2> QED
      BY <1>2, <2>2, <2>4, <2>5, <2>6, <2>8 DEF RowHolds
<1>4. /\ store' = [r \in Rows2 |-> store'[r]] /\ jobs' = [r \in Rows2 |-> jobs'[r]]
      /\ attended' = [r \in Rows2 |-> attended'[r]]
    BY <1>2
<1>5. /\ store' \in [Rows2 -> StoreRows] /\ jobs' \in [Rows2 -> [id : Int, tokens : Int]]
      /\ attended' \in [Rows2 -> Seq(Cells)]
    BY <1>3, <1>4
<1>6. made' \in Nat
    BY DEF RunnerDecode, CachesInv, CachesTypeOK
<1> QED
    BY <1>1, <1>2, <1>3, <1>5, <1>6 DEF CachesInv, CachesTypeOK

\* Under the engine only the shapes have to be kept.
LEMMA EngineKeeps ==
  ASSUME CachesInv, (\E n \in PromptRange : EnginePrefill(n)) \/ EngineDecode \/ (\E r \in Rows2 : EngineFinish(r))
  PROVE  CachesInv'
<1>1. /\ store \in [Rows2 -> StoreRows]
      /\ jobs \in [Rows2 -> [id : Int, tokens : Int]]
      /\ attended \in [Rows2 -> Seq(Cells)]
      /\ length2 \in Nat /\ made \in Nat /\ StoreLen \in Nat
    BY CachesAssumption DEF CachesInv, CachesTypeOK
<1>2. client' = "engine" /\ length2' = length2 /\ made' \in Nat
    BY <1>1 DEF EnginePrefill, EngineDecode, EngineFinish
<1>3. CachesTypeOK'
  <2>1. ASSUME NEW n \in PromptRange, EnginePrefill(n)
        PROVE  CachesTypeOK'
    <3>1. n \in Int /\ made + 1 \in Int
        BY <1>1, CachesAssumption
    <3>2. PICK r : /\ store' = [store EXCEPT ![r] = Filled(@, made + 1, n)]
                   /\ jobs' = [jobs EXCEPT ![r] = [id |-> made + 1, tokens |-> n]]
                   /\ attended' = [attended EXCEPT ![r] = <<>>]
        BY <2>1 DEF EnginePrefill
    <3>3. r \in Rows2 => Filled(store[r], made + 1, n) \in StoreRows
        BY <1>1, <3>1, FilledFacts
    <3>4. store' \in [Rows2 -> StoreRows]
        BY <1>1, <3>2, <3>3
    <3>5. jobs' \in [Rows2 -> [id : Int, tokens : Int]]
        BY <1>1, <3>1, <3>2
    <3>6. attended' \in [Rows2 -> Seq(Cells)]
      <4>1. <<>> \in Seq(Cells)
          OBVIOUS
      <4> QED
          BY <1>1, <3>2, <4>1
    <3> QED
        BY <1>1, <1>2, <3>4, <3>5, <3>6 DEF CachesTypeOK
  <2>2. ASSUME EngineDecode
        PROVE  CachesTypeOK'
    <3> DEFINE p == length2 + 1
    <3>1. /\ store' = [r \in Rows2 |->
                IF r \in Tenants THEN Put(store[r], p, <<jobs[r].id, jobs[r].tokens + 1>>) ELSE store[r]]
          /\ attended' = [r \in Rows2 |-> IF r \in Tenants THEN UpTo(store'[r], p) ELSE attended[r]]
          /\ jobs' = [r \in Rows2 |-> IF r \in Tenants THEN [jobs[r] EXCEPT !.tokens = @ + 1] ELSE jobs[r]]
        BY <2>2 DEF EngineDecode
    <3>2. p \in Nat
        BY <1>1
    <3> HIDE DEF p
    <3>3. ASSUME NEW r \in Rows2
          PROVE  /\ store'[r] \in StoreRows /\ jobs'[r] \in [id : Int, tokens : Int]
                 /\ attended'[r] \in Seq(Cells)
      <4>1. jobs[r].id \in Int /\ jobs[r].tokens + 1 \in Int /\ store[r] \in StoreRows
          BY <1>1
      <4>2. store'[r] \in StoreRows
          BY <3>1, <3>2, <4>1, PutFacts
      <4>3. attended'[r] \in Seq(Cells)
          BY <1>1, <3>1, <3>2, <4>2, UpToFacts
      <4>4. jobs'[r] \in [id : Int, tokens : Int]
          BY <1>1, <3>1, <4>1
      <4> QED
          BY <4>2, <4>3, <4>4
    <3>4. /\ store' = [r \in Rows2 |-> store'[r]] /\ jobs' = [r \in Rows2 |-> jobs'[r]]
          /\ attended' = [r \in Rows2 |-> attended'[r]]
        BY <3>1
    <3> QED
        BY <1>1, <1>2, <3>3, <3>4 DEF CachesTypeOK
  <2>3. ASSUME NEW r \in Rows2, EngineFinish(r)
        PROVE  CachesTypeOK'
      BY <1>1, <1>2, <2>3 DEF EngineFinish, NoJob, CachesTypeOK
  <2> QED
      BY <2>1, <2>2, <2>3
<1> QED
    BY <1>1, <1>2, <1>3 DEF CachesInv, CachesTypeOK

\* The contiguous caches under ModelRunner (models/cache.py, models/runner.py):
\* whatever batches went before, a decode attends to its row's own history.
THEOREM RowsReadBack == CachesSpec => []RowsSeeHistory
<1>1. CachesInv /\ [CachesNext]_cacheVars => CachesInv'
  <2> SUFFICES ASSUME CachesInv, [CachesNext]_cacheVars PROVE CachesInv'
      OBVIOUS
  <2>1. CASE CachesNext
      BY <2>1, RunnerPrefillKeeps, RunnerDecodeKeeps, EngineKeeps DEF CachesNext
  <2>2. CASE UNCHANGED cacheVars
      BY <2>2 DEF cacheVars, CachesInv, CachesTypeOK, RowHolds, History
  <2> QED
      BY <2>1, <2>2
<1>2. CachesInv => RowsSeeHistory
    BY DEF CachesInv, CachesTypeOK, RowHolds, RowsSeeHistory
<1> QED
    BY <1>1, <1>2, CachesStart, PTL DEF CachesSpec
=============================================================================
