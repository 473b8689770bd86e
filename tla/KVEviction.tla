----------------------------- MODULE KVEviction -----------------------------
(***************************************************************************)
(* Prompt-time eviction (class KVEviction and evict_after_prefill of       *)
(* engine/kv_cache.py) on the cache of PagedKVCache: after a prefill a     *)
(* policy picks the positions of a slot worth keeping, a recall gate may   *)
(* refuse, and compact moves their K/V into fewer blocks and gives the old *)
(* ones back to the pool.                                                  *)
(*                                                                         *)
(* The caller goes on from what evict reports: the kept tokens are the     *)
(* slot's context from then on, so an evicted slot's ctx is that shorter   *)
(* run and a block compact wrote holds it up to the block's end.  Which    *)
(* positions carry the attention is any choice of the size the policy      *)
(* asks for.                                                               *)
(***************************************************************************)
EXTENDS PagedKVCacheClient, FiniteSetsExt

CONSTANTS
  Policies,          \* policies in use; "mask" stands for keep_mask
  KVBudgets,         \* kv_budget of the calls
  LayerBudgets,      \* num_layers, adakv_min_budget, adakv_max_budget
  Window,            \* duoattn_window
  EvictShared,       \* whether a caller may evict a slot that shares blocks
  EvictWithinBlock,  \* whether it may when no block would become free and
                     \* the kept positions are no prefix
  MaxKept            \* bound on the positions an eviction keeps

ASSUME EvictionAssumption ==
  /\ Policies \subseteq {"snapkv", "adakv", "duoattn", "first", "mask"}
  /\ KVBudgets \cup {Window, MaxKept} \subseteq Nat \ {0}
  /\ LayerBudgets \in [layers : Nat \ {0}, least : Nat \ {0}, most : Nat \ {0}]
  /\ LayerBudgets.least <= LayerBudgets.most
  /\ EvictShared \in BOOLEAN /\ EvictWithinBlock \in BOOLEAN

VARIABLE evicted   \* slots that evict shortened since they were allocated

evictVars == <<kvVars, evicted>>

Lesser(a, b) == IF a < b THEN a ELSE b
Greater(a, b) == IF a > b THEN a ELSE b

-----------------------------------------------------------------------------
(* Which positions stay *)

\* adakv_budgets: a ramp from the least to the most, scaled to the total.
RawBudget(i) ==
  LET b == LayerBudgets
  IN  b.least + (i * (b.most - b.least)) \div (b.layers - 1)

AdaBudgets(budget) ==
  LET last == LayerBudgets.layers - 1
      sum == FoldSet(LAMBDA i, acc : acc + RawBudget(i), 0, 0..last)
  IN  IF last = 0 THEN [i \in {0} |-> budget]
      ELSE [i \in 0..last |-> Greater(1, (RawBudget(i) * budget) \div sum)]

\* snapkv_selection: the budget's worth of best positions out of n.
Best(budget, n) == kSubset(Lesser(budget, n), 1..n)

First(budget, n) == 1..Lesser(budget, n)

\* What evict may settle on for a prompt of n positions.
Selections(policy, budget, n) ==
  CASE policy = "snapkv"  -> Best(budget, n)
    [] policy = "adakv"   -> IF n <= budget THEN {1..n} ELSE Best(AdaBudgets(budget)[0], n)
    [] policy = "duoattn" -> {S \cup (Greater(1, n - Window + 1)..n) : S \in Best(budget, n)}
    [] policy = "first"   -> {First(budget, n)}
    [] policy = "mask"    -> SUBSET (1..n)

\* The positions in order.
InOrder(S) ==
  CHOOSE q \in [1..Cardinality(S) -> S] : \A i, j \in DOMAIN q : i < j => q[i] < q[j]

\* The tokens at the kept positions, which the caller goes on from.
Kept(s, S) == LET keep == InOrder(S) IN [i \in 1..Cardinality(S) |-> ctx[s][keep[i]]]

\* Mutant: as many tokens from the front of the slot.
CopiedFirst(s, S) == SubSeq(ctx[s], 1, Cardinality(S))

\* The K/V compact copies, position by position through the old table.
Copied(s, S) ==
  LET keep == InOrder(S)
      held(p) == data[table[s][1 + (p - 1) \div BlockSize]]
  IN  [i \in 1..Cardinality(S) |-> held(keep[i])[keep[i]]]

-----------------------------------------------------------------------------
(* compact *)

FreeSet == {b \in Blocks : freeBlocks[b] > 0}

\* No block would become free: nothing is moved.
Pointless(s, S) == S = {} \/ BlocksFor(Cardinality(S)) >= Len(table[s])

\* Mutant: the old blocks are not given back.
ReturnedNone(s) == [b \in Blocks |-> FALSE]

\* The blocks compact returns to the pool: all the slot had, shared or not.
Returned(s) == [b \in Blocks |-> b \in Range(table[s])]

\* The pool runs dry half way: it raises, and the blocks popped stay out.
CompactRaises(s, S) ==
  /\ Cardinality(FreeSet) < BlocksFor(Cardinality(S))
  /\ freeBlocks' = [b \in Blocks |-> 0]
  /\ UNCHANGED <<freeSlots, table, refs, entries, pins, clock, data, ctx, evicted>>

\* The kept K/V moves into new blocks, which get no reference count.
CompactMoves(s, S) ==
  LET run == Copied(s, S)
      needed == BlocksFor(Len(run))
  IN  \E new \in [1..needed -> FreeSet] :
        /\ \A i, j \in 1..needed : new[i] = new[j] => i = j
        /\ data' = [b \in Blocks |->
                      IF b \in Range(new)
                        THEN LET i == CHOOSE j \in 1..needed : new[j] = b
                             IN  SubSeq(run, 1, Lesser(i * BlockSize, Len(run)))
                        ELSE IF Returned(s)[b] THEN <<>> ELSE data[b]]
        /\ freeBlocks' = [b \in Blocks |->
                            freeBlocks[b] + (IF Returned(s)[b] THEN 1 ELSE 0)
                                          - (IF b \in Range(new) THEN 1 ELSE 0)]
        /\ refs' = [b \in Blocks |-> IF Returned(s)[b] THEN 0 ELSE refs[b]]
        /\ table' = [table EXCEPT ![s] = new]
        /\ ctx' = [ctx EXCEPT ![s] = Kept(s, S)]
        /\ evicted' = evicted \cup {s}
        /\ UNCHANGED <<freeSlots, entries, pins, clock>>

\* evict reports success although compact left everything where it was, and
\* the caller goes on with the shorter run.
CompactIdles(s, S) ==
  /\ ctx' = [ctx EXCEPT ![s] = Kept(s, S)]
  /\ evicted' = evicted \cup {s}
  /\ UNCHANGED <<freeSlots, freeBlocks, table, refs, entries, pins, clock, data>>

-----------------------------------------------------------------------------
(* The caller *)

Alone(s) == \A b \in Range(table[s]) : CountOf(b) = 1

\* evict_after_prefill for a prompt that is all written; a selection of every
\* position is no eviction, and the recall gate may block one (no step).
Evict(s) ==
  /\ InUse(s) /\ s \notin evicted
  /\ ctx[s] # <<>>
  /\ EvictShared \/ Alone(s)
  /\ \E policy \in Policies, budget \in KVBudgets :
     \E S \in Selections(policy, budget, Len(ctx[s])) :
       /\ Cardinality(S) < Len(ctx[s])
       /\ Cardinality(S) <= MaxKept
       /\ EvictWithinBlock \/ ~ Pointless(s, S) \/ S = 1..Cardinality(S)
       /\ IF Pointless(s, S) THEN CompactIdles(s, S)
          ELSE IF Cardinality(FreeSet) < BlocksFor(Cardinality(S)) THEN CompactRaises(s, S)
          ELSE CompactMoves(s, S)

EvictInit == KVInit /\ evicted = {}

EvictNext ==
  \E s \in Slots :
    \/ \E tokens \in Prompts :
         /\ \/ ClientAdmit(s, tokens) \/ ClientGrow(s, tokens) \/ ClientWrite(s, tokens)
            \/ s \notin evicted /\ ClientRewrite(s, tokens)
         /\ UNCHANGED evicted
    \/ s \notin evicted /\ ClientStore(s) /\ UNCHANGED evicted
    \/ ClientFree(s) /\ evicted' = evicted \ {s}
    \/ Evict(s)

EvictSpec == EvictInit /\ [][EvictNext]_evictVars

-----------------------------------------------------------------------------
(* Properties *)

\* With compacted slots about, whose blocks have no reference count of their
\* own: a block that is held counts as often as it is held, and is in the pool
\* exactly when nothing holds it, through every eviction, share and free.
EvictionConserves ==
  \A b \in Blocks :
    LET held == Cardinality(Holders(b)) + Cardinality(Pinning(entries, b))
    IN  /\ freeBlocks[b] = IF held = 0 THEN 1 ELSE 0
        /\ IF held = 0 THEN refs[b] = 0 ELSE CountOf(b) = held

\* After an eviction a slot reads the K/V of the kept tokens in their order,
\* and no prefix entry and no other slot reads anything else than before.
EvictionIntact ==
  /\ EntriesIntact
  /\ \A s \in Slots :
       /\ HasCapacity(s, Len(ctx[s]))
       /\ \A i \in 1..BlocksFor(Len(ctx[s])) :
            LET read == Lesser(i * BlockSize, Len(ctx[s]))
                held == data[table[s][i]]
            IN  Len(held) >= read /\ SubSeq(held, 1, read) = SubSeq(ctx[s], 1, read)

\* Both: an eviction loses no block and no kept token.
EvictionIsSafe == EvictionConserves /\ EvictionIntact
=============================================================================
