------------------------- MODULE PagedKVCacheProofs -------------------------
(***************************************************************************)
(* The operations of PagedKVCache, called as its methods' protocol asks,   *)
(* for any number of slots and blocks, any block size and any budget.  The *)
(* first part is about the counts: each operation keeps CountsInv.  The    *)
(* second is about what the blocks hold: each operation keeps KVInv, which *)
(* says who may write a block, and CacheIntact, which says that every      *)
(* reader finds the K/V of its own tokens.                                 *)
(***************************************************************************)
EXTENDS PagedKVCache, FiniteSetTheorems, SequenceTheorems, TLAPS

-----------------------------------------------------------------------------
(* Arithmetic of block counts *)

\* BlocksFor is a natural number, and a multiple of BlockSize needs exactly
\* its quotient.
LEMMA BlocksForType == \A n \in Nat : BlocksFor(n) \in Nat
BY SizesAssumption DEF BlocksFor

LEMMA BlocksForMultiple == \A k \in Nat : BlocksFor(k * BlockSize) = k
<1> SUFFICES ASSUME NEW k \in Nat
             PROVE  (k * BlockSize + BlockSize - 1) \div BlockSize = k
    BY DEF BlocksFor
<1> QED
    BY SizesAssumption

\* A multiple of BlockSize divides back to its factor.
LEMMA DivMultiple == \A k \in Nat : (k * BlockSize) \div BlockSize = k
BY SizesAssumption

\* The whole blocks of n positions are among the blocks for n positions.
LEMMA WholeBlocks == \A n \in Nat : n \div BlockSize \in Nat /\ n \div BlockSize <= BlocksFor(n)
BY SizesAssumption DEF BlocksFor

-----------------------------------------------------------------------------
(* Holders and pinning entries are finite sets, and what is held is counted *)

LEMMA HoldersFinite ==
  ASSUME NEW b
  PROVE  IsFiniteSet(Holders(b)) /\ Cardinality(Holders(b)) \in Nat
<1>1. Holders(b) \in SUBSET Slots
    BY DEF Holders
<1> QED
    BY <1>1, SizesAssumption, FS_Subset, FS_CardinalityType

LEMMA PinningFinite ==
  ASSUME NEW es, IsFiniteSet(DOMAIN es), NEW b
  PROVE  IsFiniteSet(Pinning(es, b)) /\ Cardinality(Pinning(es, b)) \in Nat
<1>1. Pinning(es, b) \in SUBSET (DOMAIN es)
    BY DEF Pinning
<1> QED
    BY <1>1, FS_Subset, FS_CardinalityType

\* A nonempty finite set has positive cardinality.
LEMMA NonemptyCounted ==
  ASSUME NEW S, IsFiniteSet(S), NEW x \in S
  PROVE  Cardinality(S) \in Nat /\ Cardinality(S) > 0
<1>1. Cardinality(S) \in Nat
    BY FS_CardinalityType
<1>2. Cardinality(S) # 0
    BY FS_EmptySet
<1> QED
    BY <1>1, <1>2

\* A block some table or some entry names has a count, so the default of
\* dict.get is not taken for it.
LEMMA HeldCounted ==
  ASSUME KVTypeOK, RefcountsExact, NEW b \in Blocks,
         \/ \E s \in Slots : b \in Range(table[s])
         \/ \E p \in DOMAIN entries : b \in Range(entries[p].blocks)
  PROVE  refs[b] \in Nat /\ refs[b] > 0 /\ CountOf(b) = refs[b]
<1>1. /\ IsFiniteSet(Holders(b)) /\ Cardinality(Holders(b)) \in Nat
      /\ IsFiniteSet(Pinning(entries, b)) /\ Cardinality(Pinning(entries, b)) \in Nat
    BY HoldersFinite, PinningFinite DEF KVTypeOK
<1>2. refs[b] = Cardinality(Holders(b)) + Cardinality(Pinning(entries, b))
    BY DEF RefcountsExact
<1>3. CASE \E s \in Slots : b \in Range(table[s])
  <2>1. PICK s \in Slots : s \in Holders(b)
      BY <1>3 DEF Holders
  <2> QED
      BY <1>1, <1>2, <2>1, NonemptyCounted DEF CountOf
<1>4. CASE \E p \in DOMAIN entries : b \in Range(entries[p].blocks)
  <2>1. PICK p : p \in Pinning(entries, b)
      BY <1>4 DEF Pinning
  <2> QED
      BY <1>1, <1>2, <2>1, NonemptyCounted DEF CountOf
<1> QED
    BY <1>3, <1>4

\* A block in the free list is named nowhere.
LEMMA FreeUnheld ==
  ASSUME KVTypeOK, RefcountsExact, PoolConserved, NEW b \in Blocks, freeBlocks[b] > 0
  PROVE  /\ refs[b] = 0
         /\ Holders(b) = {}
         /\ Pinning(entries, b) = {}
<1>1. refs[b] = 0
    BY DEF PoolConserved
<1>2. \A s \in Slots : b \notin Range(table[s])
    BY <1>1, HeldCounted
<1>3. \A p \in DOMAIN entries : b \notin Range(entries[p].blocks)
    BY <1>1, HeldCounted
<1> QED
    BY <1>1, <1>2, <1>3 DEF Holders, Pinning

\* The blocks of a table and of an entry are blocks of the pool.
LEMMA TableRange ==
  ASSUME KVTypeOK
  PROVE  /\ \A s \in Slots : Range(table[s]) \subseteq Blocks
         /\ \A p \in DOMAIN entries : Range(entries[p].blocks) \subseteq Blocks
<1>1. \A s \in Slots : table[s] \in Seq(Blocks)
    BY DEF KVTypeOK
<1>2. \A p \in DOMAIN entries : entries[p].blocks \in Seq(Blocks)
    BY DEF KVTypeOK
<1> QED
    BY <1>1, <1>2, RangeOfSeq

-----------------------------------------------------------------------------
(* The lookup *)

\* A boundary of a token run is a prefix of it of some number of whole blocks.
LEMMA BoundaryFacts ==
  ASSUME NEW tokens \in Seq(Tokens), NEW p \in Boundaries(tokens)
  PROVE  /\ p \in Seq(Tokens) /\ p # <<>>
         /\ Len(p) \in Nat /\ Len(p) <= Len(tokens)
         /\ \E i \in 1..(Len(tokens) \div BlockSize) : Len(p) = i * BlockSize
<1>1. PICK i \in 1..(Len(tokens) \div BlockSize) : p = SubSeq(tokens, 1, i * BlockSize)
    BY DEF Boundaries
<1>2. Len(tokens) \in Nat /\ i * BlockSize \in Nat /\ 1 <= i * BlockSize
      /\ i * BlockSize <= Len(tokens)
    BY SizesAssumption
<1>3. \A j \in 1..(i * BlockSize) : tokens[j] \in Tokens
    BY <1>2, ElementOfSeq
<1>4. /\ p \in Seq(Tokens)
      /\ Len(p) = IF 1 <= i * BlockSize THEN i * BlockSize - 1 + 1 ELSE 0
    BY <1>1, <1>2, <1>3, SubSeqProperties
<1>5. Len(p) = i * BlockSize /\ p # <<>>
    BY <1>2, <1>4, EmptySeq
<1> QED
    BY <1>2, <1>4, <1>5

LEMMA BoundariesFinite ==
  ASSUME NEW tokens \in Seq(Tokens)
  PROVE  IsFiniteSet(Boundaries(tokens))
<1> DEFINE k == Len(tokens) \div BlockSize
           g == [i \in 1..k |-> SubSeq(tokens, 1, i * BlockSize)]
<1>1. k \in Nat
    BY SizesAssumption
<1>2. g \in Surjection(1..k, Boundaries(tokens))
    BY DEF Surjection, Boundaries
<1>3. IsFiniteSet(1..k)
    BY <1>1, FS_Interval
<1> QED
    BY <1>2, <1>3, FS_Surjection

\* Every nonempty finite collection of prefixes has a longest one.
LEMMA LongestExists ==
  ASSUME NEW tokens \in Seq(Tokens), NEW ps \in SUBSET Boundaries(tokens), ps # {}
  PROVE  Longest(ps) \in ps
<1> DEFINE gap(p) == Len(tokens) - Len(p)
           gaps == {gap(p) : p \in ps}
<1>1. \A p \in ps : Len(p) \in Nat /\ Len(p) <= Len(tokens)
    BY BoundaryFacts
<1>2. gaps \subseteq Nat /\ gaps # {}
    BY <1>1
<1>3. PICK g \in gaps : \A h \in gaps : <<h, g>> \notin OpToRel(<, Nat)
    BY <1>2, NatLessThanWellFounded, WFMin
<1>4. \A h \in gaps : ~ (h < g)
    BY <1>2, <1>3 DEF OpToRel
<1>5. PICK p \in ps : g = gap(p)
    OBVIOUS
<1>6. \A q \in ps : Len(q) <= Len(p)
  <2> TAKE q \in ps
  <2>1. ~ (gap(q) < gap(p))
      BY <1>4, <1>5
  <2> QED
      BY <1>1, <2>1
<1> QED
    BY <1>6 DEF Longest

\* What lookup_prefix returns has an entry when anything on the path has.
LEMMA MatchedHasEntry ==
  ASSUME NEW tokens \in Seq(Tokens), Boundaries(tokens) \cap DOMAIN entries # {}
  PROVE  MatchedPrefix(tokens) \in DOMAIN entries
BY LongestExists DEF MatchedPrefix

-----------------------------------------------------------------------------
(* Each operation keeps the invariant *)

LEMMA InitCounts == KVInit => CountsInv
<1> SUFFICES ASSUME KVInit PROVE CountsInv
    OBVIOUS
<1> USE DEF KVInit
<1>1. DOMAIN entries = {}
    OBVIOUS
<1>2. KVTypeOK
    BY <1>1, FS_EmptySet, EmptySeq DEF KVTypeOK
<1>3. \A b \in Blocks : Holders(b) = {} /\ Pinning(entries, b) = {}
    BY <1>1 DEF Holders, Pinning, Range
<1>4. RefcountsExact /\ PinsExact /\ PoolConserved
  <2>1. \A b \in Blocks : Cardinality(Holders(b)) = 0 /\ Cardinality(Pinning(entries, b)) = 0
      BY <1>3, FS_EmptySet
  <2> QED
      BY <2>1 DEF RefcountsExact, PinsExact, PoolConserved
<1>5. ContextsCovered
  <2>1. BlocksFor(0) = 0
      BY BlocksForMultiple, SizesAssumption
  <2> QED
      BY <2>1 DEF ContextsCovered, HasCapacity
<1> QED
    BY <1>1, <1>2, <1>4, <1>5 DEF CountsInv, FreeSlotsEmpty, EntriesAligned

\* The blocks share_blocks points a new slot at: those of the matched entry.
HitBlocks(tokens) ==
  IF Boundaries(tokens) \cap DOMAIN entries = {}
    THEN <<>> ELSE entries[MatchedPrefix(tokens)].blocks

\* What alloc, lookup_prefix and share_blocks do to a slot: its table becomes
\* the blocks of the matched prefix, each with one reference more.
LEMMA AllocAndShareEffect ==
  ASSUME CountsInv, NEW s \in Slots, NEW tokens \in Seq(Tokens), AllocAndShare(s, tokens)
  PROVE  LET matched == MatchedPrefix(tokens)
             blocks == HitBlocks(tokens)
         IN  /\ table[s] = <<>> /\ freeSlots[s] = 1
             /\ freeSlots' = [freeSlots EXCEPT ![s] = @ - 1]
             /\ clock' = clock + 1
             /\ matched \in Seq(Tokens) /\ blocks \in Seq(Blocks)
             /\ Len(matched) = Len(blocks) * BlockSize
             /\ blocks # <<>> => matched \in DOMAIN entries /\ blocks = entries[matched].blocks
             /\ table' = [table EXCEPT ![s] = blocks]
             /\ ctx' = [ctx EXCEPT ![s] = matched]
             /\ \A b \in Blocks : b \in Range(blocks) => refs[b] > 0 /\ CountOf(b) = refs[b]
             /\ \A b \in Blocks : refs'[b] = IF b \in Range(blocks) THEN refs[b] + 1 ELSE refs[b]
             /\ refs' \in [Blocks -> Nat]
             /\ DOMAIN entries' = DOMAIN entries
             /\ \A p \in DOMAIN entries :
                  /\ entries'[p] \in [blocks : Seq(Blocks), lru : Nat]
                  /\ entries'[p].blocks = entries[p].blocks
                  /\ entries'[p].lru \in {entries[p].lru, clock + 1}
             /\ UNCHANGED <<freeBlocks, pins, data>>
<1> DEFINE hits == Boundaries(tokens) \cap DOMAIN entries
           matched == MatchedPrefix(tokens)
           blocks == IF hits = {} THEN <<>> ELSE entries[matched].blocks
<1>1. /\ KVTypeOK /\ RefcountsExact /\ PoolConserved /\ PinsExact
      /\ FreeSlotsEmpty /\ ContextsCovered /\ EntriesAligned
    BY DEF CountsInv
<1>2. tokens \in Seq(Tokens)
    OBVIOUS
<1>3. /\ freeSlots[s] > 0
      /\ freeSlots' = [freeSlots EXCEPT ![s] = @ - 1]
      /\ clock' = clock + 1
      /\ entries' = [p \in DOMAIN entries |->
                       IF p \in hits THEN [entries[p] EXCEPT !.lru = clock + 1] ELSE entries[p]]
      /\ IF hits = {} THEN UNCHANGED <<table, refs>> ELSE ShareBlocks(s, entries[matched].blocks)
      /\ ctx' = [ctx EXCEPT ![s] = matched]
      /\ UNCHANGED <<freeBlocks, pins, data>>
    BY DEF AllocAndShare
<1>4. table[s] = <<>> /\ freeSlots[s] = 1
    BY <1>1, <1>3 DEF FreeSlotsEmpty, KVTypeOK
<1>5. hits # {} => matched \in DOMAIN entries
    BY <1>2, MatchedHasEntry
<1>6. matched \in Seq(Tokens) /\ Len(matched) = Len(blocks) * BlockSize /\ blocks \in Seq(Blocks)
  <2>1. CASE hits = {}
    <3>1. matched = <<>> /\ blocks = <<>>
        BY <2>1 DEF MatchedPrefix
    <3>2. <<>> \in Seq(Tokens) /\ <<>> \in Seq(Blocks) /\ Len(<<>>) = 0
        BY EmptySeq
    <3>3. 0 * BlockSize = 0
        BY SizesAssumption
    <3> QED
        BY <3>1, <3>2, <3>3
  <2>2. CASE hits # {}
      BY <1>1, <1>5, <2>2 DEF EntriesAligned, KVTypeOK
  <2> QED
      BY <2>1, <2>2
<1>7. table' = [table EXCEPT ![s] = blocks]
  <2>1. CASE hits = {}
    <3>1. table' = table /\ blocks = <<>>
        BY <1>3, <2>1
    <3> QED
        BY <3>1, <1>1, <1>4 DEF KVTypeOK
  <2>2. CASE hits # {}
      BY <1>3, <2>2 DEF ShareBlocks
  <2> QED
      BY <2>1, <2>2
<1>8. \A b \in Blocks : b \in Range(blocks) => refs[b] > 0 /\ CountOf(b) = refs[b]
  <2> SUFFICES ASSUME NEW b \in Blocks, b \in Range(blocks)
               PROVE  refs[b] > 0 /\ CountOf(b) = refs[b]
      OBVIOUS
  <2>1. hits # {}
      BY DEF Range
  <2> QED
      BY <2>1, <1>1, <1>5, HeldCounted
<1>9. \A b \in Blocks : refs'[b] = IF b \in Range(blocks) THEN refs[b] + 1 ELSE refs[b]
  <2>1. CASE hits = {}
    <3>1. refs' = refs /\ Range(blocks) = {}
        BY <1>3, <2>1 DEF Range
    <3> QED
        BY <3>1
  <2>2. CASE hits # {}
      BY <1>3, <1>8, <2>2 DEF ShareBlocks
  <2> QED
      BY <2>1, <2>2
<1>10. refs' \in [Blocks -> Nat]
  <2>1. refs' = refs \/ refs' = [b \in Blocks |-> IF b \in Range(blocks) THEN CountOf(b) + 1 ELSE refs[b]]
      BY <1>3 DEF ShareBlocks
  <2>2. refs \in [Blocks -> Nat]
      BY <1>1 DEF KVTypeOK
  <2> QED
      BY <2>1, <2>2 DEF CountOf
<1>11. /\ DOMAIN entries' = DOMAIN entries
       /\ \A p \in DOMAIN entries : /\ entries'[p] \in [blocks : Seq(Blocks), lru : Nat]
                                    /\ entries'[p].blocks = entries[p].blocks
                                    /\ entries'[p].lru \in {entries[p].lru, clock + 1}
  <2>1. DOMAIN entries' = DOMAIN entries
      BY <1>3
  <2> SUFFICES ASSUME NEW p \in DOMAIN entries
               PROVE  /\ entries'[p] \in [blocks : Seq(Blocks), lru : Nat]
                      /\ entries'[p].blocks = entries[p].blocks
                      /\ entries'[p].lru \in {entries[p].lru, clock + 1}
      BY <2>1
  <2>2. entries[p] \in [blocks : Seq(Blocks), lru : Nat] /\ clock + 1 \in Nat
      BY <1>1 DEF KVTypeOK
  <2>3. entries'[p] = IF p \in hits THEN [entries[p] EXCEPT !.lru = clock + 1] ELSE entries[p]
      BY <1>3
  <2> QED
      BY <2>2, <2>3
<1>12. blocks # <<>> => matched \in DOMAIN entries /\ blocks = entries[matched].blocks
    BY <1>5
<1> QED
    BY <1>3, <1>4, <1>6, <1>7, <1>8, <1>9, <1>10, <1>11, <1>12 DEF HitBlocks

LEMMA AllocAndShareCounts ==
  ASSUME CountsInv, NEW s \in Slots, NEW tokens \in Seq(Tokens), AllocAndShare(s, tokens)
  PROVE  CountsInv'
<1> DEFINE matched == MatchedPrefix(tokens)
           blocks == HitBlocks(tokens)
<1>1. /\ KVTypeOK /\ RefcountsExact /\ PoolConserved /\ PinsExact
      /\ FreeSlotsEmpty /\ ContextsCovered /\ EntriesAligned
    BY DEF CountsInv
<1>3. /\ freeSlots' = [freeSlots EXCEPT ![s] = @ - 1]
      /\ clock' = clock + 1
      /\ ctx' = [ctx EXCEPT ![s] = matched]
      /\ UNCHANGED <<freeBlocks, pins, data>>
    BY AllocAndShareEffect
<1>4. table[s] = <<>> /\ freeSlots[s] = 1
    BY AllocAndShareEffect
<1>6. matched \in Seq(Tokens) /\ Len(matched) = Len(blocks) * BlockSize /\ blocks \in Seq(Blocks)
    BY AllocAndShareEffect
<1>7. table' = [table EXCEPT ![s] = blocks]
    BY AllocAndShareEffect
<1>8. \A b \in Blocks : b \in Range(blocks) => refs[b] > 0 /\ CountOf(b) = refs[b]
    BY AllocAndShareEffect
<1>9. \A b \in Blocks : refs'[b] = IF b \in Range(blocks) THEN refs[b] + 1 ELSE refs[b]
    BY AllocAndShareEffect
<1>10. refs' \in [Blocks -> Nat]
    BY AllocAndShareEffect
<1>11. /\ DOMAIN entries' = DOMAIN entries
       /\ \A p \in DOMAIN entries : /\ entries'[p] \in [blocks : Seq(Blocks), lru : Nat]
                                    /\ entries'[p].blocks = entries[p].blocks
    BY AllocAndShareEffect
<1> HIDE DEF matched, blocks
<1>12. KVTypeOK'
  <2>1. freeSlots' \in [Slots -> 0..1]
      BY <1>1, <1>3, <1>4 DEF KVTypeOK
  <2>2. table' \in [Slots -> Seq(Blocks)] /\ ctx' \in [Slots -> Seq(Tokens)]
      BY <1>1, <1>3, <1>6, <1>7 DEF KVTypeOK
  <2>3. clock' \in Nat
      BY <1>1, <1>3 DEF KVTypeOK
  <2> QED
      BY <1>1, <1>3, <1>10, <1>11, <2>1, <2>2, <2>3 DEF KVTypeOK
<1>13. \A b \in Blocks :
         /\ Pinning(entries, b)' = Pinning(entries, b)
         /\ Holders(b)' = IF b \in Range(blocks) THEN Holders(b) \cup {s} ELSE Holders(b)
         /\ b \in Range(blocks) => s \notin Holders(b)
  <2> TAKE b \in Blocks
  <2>1. Pinning(entries, b)' = Pinning(entries, b)
      BY <1>11 DEF Pinning
  <2>2. s \notin Holders(b)
      BY <1>4 DEF Holders, Range
  <2>3. \A t \in Slots : table'[t] = IF t = s THEN blocks ELSE table[t]
      BY <1>1, <1>7 DEF KVTypeOK
  <2>4. Holders(b)' = IF b \in Range(blocks) THEN Holders(b) \cup {s} ELSE Holders(b)
      BY <2>2, <2>3 DEF Holders
  <2> QED
      BY <2>1, <2>2, <2>4
<1>14. RefcountsExact'
  <2> SUFFICES ASSUME NEW b \in Blocks
               PROVE  refs'[b] = Cardinality(Holders(b)') + Cardinality(Pinning(entries, b)')
      BY DEF RefcountsExact
  <2>1. refs[b] = Cardinality(Holders(b)) + Cardinality(Pinning(entries, b))
      BY <1>1 DEF RefcountsExact
  <2>2. Cardinality(Holders(b) \cup {s}) =
          IF s \in Holders(b) THEN Cardinality(Holders(b)) ELSE Cardinality(Holders(b)) + 1
      BY HoldersFinite, FS_AddElement
  <2>3. Cardinality(Holders(b)) \in Nat /\ Cardinality(Pinning(entries, b)) \in Nat
      BY <1>1, HoldersFinite, PinningFinite DEF KVTypeOK
  <2>4. CASE b \in Range(blocks)
    <3>1. Cardinality(Holders(b)') = Cardinality(Holders(b)) + 1
        BY <1>13, <2>2, <2>4
    <3> QED
        BY <1>9, <1>13, <2>1, <2>3, <2>4, <3>1
  <2>5. CASE b \notin Range(blocks)
      BY <1>9, <1>13, <2>1, <2>5
  <2> QED
      BY <2>4, <2>5
<1>15. PoolConserved'
  <2> SUFFICES ASSUME NEW b \in Blocks
               PROVE  freeBlocks'[b] = IF refs'[b] = 0 THEN 1 ELSE 0
      BY DEF PoolConserved
  <2>1. refs[b] \in Nat /\ freeBlocks[b] = IF refs[b] = 0 THEN 1 ELSE 0
      BY <1>1 DEF PoolConserved, KVTypeOK
  <2> QED
      BY <1>3, <1>8, <1>9, <2>1
<1>16. PinsExact'
    BY <1>1, <1>3, <1>13 DEF PinsExact
<1>17. FreeSlotsEmpty'
    BY <1>1, <1>3, <1>4, <1>7 DEF FreeSlotsEmpty, KVTypeOK
<1>18. ContextsCovered'
  <2> SUFFICES ASSUME NEW t \in Slots
               PROVE  BlocksFor(Len(ctx'[t])) <= Len(table'[t])
      BY DEF ContextsCovered, HasCapacity, BlocksFor
  <2>1. CASE t = s
    <3>1. ctx'[t] = matched /\ table'[t] = blocks
        BY <1>1, <1>3, <1>7, <2>1 DEF KVTypeOK
    <3>2. BlocksFor(Len(matched)) = Len(blocks)
        BY <1>6, BlocksForMultiple
    <3>3. Len(blocks) \in Nat
        BY <1>6
    <3> QED
        BY <3>1, <3>2, <3>3
  <2>2. CASE t # s
      BY <1>1, <1>3, <1>7, <2>2 DEF KVTypeOK, ContextsCovered, HasCapacity
  <2> QED
      BY <2>1, <2>2
<1>19. EntriesAligned'
    BY <1>1, <1>11 DEF EntriesAligned
<1> QED
    BY <1>12, <1>14, <1>15, <1>16, <1>17, <1>18, <1>19 DEF CountsInv

\* What ensure_capacity does to a slot: its table grows by free blocks, none
\* of them twice.
LEMMA EnsureCapacityEffect ==
  ASSUME CountsInv, NEW s \in Slots, NEW n \in Nat, EnsureCapacity(s, n)
  PROVE  \E q \in Seq(Blocks) :
           /\ \A i, j \in DOMAIN q : q[i] = q[j] => i = j
           /\ \A b \in Range(q) : /\ b \in Blocks /\ freeBlocks[b] > 0 /\ refs[b] = 0
                                  /\ Holders(b) = {} /\ Pinning(entries, b) = {}
           /\ table' = [table EXCEPT ![s] = @ \o q]
           /\ refs' = [b \in Blocks |-> IF b \in Range(q) THEN 1 ELSE refs[b]]
           /\ freeBlocks' = [b \in Blocks |-> IF b \in Range(q) THEN freeBlocks[b] - 1
                                                                ELSE freeBlocks[b]]
           /\ UNCHANGED <<freeSlots, entries, pins, clock, data, ctx>>
<1>1. KVTypeOK /\ RefcountsExact /\ PoolConserved
    BY DEF CountsInv
<1>2. PICK q \in Popped(s, n) :
        /\ table' = [table EXCEPT ![s] = @ \o q]
        /\ refs' = [b \in Blocks |-> IF b \in Range(q) THEN 1 ELSE refs[b]]
        /\ freeBlocks' = [b \in Blocks |-> IF b \in Range(q) THEN freeBlocks[b] - 1
                                                             ELSE freeBlocks[b]]
        /\ UNCHANGED <<freeSlots, entries, pins, clock, data, ctx>>
    BY DEF EnsureCapacity
<1>3. /\ q \in Seq(Blocks) /\ \A b \in Range(q) : b \in Blocks /\ freeBlocks[b] > 0
      /\ \A i, j \in DOMAIN q : q[i] = q[j] => i = j
  <2> DEFINE free == {b \in Blocks : freeBlocks[b] > 0}
             missing == BlocksFor(n) - Len(table[s])
             k == IF missing <= 0 THEN 0
                  ELSE IF missing <= Cardinality(free) THEN missing ELSE Cardinality(free)
  <2>1. Cardinality(free) \in Nat
      BY SizesAssumption, FS_Subset, FS_CardinalityType
  <2>2. missing \in Int
    <3>1. table[s] \in Seq(Blocks)
        BY <1>1 DEF KVTypeOK
    <3> QED
        BY <3>1, BlocksForType
  <2>3. k \in Nat
      BY <2>1, <2>2
  <2>4. q \in [1..k -> free] /\ \A i, j \in 1..k : q[i] = q[j] => i = j
      BY DEF Popped
  <2> HIDE DEF k, free
  <2>5. Range(q) \subseteq free
      BY <2>4 DEF Range
  <2>6. q \in Seq(free)
      BY <2>3, <2>4
  <2>7. free \subseteq Blocks /\ \A b \in free : freeBlocks[b] > 0
      BY DEF free
  <2>8. DOMAIN q = 1..k
      BY <2>4
  <2> QED
      BY <2>4, <2>5, <2>6, <2>7, <2>8, SeqMonotonic
<1>4. \A b \in Range(q) : refs[b] = 0 /\ Holders(b) = {} /\ Pinning(entries, b) = {}
    BY <1>1, <1>3, FreeUnheld
<1> QED
    BY <1>2, <1>3, <1>4

LEMMA EnsureCapacityCounts ==
  ASSUME CountsInv, NEW s \in Slots, freeSlots[s] = 0, NEW n \in Nat, EnsureCapacity(s, n)
  PROVE  CountsInv'
<1>1. /\ KVTypeOK /\ RefcountsExact /\ PoolConserved /\ PinsExact
      /\ FreeSlotsEmpty /\ ContextsCovered /\ EntriesAligned
    BY DEF CountsInv
<1>2. PICK q \in Seq(Blocks) :
        /\ \A b \in Range(q) : /\ b \in Blocks /\ freeBlocks[b] > 0
                               /\ Holders(b) = {} /\ Pinning(entries, b) = {}
        /\ table' = [table EXCEPT ![s] = @ \o q]
        /\ refs' = [b \in Blocks |-> IF b \in Range(q) THEN 1 ELSE refs[b]]
        /\ freeBlocks' = [b \in Blocks |-> IF b \in Range(q) THEN freeBlocks[b] - 1
                                                             ELSE freeBlocks[b]]
        /\ UNCHANGED <<freeSlots, entries, pins, clock, data, ctx>>
    BY EnsureCapacityEffect
<1>3. freeSlots[s] = 0
    OBVIOUS
<1>4. q \in Seq(Blocks) /\ \A b \in Range(q) : b \in Blocks /\ freeBlocks[b] > 0
    BY <1>2
<1>5. table[s] \in Seq(Blocks) /\ Range(table[s] \o q) = Range(table[s]) \cup Range(q)
    BY <1>1, <1>4, RangeConcatenation DEF KVTypeOK
<1>6. \A b \in Blocks : b \in Range(q) => Holders(b) = {} /\ Pinning(entries, b) = {}
    BY <1>2
<1>7. table' \in [Slots -> Seq(Blocks)] /\ Len(table'[s]) = Len(table[s]) + Len(q)
    BY <1>1, <1>2, <1>4, <1>5, ConcatProperties DEF KVTypeOK
<1>8. KVTypeOK'
  <2>1. refs' \in [Blocks -> Nat]
      BY <1>1, <1>2 DEF KVTypeOK
  <2>2. freeBlocks' \in [Blocks -> 0..1]
      BY <1>1, <1>2, <1>4 DEF KVTypeOK
  <2> QED
      BY <1>1, <1>2, <1>7, <2>1, <2>2 DEF KVTypeOK
<1>9. \A b \in Blocks :
        /\ Pinning(entries, b)' = Pinning(entries, b)
        /\ Holders(b)' = IF b \in Range(q) THEN {s} ELSE Holders(b)
  <2> TAKE b \in Blocks
  <2>1. \A t \in Slots : table'[t] = IF t = s THEN table[s] \o q ELSE table[t]
      BY <1>1, <1>2 DEF KVTypeOK
  <2>2. Holders(b)' = IF b \in Range(q) THEN {s} ELSE Holders(b)
      BY <1>5, <1>6, <2>1 DEF Holders
  <2> QED
      BY <1>2, <2>2 DEF Pinning
<1>10. RefcountsExact'
  <2> SUFFICES ASSUME NEW b \in Blocks
               PROVE  refs'[b] = Cardinality(Holders(b)') + Cardinality(Pinning(entries, b)')
      BY DEF RefcountsExact
  <2>1. CASE b \in Range(q)
    <3>1. Cardinality(Holders(b)') = 1
        BY <1>9, <2>1, FS_Singleton
    <3>2. Cardinality(Pinning(entries, b)') = 0
        BY <1>6, <1>9, <2>1, FS_EmptySet
    <3> QED
        BY <1>2, <2>1, <3>1, <3>2
  <2>2. CASE b \notin Range(q)
      BY <1>1, <1>2, <1>9, <2>2 DEF RefcountsExact
  <2> QED
      BY <2>1, <2>2
<1>11. PoolConserved'
  <2> SUFFICES ASSUME NEW b \in Blocks
               PROVE  freeBlocks'[b] = IF refs'[b] = 0 THEN 1 ELSE 0
      BY DEF PoolConserved
  <2>1. freeBlocks[b] = IF refs[b] = 0 THEN 1 ELSE 0
      BY <1>1 DEF PoolConserved
  <2> QED
      BY <1>2, <1>4, <2>1
<1>12. PinsExact'
    BY <1>1, <1>2, <1>9 DEF PinsExact
<1>13. FreeSlotsEmpty'
    BY <1>1, <1>2, <1>3 DEF FreeSlotsEmpty, KVTypeOK
<1>14. ContextsCovered'
  <2> SUFFICES ASSUME NEW t \in Slots
               PROVE  BlocksFor(Len(ctx[t])) <= Len(table'[t])
      BY <1>2 DEF ContextsCovered, HasCapacity, BlocksFor
  <2>1. BlocksFor(Len(ctx[t])) <= Len(table[t])
      BY <1>1 DEF ContextsCovered, HasCapacity
  <2>2. /\ BlocksFor(Len(ctx[t])) \in Nat
        /\ table[t] \in Seq(Blocks)
        /\ Len(q) \in Nat
    <3>1. ctx[t] \in Seq(Tokens) /\ table[t] \in Seq(Blocks)
        BY <1>1 DEF KVTypeOK
    <3> QED
        BY <1>4, <3>1, BlocksForType, LenProperties
  <2>3. CASE t = s
      BY <1>7, <2>1, <2>2, <2>3
  <2>4. CASE t # s
      BY <1>1, <1>2, <2>1, <2>4 DEF KVTypeOK
  <2> QED
      BY <2>3, <2>4
<1>15. EntriesAligned'
    BY <1>1, <1>2 DEF EntriesAligned
<1> QED
    BY <1>8, <1>10, <1>11, <1>12, <1>13, <1>14, <1>15 DEF CountsInv

LEMMA WriteKVCounts ==
  ASSUME CountsInv, NEW s \in Slots, freeSlots[s] = 0, NEW from \in Nat,
         NEW tokens \in Seq(Tokens), HasCapacity(s, Len(tokens)), WriteKV(s, from, tokens)
  PROVE  CountsInv'
<1> DEFINE n == Len(tokens)
           wrote == Touched(from, n)
<1>1. /\ KVTypeOK /\ RefcountsExact /\ PoolConserved /\ PinsExact
      /\ FreeSlotsEmpty /\ ContextsCovered /\ EntriesAligned
    BY DEF CountsInv
<1>2. /\ data' = [b \in Blocks |->
                    IF \E i \in wrote : table[s][i] = b
                      THEN LET i == CHOOSE j \in wrote : table[s][j] = b
                           IN  SubSeq(tokens, 1, IF i * BlockSize < n THEN i * BlockSize ELSE n)
                      ELSE data[b]]
      /\ ctx' = [ctx EXCEPT ![s] = tokens]
      /\ UNCHANGED <<freeSlots, freeBlocks, table, refs, entries, pins, clock>>
    BY DEF WriteKV
<1>3. tokens \in Seq(Tokens) /\ n \in Nat
    OBVIOUS
<1>4. data' \in [Blocks -> Seq(Tokens)]
  <2> SUFFICES ASSUME NEW b \in Blocks
               PROVE  data'[b] \in Seq(Tokens)
      BY <1>2
  <2>1. CASE \E i \in wrote : table[s][i] = b
    <3> DEFINE i == CHOOSE j \in wrote : table[s][j] = b
               m == IF i * BlockSize < n THEN i * BlockSize ELSE n
    <3>1. i \in wrote
        BY <2>1
    <3>2. i \in Int
        BY <3>1 DEF Touched
    <3>3. i * BlockSize \in Int
        BY <3>2, SizesAssumption
    <3>4. m \in Int /\ m <= n
        BY <1>3, <3>3
    <3>5. data'[b] = SubSeq(tokens, 1, m)
        BY <1>2, <2>1
    <3> HIDE DEF m
    <3>6. \A j \in 1..m : tokens[j] \in Tokens
        BY <1>3, <3>4, ElementOfSeq
    <3> QED
        BY <3>4, <3>5, <3>6, SubSeqProperties
  <2>2. CASE ~ \E i \in wrote : table[s][i] = b
      BY <1>1, <1>2, <2>2 DEF KVTypeOK
  <2> QED
      BY <2>1, <2>2
<1>5. KVTypeOK'
    BY <1>1, <1>2, <1>3, <1>4 DEF KVTypeOK
<1>6. \A b \in Blocks : Holders(b)' = Holders(b) /\ Pinning(entries, b)' = Pinning(entries, b)
    BY <1>2 DEF Holders, Pinning
<1>7. RefcountsExact' /\ PinsExact' /\ PoolConserved'
    BY <1>1, <1>2, <1>6 DEF RefcountsExact, PinsExact, PoolConserved
<1>8. FreeSlotsEmpty'
    BY <1>1, <1>2 DEF FreeSlotsEmpty, KVTypeOK
<1>9. ContextsCovered'
    BY <1>1, <1>2 DEF ContextsCovered, KVTypeOK, HasCapacity, BlocksFor
<1>10. EntriesAligned'
    BY <1>1, <1>2 DEF EntriesAligned
<1> QED
    BY <1>5, <1>7, <1>8, <1>9, <1>10 DEF CountsInv

LEMMA FreeCounts ==
  ASSUME CountsInv, NEW s \in Slots, freeSlots[s] = 0, Free(s)
  PROVE  CountsInv'
<1> DEFINE held == Range(table[s])
           last(b) == b \in held /\ CountOf(b) = 1
<1>1. /\ KVTypeOK /\ RefcountsExact /\ PoolConserved /\ PinsExact
      /\ FreeSlotsEmpty /\ ContextsCovered /\ EntriesAligned
    BY DEF CountsInv
<1>2. /\ refs' = [b \in Blocks |-> IF b \in held THEN CountOf(b) - 1 ELSE refs[b]]
      /\ freeBlocks' = [b \in Blocks |-> IF last(b) THEN freeBlocks[b] + 1 ELSE freeBlocks[b]]
      /\ data' = [b \in Blocks |-> IF last(b) THEN <<>> ELSE data[b]]
      /\ table' = [table EXCEPT ![s] = <<>>]
      /\ freeSlots' = [freeSlots EXCEPT ![s] = @ + 1]
      /\ ctx' = [ctx EXCEPT ![s] = <<>>]
      /\ UNCHANGED <<entries, pins, clock>>
    BY DEF Free
<1>3. freeSlots[s] = 0
    OBVIOUS
<1>4. \A b \in Blocks : b \in held => refs[b] > 0 /\ CountOf(b) = refs[b]
    BY <1>1, HeldCounted
<1>5. \A b \in Blocks :
        /\ refs[b] \in Nat
        /\ freeBlocks[b] = IF refs[b] = 0 THEN 1 ELSE 0
        /\ refs'[b] = IF b \in held THEN refs[b] - 1 ELSE refs[b]
        /\ freeBlocks'[b] = IF b \in held /\ refs[b] = 1 THEN freeBlocks[b] + 1
                                                         ELSE freeBlocks[b]
    BY <1>1, <1>2, <1>4 DEF KVTypeOK, PoolConserved
<1>6. KVTypeOK'
  <2>1. refs' \in [Blocks -> Nat] /\ freeBlocks' \in [Blocks -> 0..1]
      BY <1>2, <1>4, <1>5
  <2>2. data' \in [Blocks -> Seq(Tokens)]
      BY <1>1, <1>2, EmptySeq DEF KVTypeOK
  <2>3. /\ table' \in [Slots -> Seq(Blocks)]
        /\ ctx' \in [Slots -> Seq(Tokens)]
        /\ freeSlots' \in [Slots -> 0..1]
      BY <1>1, <1>2, <1>3, EmptySeq DEF KVTypeOK
  <2> QED
      BY <1>1, <1>2, <2>1, <2>2, <2>3 DEF KVTypeOK
<1>7. \A b \in Blocks :
        /\ Pinning(entries, b)' = Pinning(entries, b)
        /\ Holders(b)' = Holders(b) \ {s}
        /\ s \in Holders(b) <=> b \in held
  <2> TAKE b \in Blocks
  <2>1. \A t \in Slots : table'[t] = IF t = s THEN <<>> ELSE table[t]
      BY <1>1, <1>2 DEF KVTypeOK
  <2>2. Range(<<>>) = {}
      BY DEF Range
  <2>3. Holders(b)' = Holders(b) \ {s}
      BY <2>1, <2>2 DEF Holders
  <2> QED
      BY <1>2, <2>3 DEF Pinning, Holders
<1>8. RefcountsExact'
  <2> SUFFICES ASSUME NEW b \in Blocks
               PROVE  refs'[b] = Cardinality(Holders(b)') + Cardinality(Pinning(entries, b)')
      BY DEF RefcountsExact
  <2>1. refs[b] = Cardinality(Holders(b)) + Cardinality(Pinning(entries, b))
      BY <1>1 DEF RefcountsExact
  <2>2. Cardinality(Holders(b)') =
          IF b \in held THEN Cardinality(Holders(b)) - 1 ELSE Cardinality(Holders(b))
      BY <1>7, HoldersFinite, FS_RemoveElement
  <2>3. Cardinality(Holders(b)) \in Nat /\ Cardinality(Pinning(entries, b)) \in Nat
      BY <1>1, HoldersFinite, PinningFinite DEF KVTypeOK
  <2>4. Cardinality(Pinning(entries, b)') = Cardinality(Pinning(entries, b))
      BY <1>7
  <2> QED
      BY <1>5, <2>1, <2>2, <2>3, <2>4
<1>9. PoolConserved'
    BY <1>4, <1>5 DEF PoolConserved
<1>10. PinsExact'
    BY <1>1, <1>2, <1>7 DEF PinsExact
<1>11. FreeSlotsEmpty'
    BY <1>1, <1>2 DEF FreeSlotsEmpty, KVTypeOK
<1>12. ContextsCovered'
  <2>1. BlocksFor(0) = 0
      BY BlocksForMultiple, SizesAssumption
  <2> QED
      BY <1>1, <1>2, <2>1 DEF ContextsCovered, KVTypeOK, HasCapacity, BlocksFor
<1>13. EntriesAligned'
    BY <1>1, <1>2 DEF EntriesAligned
<1> QED
    BY <1>6, <1>8, <1>9, <1>10, <1>11, <1>12, <1>13 DEF CountsInv

\* What a slot has written is a token run its table has room for.
LEMMA OwnRun ==
  ASSUME CountsInv, NEW s \in Slots
  PROVE  ctx[s] \in Seq(Tokens) /\ Len(ctx[s]) \in Nat /\ HasCapacity(s, Len(ctx[s]))
BY LenProperties DEF CountsInv, KVTypeOK, ContextsCovered

\* The entries after the walk of store_prefix: the old ones keep their blocks,
\* the new ones take theirs from the front of the slot's table.
LEMMA StoredFacts ==
  ASSUME CountsInv, NEW s \in Slots, NEW tokens \in Seq(Tokens), HasCapacity(s, Len(tokens))
  PROVE  LET es == Stored(s, tokens)
         IN  /\ DOMAIN es = DOMAIN entries \cup Boundaries(tokens)
             /\ IsFiniteSet(DOMAIN es)
             /\ \A p \in DOMAIN es : /\ p \in Seq(Tokens)
                                     /\ p # <<>>
                                     /\ es[p] \in [blocks : Seq(Blocks), lru : Nat]
                                     /\ Len(es[p].blocks) * BlockSize = Len(p)
             /\ \A p \in DOMAIN entries : es[p].blocks = entries[p].blocks
             /\ \A p \in DOMAIN es \ DOMAIN entries : Range(es[p].blocks) \subseteq Range(table[s])
<1> DEFINE es == Stored(s, tokens)
           keys == Boundaries(tokens)
<1>1. KVTypeOK /\ EntriesAligned
    BY DEF CountsInv
<1>2. table[s] \in Seq(Blocks) /\ clock \in Nat
    BY <1>1 DEF KVTypeOK
<1>3. DOMAIN es = DOMAIN entries \cup keys
    BY DEF Stored
<1>4. IsFiniteSet(DOMAIN es)
  <2>1. IsFiniteSet(DOMAIN entries) /\ IsFiniteSet(keys)
      BY <1>1, <1>2, BoundariesFinite DEF KVTypeOK
  <2> QED
      BY <1>3, <2>1, FS_Union
<1>5. ASSUME NEW p \in DOMAIN entries
      PROVE  /\ p \in Seq(Tokens) /\ p # <<>>
             /\ es[p] \in [blocks : Seq(Blocks), lru : Nat]
             /\ Len(es[p].blocks) * BlockSize = Len(p)
             /\ es[p].blocks = entries[p].blocks
  <2>1. /\ p \in Seq(Tokens) /\ p # <<>> /\ entries[p] \in [blocks : Seq(Blocks), lru : Nat]
        /\ Len(entries[p].blocks) * BlockSize = Len(p)
      BY <1>1 DEF KVTypeOK, EntriesAligned
  <2>2. es[p] = IF p \in keys THEN [entries[p] EXCEPT !.lru = clock + 1] ELSE entries[p]
      BY DEF Stored
  <2> HIDE DEF es, keys
  <2>3. es[p] \in [blocks : Seq(Blocks), lru : Nat] /\ es[p].blocks = entries[p].blocks
      BY <1>2, <2>1, <2>2
  <2> QED
      BY <2>1, <2>3
<1>6. ASSUME NEW p \in keys, p \notin DOMAIN entries
      PROVE  /\ p \in Seq(Tokens) /\ p # <<>>
             /\ es[p] \in [blocks : Seq(Blocks), lru : Nat]
             /\ Len(es[p].blocks) * BlockSize = Len(p)
             /\ Range(es[p].blocks) \subseteq Range(table[s])
  <2>1. PICK i \in 1..(Len(tokens) \div BlockSize) : Len(p) = i * BlockSize
      BY <1>2, BoundaryFacts
  <2>2. i \in Nat /\ 1 <= i /\ i <= Len(table[s])
    <3>1. Len(tokens) \in Nat /\ Len(table[s]) \in Nat
        BY <1>2, LenProperties
    <3>2. BlocksFor(Len(tokens)) <= Len(table[s])
        BY DEF HasCapacity
    <3>3. Len(tokens) \div BlockSize \in Nat /\ Len(tokens) \div BlockSize <= BlocksFor(Len(tokens))
        BY <3>1, WholeBlocks
    <3>4. BlocksFor(Len(tokens)) \in Nat
        BY <3>1, BlocksForType
    <3> QED
        BY <3>1, <3>2, <3>3, <3>4
  <2>3. es[p] = [blocks |-> SubSeq(table[s], 1, i), lru |-> clock + 1]
    <3>1. Len(p) \div BlockSize = i
        BY <2>1, <2>2, DivMultiple
    <3>2. es[p] = [blocks |-> SubSeq(table[s], 1, Len(p) \div BlockSize), lru |-> clock + 1]
        BY <1>6 DEF Stored
    <3> QED
        BY <3>1, <3>2
  <2>4. \A j \in 1..i : j \in 1..Len(table[s]) /\ table[s][j] \in Blocks
      BY <1>2, <2>2, LenProperties
  <2>5. /\ SubSeq(table[s], 1, i) \in Seq(Blocks)
        /\ Len(SubSeq(table[s], 1, i)) = i
        /\ \A j \in 1..i : SubSeq(table[s], 1, i)[j] = table[s][j]
      BY <2>2, <2>4, SubSeqProperties
  <2>6. Range(SubSeq(table[s], 1, i)) \subseteq Range(table[s])
    <3>1. DOMAIN table[s] = 1..Len(table[s]) /\ DOMAIN SubSeq(table[s], 1, i) = 1..i
        BY <1>2, <2>5, LenProperties
    <3> QED
        BY <2>4, <2>5, <3>1 DEF Range
  <2> QED
      BY <1>2, <2>1, <2>3, <2>5, <2>6, BoundaryFacts
<1> QED
    BY <1>3, <1>4, <1>5, <1>6

\* A finite set splits into two parts whose cardinalities add up.
LEMMA SplitCount ==
  ASSUME NEW S, IsFiniteSet(S), NEW T
  PROVE  /\ Cardinality(S) \in Nat /\ Cardinality(S \cap T) \in Nat /\ Cardinality(S \ T) \in Nat
         /\ Cardinality(S) = Cardinality(S \cap T) + Cardinality(S \ T)
<1>1. IsFiniteSet(S \cap T) /\ IsFiniteSet(S \ T)
    BY FS_Intersection, FS_Difference
<1>2. /\ Cardinality(S) \in Nat /\ Cardinality(S \cap T) \in Nat /\ Cardinality(S \ T) \in Nat
    BY <1>1, FS_CardinalityType
<1>3. Cardinality(S \ T) = Cardinality(S) - Cardinality(S \cap T)
    BY FS_Difference
<1> QED
    BY <1>2, <1>3

LEMMA StutterCounts ==
  ASSUME CountsInv, UNCHANGED kvVars
  PROVE  CountsInv'
BY DEF CountsInv, kvVars, KVTypeOK, RefcountsExact, PoolConserved, PinsExact, FreeSlotsEmpty,
       ContextsCovered, EntriesAligned, Holders, Pinning, HasCapacity, BlocksFor

LEMMA StorePrefixCounts ==
  ASSUME CountsInv, NEW s \in Slots, NEW tokens \in Seq(Tokens), HasCapacity(s, Len(tokens)),
         StorePrefix(s, tokens)
  PROVE  CountsInv'
<1> DEFINE stored == Stored(s, tokens)
           kept == Survivors(stored)
           added(b) == Cardinality(Pinning(stored, b) \ DOMAIN entries)
           evicted(b) == Cardinality(Pinning(stored, b) \ kept)
<1>1. /\ KVTypeOK /\ RefcountsExact /\ PoolConserved /\ PinsExact
      /\ FreeSlotsEmpty /\ ContextsCovered /\ EntriesAligned
    BY DEF CountsInv
<1>2. CASE Boundaries(tokens) = {}
    BY <1>2, StutterCounts DEF StorePrefix
<1>3. CASE Boundaries(tokens) # {}
  <2>1. /\ clock' = clock + 1
        /\ entries' = Restrict(stored, kept)
        /\ refs' = [b \in Blocks |->
                      (IF added(b) > 0 THEN CountOf(b) ELSE refs[b]) + added(b) - evicted(b)]
        /\ pins' = [b \in Blocks |-> pins[b] + added(b) - evicted(b)]
        /\ freeBlocks' = [b \in Blocks |->
                            IF evicted(b) > 0 /\ refs'[b] = 0
                              THEN freeBlocks[b] + 1 ELSE freeBlocks[b]]
        /\ data' = [b \in Blocks |-> IF freeBlocks'[b] > 0 THEN <<>> ELSE data[b]]
        /\ UNCHANGED <<freeSlots, table, ctx>>
      BY <1>3 DEF StorePrefix
  <2>2. /\ DOMAIN stored = DOMAIN entries \cup Boundaries(tokens)
        /\ IsFiniteSet(DOMAIN stored)
        /\ \A p \in DOMAIN stored : /\ p \in Seq(Tokens)
                                    /\ p # <<>>
                                    /\ stored[p] \in [blocks : Seq(Blocks), lru : Nat]
                                    /\ Len(stored[p].blocks) * BlockSize = Len(p)
        /\ \A p \in DOMAIN entries : stored[p].blocks = entries[p].blocks
        /\ \A p \in DOMAIN stored \ DOMAIN entries : Range(stored[p].blocks) \subseteq Range(table[s])
      BY StoredFacts
  <2>3. kept \subseteq DOMAIN stored
      BY DEF Survivors
  <2> HIDE DEF stored, kept
  <2>4. /\ DOMAIN entries' = kept
        /\ \A p \in kept : entries'[p] = stored[p]
      BY <2>1 DEF Restrict
  <2>5. ASSUME NEW b \in Blocks
        PROVE  /\ Holders(b)' = Holders(b)
               /\ Pinning(entries, b)' = Pinning(stored, b) \cap kept
               /\ Pinning(entries, b) = Pinning(stored, b) \cap DOMAIN entries
               /\ IsFiniteSet(Pinning(stored, b))
    <3>1. Holders(b)' = Holders(b)
        BY <2>1 DEF Holders
    <3>2. Pinning(entries, b)' = Pinning(stored, b) \cap kept
        BY <2>3, <2>4 DEF Pinning
    <3>3. Pinning(entries, b) = Pinning(stored, b) \cap DOMAIN entries
        BY <2>2 DEF Pinning
    <3>4. IsFiniteSet(Pinning(stored, b))
        BY <2>2, PinningFinite
    <3> QED
        BY <3>1, <3>2, <3>3, <3>4
  \* The counts of one block before and after.
  <2>6. ASSUME NEW b \in Blocks
        PROVE  /\ added(b) \in Nat /\ evicted(b) \in Nat
               /\ Cardinality(Pinning(entries, b)) \in Nat
               /\ Cardinality(Pinning(entries, b)') \in Nat
               /\ Cardinality(Pinning(entries, b)') =
                    Cardinality(Pinning(entries, b)) + added(b) - evicted(b)
    <3>1. /\ Cardinality(Pinning(stored, b)) = Cardinality(Pinning(stored, b) \cap kept) + evicted(b)
          /\ Cardinality(Pinning(stored, b)) \in Nat
          /\ Cardinality(Pinning(stored, b) \cap kept) \in Nat
          /\ evicted(b) \in Nat
        BY <2>5, SplitCount
    <3>2. /\ Cardinality(Pinning(stored, b)) =
               Cardinality(Pinning(stored, b) \cap DOMAIN entries) + added(b)
          /\ Cardinality(Pinning(stored, b) \cap DOMAIN entries) \in Nat
          /\ added(b) \in Nat
        BY <2>5, SplitCount
    <3> HIDE DEF added, evicted
    <3>3. /\ Cardinality(Pinning(entries, b)') = Cardinality(Pinning(stored, b) \cap kept)
          /\ Cardinality(Pinning(entries, b)) = Cardinality(Pinning(stored, b) \cap DOMAIN entries)
        BY <2>5
    <3> QED
        BY <3>1, <3>2, <3>3
  <2>7. ASSUME NEW b \in Blocks, added(b) > 0
        PROVE  refs[b] > 0 /\ CountOf(b) = refs[b]
    <3>1. Pinning(stored, b) \ DOMAIN entries # {}
      <4>1. IsFiniteSet(Pinning(stored, b) \ DOMAIN entries)
          BY <2>5, FS_Difference
      <4>2. Cardinality(Pinning(stored, b) \ DOMAIN entries) = 0 <=> Pinning(stored, b) \ DOMAIN entries = {}
          BY <4>1, FS_EmptySet
      <4> QED
          BY <2>7, <4>2
    <3>2. PICK p \in DOMAIN stored \ DOMAIN entries : b \in Range(stored[p].blocks)
        BY <3>1 DEF Pinning
    <3>3. b \in Range(table[s])
        BY <2>2, <3>2
    <3> QED
        BY <1>1, <3>3, HeldCounted
  <2>8. ASSUME NEW b \in Blocks
        PROVE  /\ refs'[b] = refs[b] + added(b) - evicted(b)
               /\ refs'[b] = Cardinality(Holders(b)') + Cardinality(Pinning(entries, b)')
               /\ refs[b] \in Nat /\ refs'[b] \in Nat
    <3>1. refs'[b] = refs[b] + added(b) - evicted(b)
      <4>1. refs'[b] = (IF added(b) > 0 THEN CountOf(b) ELSE refs[b]) + added(b) - evicted(b)
          BY <2>1
      <4> HIDE DEF added, evicted
      <4> QED
          BY <4>1, <2>7
    <3>2. /\ refs[b] = Cardinality(Holders(b)) + Cardinality(Pinning(entries, b))
          /\ Cardinality(Holders(b)) \in Nat
        BY <1>1, HoldersFinite DEF RefcountsExact
    <3> HIDE DEF added, evicted
    <3>3. Cardinality(Holders(b)') = Cardinality(Holders(b))
        BY <2>5
    <3> QED
        BY <2>6, <3>1, <3>2, <3>3
  <2>9. ASSUME NEW b \in Blocks
        PROVE  freeBlocks'[b] = IF refs'[b] = 0 THEN 1 ELSE 0
    <3>1. freeBlocks[b] = IF refs[b] = 0 THEN 1 ELSE 0
        BY <1>1 DEF PoolConserved
    <3>2. freeBlocks'[b] = IF evicted(b) > 0 /\ refs'[b] = 0
                             THEN freeBlocks[b] + 1 ELSE freeBlocks[b]
        BY <2>1
    <3> HIDE DEF added, evicted
    <3>3. added(b) \in Nat /\ evicted(b) \in Nat /\ Cardinality(Pinning(entries, b)') \in Nat
        BY <2>6
    <3>4. refs[b] = 0 => added(b) = 0
      <4>1. added(b) > 0 => refs[b] > 0
          BY <2>7
      <4> QED
          BY <3>3, <4>1
    <3>5. refs'[b] = refs[b] + added(b) - evicted(b) /\ refs[b] \in Nat /\ refs'[b] \in Nat
        BY <2>8
    <3>6. freeBlocks[b] \in {0, 1}
        BY <3>1
    <3>7. CASE refs[b] = 0
        BY <3>1, <3>2, <3>3, <3>4, <3>5, <3>7
    <3>8. CASE refs[b] # 0
        BY <3>1, <3>2, <3>3, <3>5, <3>8
    <3> QED
        BY <3>7, <3>8
  <2>10. KVTypeOK'
    <3>1. refs' \in [Blocks -> Nat]
        BY <2>1, <2>8
    <3>2. freeBlocks' \in [Blocks -> 0..1]
      <4> SUFFICES ASSUME NEW b \in Blocks PROVE freeBlocks'[b] \in 0..1
          BY <2>1
      <4> QED
          BY <2>9
    <3>3. pins' \in [Blocks -> Nat]
      <4> SUFFICES ASSUME NEW b \in Blocks PROVE pins'[b] \in Nat
          BY <2>1
      <4>1. pins'[b] = Cardinality(Pinning(entries, b)) + added(b) - evicted(b)
          BY <1>1, <2>1 DEF PinsExact
      <4> HIDE DEF added, evicted
      <4> QED
          BY <2>6, <4>1
    <3>4. data' \in [Blocks -> Seq(Tokens)]
        BY <1>1, <2>1, EmptySeq DEF KVTypeOK
    <3>5. IsFiniteSet(DOMAIN entries')
        BY <2>2, <2>3, <2>4, FS_Subset
    <3>6. \A p \in DOMAIN entries' : /\ p \in Seq(Tokens)
                                     /\ p # <<>>
                                     /\ entries'[p] \in [blocks : Seq(Blocks), lru : Nat]
        BY <2>2, <2>3, <2>4
    <3>7. clock' \in Nat
        BY <1>1, <2>1 DEF KVTypeOK
    <3>8. /\ freeSlots' \in [Slots -> 0..1]
          /\ table' \in [Slots -> Seq(Blocks)]
          /\ ctx' \in [Slots -> Seq(Tokens)]
        BY <1>1, <2>1 DEF KVTypeOK
    <3> QED
        BY <3>1, <3>2, <3>3, <3>4, <3>5, <3>6, <3>7, <3>8 DEF KVTypeOK
  <2>11. RefcountsExact' /\ PoolConserved'
      BY <2>8, <2>9 DEF RefcountsExact, PoolConserved
  <2>12. PinsExact'
    <3> SUFFICES ASSUME NEW b \in Blocks
                 PROVE  pins'[b] = Cardinality(Pinning(entries, b)')
        BY DEF PinsExact
    <3>1. pins'[b] = Cardinality(Pinning(entries, b)) + added(b) - evicted(b)
        BY <1>1, <2>1 DEF PinsExact
    <3> QED
        BY <2>6, <3>1
  <2>13. FreeSlotsEmpty' /\ ContextsCovered'
      BY <1>1, <2>1 DEF FreeSlotsEmpty, ContextsCovered, HasCapacity, BlocksFor
  <2>14. EntriesAligned'
      BY <2>2, <2>3, <2>4 DEF EntriesAligned
  <2> QED
      BY <2>10, <2>11, <2>12, <2>13, <2>14 DEF CountsInv
<1> QED
    BY <1>2, <1>3

-----------------------------------------------------------------------------
(* The budget of the prefix cache *)

\* A nonempty finite collection of entries has an oldest one.
LEMMA OldestExists ==
  ASSUME NEW es, NEW ps \in SUBSET (DOMAIN es), ps # {},
         \A p \in ps : p \in Seq(Tokens) /\ es[p].lru \in Nat
  PROVE  \E p \in ps : \A q \in ps : ~ Older(es, q, p)
<1> DEFINE times == {es[p].lru : p \in ps}
<1>1. PICK t \in times : \A u \in times : <<u, t>> \notin OpToRel(<, Nat)
  <2>1. times \subseteq Nat /\ times # {}
      OBVIOUS
  <2> HIDE DEF times
  <2> QED
      BY <2>1, NatLessThanWellFounded, WFMin
<1>2. \A q \in ps : ~ (es[q].lru < t)
    BY <1>1 DEF OpToRel
<1> DEFINE first == {p \in ps : es[p].lru = t}
           lens == {Len(p) : p \in first}
<1>3. PICK l \in lens : \A m \in lens : <<m, l>> \notin OpToRel(<, Nat)
  <2>1. lens \subseteq Nat /\ lens # {}
      BY LenProperties
  <2> HIDE DEF lens
  <2> QED
      BY <2>1, NatLessThanWellFounded, WFMin
<1>4. \A q \in first : ~ (Len(q) < l)
  <2> TAKE q \in first
  <2>1. Len(q) \in lens /\ Len(q) \in Nat /\ l \in Nat
      BY LenProperties
  <2> HIDE DEF lens
  <2> QED
      BY <1>3, <2>1 DEF OpToRel
<1>5. PICK p \in first : l = Len(p)
    OBVIOUS
<1>6. ASSUME NEW q \in ps PROVE ~ Older(es, q, p)
    BY <1>2, <1>4, <1>5 DEF Older
<1> QED
    BY <1>6

\* What is left after the evictions pins no more blocks than the budget.
LEMMA SurvivorsFit ==
  ASSUME NEW es, \A p \in DOMAIN es : /\ p \in Seq(Tokens)
                                      /\ es[p] \in [blocks : Seq(Blocks), lru : Nat]
  PROVE  /\ IsFiniteSet(PinnedBy(es, Survivors(es)))
         /\ Cardinality(PinnedBy(es, Survivors(es))) <= MaxPrefixBlocks
<1> DEFINE kept == Survivors(es)
<1>1. ASSUME NEW ps \in SUBSET (DOMAIN es) PROVE IsFiniteSet(PinnedBy(es, ps))
  <2>1. \A p \in ps : Range(es[p].blocks) \subseteq Blocks
      BY RangeOfSeq
  <2>2. PinnedBy(es, ps) \in SUBSET Blocks
      BY <2>1 DEF PinnedBy
  <2> QED
      BY <2>2, SizesAssumption, FS_Subset
<1>2. kept \in SUBSET (DOMAIN es)
    BY DEF Survivors
<1>3. CASE kept = {}
  <2>1. PinnedBy(es, kept) = {}
      BY <1>3 DEF PinnedBy
  <2> QED
      BY <2>1, FS_EmptySet, SizesAssumption
<1>4. CASE kept # {}
  <2>1. PICK p \in kept : \A q \in kept : ~ Older(es, q, p)
      BY <1>2, <1>4, OldestExists
  <2> DEFINE rest == {q \in DOMAIN es : ~ Older(es, q, p)}
  <2>2. Cardinality(PinnedBy(es, rest)) <= MaxPrefixBlocks
      BY <2>1 DEF Survivors
  <2>3. rest \in SUBSET (DOMAIN es) /\ kept \subseteq rest
      BY <1>2, <2>1
  <2> HIDE DEF rest, kept
  <2>4. PinnedBy(es, kept) \in SUBSET PinnedBy(es, rest)
      BY <2>3 DEF PinnedBy
  <2>5. IsFiniteSet(PinnedBy(es, rest)) /\ IsFiniteSet(PinnedBy(es, kept))
      BY <1>1, <1>2, <2>3
  <2>6. Cardinality(PinnedBy(es, kept)) <= Cardinality(PinnedBy(es, rest))
      BY <2>4, <2>5, FS_Subset
  <2>7. Cardinality(PinnedBy(es, kept)) \in Nat /\ Cardinality(PinnedBy(es, rest)) \in Nat
      BY <2>5, FS_CardinalityType
  <2>8. Cardinality(PinnedBy(es, kept)) <= MaxPrefixBlocks
      BY <2>2, <2>6, <2>7, SizesAssumption
  <2> QED
      BY <2>5, <2>8 DEF kept
<1> QED
    BY <1>3, <1>4

\* Where the pin counts are exact, a block with one is a block some entry pins.
LEMMA PinnedBlocks ==
  ASSUME NEW es, IsFiniteSet(DOMAIN es), \A p \in DOMAIN es : es[p].blocks \in Seq(Blocks),
         NEW pn, \A b \in Blocks : pn[b] = Cardinality(Pinning(es, b))
  PROVE  {b \in Blocks : pn[b] > 0} = PinnedBy(es, DOMAIN es)
<1>1. ASSUME NEW b \in Blocks PROVE pn[b] > 0 <=> Pinning(es, b) # {}
  <2>1. IsFiniteSet(Pinning(es, b)) /\ Cardinality(Pinning(es, b)) \in Nat
      BY PinningFinite
  <2>2. Cardinality(Pinning(es, b)) = 0 <=> Pinning(es, b) = {}
      BY <2>1, FS_EmptySet
  <2> QED
      BY <2>1, <2>2
<1>2. \A p \in DOMAIN es : Range(es[p].blocks) \subseteq Blocks
    BY RangeOfSeq
<1> QED
    BY <1>1, <1>2 DEF PinnedBy, Pinning

\* The walk of _enforce_prefix_budget ends within the budget.
LEMMA StorePrefixBudget ==
  ASSUME CountsInv, BudgetHolds, NEW s \in Slots, NEW tokens \in Seq(Tokens),
         HasCapacity(s, Len(tokens)), StorePrefix(s, tokens)
  PROVE  BudgetHolds'
<1> DEFINE stored == Stored(s, tokens)
           kept == Survivors(stored)
<1>1. CASE Boundaries(tokens) = {}
    BY <1>1 DEF StorePrefix, kvVars, BudgetHolds
<1>2. CASE Boundaries(tokens) # {}
  <2>1. entries' = Restrict(stored, kept)
      BY <1>2 DEF StorePrefix
  <2>2. PinnedBy(entries', DOMAIN entries') = PinnedBy(stored, kept)
      BY <2>1 DEF PinnedBy, Restrict
  <2>3. KVTypeOK' /\ PinsExact'
      BY StorePrefixCounts DEF CountsInv
  <2>4. /\ IsFiniteSet(DOMAIN entries')
        /\ \A p \in DOMAIN entries' : entries'[p].blocks \in Seq(Blocks)
        /\ \A b \in Blocks : pins'[b] = Cardinality(Pinning(entries', b))
      BY <2>3 DEF KVTypeOK, PinsExact
  <2>5. {b \in Blocks : pins'[b] > 0} = PinnedBy(entries', DOMAIN entries')
      BY <2>4, PinnedBlocks
  <2>6. Cardinality(PinnedBy(stored, kept)) <= MaxPrefixBlocks
      BY StoredFacts, SurvivorsFit
  <2> QED
      BY <2>2, <2>5, <2>6 DEF BudgetHolds
<1> QED
    BY <1>1, <1>2

-----------------------------------------------------------------------------
(* What the blocks hold *)

\* The inductive invariant of the cache: TailsPrivate is what makes a write
\* safe, BlocksDistinct what makes a tail one place of one table.
CacheInv == KVInv /\ CacheIntact

-----------------------------------------------------------------------------
(* Who holds a block *)

\* A block with one reference that some table names is held by that slot only
\* and pinned by no entry.
LEMMA SoleHolder ==
  ASSUME CountsInv, NEW b \in Blocks, refs[b] = 1,
         NEW s \in Slots, b \in Range(table[s])
  PROVE  Holders(b) = {s} /\ Pinning(entries, b) = {}
<1>1. KVTypeOK /\ RefcountsExact
    BY DEF CountsInv
<1>2. /\ IsFiniteSet(Holders(b)) /\ Cardinality(Holders(b)) \in Nat
      /\ IsFiniteSet(Pinning(entries, b)) /\ Cardinality(Pinning(entries, b)) \in Nat
    BY <1>1, HoldersFinite, PinningFinite DEF KVTypeOK
<1>3. s \in Holders(b)
    BY DEF Holders
<1>4. Cardinality(Holders(b)) > 0
    BY <1>2, <1>3, NonemptyCounted
<1>5. 1 = Cardinality(Holders(b)) + Cardinality(Pinning(entries, b))
    BY <1>1 DEF RefcountsExact
<1>6. Cardinality(Holders(b)) = 1 /\ Cardinality(Pinning(entries, b)) = 0
    BY <1>2, <1>4, <1>5
<1>7. PICK t : Holders(b) = {t}
    BY <1>2, <1>6, FS_Singleton
<1> QED
    BY <1>2, <1>3, <1>6, <1>7, FS_EmptySet

\* The unfilled blocks of a slot are its own.
LEMMA TailAlone ==
  ASSUME CountsInv, TailsPrivate, NEW s \in Slots, NEW i \in DOMAIN table[s],
         i * BlockSize > Len(ctx[s])
  PROVE  /\ table[s][i] \in Blocks /\ refs[table[s][i]] = 1
         /\ Holders(table[s][i]) = {s} /\ Pinning(entries, table[s][i]) = {}
<1>1. table[s] \in Seq(Blocks) /\ DOMAIN table[s] = 1..Len(table[s])
    BY LenProperties DEF CountsInv, KVTypeOK
<1>2. table[s][i] \in Blocks /\ table[s][i] \in Range(table[s])
    BY <1>1, ElementOfSeq DEF Range
<1>3. refs[table[s][i]] = 1
    BY DEF TailsPrivate
<1> QED
    BY <1>2, <1>3, SoleHolder

\* The start of a prefix is the start of the run.
LEMMA PrefixOfPrefix ==
  ASSUME NEW tokens \in Seq(Tokens), NEW m \in 0..Len(tokens), NEW k \in 0..m
  PROVE  SubSeq(SubSeq(tokens, 1, m), 1, k) = SubSeq(tokens, 1, k)
<1>1. m \in Nat /\ k \in Nat /\ Len(tokens) \in Nat
    BY LenProperties
<1>2. \A i \in 1..m : tokens[i] \in Tokens
    BY <1>1, ElementOfSeq
<1>3. /\ SubSeq(tokens, 1, m) \in Seq(Tokens) /\ Len(SubSeq(tokens, 1, m)) = m
      /\ \A i \in 1..m : SubSeq(tokens, 1, m)[i] = tokens[i]
    BY <1>1, <1>2, SubSeqProperties
<1>4. \A i \in 1..k : SubSeq(tokens, 1, m)[i] \in Tokens /\ tokens[i] \in Tokens
    BY <1>1, <1>2, <1>3
<1>5. /\ SubSeq(tokens, 1, k) \in Seq(Tokens) /\ Len(SubSeq(tokens, 1, k)) = k
      /\ \A i \in 1..k : SubSeq(tokens, 1, k)[i] = tokens[i]
    BY <1>1, <1>4, SubSeqProperties
<1>6. /\ SubSeq(SubSeq(tokens, 1, m), 1, k) \in Seq(Tokens)
      /\ Len(SubSeq(SubSeq(tokens, 1, m), 1, k)) = k
      /\ \A i \in 1..k : SubSeq(SubSeq(tokens, 1, m), 1, k)[i] = SubSeq(tokens, 1, m)[i]
    BY <1>1, <1>4, SubSeqProperties
<1> QED
    BY <1>1, <1>3, <1>5, <1>6, SeqEqual

-----------------------------------------------------------------------------
(* Each operation keeps the invariant *)

LEMMA InitInv == KVInit => CacheInv
<1> SUFFICES ASSUME KVInit PROVE CacheInv
    OBVIOUS
<1>1. CountsInv
    BY InitCounts
<1>2. BlocksFor(0) = 0
    BY BlocksForMultiple, SizesAssumption
<1>3. BlocksDistinct /\ TailsPrivate /\ StampsPast
    BY DEF KVInit, BlocksDistinct, TailsPrivate, StampsPast
<1>4. CacheIntact
    BY <1>2 DEF KVInit, CacheIntact, EntriesIntact, SlotsIntact, HasCapacity
<1> QED
    BY <1>1, <1>3, <1>4 DEF CacheInv, KVInv

LEMMA StutterInv ==
  ASSUME CacheInv, UNCHANGED kvVars
  PROVE  CacheInv'
BY StutterCounts
   DEF CacheInv, KVInv, kvVars, BlocksDistinct, TailsPrivate, StampsPast,
       CacheIntact, EntriesIntact, SlotsIntact, HasCapacity, BlocksFor

\* A hit hands its slot whole blocks, so it gives up nobody's right to write.
LEMMA AllocAndShareInv ==
  ASSUME CacheInv, NEW s \in Slots, NEW tokens \in Seq(Tokens), AllocAndShare(s, tokens)
  PROVE  CacheInv'
<1> DEFINE matched == MatchedPrefix(tokens)
           blocks == HitBlocks(tokens)
<1>1. /\ CountsInv /\ BlocksDistinct /\ TailsPrivate /\ StampsPast
      /\ EntriesIntact /\ SlotsIntact /\ KVTypeOK
    BY DEF CacheInv, KVInv, CacheIntact, CountsInv
<1>2. CountsInv'
    BY <1>1, AllocAndShareCounts
<1>3. /\ table[s] = <<>>
      /\ clock' = clock + 1
      /\ matched \in Seq(Tokens) /\ blocks \in Seq(Blocks)
      /\ Len(matched) = Len(blocks) * BlockSize
      /\ blocks # <<>> => matched \in DOMAIN entries /\ blocks = entries[matched].blocks
      /\ table' = [table EXCEPT ![s] = blocks]
      /\ ctx' = [ctx EXCEPT ![s] = matched]
      /\ \A b \in Blocks : refs'[b] = IF b \in Range(blocks) THEN refs[b] + 1 ELSE refs[b]
      /\ DOMAIN entries' = DOMAIN entries
      /\ \A p \in DOMAIN entries : /\ entries'[p].blocks = entries[p].blocks
                                   /\ entries'[p].lru \in {entries[p].lru, clock + 1}
      /\ data' = data
    BY <1>1, AllocAndShareEffect
<1> HIDE DEF matched, blocks
<1>4. \A t \in Slots : /\ table'[t] = IF t = s THEN blocks ELSE table[t]
                       /\ ctx'[t] = IF t = s THEN matched ELSE ctx[t]
    BY <1>1, <1>3 DEF KVTypeOK
<1>5. BlocksDistinct'
  <2>1. \A i, j \in DOMAIN blocks : blocks[i] = blocks[j] => i = j
    <3>1. CASE blocks = <<>>
        BY <3>1
    <3>2. CASE blocks # <<>>
        BY <1>1, <1>3, <3>2 DEF BlocksDistinct
    <3> QED
        BY <3>1, <3>2
  <2> QED
      BY <1>1, <1>3, <1>4, <2>1 DEF BlocksDistinct
<1>6. TailsPrivate'
  <2> SUFFICES ASSUME NEW t \in Slots, NEW i \in DOMAIN table'[t],
                      i * BlockSize > Len(ctx'[t])
               PROVE  refs'[table'[t][i]] = 1
      BY DEF TailsPrivate
  <2>1. CASE t = s
    <3>1. i \in 1..Len(blocks) /\ i * BlockSize > Len(blocks) * BlockSize
        BY <1>3, <1>4, <2>1, LenProperties
    <3>2. i \in Nat /\ Len(blocks) \in Nat /\ i <= Len(blocks) /\ BlockSize \in Nat
        BY <1>3, <3>1, SizesAssumption, LenProperties
    <3>3. /\ i * BlockSize \in Nat /\ Len(blocks) * BlockSize \in Nat
          /\ i * BlockSize <= Len(blocks) * BlockSize
        BY <3>2
    <3> QED
        BY <3>1, <3>3
  <2>2. CASE t # s
    <3> DEFINE b == table[t][i]
    <3>1. b \in Blocks /\ refs[b] = 1 /\ Pinning(entries, b) = {}
        BY <1>1, <1>4, <2>2, TailAlone
    <3>2. b \notin Range(blocks)
      <4>1. CASE blocks = <<>>
          BY <4>1 DEF Range
      <4>2. CASE blocks # <<>>
          BY <1>3, <3>1, <4>2 DEF Pinning
      <4> QED
          BY <4>1, <4>2
    <3> QED
        BY <1>3, <1>4, <2>2, <3>1, <3>2
  <2> QED
      BY <2>1, <2>2
<1>7. StampsPast'
  <2>1. clock \in Nat /\ \A p \in DOMAIN entries : entries[p].lru \in Nat
      BY <1>1 DEF KVTypeOK
  <2> QED
      BY <1>1, <1>3, <2>1 DEF StampsPast
<1>8. EntriesIntact'
    BY <1>1, <1>3 DEF EntriesIntact
<1>9. SlotsIntact'
  <2>1. CountsInv' => \A t \in Slots : HasCapacity(t, Len(ctx[t]))'
      BY DEF CountsInv, ContextsCovered
  <2> SUFFICES ASSUME NEW t \in Slots, NEW i \in 1..BlocksFor(Len(ctx'[t]))
               PROVE  data[table'[t][i]] =
                        SubSeq(ctx'[t], 1, IF i * BlockSize < Len(ctx'[t])
                                             THEN i * BlockSize ELSE Len(ctx'[t]))
      BY <1>2, <1>3, <2>1 DEF SlotsIntact, BlocksFor
  <2>2. CASE t = s
    <3>1. Len(blocks) \in Nat /\ BlocksFor(Len(matched)) = Len(blocks)
        BY <1>3, BlocksForMultiple, LenProperties
    <3>2. i \in 1..Len(blocks) /\ blocks # <<>>
        BY <1>3, <1>4, <2>2, <3>1
    <3>3. data[blocks[i]] = SubSeq(matched, 1, i * BlockSize)
        BY <1>1, <1>3, <3>2 DEF EntriesIntact
    <3>4. /\ i * BlockSize \in Nat /\ Len(blocks) * BlockSize \in Nat
          /\ i * BlockSize <= Len(blocks) * BlockSize
        BY <3>1, <3>2, SizesAssumption
    <3>5. i * BlockSize = IF i * BlockSize < Len(matched) THEN i * BlockSize ELSE Len(matched)
        BY <1>3, <3>4
    <3> QED
        BY <1>4, <2>2, <3>3, <3>5
  <2>3. CASE t # s
      BY <1>1, <1>4, <2>3 DEF SlotsIntact
  <2> QED
      BY <2>2, <2>3
<1> QED
    BY <1>2, <1>5, <1>6, <1>7, <1>8, <1>9 DEF CacheInv, KVInv, CacheIntact

\* New blocks come from the pool, where nobody holds them.
LEMMA EnsureCapacityInv ==
  ASSUME CacheInv, NEW s \in Slots, freeSlots[s] = 0, NEW n \in Nat, EnsureCapacity(s, n)
  PROVE  CacheInv'
<1>1. /\ CountsInv /\ BlocksDistinct /\ TailsPrivate /\ StampsPast
      /\ EntriesIntact /\ SlotsIntact /\ KVTypeOK
    BY DEF CacheInv, KVInv, CacheIntact, CountsInv
<1>2. CountsInv'
    BY <1>1, EnsureCapacityCounts
<1>3. PICK q \in Seq(Blocks) :
        /\ \A i, j \in DOMAIN q : q[i] = q[j] => i = j
        /\ \A b \in Range(q) : b \in Blocks /\ Holders(b) = {} /\ Pinning(entries, b) = {}
        /\ table' = [table EXCEPT ![s] = @ \o q]
        /\ refs' = [b \in Blocks |-> IF b \in Range(q) THEN 1 ELSE refs[b]]
        /\ UNCHANGED <<entries, clock, data, ctx>>
    BY <1>1, EnsureCapacityEffect
<1>4. /\ \A t \in Slots : table'[t] = IF t = s THEN table[s] \o q ELSE table[t]
      /\ \A t \in Slots : /\ table[t] \in Seq(Blocks) /\ Len(table[t]) \in Nat
                          /\ DOMAIN table[t] = 1..Len(table[t])
      /\ Len(q) \in Nat /\ DOMAIN q = 1..Len(q)
    BY <1>1, <1>3, LenProperties DEF KVTypeOK
\* The grown table: the old blocks, then those of q.
<1>5. /\ DOMAIN table'[s] = 1..(Len(table[s]) + Len(q))
      /\ \A i \in DOMAIN table'[s] :
           /\ i <= Len(table[s]) => /\ i \in DOMAIN table[s] /\ table'[s][i] = table[s][i]
           /\ i > Len(table[s]) => /\ i - Len(table[s]) \in DOMAIN q
                                   /\ table'[s][i] = q[i - Len(table[s])]
  <2>0. table[s] \in Seq(Blocks) /\ q \in Seq(Blocks) /\ table'[s] = table[s] \o q
      BY <1>4
  <2>1. /\ table[s] \o q \in Seq(Blocks)
        /\ Len(table[s] \o q) = Len(table[s]) + Len(q)
        /\ \A i \in 1..(Len(table[s]) + Len(q)) :
             (table[s] \o q)[i] = IF i <= Len(table[s]) THEN table[s][i] ELSE q[i - Len(table[s])]
      BY <2>0, ConcatProperties
  <2>2. DOMAIN (table[s] \o q) = 1..(Len(table[s]) + Len(q))
      BY <2>1, LenProperties
  <2> QED
      BY <1>4, <2>0, <2>1, <2>2
<1>6. \A t \in Slots : \A i \in DOMAIN table[t] : table[t][i] \in Blocks /\ table[t][i] \notin Range(q)
  <2> TAKE t \in Slots
  <2> TAKE i \in DOMAIN table[t]
  <2>1. table[t][i] \in Blocks /\ table[t][i] \in Range(table[t])
      BY <1>4, ElementOfSeq DEF Range
  <2> QED
      BY <1>3, <2>1 DEF Holders
<1>7. \A i \in DOMAIN q : q[i] \in Range(q)
    BY DEF Range
<1>8. BlocksDistinct'
  <2>1. ASSUME NEW i \in DOMAIN table'[s], NEW j \in DOMAIN table'[s], table'[s][i] = table'[s][j]
        PROVE  i = j
    <3>1. CASE i <= Len(table[s]) /\ j <= Len(table[s])
        BY <1>1, <1>5, <2>1, <3>1 DEF BlocksDistinct
    <3>2. CASE i > Len(table[s]) /\ j > Len(table[s])
        BY <1>3, <1>4, <1>5, <2>1, <3>2
    <3>3. CASE i <= Len(table[s]) /\ j > Len(table[s])
        BY <1>5, <1>6, <1>7, <2>1, <3>3
    <3>4. CASE i > Len(table[s]) /\ j <= Len(table[s])
        BY <1>5, <1>6, <1>7, <2>1, <3>4
    <3>5. i \in Nat /\ j \in Nat
        BY <1>4, <1>5
    <3> QED
        BY <1>4, <3>1, <3>2, <3>3, <3>4, <3>5
  <2> QED
      BY <1>1, <1>3, <1>4, <2>1 DEF BlocksDistinct
<1>9. TailsPrivate'
  <2> SUFFICES ASSUME NEW t \in Slots, NEW i \in DOMAIN table'[t], i * BlockSize > Len(ctx[t])
               PROVE  refs'[table'[t][i]] = 1
      BY <1>3 DEF TailsPrivate
  <2>1. CASE t # s \/ i <= Len(table[s])
    <3>1. i \in DOMAIN table[t] /\ table'[t][i] = table[t][i]
        BY <1>4, <1>5, <2>1
    <3> QED
        BY <1>1, <1>3, <1>6, <3>1 DEF TailsPrivate
  <2>2. CASE t = s /\ i > Len(table[s])
    <3>1. table'[t][i] \in Range(q)
        BY <1>5, <1>7, <2>2
    <3> QED
        BY <1>3, <3>1
  <2>3. i \in Nat
      BY <1>4, <1>5
  <2> QED
      BY <1>4, <2>1, <2>2, <2>3
<1>10. StampsPast' /\ EntriesIntact'
    BY <1>1, <1>3 DEF StampsPast, EntriesIntact
<1>11. SlotsIntact'
  <2>1. CountsInv' => \A t \in Slots : HasCapacity(t, Len(ctx[t]))'
      BY DEF CountsInv, ContextsCovered
  <2>0. ctx' = ctx /\ data' = data
      BY <1>3
  <2> SUFFICES ASSUME NEW t \in Slots, NEW i \in 1..BlocksFor(Len(ctx'[t]))
               PROVE  data[table'[t][i]] =
                        SubSeq(ctx'[t], 1, IF i * BlockSize < Len(ctx'[t])
                                             THEN i * BlockSize ELSE Len(ctx'[t]))
      BY <1>2, <2>0, <2>1 DEF SlotsIntact, BlocksFor
  <2>2. /\ BlocksFor(Len(ctx[t])) <= Len(table[t]) /\ BlocksFor(Len(ctx[t])) \in Nat
    <3>1. Len(ctx[t]) \in Nat
        BY <1>1, LenProperties DEF KVTypeOK
    <3> QED
        BY <1>1, <3>1, BlocksForType DEF SlotsIntact, HasCapacity
  <2>3. table'[t][i] = table[t][i]
      BY <1>4, <1>5, <2>0, <2>2
  <2> QED
      BY <1>1, <2>0, <2>3 DEF SlotsIntact
<1> QED
    BY <1>2, <1>8, <1>9, <1>10, <1>11 DEF CacheInv, KVInv, CacheIntact

\* Giving a slot back clears only the blocks nobody else reads.
LEMMA FreeInv ==
  ASSUME CacheInv, NEW s \in Slots, freeSlots[s] = 0, Free(s)
  PROVE  CacheInv'
<1> DEFINE held == Range(table[s])
<1>1. /\ CountsInv /\ BlocksDistinct /\ TailsPrivate /\ StampsPast
      /\ EntriesIntact /\ SlotsIntact /\ KVTypeOK /\ RefcountsExact
    BY DEF CacheInv, KVInv, CacheIntact, CountsInv
<1>2. CountsInv'
    BY <1>1, FreeCounts
<1>3. /\ refs' = [b \in Blocks |-> IF b \in held THEN CountOf(b) - 1 ELSE refs[b]]
      /\ data' = [b \in Blocks |-> IF b \in held /\ CountOf(b) = 1 THEN <<>> ELSE data[b]]
      /\ table' = [table EXCEPT ![s] = <<>>]
      /\ ctx' = [ctx EXCEPT ![s] = <<>>]
      /\ UNCHANGED <<entries, clock>>
    BY DEF Free
<1>4. /\ \A t \in Slots : table'[t] = IF t = s THEN <<>> ELSE table[t]
      /\ \A t \in Slots : ctx'[t] = IF t = s THEN <<>> ELSE ctx[t]
    BY <1>1, <1>3 DEF KVTypeOK
\* A block cleared here is named by no other table and no entry.
<1>5. ASSUME NEW b \in held, b \in Blocks, CountOf(b) = 1
      PROVE  Holders(b) = {s} /\ Pinning(entries, b) = {}
  <2>1. refs[b] = 1
      BY <1>1, <1>5, HeldCounted
  <2> QED
      BY <1>1, <1>5, <2>1, SoleHolder
<1>6. ASSUME NEW t \in Slots, t # s, NEW i \in DOMAIN table[t]
      PROVE  table[t][i] \in Blocks /\ data'[table[t][i]] = data[table[t][i]]
  <2>1. table[t][i] \in Blocks /\ table[t][i] \in Range(table[t])
      BY <1>1, <1>6, LenProperties, ElementOfSeq DEF KVTypeOK, Range
  <2>2. t \in Holders(table[t][i])
      BY <2>1 DEF Holders
  <2> QED
      BY <1>3, <1>5, <1>6, <2>1, <2>2
<1>7. BlocksDistinct'
    BY <1>1, <1>3, <1>4 DEF BlocksDistinct
<1>8. TailsPrivate'
  <2> SUFFICES ASSUME NEW t \in Slots, NEW i \in DOMAIN table'[t], i * BlockSize > Len(ctx'[t])
               PROVE  refs'[table'[t][i]] = 1
      BY DEF TailsPrivate
  <2>1. t # s /\ table'[t] = table[t] /\ ctx'[t] = ctx[t]
      BY <1>4
  <2>2. table[t][i] \in Blocks /\ refs[table[t][i]] = 1 /\ Holders(table[t][i]) = {t}
      BY <1>1, <2>1, TailAlone
  <2>3. table[t][i] \notin held
      BY <2>1, <2>2 DEF Holders
  <2> QED
      BY <1>3, <2>1, <2>2, <2>3
<1>9. StampsPast'
    BY <1>1, <1>3 DEF StampsPast
<1>10. EntriesIntact'
  <2> SUFFICES ASSUME NEW p \in DOMAIN entries, NEW i \in 1..Len(entries[p].blocks)
               PROVE  data'[entries[p].blocks[i]] = data[entries[p].blocks[i]]
      BY <1>1, <1>3 DEF EntriesIntact
  <2>1. /\ entries[p].blocks[i] \in Blocks
        /\ entries[p].blocks[i] \in Range(entries[p].blocks)
      BY <1>1, LenProperties, ElementOfSeq DEF KVTypeOK, Range
  <2>2. p \in Pinning(entries, entries[p].blocks[i])
      BY <2>1 DEF Pinning
  <2> QED
      BY <1>3, <1>5, <2>1, <2>2
<1>11. SlotsIntact'
  <2>1. CountsInv' => \A t \in Slots : HasCapacity(t, Len(ctx[t]))'
      BY DEF CountsInv, ContextsCovered
  <2> SUFFICES ASSUME NEW t \in Slots, NEW i \in 1..BlocksFor(Len(ctx'[t]))
               PROVE  /\ t # s
                      /\ i \in DOMAIN table[t]
      BY <1>1, <1>2, <1>4, <1>6, <2>1 DEF SlotsIntact, BlocksFor
  <2>2. BlocksFor(Len(<<>>)) = 0
      BY BlocksForMultiple, SizesAssumption
  <2>3. t # s /\ ctx'[t] = ctx[t]
      BY <1>4, <2>2
  <2>4. /\ BlocksFor(Len(ctx[t])) <= Len(table[t]) /\ BlocksFor(Len(ctx[t])) \in Nat
        /\ DOMAIN table[t] = 1..Len(table[t]) /\ Len(table[t]) \in Nat
    <3>1. Len(ctx[t]) \in Nat /\ DOMAIN table[t] = 1..Len(table[t]) /\ Len(table[t]) \in Nat
        BY <1>1, LenProperties DEF KVTypeOK
    <3> QED
        BY <1>1, <3>1, BlocksForType DEF SlotsIntact, HasCapacity
  <2> QED
      BY <2>3, <2>4
<1> QED
    BY <1>2, <1>7, <1>8, <1>9, <1>10, <1>11 DEF CacheInv, KVInv, CacheIntact

\* A block that ends within n positions is among the blocks for them.
LEMMA WholeIndex == \A n, i \in Nat : 1 <= i /\ i * BlockSize <= n => i <= BlocksFor(n)
<1> SUFFICES ASSUME NEW n \in Nat, NEW i \in Nat, 1 <= i, i * BlockSize <= n
             PROVE  i <= BlocksFor(n)
    OBVIOUS
<1> DEFINE m == n + BlockSize - 1
           k == m \div BlockSize
<1>1. BlockSize \in Nat /\ BlockSize >= 1 /\ m \in Nat /\ n <= m
    BY SizesAssumption
<1>2. k \in Nat /\ m < (k + 1) * BlockSize
    BY <1>1
<1>3. BlocksFor(n) = k
    BY DEF BlocksFor
<1> HIDE DEF k, m
<1>4. ASSUME k + 1 <= i PROVE (k + 1) * BlockSize <= i * BlockSize
    BY <1>1, <1>2, <1>4
<1>5. (k + 1) * BlockSize \in Nat /\ i * BlockSize \in Nat
    BY <1>1, <1>2
<1> QED
    BY <1>1, <1>2, <1>3, <1>4, <1>5

\* A block that n tokens fill to its end is one of theirs, and shows no fewer
\* of them than it has room for.
LEMMA WholeBlock ==
  ASSUME NEW n \in Nat, NEW i \in Nat, 1 <= i, i * BlockSize <= n
  PROVE  /\ i \in 1..BlocksFor(n)
         /\ (IF i * BlockSize < n THEN i * BlockSize ELSE n) = i * BlockSize
<1>1. i <= BlocksFor(n) /\ BlocksFor(n) \in Nat
    BY WholeIndex, BlocksForType
<1>2. i * BlockSize \in Nat
    BY SizesAssumption
<1> QED
    BY <1>1, <1>2

\* Where a slot reads its own tokens, writing a longer run over them changes
\* nothing: the packed prefill's write is a write behind what the slot reads.
LEMMA RewriteIsWrite ==
  ASSUME NEW s \in Slots, NEW tokens \in Seq(Tokens), data \in [Blocks -> Seq(Tokens)],
         table[s] \in Seq(Blocks), ctx[s] \in Seq(Tokens),
         \A i, j \in DOMAIN table[s] : table[s][i] = table[s][j] => i = j,
         \A i \in DOMAIN table[s] :
           i * BlockSize <= Len(ctx[s]) => data[table[s][i]] = SubSeq(ctx[s], 1, i * BlockSize),
         Len(ctx[s]) <= Len(tokens), SubSeq(tokens, 1, Len(ctx[s])) = ctx[s],
         HasCapacity(s, Len(tokens)), WriteKV(s, 0, tokens)
  PROVE  WriteKV(s, Len(ctx[s]), tokens)
<1> DEFINE n == Len(tokens)
           m == Len(ctx[s])
           all == Touched(0, n)
           rest == Touched(m, n)
           upto(i) == IF i * BlockSize < n THEN i * BlockSize ELSE n
<1>1. /\ n \in Nat /\ m \in Nat /\ m <= n /\ BlockSize \in Nat /\ BlockSize >= 1
      /\ Len(table[s]) \in Nat /\ DOMAIN table[s] = 1..Len(table[s])
      /\ BlocksFor(n) \in Nat /\ BlocksFor(n) <= Len(table[s])
  <2>1. n \in Nat /\ m \in Nat /\ Len(table[s]) \in Nat
      BY LenProperties
  <2>2. DOMAIN table[s] = 1..Len(table[s])
      BY LenProperties
  <2>3. BlockSize \in Nat /\ BlockSize >= 1
      BY SizesAssumption
  <2>4. BlocksFor(n) \in Nat /\ BlocksFor(n) <= Len(table[s])
      BY <2>1, BlocksForType DEF HasCapacity
  <2> QED
      BY <2>1, <2>2, <2>3, <2>4
<1>2. rest \subseteq all /\ all \subseteq DOMAIN table[s]
    BY <1>1 DEF Touched
<1>3. \A i \in all \ rest : i \in Nat /\ i * BlockSize \in Nat /\ i * BlockSize <= m
    BY <1>1 DEF Touched
<1>4. \A i \in all \ rest : SubSeq(tokens, 1, upto(i)) = data[table[s][i]]
  <2> TAKE i \in all \ rest
  <2> DEFINE k == i * BlockSize
  <2>1. k \in Nat /\ k <= m
      BY <1>3
  <2>2. data[table[s][i]] = SubSeq(ctx[s], 1, k)
      BY <1>2, <2>1
  <2> HIDE DEF k
  <2>3. SubSeq(SubSeq(tokens, 1, m), 1, k) = SubSeq(tokens, 1, k)
      BY <1>1, <2>1, PrefixOfPrefix
  <2>4. (IF k < n THEN k ELSE n) = k
      BY <1>1, <2>1
  <2> QED
      BY <2>2, <2>3, <2>4 DEF k
<1>5. data' = [b \in Blocks |-> IF \E i \in all : table[s][i] = b
                                 THEN LET i == CHOOSE j \in all : table[s][j] = b
                                      IN  SubSeq(tokens, 1, upto(i))
                                 ELSE data[b]]
    BY DEF WriteKV
<1> HIDE DEF all, rest, upto
<1>6. ASSUME NEW b \in Blocks
      PROVE  data'[b] = IF \E i \in rest : table[s][i] = b
                          THEN LET i == CHOOSE j \in rest : table[s][j] = b
                               IN  SubSeq(tokens, 1, upto(i))
                          ELSE data[b]
  <2>1. CASE ~ \E i \in all : table[s][i] = b
      BY <1>2, <1>5, <2>1
  <2>2. ASSUME NEW i \in all, table[s][i] = b
        PROVE  data'[b] = IF \E j \in rest : table[s][j] = b
                            THEN LET j == CHOOSE k \in rest : table[s][k] = b
                                 IN  SubSeq(tokens, 1, upto(j))
                            ELSE data[b]
    <3>1. \A j \in all : table[s][j] = b => j = i
        BY <1>2, <2>2
    <3>2. (CHOOSE j \in all : table[s][j] = b) = i
        BY <2>2, <3>1
    <3>3. data'[b] = SubSeq(tokens, 1, upto(i))
        BY <1>5, <2>2, <3>2
    <3>4. CASE i \in rest
      <4>1. (CHOOSE j \in rest : table[s][j] = b) = i
          BY <1>2, <2>2, <3>1, <3>4
      <4> QED
          BY <2>2, <3>3, <3>4, <4>1
    <3>5. CASE i \notin rest
        BY <1>2, <1>4, <2>2, <3>1, <3>3, <3>5
    <3> QED
        BY <3>4, <3>5
  <2> QED
      BY <2>1, <2>2
<1>7. data' = [b \in Blocks |-> data'[b]]
    BY <1>5
<1>8. data' = [b \in Blocks |-> IF \E i \in rest : table[s][i] = b
                                 THEN LET i == CHOOSE j \in rest : table[s][j] = b
                                      IN  SubSeq(tokens, 1, upto(i))
                                 ELSE data[b]]
    BY <1>6, <1>7
<1> QED
    BY <1>8 DEF WriteKV, rest, upto

\* A write changes what nobody but the writer reads; where it rewrites a shared
\* block it puts back what was there.
LEMMA WriteKVInv ==
  ASSUME CacheInv, NEW s \in Slots, freeSlots[s] = 0, NEW tokens \in Seq(Tokens),
         NEW from \in 0..Len(ctx[s]), Len(ctx[s]) <= Len(tokens),
         SubSeq(tokens, 1, Len(ctx[s])) = ctx[s],
         HasCapacity(s, Len(tokens)), WriteKV(s, from, tokens)
  PROVE  CacheInv'
<1> DEFINE n == Len(tokens)
           wrote == Touched(from, n)
           upto(i) == IF i * BlockSize < n THEN i * BlockSize ELSE n
<1>1. /\ CountsInv /\ BlocksDistinct /\ TailsPrivate /\ StampsPast
      /\ EntriesIntact /\ SlotsIntact /\ KVTypeOK
    BY DEF CacheInv, KVInv, CacheIntact, CountsInv
<1>2. /\ ctx[s] \in Seq(Tokens) /\ Len(ctx[s]) \in Nat /\ n \in Nat /\ from \in Nat
      /\ BlockSize \in Nat /\ BlockSize >= 1
      /\ \A t \in Slots : /\ table[t] \in Seq(Blocks) /\ Len(table[t]) \in Nat
                          /\ DOMAIN table[t] = 1..Len(table[t])
    BY <1>1, SizesAssumption, LenProperties DEF KVTypeOK
<1>3. CountsInv'
    BY <1>1, <1>2, WriteKVCounts
<1>4. /\ data' = [b \in Blocks |->
                    IF \E i \in wrote : table[s][i] = b
                      THEN LET i == CHOOSE j \in wrote : table[s][j] = b
                           IN  SubSeq(tokens, 1, IF i * BlockSize < n THEN i * BlockSize ELSE n)
                      ELSE data[b]]
      /\ ctx' = [ctx EXCEPT ![s] = tokens]
      /\ table' = table /\ refs' = refs /\ entries' = entries /\ clock' = clock
    BY DEF WriteKV
<1>same. table' = table /\ refs' = refs /\ entries' = entries /\ clock' = clock
    BY <1>4
<1>5. \A t \in Slots : ctx'[t] = IF t = s THEN tokens ELSE ctx[t]
    BY <1>1, <1>4 DEF KVTypeOK
<1>6. \A i \in wrote : i \in DOMAIN table[s]
  <2>1. BlocksFor(n) <= Len(table[s]) /\ BlocksFor(n) \in Nat
      BY <1>2, BlocksForType DEF HasCapacity
  <2> QED
      BY <1>2, <2>1 DEF Touched
<1>7. \A t \in Slots : \A i \in DOMAIN table[t] :
        table[t][i] \in Blocks /\ table[t][i] \in Range(table[t])
    BY <1>2, ElementOfSeq DEF Range
<1>8. ASSUME NEW i \in wrote
      PROVE  data'[table[s][i]] = SubSeq(tokens, 1, upto(i))
  <2> DEFINE j == CHOOSE k \in wrote : table[s][k] = table[s][i]
  <2>1. j \in wrote /\ table[s][j] = table[s][i]
      OBVIOUS
  <2>2. j = i
      BY <1>1, <1>6, <2>1 DEF BlocksDistinct
  <2>3. data'[table[s][i]] = SubSeq(tokens, 1, upto(j))
      BY <1>4, <1>6, <1>7
  <2> QED
      BY <2>2, <2>3
<1>9. \A b \in Blocks : (\A i \in wrote : table[s][i] # b) => data'[b] = data[b]
    BY <1>4
<1> HIDE DEF wrote
\* A whole block keeps what it holds.
<1>10. ASSUME NEW i \in DOMAIN table[s], i * BlockSize <= Len(ctx[s])
       PROVE  /\ data[table[s][i]] = SubSeq(tokens, 1, i * BlockSize)
              /\ data'[table[s][i]] = data[table[s][i]]
              /\ upto(i) = i * BlockSize
  <2>1. i \in Nat /\ 1 <= i /\ i * BlockSize \in Nat
      BY <1>2
  <2>2. upto(i) = i * BlockSize
      BY <1>2, <1>10, <2>1
  <2>3. i \in 1..BlocksFor(Len(ctx[s]))
    <3>1. i <= BlocksFor(Len(ctx[s]))
        BY <1>2, <1>10, <2>1, WholeIndex
    <3>2. BlocksFor(Len(ctx[s])) \in Nat
        BY <1>2, BlocksForType
    <3> QED
        BY <2>1, <3>1, <3>2
  <2>4. data[table[s][i]] = SubSeq(ctx[s], 1, i * BlockSize)
    <3>1. i * BlockSize = IF i * BlockSize < Len(ctx[s]) THEN i * BlockSize ELSE Len(ctx[s])
        BY <1>2, <1>10, <2>1
    <3> QED
        BY <1>1, <2>3, <3>1 DEF SlotsIntact
  <2>5. SubSeq(ctx[s], 1, i * BlockSize) = SubSeq(tokens, 1, i * BlockSize)
      BY <1>2, <1>10, <2>1, PrefixOfPrefix
  <2>6. CASE i \in wrote
      BY <1>8, <2>2, <2>4, <2>5, <2>6
  <2>7. CASE i \notin wrote
    <3>1. \A j \in wrote : table[s][j] # table[s][i]
        BY <1>1, <1>6, <2>7 DEF BlocksDistinct
    <3> QED
        BY <1>7, <1>9, <2>2, <2>4, <2>5, <3>1
  <2> QED
      BY <2>6, <2>7
\* A block somebody else reads keeps what it holds.
<1>11. ASSUME NEW b \in Blocks, (\E t \in Slots : t # s /\ t \in Holders(b)) \/ Pinning(entries, b) # {}
       PROVE  data'[b] = data[b]
  <2>1. CASE \A i \in wrote : table[s][i] # b
      BY <1>9, <2>1
  <2>2. ASSUME NEW i \in wrote, table[s][i] = b PROVE data'[b] = data[b]
    <3>1. i \in DOMAIN table[s] /\ i * BlockSize \in Nat
        BY <1>2, <1>6, <2>2
    <3>2. ASSUME i * BlockSize > Len(ctx[s]) PROVE FALSE
      <4>1. Holders(b) = {s} /\ Pinning(entries, b) = {}
          BY <1>1, <2>2, <3>1, <3>2, TailAlone
      <4> QED
          BY <1>11, <4>1
    <3> QED
        BY <1>2, <1>10, <2>2, <3>1, <3>2
  <2> QED
      BY <2>1, <2>2
<1>12. BlocksDistinct' /\ StampsPast'
    BY <1>same, <1>1 DEF BlocksDistinct, StampsPast
<1>13. TailsPrivate'
  <2> SUFFICES ASSUME NEW t \in Slots, NEW i \in DOMAIN table[t], i * BlockSize > Len(ctx'[t])
               PROVE  refs[table[t][i]] = 1
      BY <1>same DEF TailsPrivate
  <2>1. i * BlockSize \in Nat
      BY <1>2
  <2>2. i * BlockSize > Len(ctx[t])
    <3>1. CASE t = s
      <4>1. Len(ctx'[t]) = n
          BY <1>5, <3>1
      <4> QED
          BY <1>2, <2>1, <3>1, <4>1
    <3>2. CASE t # s
        BY <1>5, <3>2
    <3> QED
        BY <3>1, <3>2
  <2> QED
      BY <1>1, <2>2 DEF TailsPrivate
<1>14. EntriesIntact'
  <2> SUFFICES ASSUME NEW p \in DOMAIN entries, NEW i \in 1..Len(entries[p].blocks)
               PROVE  data'[entries[p].blocks[i]] = data[entries[p].blocks[i]]
      BY <1>same, <1>1 DEF EntriesIntact
  <2>1. /\ entries[p].blocks[i] \in Blocks
        /\ entries[p].blocks[i] \in Range(entries[p].blocks)
      BY <1>1, LenProperties, ElementOfSeq DEF KVTypeOK, Range
  <2>2. p \in Pinning(entries, entries[p].blocks[i])
      BY <2>1 DEF Pinning
  <2> QED
      BY <1>11, <2>1, <2>2
<1>15. SlotsIntact'
  <2>1. CountsInv' => \A t \in Slots : HasCapacity(t, Len(ctx[t]))'
      BY DEF CountsInv, ContextsCovered
  <2> SUFFICES ASSUME NEW t \in Slots, NEW i \in 1..BlocksFor(Len(ctx'[t]))
               PROVE  data'[table[t][i]] =
                        SubSeq(ctx'[t], 1, IF i * BlockSize < Len(ctx'[t])
                                             THEN i * BlockSize ELSE Len(ctx'[t]))
      BY <1>same, <1>3, <2>1 DEF SlotsIntact, BlocksFor
  <2>2. CASE t = s
    <3>1. i \in 1..BlocksFor(n) /\ ctx'[t] = tokens
        BY <1>5, <2>2
    <3>2. i \in DOMAIN table[s] /\ i \in Nat /\ i * BlockSize \in Nat
      <4>1. BlocksFor(n) <= Len(table[s]) /\ BlocksFor(n) \in Nat
          BY <1>2, BlocksForType DEF HasCapacity
      <4> QED
          BY <1>2, <3>1, <4>1
    <3>3. data'[table[s][i]] = SubSeq(tokens, 1, upto(i))
      <4>1. CASE i \in wrote
          BY <1>8, <4>1
      <4>2. CASE i \notin wrote
        <5>1. i * BlockSize <= from
            BY <1>2, <3>1, <3>2, <4>2 DEF wrote, Touched
        <5>2. i * BlockSize <= Len(ctx[s])
            BY <1>2, <3>2, <5>1
        <5> QED
            BY <1>10, <3>2, <5>2
      <4> QED
          BY <4>1, <4>2
    <3> QED
        BY <2>2, <3>1, <3>3
  <2>3. CASE t # s
    <3>1. ctx'[t] = ctx[t] /\ i \in 1..BlocksFor(Len(ctx[t]))
        BY <1>5, <2>3
    <3>2. i \in DOMAIN table[t]
      <4>1. BlocksFor(Len(ctx[t])) <= Len(table[t]) /\ BlocksFor(Len(ctx[t])) \in Nat
        <5>1. Len(ctx[t]) \in Nat
            BY <1>1, LenProperties DEF KVTypeOK
        <5> QED
            BY <1>1, <5>1, BlocksForType DEF SlotsIntact, HasCapacity
      <4> QED
          BY <1>2, <3>1, <4>1
    <3>3. data'[table[t][i]] = data[table[t][i]]
        BY <1>7, <1>11, <2>3, <3>2 DEF Holders
    <3> QED
        BY <1>1, <3>1, <3>3 DEF SlotsIntact
  <2> QED
      BY <2>2, <2>3
<1> QED
    BY <1>3, <1>12, <1>13, <1>14, <1>15 DEF CacheInv, KVInv, CacheIntact

\* The whole blocks of n positions take no more than n.
LEMMA FloorMultiple == \A n \in Nat : n \div BlockSize \in Nat /\ (n \div BlockSize) * BlockSize <= n
BY SizesAssumption

\* An entry that store_prefix adds takes the first whole blocks of the slot.
LEMMA StoredNew ==
  ASSUME CountsInv, NEW s \in Slots,
         NEW p \in Boundaries(ctx[s]), p \notin DOMAIN entries
  PROVE  \E k \in Nat :
           /\ 1 <= k /\ k <= Len(table[s]) /\ k * BlockSize \in Nat
           /\ k * BlockSize <= Len(ctx[s])
           /\ p = SubSeq(ctx[s], 1, k * BlockSize)
           /\ Len(Stored(s, ctx[s])[p].blocks) = k
           /\ DOMAIN Stored(s, ctx[s])[p].blocks = 1..k
           /\ \A i \in 1..k : Stored(s, ctx[s])[p].blocks[i] = table[s][i]
<1> DEFINE es == Stored(s, ctx[s])
<1>1. /\ ctx[s] \in Seq(Tokens) /\ Len(ctx[s]) \in Nat
      /\ table[s] \in Seq(Blocks) /\ Len(table[s]) \in Nat
      /\ BlockSize \in Nat /\ BlockSize >= 1
    BY SizesAssumption, LenProperties DEF CountsInv, KVTypeOK
<1>2. PICK k \in 1..(Len(ctx[s]) \div BlockSize) : p = SubSeq(ctx[s], 1, k * BlockSize)
    BY DEF Boundaries
<1>3. k \in Nat /\ 1 <= k /\ k * BlockSize \in Nat /\ 1 <= k * BlockSize /\ k * BlockSize <= Len(ctx[s])
  <2> DEFINE m == Len(ctx[s]) \div BlockSize
  <2>1. m \in Nat /\ m * BlockSize <= Len(ctx[s])
      BY <1>1, FloorMultiple
  <2>2. k \in Nat /\ 1 <= k /\ k <= m
      BY <2>1
  <2> HIDE DEF m
  <2>3. k * BlockSize \in Nat /\ m * BlockSize \in Nat /\ k * BlockSize <= m * BlockSize /\ 1 <= k * BlockSize
      BY <1>1, <2>1, <2>2
  <2> QED
      BY <1>1, <2>1, <2>2, <2>3
<1>4. k <= Len(table[s])
  <2>1. BlocksFor(Len(ctx[s])) <= Len(table[s]) /\ BlocksFor(Len(ctx[s])) \in Nat
      BY <1>1, BlocksForType DEF CountsInv, ContextsCovered, HasCapacity
  <2>2. k <= BlocksFor(Len(ctx[s]))
      BY <1>1, <1>3, WholeIndex
  <2> QED
      BY <1>1, <1>3, <2>1, <2>2
<1>5. Len(p) = k * BlockSize
  <2>1. \A j \in 1..(k * BlockSize) : ctx[s][j] \in Tokens
      BY <1>1, <1>3, ElementOfSeq
  <2> QED
      BY <1>2, <1>3, <2>1, SubSeqProperties
<1>6. es[p] = [blocks |-> SubSeq(table[s], 1, k), lru |-> clock + 1]
  <2>1. Len(p) \div BlockSize = k
      BY <1>3, <1>5, DivMultiple
  <2> QED
      BY <2>1 DEF Stored
<1>7. \A j \in 1..k : j \in 1..Len(table[s]) /\ table[s][j] \in Blocks
    BY <1>1, <1>3, <1>4, ElementOfSeq
<1>8. /\ SubSeq(table[s], 1, k) \in Seq(Blocks)
      /\ Len(SubSeq(table[s], 1, k)) = k
      /\ \A j \in 1..k : SubSeq(table[s], 1, k)[j] = table[s][j]
    BY <1>3, <1>7, SubSeqProperties
<1>9. DOMAIN SubSeq(table[s], 1, k) = 1..k
    BY <1>8, LenProperties
<1> HIDE DEF es
<1> QED
    BY <1>2, <1>3, <1>4, <1>6, <1>8, <1>9 DEF es

\* The entries that are there after the evictions are entries of the walk.
LEMMA StorePrefixEffect ==
  ASSUME NEW s \in Slots, StorePrefix(s, ctx[s]), Boundaries(ctx[s]) # {}
  PROVE  LET stored == Stored(s, ctx[s])
             kept == Survivors(stored)
         IN  /\ DOMAIN entries' = kept /\ kept \subseteq DOMAIN stored
             /\ DOMAIN stored = DOMAIN entries \cup Boundaries(ctx[s])
             /\ \A p \in kept : entries'[p] = stored[p]
             /\ \A p \in DOMAIN entries :
                  stored[p] = IF p \in Boundaries(ctx[s])
                                THEN [entries[p] EXCEPT !.lru = clock + 1] ELSE entries[p]
             /\ \A p \in Boundaries(ctx[s]) \ DOMAIN entries :
                  stored[p].lru = clock + 1
             /\ clock' = clock + 1
             /\ data' = [b \in Blocks |-> IF freeBlocks'[b] > 0 THEN <<>> ELSE data[b]]
             /\ table' = table /\ ctx' = ctx
<1> DEFINE stored == Stored(s, ctx[s])
           kept == Survivors(stored)
<1>1. entries' = Restrict(stored, kept)
    BY DEF StorePrefix
<1>2. /\ clock' = clock + 1
      /\ data' = [b \in Blocks |-> IF freeBlocks'[b] > 0 THEN <<>> ELSE data[b]]
      /\ table' = table /\ ctx' = ctx
    BY DEF StorePrefix
<1>3. DOMAIN stored = DOMAIN entries \cup Boundaries(ctx[s])
    BY DEF Stored
<1>4. kept \subseteq DOMAIN stored
    BY DEF Survivors
<1>5. \A p \in DOMAIN entries :
        stored[p] = IF p \in Boundaries(ctx[s])
                      THEN [entries[p] EXCEPT !.lru = clock + 1] ELSE entries[p]
    BY DEF Stored
<1>6. \A p \in Boundaries(ctx[s]) \ DOMAIN entries : stored[p].lru = clock + 1
    BY DEF Stored
<1> HIDE DEF stored, kept
<1>7. DOMAIN entries' = kept /\ \A p \in kept : entries'[p] = stored[p]
    BY <1>1 DEF Restrict
<1> QED
    BY <1>2, <1>3, <1>4, <1>5, <1>6, <1>7 DEF stored, kept

\* What ends within n positions, ends within them after fewer blocks.
LEMMA FewerBlocks ==
  ASSUME NEW k \in Nat, NEW i \in 0..k, NEW n \in Nat, k * BlockSize <= n
  PROVE  i * BlockSize \in Nat /\ i * BlockSize <= k * BlockSize /\ i * BlockSize <= n
<1>1. BlockSize \in Nat /\ i \in Nat /\ i <= k
    BY SizesAssumption
<1>2. i * BlockSize \in Nat /\ k * BlockSize \in Nat /\ i * BlockSize <= k * BlockSize
    BY <1>1
<1> QED
    BY <1>2

\* store_prefix pins only whole blocks of the slot, and its evictions clear
\* only blocks that no table and no surviving entry names.
LEMMA StorePrefixInv ==
  ASSUME CacheInv, NEW s \in Slots, StorePrefix(s, ctx[s])
  PROVE  CacheInv'
<1> DEFINE stored == Stored(s, ctx[s])
           kept == Survivors(stored)
<1>1. /\ CountsInv /\ BlocksDistinct /\ TailsPrivate /\ StampsPast
      /\ EntriesIntact /\ SlotsIntact /\ KVTypeOK
    BY DEF CacheInv, KVInv, CacheIntact, CountsInv
<1>2. CASE Boundaries(ctx[s]) = {}
    BY <1>2, StutterInv DEF StorePrefix
<1>3. CASE Boundaries(ctx[s]) # {}
  <2>1. CountsInv'
      BY <1>1, OwnRun, StorePrefixCounts
  <2>2. /\ DOMAIN entries' \subseteq DOMAIN entries \cup Boundaries(ctx[s])
        /\ \A p \in DOMAIN entries' : entries'[p] = stored[p]
        /\ \A p \in DOMAIN entries :
             stored[p].blocks = entries[p].blocks /\ stored[p].lru \in {entries[p].lru, clock + 1}
        /\ \A p \in Boundaries(ctx[s]) \ DOMAIN entries : stored[p].lru = clock + 1
        /\ clock' = clock + 1
        /\ data' = [b \in Blocks |-> IF freeBlocks'[b] > 0 THEN <<>> ELSE data[b]]
        /\ table' = table /\ ctx' = ctx
    <3>1. \A p \in DOMAIN entries : entries[p] \in [blocks : Seq(Blocks), lru : Nat]
        BY <1>1 DEF KVTypeOK
    <3>2. /\ DOMAIN entries' = kept /\ kept \subseteq DOMAIN stored
          /\ DOMAIN stored = DOMAIN entries \cup Boundaries(ctx[s])
          /\ \A p \in kept : entries'[p] = stored[p]
          /\ \A p \in DOMAIN entries :
               stored[p] = IF p \in Boundaries(ctx[s])
                             THEN [entries[p] EXCEPT !.lru = clock + 1] ELSE entries[p]
          /\ \A p \in Boundaries(ctx[s]) \ DOMAIN entries : stored[p].lru = clock + 1
          /\ clock' = clock + 1
          /\ data' = [b \in Blocks |-> IF freeBlocks'[b] > 0 THEN <<>> ELSE data[b]]
          /\ table' = table /\ ctx' = ctx
        BY <1>3, StorePrefixEffect
    <3> HIDE DEF stored, kept
    <3> QED
        BY <3>1, <3>2
\* An entry of the new trie is an old one or leads to whole blocks of slot s.
  <2>3. ASSUME NEW p \in DOMAIN entries'
        PROVE  \/ p \in DOMAIN entries /\ entries'[p].blocks = entries[p].blocks
               \/ \E k \in Nat :
                    /\ 1 <= k /\ k <= Len(table[s]) /\ k * BlockSize \in Nat
                    /\ k * BlockSize <= Len(ctx[s])
                    /\ p = SubSeq(ctx[s], 1, k * BlockSize)
                    /\ Len(entries'[p].blocks) = k
                    /\ DOMAIN entries'[p].blocks = 1..k
                    /\ \A i \in 1..k : entries'[p].blocks[i] = table[s][i]
    <3>1. CASE p \in DOMAIN entries
        BY <2>2, <3>1
    <3>2. CASE p \notin DOMAIN entries
      <4>1. p \in Boundaries(ctx[s]) /\ entries'[p] = stored[p]
          BY <2>2, <3>2
      <4>2. PICK k \in Nat :
              /\ 1 <= k /\ k <= Len(table[s]) /\ k * BlockSize \in Nat
              /\ k * BlockSize <= Len(ctx[s])
              /\ p = SubSeq(ctx[s], 1, k * BlockSize)
              /\ Len(stored[p].blocks) = k
              /\ DOMAIN stored[p].blocks = 1..k
              /\ \A i \in 1..k : stored[p].blocks[i] = table[s][i]
          BY <1>1, <3>2, <4>1, StoredNew, Zenon
      <4> HIDE DEF stored, kept
      <4> QED
          BY <4>1, <4>2, Zenon
    <3> QED
        BY <3>1, <3>2
  <2> HIDE DEF stored, kept
  <2>4. /\ ctx[s] \in Seq(Tokens) /\ Len(ctx[s]) \in Nat
        /\ BlockSize \in Nat /\ BlockSize >= 1
        /\ \A t \in Slots : /\ table[t] \in Seq(Blocks) /\ Len(table[t]) \in Nat
                            /\ DOMAIN table[t] = 1..Len(table[t])
      BY <1>1, SizesAssumption, LenProperties DEF KVTypeOK
  <2>5. /\ IsFiniteSet(DOMAIN entries')
        /\ \A p \in DOMAIN entries' : entries'[p].blocks \in Seq(Blocks)
        /\ \A b \in Blocks :
             /\ refs'[b] = Cardinality(Holders(b)) + Cardinality(Pinning(entries', b))
             /\ freeBlocks'[b] = IF refs'[b] = 0 THEN 1 ELSE 0
      BY <2>1, <2>2 DEF CountsInv, KVTypeOK, RefcountsExact, PoolConserved, Holders
  <2>6. ASSUME NEW b \in Blocks, NEW x, x \in Holders(b) \/ x \in Pinning(entries', b)
        PROVE  data'[b] = data[b]
    <3>1. /\ IsFiniteSet(Holders(b)) /\ Cardinality(Holders(b)) \in Nat
          /\ IsFiniteSet(Pinning(entries', b)) /\ Cardinality(Pinning(entries', b)) \in Nat
        BY <2>5, HoldersFinite, PinningFinite
    <3>2. Cardinality(Holders(b)) > 0 \/ Cardinality(Pinning(entries', b)) > 0
        BY <2>6, <3>1, NonemptyCounted
    <3>3. refs'[b] # 0
        BY <2>5, <3>1, <3>2
    <3> QED
        BY <2>2, <2>5, <3>3
  <2>7. BlocksDistinct'
    <3>1. ASSUME NEW p \in DOMAIN entries',
                 NEW i \in DOMAIN entries'[p].blocks, NEW j \in DOMAIN entries'[p].blocks,
                 entries'[p].blocks[i] = entries'[p].blocks[j]
          PROVE  i = j
      <4>1. CASE p \in DOMAIN entries /\ entries'[p].blocks = entries[p].blocks
          BY <1>1, <3>1, <4>1 DEF BlocksDistinct
      <4>2. ASSUME NEW k \in Nat, k <= Len(table[s]), DOMAIN entries'[p].blocks = 1..k,
                   \A m \in 1..k : entries'[p].blocks[m] = table[s][m]
            PROVE  i = j
        <5>1. i \in DOMAIN table[s] /\ j \in DOMAIN table[s]
            BY <2>4, <4>2
        <5> QED
            BY <1>1, <3>1, <4>2, <5>1 DEF BlocksDistinct
      <4> QED
          BY <2>3, <4>1, <4>2
    <3> QED
        BY <1>1, <2>2, <3>1 DEF BlocksDistinct
  <2>8. TailsPrivate'
    <3> SUFFICES ASSUME NEW t \in Slots, NEW i \in DOMAIN table[t], i * BlockSize > Len(ctx[t])
                 PROVE  refs'[table[t][i]] = 1
        BY <2>2 DEF TailsPrivate
    <3> DEFINE b == table[t][i]
    <3>1. b \in Blocks /\ Holders(b) = {t} /\ Pinning(entries, b) = {}
        BY <1>1, TailAlone
    <3>2. ASSUME NEW p \in Pinning(entries', b) PROVE FALSE
      <4>1. p \in DOMAIN entries' /\ b \in Range(entries'[p].blocks)
          BY DEF Pinning
      <4>2. CASE p \in DOMAIN entries /\ entries'[p].blocks = entries[p].blocks
          BY <3>1, <4>1, <4>2 DEF Pinning
      <4>3. ASSUME NEW k \in Nat, k <= Len(table[s]), k * BlockSize <= Len(ctx[s]),
                   DOMAIN entries'[p].blocks = 1..k,
                   \A m \in 1..k : entries'[p].blocks[m] = table[s][m]
            PROVE  FALSE
        <5>1. PICK j \in 1..k : table[s][j] = b
            BY <4>1, <4>3 DEF Range
        <5>2. j \in DOMAIN table[s] /\ j \in Nat /\ j <= k
            BY <2>4, <4>3
        <5>3. s = t
            BY <3>1, <5>1, <5>2 DEF Holders, Range
        <5>4. j = i
            BY <1>1, <5>1, <5>2, <5>3 DEF BlocksDistinct
        <5>5. j * BlockSize \in Nat /\ j * BlockSize <= Len(ctx[s])
          <6>1. j \in 0..k /\ Len(ctx[s]) \in Nat /\ k * BlockSize <= Len(ctx[s])
              BY <2>4, <4>3, <5>2
          <6> QED
              BY <6>1, FewerBlocks
        <5>6. i * BlockSize <= Len(ctx[t])
            BY <5>3, <5>4, <5>5
        <5>7. i * BlockSize \in Nat /\ Len(ctx[t]) \in Nat
            BY <2>4, <5>3, <5>4, <5>5
        <5> QED
            BY <5>6, <5>7
      <4> QED
          BY <2>3, <4>1, <4>2, <4>3
    <3>3. Pinning(entries', b) = {}
        BY <3>2
    <3>4. Cardinality(Holders(b)) = 1 /\ Cardinality(Pinning(entries', b)) = 0
        BY <3>1, <3>3, FS_Singleton, FS_EmptySet
    <3>5. refs'[b] = Cardinality(Holders(b)) + Cardinality(Pinning(entries', b))
        BY <2>5, <3>1
    <3> HIDE DEF b
    <3>6. refs'[b] = 1
        BY <3>4, <3>5
    <3> QED
        BY <3>6 DEF b
  <2>9. StampsPast'
    <3>1. clock \in Nat /\ \A p \in DOMAIN entries : entries[p].lru \in Nat
        BY <1>1 DEF KVTypeOK
    <3>2. \A p \in DOMAIN entries' : stored[p].lru <= clock + 1
        BY <1>1, <2>2, <3>1 DEF StampsPast
    <3> QED
        BY <2>2, <3>2 DEF StampsPast
  <2>10. EntriesIntact'
    <3> SUFFICES ASSUME NEW p \in DOMAIN entries'
                 PROVE  /\ Len(entries'[p].blocks) * BlockSize = Len(p)
                        /\ \A i \in 1..Len(entries'[p].blocks) :
                             data'[entries'[p].blocks[i]] = SubSeq(p, 1, i * BlockSize)
        BY DEF EntriesIntact
    <3>1. Len(entries'[p].blocks) * BlockSize = Len(p)
        BY <2>1 DEF CountsInv, EntriesAligned
    <3>2. ASSUME NEW i \in 1..Len(entries'[p].blocks)
          PROVE  data'[entries'[p].blocks[i]] = SubSeq(p, 1, i * BlockSize)
      <4>1. data'[entries'[p].blocks[i]] = data[entries'[p].blocks[i]]
        <5>1. /\ entries'[p].blocks[i] \in Blocks
              /\ entries'[p].blocks[i] \in Range(entries'[p].blocks)
            BY <2>5, LenProperties, ElementOfSeq DEF Range
        <5> QED
            BY <2>6, <5>1 DEF Pinning
      <4>2. CASE p \in DOMAIN entries /\ entries'[p].blocks = entries[p].blocks
          BY <1>1, <4>1, <4>2 DEF EntriesIntact
      <4>3. ASSUME NEW k \in Nat, k <= Len(table[s]), k * BlockSize \in Nat,
                   k * BlockSize <= Len(ctx[s]),
                   p = SubSeq(ctx[s], 1, k * BlockSize), Len(entries'[p].blocks) = k,
                   \A m \in 1..k : entries'[p].blocks[m] = table[s][m]
            PROVE  data'[entries'[p].blocks[i]] = SubSeq(p, 1, i * BlockSize)
        <5>1. i \in Nat /\ 1 <= i /\ i <= k /\ entries'[p].blocks[i] = table[s][i]
            BY <4>3
        <5>2. /\ i * BlockSize \in Nat /\ i * BlockSize <= k * BlockSize
              /\ i * BlockSize <= Len(ctx[s])
          <6>1. i \in 0..k /\ Len(ctx[s]) \in Nat /\ k * BlockSize <= Len(ctx[s])
              BY <2>4, <4>3, <5>1
          <6> QED
              BY <6>1, FewerBlocks
        <5>3. i * BlockSize <= Len(ctx[s])
            BY <5>2
        <5>4. i \in 1..BlocksFor(Len(ctx[s]))
          <6>1. i <= BlocksFor(Len(ctx[s])) /\ BlocksFor(Len(ctx[s])) \in Nat
              BY <2>4, <5>1, <5>3, WholeIndex, BlocksForType
          <6> QED
              BY <5>1, <6>1
        <5>5. data[table[s][i]] = SubSeq(ctx[s], 1, i * BlockSize)
          <6>1. i * BlockSize = IF i * BlockSize < Len(ctx[s]) THEN i * BlockSize ELSE Len(ctx[s])
              BY <2>4, <5>2, <5>3
          <6> QED
              BY <1>1, <5>4, <6>1 DEF SlotsIntact
        <5>6. SubSeq(p, 1, i * BlockSize) = SubSeq(ctx[s], 1, i * BlockSize)
          <6>1. k * BlockSize \in 0..Len(ctx[s]) /\ i * BlockSize \in 0..(k * BlockSize)
              BY <2>4, <4>3, <5>2
          <6>2. SubSeq(SubSeq(ctx[s], 1, k * BlockSize), 1, i * BlockSize) = SubSeq(ctx[s], 1, i * BlockSize)
              BY <2>4, <6>1, PrefixOfPrefix
          <6> QED
              BY <4>3, <6>2
        <5> QED
            BY <4>1, <5>1, <5>5, <5>6
      <4> QED
          BY <2>3, <4>2, <4>3
    <3> QED
        BY <3>1, <3>2
  <2>11. SlotsIntact'
    <3>1. CountsInv' => \A t \in Slots : HasCapacity(t, Len(ctx[t]))'
        BY DEF CountsInv, ContextsCovered
    <3> SUFFICES ASSUME NEW t \in Slots, NEW i \in 1..BlocksFor(Len(ctx[t]))
                 PROVE  data'[table[t][i]] =
                          SubSeq(ctx[t], 1, IF i * BlockSize < Len(ctx[t])
                                               THEN i * BlockSize ELSE Len(ctx[t]))
        BY <2>1, <2>2, <3>1 DEF SlotsIntact, BlocksFor
    <3>2. i \in DOMAIN table[t]
      <4>1. BlocksFor(Len(ctx[t])) <= Len(table[t]) /\ BlocksFor(Len(ctx[t])) \in Nat
        <5>1. Len(ctx[t]) \in Nat
            BY <1>1, LenProperties DEF KVTypeOK
        <5> QED
            BY <1>1, <5>1, BlocksForType DEF SlotsIntact, HasCapacity
      <4> QED
          BY <2>4, <4>1
    <3>3. table[t][i] \in Blocks /\ t \in Holders(table[t][i])
        BY <2>4, <3>2, ElementOfSeq DEF Holders, Range
    <3>4. data'[table[t][i]] = data[table[t][i]]
        BY <2>6, <3>3
    <3> QED
        BY <1>1, <3>4 DEF SlotsIntact
  <2> QED
      BY <2>1, <2>7, <2>8, <2>9, <2>10, <2>11 DEF CacheInv, KVInv, CacheIntact
<1> QED
    BY <1>2, <1>3

-----------------------------------------------------------------------------
(* Eviction order *)

\* The walk of _enforce_prefix_budget stops somewhere in the order of age: what
\* is younger than a survivor survives.
LEMMA YoungerSurvives ==
  ASSUME NEW es, \A p \in DOMAIN es : /\ p \in Seq(Tokens)
                                      /\ es[p] \in [blocks : Seq(Blocks), lru : Nat],
         NEW q \in Survivors(es), NEW p \in DOMAIN es, Older(es, q, p)
  PROVE  p \in Survivors(es)
<1> DEFINE above(r) == {o \in DOMAIN es : ~ Older(es, o, r)}
<1>1. q \in DOMAIN es /\ Cardinality(PinnedBy(es, above(q))) <= MaxPrefixBlocks
    BY DEF Survivors
<1>2. ASSUME NEW o \in DOMAIN es, Older(es, o, q) PROVE Older(es, o, p)
  <2>1. /\ es[o].lru \in Nat /\ es[q].lru \in Nat /\ es[p].lru \in Nat
        /\ Len(o) \in Nat /\ Len(q) \in Nat /\ Len(p) \in Nat
      BY <1>1, LenProperties
  <2> QED
      BY <1>2, <2>1 DEF Older
<1>3. above(p) \subseteq above(q)
    BY <1>2
<1>4. PinnedBy(es, above(p)) \subseteq PinnedBy(es, above(q))
    BY <1>3 DEF PinnedBy
<1>5. PinnedBy(es, above(q)) \subseteq Blocks
  <2>1. \A o \in DOMAIN es : Range(es[o].blocks) \subseteq Blocks
      BY RangeOfSeq
  <2> QED
      BY <2>1 DEF PinnedBy
<1> HIDE DEF above
<1>6. IsFiniteSet(PinnedBy(es, above(q)))
    BY <1>5, SizesAssumption, FS_Subset
<1>7. /\ Cardinality(PinnedBy(es, above(p))) \in Nat /\ Cardinality(PinnedBy(es, above(q))) \in Nat
      /\ Cardinality(PinnedBy(es, above(p))) <= Cardinality(PinnedBy(es, above(q)))
    BY <1>4, <1>6, FS_Subset, FS_CardinalityType
<1>8. Cardinality(PinnedBy(es, above(p))) <= MaxPrefixBlocks
    BY <1>1, <1>7, SizesAssumption
<1> QED
    BY <1>8 DEF Survivors, above

\* What one store_prefix evicts: no entry goes while one it did not bump and
\* that is older stays, and none of its own boundaries goes while an entry of
\* an earlier time stays.
LEMMA StorePrefixEvicts ==
  ASSUME CacheInv, NEW s \in Slots, StorePrefix(s, ctx[s])
  PROVE  /\ \A p \in DOMAIN entries \ DOMAIN entries' :
              ~ \E q \in DOMAIN entries \cap DOMAIN entries' :
                   /\ entries'[q].lru = entries[q].lru
                   /\ entries[q].lru < entries[p].lru
         /\ (\E q \in DOMAIN entries' : entries'[q].lru < clock')
              => Boundaries(ctx[s]) \subseteq DOMAIN entries'
<1> DEFINE stored == Stored(s, ctx[s])
           kept == Survivors(stored)
<1>1. CountsInv /\ StampsPast /\ KVTypeOK
    BY DEF CacheInv, KVInv, CountsInv
<1>2. CASE Boundaries(ctx[s]) = {}
    BY <1>2 DEF StorePrefix, kvVars
<1>3. CASE Boundaries(ctx[s]) # {}
  <2>1. /\ DOMAIN entries' = kept /\ kept \subseteq DOMAIN stored
        /\ DOMAIN stored = DOMAIN entries \cup Boundaries(ctx[s])
        /\ \A p \in kept : entries'[p] = stored[p]
        /\ \A p \in DOMAIN entries :
             stored[p] = IF p \in Boundaries(ctx[s])
                           THEN [entries[p] EXCEPT !.lru = clock + 1] ELSE entries[p]
        /\ \A p \in Boundaries(ctx[s]) \ DOMAIN entries : stored[p].lru = clock + 1
        /\ clock' = clock + 1
      BY <1>3, StorePrefixEffect
  <2>2. \A p \in DOMAIN stored : /\ p \in Seq(Tokens)
                                 /\ stored[p] \in [blocks : Seq(Blocks), lru : Nat]
      BY <1>1, OwnRun, StoredFacts
  <2>3. \A q \in kept, p \in DOMAIN stored : stored[q].lru < stored[p].lru => p \in kept
      BY <2>2, YoungerSurvives DEF Older
  <2> HIDE DEF stored, kept
  <2>4. \A p \in DOMAIN entries : entries[p] \in [blocks : Seq(Blocks), lru : Nat] /\ clock \in Nat
      BY <1>1 DEF KVTypeOK
  <2>5. \A p \in Boundaries(ctx[s]) : p \in DOMAIN stored /\ stored[p].lru = clock + 1
      BY <2>1, <2>4
  <2>6. \A p \in DOMAIN entries : entries[p].lru <= stored[p].lru
      BY <1>1, <2>1, <2>4 DEF StampsPast
  <2>7. ASSUME NEW p \in DOMAIN entries \ DOMAIN entries', NEW q \in DOMAIN entries \cap DOMAIN entries',
               entries'[q].lru = entries[q].lru, entries[q].lru < entries[p].lru
        PROVE  FALSE
    <3>1. q \in kept /\ p \in DOMAIN stored /\ p \notin kept
        BY <2>1
    <3>2. stored[q].lru = entries[q].lru
        BY <2>1, <2>7, <3>1
    <3>3. stored[p].lru \in Nat /\ entries[p].lru \in Nat /\ entries[q].lru \in Nat
        BY <2>2, <2>4, <3>1
    <3>4. stored[q].lru < stored[p].lru
        BY <2>6, <2>7, <3>2, <3>3
    <3> QED
        BY <2>3, <3>1, <3>4
  <2>8. ASSUME NEW q \in DOMAIN entries', entries'[q].lru < clock'
        PROVE  Boundaries(ctx[s]) \subseteq DOMAIN entries'
    <3>1. q \in kept /\ stored[q].lru < clock + 1
        BY <2>1, <2>8
    <3> QED
        BY <2>1, <2>3, <2>5, <3>1
  <2> QED
      BY <2>7, <2>8
<1> QED
    BY <1>2, <1>3
=============================================================================
