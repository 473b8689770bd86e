------------------------- MODULE GraphedRunnerProofs -------------------------
(***************************************************************************)
(* The execution paths over captured graphs, for any number of requests,   *)
(* any pool and any buckets.  The first part is about the pool: no slot    *)
(* and no block is ever held twice, and none is missing (GraphInv).  The   *)
(* second is about what the blocks hold (ContextsIntact).  The third is     *)
(* about the side streams that replay the layers' graphs (LayersInOrder).  *)
(***************************************************************************)
EXTENDS GraphedRunner, LayerStreams, QueueLemmas

SlotIds(c) == 0..NumSlots(c) - 1
BlockIds(c) == 0..NumBlocks(c) - 1

\* Prompts of n tokens go through a prefill graph.
Graphs(c, n) == ~ (c.chunk > 0 /\ n > c.chunk) /\ NextBucket(PrefillBuckets, n) # 0

\* What the settings must grant: add_request rejects a prompt longer than the
\* window (llm_engine.py:187), the buckets used lie inside it, and where the
\* per-layer graphs are off, only one graph object asks for a scratch slot.
Fits(c) ==
  /\ c.chunk \in Nat
  /\ \A n \in c.prompts : n \in 1..Cap /\ (Graphs(c, n) => NextBucket(PrefillBuckets, n) <= Cap)
  /\ c.layers \/ c.spec \/ \A n \in c.prompts : ~ Graphs(c, n)

AllFit == \A c \in Deployments : Fits(c)

\* Every block is free or in one table, once; no table outgrows its row.
BlocksApart(c, fb, tab) ==
  /\ fb \in Seq(BlockIds(c)) /\ IsInjective(fb)
  /\ tab \in [SlotIds(c) -> Seq(BlockIds(c))]
  /\ \A s \in SlotIds(c) : /\ Len(tab[s]) <= BlocksPerSeq /\ IsInjective(tab[s])
                           /\ Range(tab[s]) \cap Range(fb) = {}
  /\ \A s, t \in SlotIds(c) : s # t => Range(tab[s]) \cap Range(tab[t]) = {}
  /\ \A b \in BlockIds(c) : b \in Range(fb) \/ \E s \in SlotIds(c) : b \in Range(tab[s])

Sound(c, p) ==
  /\ p = [fs |-> p.fs, fb |-> p.fb, tab |-> p.tab, ok |-> TRUE]
  /\ p.fs \in Seq(SlotIds(c)) /\ IsInjective(p.fs)
  /\ BlocksApart(c, p.fb, p.tab)

\* Pool p2 has the blocks of p where p has them, and maybe more.
Extends(c, p2, p) ==
  \A s \in SlotIds(c) : /\ Len(p.tab[s]) <= Len(p2.tab[s])
                        /\ \A i \in 1..Len(p.tab[s]) : p2.tab[s][i] = p.tab[s][i]

\* Slot s of pool p has room for n positions.
Covers(p, s, n) == Ceil(n, BlockSize) <= Len(p.tab[s])

\* The free list fs, the scratch slots scr and the slots "at" of the running
\* sequences R share no slot, and leave none out.
SlotsApart(c, fs, scr, R, at) ==
  /\ fs \in Seq(SlotIds(c)) /\ IsInjective(fs)
  /\ scr \in [Objects -> SlotIds(c) \cup {NoSlot}]
  /\ \A o \in Objects : scr[o] \notin Range(fs)
  /\ \A q \in R : /\ at[q] \in SlotIds(c) /\ at[q] \notin Range(fs)
                  /\ \A o \in Objects : at[q] # scr[o]
                  /\ \A r \in R : at[q] = at[r] => q = r
  /\ \A s \in SlotIds(c) : \/ s \in Range(fs)
                           \/ \E q \in R : at[q] = s
                           \/ \E o \in Objects : scr[o] = s

At(sq) == [q \in Seqs |-> sq[q].slot]

SlotsInv == SlotsApart(conf, freeSlots, scratch, Range(running), At(seq)) /\ Len(running) <= MaxSeqs

\* Which graph objects ask for a scratch slot, and which have one.
ObjectsInv ==
  /\ ~ conf.layers =>
       /\ scratch["layers"] = NoSlot
       /\ (\A n \in conf.prompts : ~ Graphs(conf, n)) => scratch["prefill"] = NoSlot
       /\ raised = No => scratch["verify"] = NoSlot
  /\ DOMAIN captured # {} => scratch["prefill"] # NoSlot

Flags == BOOLEAN

Seats(c) ==
  [state: {"waiting", "running", "done"}, slot: SlotIds(c) \cup {NoSlot}, len: 0..Cap, carry: Flags]

RunnerInv ==
  /\ conf \in Deployments
  /\ seq \in [Seqs -> Seats(conf)] /\ GraphTypeOK
  /\ BlocksApart(conf, freeBlocks, table)
  /\ SlotsInv /\ ObjectsInv
  /\ NeverStarved

-----------------------------------------------------------------------------
(* Sizes *)

LEMMA FirstNumbers ==
  ASSUME NEW n \in Nat
  PROVE  IsFiniteSet(0..n - 1) /\ Cardinality(0..n - 1) = n
<1>1. 0 \in Int /\ n - 1 \in Int
    OBVIOUS
<1>2. IsFiniteSet(0..n - 1) /\ Cardinality(0..n - 1) = IF 0 > n - 1 THEN 0 ELSE (n - 1) - 0 + 1
    BY <1>1, FS_Interval
<1>3. CASE n = 0
    BY <1>2, <1>3
<1>4. CASE n > 0
    BY <1>2, <1>4
<1> QED
    BY <1>3, <1>4

LEMMA Sizes ==
  ASSUME NEW c
  PROVE  /\ BlockSize \in Nat \ {0} /\ BlocksPerSeq \in Nat \ {0} /\ MaxSeqs \in Nat \ {0}
         /\ Cap \in Nat \ {0} /\ ExtraSlots(c) \in {1, 3}
         /\ NumSlots(c) \in Nat \ {0} /\ NumSlots(c) = MaxSeqs + ExtraSlots(c)
         /\ NumBlocks(c) \in Nat /\ NumBlocks(c) = NumSlots(c) * BlocksPerSeq
         /\ NoSlot \notin SlotIds(c) /\ NoSlot \in Int /\ SlotIds(c) \subseteq Int
<1>1. BlockSize \in Nat \ {0} /\ BlocksPerSeq \in Nat \ {0} /\ MaxSeqs \in Nat \ {0}
    BY GraphSizesAssumption
<1>2. ExtraSlots(c) \in {1, 3}
    BY DEF ExtraSlots
<1>3. NumSlots(c) \in Nat \ {0} /\ NumSlots(c) = MaxSeqs + ExtraSlots(c)
    BY <1>1, <1>2 DEF NumSlots
<1>4. NumBlocks(c) \in Nat /\ NumBlocks(c) = NumSlots(c) * BlocksPerSeq
    BY <1>1, <1>3 DEF NumBlocks
<1>5. Cap \in Nat \ {0}
    BY <1>1 DEF Cap
<1> QED
    BY <1>1, <1>2, <1>3, <1>4, <1>5 DEF SlotIds, NoSlot

\* n positions within the window need no more blocks than a table row has.
LEMMA CeilFits ==
  ASSUME NEW n \in 0..Cap
  PROVE  Ceil(n, BlockSize) \in 0..BlocksPerSeq /\ n <= Ceil(n, BlockSize) * BlockSize
<1>1. BlockSize \in Nat \ {0} /\ BlocksPerSeq \in Nat \ {0} /\ n \in Nat
    BY Sizes
<1>2. (BlocksPerSeq * BlockSize + BlockSize - 1) \div BlockSize = BlocksPerSeq
    BY <1>1
<1>3. n <= BlocksPerSeq * BlockSize
    BY Sizes DEF Cap
<1>4. n + BlockSize - 1 <= BlocksPerSeq * BlockSize + BlockSize - 1
    BY <1>1, <1>3
<1>5. /\ (n + BlockSize - 1) \div BlockSize \in Nat
      /\ (n + BlockSize - 1) \div BlockSize <= (BlocksPerSeq * BlockSize + BlockSize - 1) \div BlockSize
    BY <1>1, <1>4
<1>6. n <= ((n + BlockSize - 1) \div BlockSize) * BlockSize
    BY <1>1
<1> QED
    BY <1>2, <1>5, <1>6 DEF Ceil

\* No table can want a block that the free list does not have: the pool holds
\* a full row for every slot.
LEMMA BlockLeft ==
  ASSUME NEW c, NEW fb, NEW tab, BlocksApart(c, fb, tab), NEW s \in SlotIds(c),
         NEW k \in 0..BlocksPerSeq
  PROVE  k - Len(tab[s]) <= Len(fb)
<1> DEFINE whole == SlotIds(c) \X (1..BlocksPerSeq)
           places == whole \ {<<s, BlocksPerSeq>>}
           l == Len(tab[s])
           Lies(b, t, i) == \/ i <= Len(tab[t]) /\ tab[t][i] = b
                            \/ t = s /\ i > l /\ i - l <= Len(fb) /\ fb[i - l] = b
           h == [b \in BlockIds(c) |-> CHOOSE x \in places : Lies(b, x[1], x[2])]
<1>1. /\ BlocksPerSeq \in Nat \ {0} /\ NumSlots(c) \in Nat \ {0} /\ NumBlocks(c) \in Nat
      /\ NumBlocks(c) = NumSlots(c) * BlocksPerSeq
    BY Sizes
<1>2. /\ \A t \in SlotIds(c) : /\ tab[t] \in Seq(BlockIds(c)) /\ Len(tab[t]) \in Nat
                               /\ Len(tab[t]) <= BlocksPerSeq
      /\ fb \in Seq(BlockIds(c)) /\ Len(fb) \in Nat
    BY LenProperties DEF BlocksApart
<1>3. SUFFICES ASSUME l + Len(fb) < BlocksPerSeq PROVE FALSE
    BY <1>1, <1>2
<1>4. ASSUME NEW b \in BlockIds(c) PROVE \E x \in places : Lies(b, x[1], x[2])
  <2>1. CASE b \in Range(fb)
    <3>1. PICK i \in 1..Len(fb) : fb[i] = b
        BY <1>2, <2>1, SeqFacts
    <3>2. l + i \in 1..BlocksPerSeq /\ l + i # BlocksPerSeq /\ l + i > l /\ (l + i) - l = i
        BY <1>1, <1>2, <1>3, <3>1
    <3>3. Lies(b, s, l + i)
        BY <3>1, <3>2
    <3>4. <<s, l + i>> \in places
        BY <3>2
    <3> HIDE DEF Lies, places
    <3> QED
        BY <3>3, <3>4
  <2>2. CASE b \notin Range(fb)
    <3>1. PICK t \in SlotIds(c) : b \in Range(tab[t])
        BY <2>2 DEF BlocksApart
    <3>2. PICK i \in 1..Len(tab[t]) : tab[t][i] = b
        BY <1>2, <3>1, SeqFacts
    <3>3. i \in 1..BlocksPerSeq /\ (t = s => i # BlocksPerSeq)
        BY <1>1, <1>2, <1>3, <3>2
    <3>4. Lies(b, t, i)
        BY <3>2
    <3>5. <<t, i>> \in places
        BY <3>3
    <3> HIDE DEF Lies, places
    <3> QED
        BY <3>4, <3>5
  <2> QED
      BY <2>1, <2>2
<1>5. ASSUME NEW b1, NEW b2, NEW t \in SlotIds(c), NEW i \in 1..BlocksPerSeq, Lies(b1, t, i), Lies(b2, t, i)
      PROVE  b1 = b2
  <2>1. t = s => Len(tab[t]) = l
      OBVIOUS
  <2> QED
      BY <1>2, <1>5, <2>1
<1>6. \A b \in BlockIds(c) : h[b] \in places /\ Lies(b, h[b][1], h[b][2])
  <2> HIDE DEF Lies, places
  <2> QED
      BY <1>4
<1> HIDE DEF h
<1>7. \A x \in places : x[1] \in SlotIds(c) /\ x[2] \in 1..BlocksPerSeq
    OBVIOUS
<1>8. \A b1, b2 \in BlockIds(c) : h[b1] = h[b2] => b1 = b2
  <2> HIDE DEF Lies, places
  <2> QED
      BY <1>5, <1>6, <1>7
<1>9. h \in Injection(BlockIds(c), places)
  <2>1. \A b \in BlockIds(c) : h[b] \in places
    <3> HIDE DEF places, Lies
    <3> QED
        BY <1>6
  <2>4. h \in [BlockIds(c) -> places]
    <3> DEFINE F(b) == CHOOSE x \in places : Lies(b, x[1], x[2])
    <3>1. h = [b \in BlockIds(c) |-> F(b)]
        BY DEF h
    <3> HIDE DEF places, Lies, F
    <3>2. \A b \in BlockIds(c) : F(b) \in places
        BY <2>1, <3>1
    <3> QED
        BY <3>1, <3>2
  <2> HIDE DEF places
  <2>2. DOMAIN h = BlockIds(c)
      BY <2>4
  <2> QED
      BY <1>8, <2>4, <2>2 DEF Injection, IsInjective
<1>10. IsFiniteSet(SlotIds(c)) /\ Cardinality(SlotIds(c)) = NumSlots(c)
    BY <1>1, FirstNumbers DEF SlotIds
<1>11. IsFiniteSet(BlockIds(c)) /\ Cardinality(BlockIds(c)) = NumBlocks(c)
    BY <1>1, FirstNumbers DEF BlockIds
<1>12. IsFiniteSet(1..BlocksPerSeq) /\ Cardinality(1..BlocksPerSeq) = BlocksPerSeq
    BY <1>1, FS_Interval
<1>13. IsFiniteSet(whole) /\ Cardinality(whole) = NumBlocks(c)
  <2> DEFINE S == SlotIds(c)
             T == 1..BlocksPerSeq
  <2>1. IsFiniteSet(S) /\ IsFiniteSet(T) /\ Cardinality(S) = NumSlots(c) /\ Cardinality(T) = BlocksPerSeq
      BY <1>10, <1>12
  <2> HIDE DEF S, T
  <2>2. IsFiniteSet(S \X T) /\ Cardinality(S \X T) = Cardinality(S) * Cardinality(T)
      BY <2>1, FS_Product
  <2>3. whole = S \X T
      BY DEF S, T
  <2> HIDE DEF whole
  <2> QED
      BY <1>1, <2>1, <2>2, <2>3
<1>14. <<s, BlocksPerSeq>> \in whole
    BY <1>1
<1>15. IsFiniteSet(places) /\ Cardinality(places) = NumBlocks(c) - 1
  <2> HIDE DEF whole
  <2> QED
      BY <1>13, <1>14, FS_RemoveElement
<1>16. NumBlocks(c) <= NumBlocks(c) - 1
  <2> HIDE DEF places
  <2> QED
      BY <1>9, <1>11, <1>15, FS_Injection
<1> QED
    BY <1>1, <1>16

-----------------------------------------------------------------------------
(* The pool *)

LEMMA SoundFields ==
  ASSUME NEW c, NEW p, Sound(c, p)
  PROVE  /\ p.ok = TRUE /\ p.fs \in Seq(SlotIds(c)) /\ IsInjective(p.fs)
         /\ BlocksApart(c, p.fb, p.tab)
         /\ p.fb \in Seq(BlockIds(c)) /\ Len(p.fb) \in Nat /\ IsInjective(p.fb)
         /\ p.tab \in [SlotIds(c) -> Seq(BlockIds(c))]
         /\ \A s \in SlotIds(c) : /\ p.tab[s] \in Seq(BlockIds(c)) /\ Len(p.tab[s]) \in 0..BlocksPerSeq
                                  /\ IsInjective(p.tab[s]) /\ Range(p.tab[s]) \cap Range(p.fb) = {}
<1>1. p.ok = TRUE
  <2>1. p = [fs |-> p.fs, fb |-> p.fb, tab |-> p.tab, ok |-> TRUE]
      BY DEF Sound
  <2> QED
      BY <2>1
<1>2. BlocksApart(c, p.fb, p.tab) /\ p.fs \in Seq(SlotIds(c)) /\ IsInjective(p.fs)
    BY DEF Sound
<1>3. p.fb \in Seq(BlockIds(c)) /\ Len(p.fb) \in Nat /\ IsInjective(p.fb)
    BY <1>2, LenProperties DEF BlocksApart
<1>4. BlocksPerSeq \in Nat
    BY Sizes
<1>5. \A s \in SlotIds(c) : Len(p.tab[s]) \in 0..BlocksPerSeq
    BY <1>2, <1>4, LenProperties DEF BlocksApart
<1>6. /\ p.tab \in [SlotIds(c) -> Seq(BlockIds(c))]
      /\ \A s \in SlotIds(c) : /\ p.tab[s] \in Seq(BlockIds(c))
                               /\ IsInjective(p.tab[s]) /\ Range(p.tab[s]) \cap Range(p.fb) = {}
    BY <1>2 DEF BlocksApart
<1> QED
    BY <1>1, <1>2, <1>3, <1>5, <1>6

LEMMA ExtendsSelf ==
  ASSUME NEW c, NEW p, Sound(c, p)
  PROVE  Extends(c, p, p)
<1>1. \A s \in SlotIds(c) : Len(p.tab[s]) \in 0..BlocksPerSeq
    BY SoundFields
<1> QED
    BY <1>1 DEF Extends

LEMMA ExtendsFar ==
  ASSUME NEW c, NEW p1, NEW p2, NEW p3, Sound(c, p1), Sound(c, p2), Sound(c, p3),
         Extends(c, p2, p1), Extends(c, p3, p2)
  PROVE  /\ Extends(c, p3, p1)
         /\ \A s \in SlotIds(c), n \in 0..Cap : Covers(p2, s, n) => Covers(p3, s, n)
<1>1. \A s \in SlotIds(c) : /\ Len(p1.tab[s]) \in Nat /\ Len(p2.tab[s]) \in Nat /\ Len(p3.tab[s]) \in Nat
    BY SoundFields
<1>2. Extends(c, p3, p1)
  <2> SUFFICES ASSUME NEW s \in SlotIds(c)
               PROVE  /\ Len(p1.tab[s]) <= Len(p3.tab[s])
                      /\ \A i \in 1..Len(p1.tab[s]) : p3.tab[s][i] = p1.tab[s][i]
      BY DEF Extends
  <2>1. /\ Len(p1.tab[s]) <= Len(p2.tab[s]) /\ Len(p2.tab[s]) <= Len(p3.tab[s])
        /\ \A i \in 1..Len(p1.tab[s]) : p2.tab[s][i] = p1.tab[s][i]
        /\ \A i \in 1..Len(p2.tab[s]) : p3.tab[s][i] = p2.tab[s][i]
      BY DEF Extends
  <2> DEFINE a == Len(p1.tab[s])
             b == Len(p2.tab[s])
             d == Len(p3.tab[s])
  <2>2. a \in Nat /\ b \in Nat /\ d \in Nat /\ a <= b /\ b <= d
      BY <1>1, <2>1
  <2>3. \A i \in 1..a : p2.tab[s][i] = p1.tab[s][i]
      BY <2>1
  <2>4. \A i \in 1..b : p3.tab[s][i] = p2.tab[s][i]
      BY <2>1
  <2> HIDE DEF a, b, d
  <2>5. a <= d /\ \A i \in 1..a : i \in 1..b
      BY <2>2
  <2>6. \A i \in 1..a : p3.tab[s][i] = p1.tab[s][i]
      BY <2>3, <2>4, <2>5
  <2> QED
      BY <2>5, <2>6 DEF a, d
<1>3. ASSUME NEW s \in SlotIds(c), NEW n \in 0..Cap, Covers(p2, s, n) PROVE Covers(p3, s, n)
  <2>1. Len(p2.tab[s]) <= Len(p3.tab[s])
      BY DEF Extends
  <2>2. Ceil(n, BlockSize) \in Nat
      BY CeilFits, Sizes
  <2> QED
      BY <1>1, <1>3, <2>1, <2>2 DEF Covers
<1> QED
    BY <1>2, <1>3

\* ensure_capacity finds the blocks it wants and hands them to that slot alone.
LEMMA GrowSound ==
  ASSUME NEW c, NEW p, Sound(c, p), NEW s \in SlotIds(c), NEW n \in 0..Cap
  PROVE  /\ Sound(c, Grow(p, s, n)) /\ Extends(c, Grow(p, s, n), p) /\ Covers(Grow(p, s, n), s, n)
         /\ Grow(p, s, n).fs = p.fs
         /\ \A t \in SlotIds(c) : t # s => Grow(p, s, n).tab[t] = p.tab[t]
<1> DEFINE want == Ceil(n, BlockSize)
           missing == want - Len(p.tab[s])
           have == Len(p.fb)
<1>1. /\ p.ok = TRUE /\ p.fs \in Seq(SlotIds(c)) /\ IsInjective(p.fs)
      /\ BlocksApart(c, p.fb, p.tab)
      /\ p.fb \in Seq(BlockIds(c)) /\ Len(p.fb) \in Nat /\ IsInjective(p.fb)
      /\ p.tab \in [SlotIds(c) -> Seq(BlockIds(c))]
      /\ \A t \in SlotIds(c) : /\ p.tab[t] \in Seq(BlockIds(c)) /\ Len(p.tab[t]) \in 0..BlocksPerSeq
                               /\ IsInjective(p.tab[t]) /\ Range(p.tab[t]) \cap Range(p.fb) = {}
    BY SoundFields
<1>2. want \in 0..BlocksPerSeq /\ BlocksPerSeq \in Nat
    BY CeilFits, Sizes
<1>3. missing <= have
    BY <1>1, <1>2, BlockLeft
<1>4. missing \in Int /\ have \in Nat
    BY <1>1, <1>2
<1>5. CASE missing <= 0
  <2>1. Grow(p, s, n) = p
      BY <1>5 DEF Grow
  <2>2. Covers(p, s, n)
      BY <1>1, <1>2, <1>5 DEF Covers
  <2> QED
      BY <2>1, <2>2, ExtendsSelf
<1>6. CASE missing > 0
  <2> DEFINE front == SubSeq(p.fb, 1, have - missing)
             more == [i \in 1..missing |-> p.fb[have + 1 - i]]
             row == p.tab[s] \o more
             g == [fs |-> p.fs, fb |-> front, tab |-> [p.tab EXCEPT ![s] = row], ok |-> TRUE]
  <2>1. Grow(p, s, n) = g
    <3>1. ~ (missing <= 0 \/ ~ p.ok)
        BY <1>1, <1>4, <1>6
    <3>2. Grow(p, s, n) = [fs |-> p.fs, fb |-> front, tab |-> [p.tab EXCEPT ![s] = row], ok |-> missing = missing]
        BY <1>3, <3>1 DEF Grow
    <3>3. (missing = missing) = TRUE
        OBVIOUS
    <3> HIDE DEF missing, front, row
    <3> QED
        BY <3>2, <3>3, Zenon
  <2>2. missing \in 0..Len(p.fb) /\ missing \in Nat
      BY <1>3, <1>4, <1>6
  <2> HIDE DEF missing
  <2>3. /\ front \in Seq(BlockIds(c)) /\ more \in Seq(BlockIds(c)) /\ Len(more) = missing
        /\ Range(p.fb) = Range(front) \cup Range(more)
        /\ IsInjective(front) /\ IsInjective(more) /\ Range(front) \cap Range(more) = {}
    <3>1. front = StackLeft(p.fb, missing) /\ more = StackTop(p.fb, missing)
        BY DEF StackLeft, StackTop
    <3> HIDE DEF front, more
    <3> QED
        BY <1>1, <2>2, <3>1, PopFacts
  <2> HIDE DEF front, more
  <2>4. p.tab[s] \in Seq(BlockIds(c)) /\ Len(p.tab[s]) \in Nat
      BY <1>1
  <2>5. /\ row \in Seq(BlockIds(c)) /\ Len(row) = Len(p.tab[s]) + Len(more)
        /\ Range(row) = Range(p.tab[s]) \cup Range(more) /\ IsInjective(row)
    <3>1. Range(p.tab[s]) \cap Range(more) = {} /\ IsInjective(p.tab[s])
        BY <1>1, <2>3
    <3> QED
      <4> DEFINE old == p.tab[s]
      <4>1. /\ row = old \o more /\ old \in Seq(BlockIds(c)) /\ more \in Seq(BlockIds(c))
            /\ IsInjective(old) /\ IsInjective(more) /\ Range(old) \cap Range(more) = {}
          BY <2>3, <2>4, <3>1
      <4> HIDE DEF old, row
      <4>2. /\ row \in Seq(BlockIds(c)) /\ Len(row) = Len(old) + Len(more)
            /\ Range(row) = Range(old) \cup Range(more) /\ IsInjective(row)
          BY <4>1, ConcatFacts
      <4> QED
          BY <4>2 DEF old
  <2>6. Len(row) = want
      BY <1>2, <2>3, <2>4, <2>5 DEF missing
  <2>7. \A i \in 1..Len(p.tab[s]) : row[i] = p.tab[s][i]
    <3>1. \A i \in 1..(Len(p.tab[s]) + Len(more)) :
             row[i] = IF i <= Len(p.tab[s]) THEN p.tab[s][i] ELSE more[i - Len(p.tab[s])]
        BY <2>3, <2>4, ConcatProperties
    <3>2. \A i \in 1..Len(p.tab[s]) : i \in 1..(Len(p.tab[s]) + Len(more)) /\ i <= Len(p.tab[s])
        BY <1>6, <2>3, <2>4
    <3> QED
        BY <3>1, <3>2
  <2> HIDE DEF row
  <2> DEFINE tab2 == [p.tab EXCEPT ![s] = row]
  <2>8. /\ tab2[s] = row /\ \A t \in SlotIds(c) : t # s => tab2[t] = p.tab[t]
        /\ tab2 \in [SlotIds(c) -> Seq(BlockIds(c))]
      BY <1>1, <2>5
  <2> HIDE DEF tab2
  <2>9. BlocksApart(c, front, tab2)
    <3>1. \A t \in SlotIds(c) : /\ Len(tab2[t]) <= BlocksPerSeq /\ IsInjective(tab2[t])
                                /\ Range(tab2[t]) \cap Range(front) = {}
      <4> SUFFICES ASSUME NEW t \in SlotIds(c)
                   PROVE  /\ Len(tab2[t]) <= BlocksPerSeq /\ IsInjective(tab2[t])
                          /\ Range(tab2[t]) \cap Range(front) = {}
          OBVIOUS
      <4>1. CASE t = s
          BY <1>1, <1>2, <2>3, <2>5, <2>6, <2>8, <4>1
      <4>2. CASE t # s
          BY <1>1, <2>3, <2>8, <4>2
      <4> QED
          BY <4>1, <4>2
    <3>2. ASSUME NEW t \in SlotIds(c), NEW u \in SlotIds(c), t # u
          PROVE  Range(tab2[t]) \cap Range(tab2[u]) = {}
      <4>1. Range(p.tab[t]) \cap Range(p.tab[u]) = {}
          BY <1>1, <3>2 DEF BlocksApart
      <4>2. Range(more) \cap Range(p.tab[t]) = {} /\ Range(more) \cap Range(p.tab[u]) = {}
          BY <1>1, <2>3
      <4>3. CASE t = s
          BY <2>5, <2>8, <3>2, <4>1, <4>2, <4>3
      <4>4. CASE u = s
          BY <2>5, <2>8, <3>2, <4>1, <4>2, <4>4
      <4>5. CASE t # s /\ u # s
          BY <2>8, <4>1, <4>5
      <4> QED
          BY <4>3, <4>4, <4>5
    <3>3. ASSUME NEW b \in BlockIds(c)
          PROVE  b \in Range(front) \/ \E t \in SlotIds(c) : b \in Range(tab2[t])
      <4>1. b \in Range(p.fb) \/ \E t \in SlotIds(c) : b \in Range(p.tab[t])
          BY <1>1 DEF BlocksApart
      <4>2. b \in Range(more) => b \in Range(tab2[s])
          BY <2>5, <2>8
      <4>3. \A t \in SlotIds(c) : b \in Range(p.tab[t]) => b \in Range(tab2[t])
          BY <2>5, <2>8
      <4> QED
          BY <2>3, <4>1, <4>2, <4>3
    <3> QED
        BY <2>3, <2>8, <3>1, <3>2, <3>3 DEF BlocksApart
  <2>10. g.fs = p.fs /\ g.fb = front /\ g.tab = tab2 /\ g = [fs |-> g.fs, fb |-> g.fb, tab |-> g.tab, ok |-> TRUE]
      BY DEF tab2
  <2> HIDE DEF g
  <2>11. Sound(c, g)
      BY <1>1, <2>9, <2>10 DEF Sound
  <2>12. Extends(c, g, p)
    <3> SUFFICES ASSUME NEW t \in SlotIds(c)
                 PROVE  /\ Len(p.tab[t]) <= Len(g.tab[t])
                        /\ \A i \in 1..Len(p.tab[t]) : g.tab[t][i] = p.tab[t][i]
        BY DEF Extends
    <3>1. CASE t = s
      <4>1. Len(p.tab[s]) <= Len(row)
          BY <2>2, <2>3, <2>4, <2>5
      <4> QED
          BY <2>7, <2>8, <2>10, <3>1, <4>1
    <3>2. CASE t # s
        BY <1>1, <2>8, <2>10, <3>2
    <3> QED
        BY <3>1, <3>2
  <2>13. Covers(g, s, n)
      BY <1>2, <2>6, <2>8, <2>10 DEF Covers
  <2> QED
      BY <2>1, <2>8, <2>10, <2>11, <2>12, <2>13
<1> QED
    BY <1>4, <1>5, <1>6

LEMMA PoolRecord ==
  ASSUME NEW c, NEW p, Sound(c, p)
  PROVE  p \in [fs: Seq(SlotIds(c)), fb: Seq(BlockIds(c)), tab: [SlotIds(c) -> Seq(BlockIds(c))], ok: {TRUE}]
<1> DEFINE F == Seq(SlotIds(c))
           B == Seq(BlockIds(c))
           T == [SlotIds(c) -> Seq(BlockIds(c))]
           a == p.fs
           b == p.fb
           t == p.tab
<1>1. p = [fs |-> a, fb |-> b, tab |-> t, ok |-> TRUE] /\ a \in F /\ b \in B /\ t \in T
    BY SoundFields DEF Sound
<1> HIDE DEF F, B, T, a, b, t
<1>2. [fs |-> a, fb |-> b, tab |-> t, ok |-> TRUE] \in [fs: F, fb: B, tab: T, ok: {TRUE}]
    BY <1>1
<1>3. p \in [fs: F, fb: B, tab: T, ok: {TRUE}]
    BY <1>1, <1>2, Zenon
<1> QED
    BY <1>3 DEF F, B, T

\* ensure_capacity over a batch.
LEMMA GrowAllSound ==
  ASSUME NEW c, NEW p, Sound(c, p), NEW pairs \in Seq(SlotIds(c) \X (0..Cap))
  PROVE  /\ Sound(c, GrowAll(p, pairs)) /\ Extends(c, GrowAll(p, pairs), p)
         /\ GrowAll(p, pairs).fs = p.fs
         /\ \A i \in 1..Len(pairs) : Covers(GrowAll(p, pairs), pairs[i][1], pairs[i][2])
<1> DEFINE n == Len(pairs)
           All == [fs: Seq(SlotIds(c)), fb: Seq(BlockIds(c)), tab: [SlotIds(c) -> Seq(BlockIds(c))], ok: {TRUE}]
           S == {x \in All : Sound(c, x) /\ x.fs = p.fs}
           next(i, x) == Grow(x, pairs[i][1], pairs[i][2])
           f == [i \in 1..n |-> [x \in S |-> next(i, x)]]
<1>1. n \in Nat /\ \A i \in 1..n : pairs[i][1] \in SlotIds(c) /\ pairs[i][2] \in 0..Cap
  <2>1. n \in Nat /\ \A i \in 1..n : pairs[i] \in SlotIds(c) \X (0..Cap)
      BY LenProperties
  <2> QED
      BY <2>1
<1>2. ASSUME NEW x, Sound(c, x), x.fs = p.fs PROVE x \in S
  <2>1. x \in All
      BY <1>2, PoolRecord
  <2> HIDE DEF All
  <2> QED
      BY <1>2, <2>1
<1> HIDE DEF All
<1>3. \A x \in S : Sound(c, x) /\ x.fs = p.fs
    OBVIOUS
<1> HIDE DEF S
<1>4. ASSUME NEW x, Sound(c, x), x.fs = p.fs, NEW i \in 1..n
      PROVE  /\ Sound(c, next(i, x)) /\ next(i, x).fs = p.fs /\ Extends(c, next(i, x), x)
             /\ Covers(next(i, x), pairs[i][1], pairs[i][2])
  <2> DEFINE s == pairs[i][1]
             m == pairs[i][2]
  <2>1. s \in SlotIds(c) /\ m \in 0..Cap /\ next(i, x) = Grow(x, s, m)
      BY <1>1
  <2> HIDE DEF s, m, next
  <2>2. /\ Sound(c, Grow(x, s, m)) /\ Grow(x, s, m).fs = x.fs /\ Extends(c, Grow(x, s, m), x)
        /\ Covers(Grow(x, s, m), s, m)
      BY <1>4, <2>1, GrowSound
  <2> QED
      BY <1>4, <2>1, <2>2 DEF s, m
<1> HIDE DEF n
<1>5. f \in [1..n -> [S -> S]]
  <2>1. \A i \in 1..n : \A x \in S : next(i, x) \in S
      BY <1>2, <1>3, <1>4
  <2> HIDE DEF next
  <2> QED
      BY <2>1
<1>6. p \in S
    BY <1>2
<1>7. PICK w : w \in [0..n -> S] /\ w[0] = p /\ \A i \in 1..n : w[i] = f[i][w[i - 1]]
  <2>1. n \in Nat
      BY <1>1
  <2> HIDE DEF f
  <2>2. \E w : Iterated(w, n, S, p, f)
      BY <2>1, <1>5, <1>6, Iterates
  <2> QED
      BY <2>2 DEF Iterated
<1> DEFINE body(g) == [i \in 0..n |-> IF i = 0 THEN p ELSE Grow(g[i - 1], pairs[i][1], pairs[i][2])]
           run == CHOOSE g : g = body(g)
<1>8. w = body(w)
  <2>1. \A i \in 1..n : w[i - 1] \in S /\ f[i][w[i - 1]] = next(i, w[i - 1])
    <3>1. \A i \in 1..n : i - 1 \in 0..n
        BY <1>1
    <3>2. \A i \in 1..n : w[i - 1] \in S
        BY <1>7, <3>1
    <3> HIDE DEF next
    <3> QED
        BY <3>2
  <2>2. \A i \in 0..n : w[i] = IF i = 0 THEN p ELSE next(i, w[i - 1])
    <3>1. \A i \in 0..n : i # 0 => i \in 1..n
        BY <1>1
    <3>2. \A i \in 1..n : w[i] = next(i, w[i - 1])
        BY <1>7, <2>1
    <3> HIDE DEF next
    <3> QED
        BY <1>7, <3>1, <3>2
  <2> QED
      BY <1>7, <2>2
<1>9. run = body(run)
  <2>1. \E g : g = body(g)
      BY <1>8
  <2> QED
      BY <2>1
<1>10. GrowAll(p, pairs) = run[n]
    BY DEF GrowAll, n
<1> HIDE DEF run
<1>11. run[0] = p /\ \A i \in 1..n : run[i] = next(i, run[i - 1])
  <2>1. \A i \in 0..n : body(run)[i] = IF i = 0 THEN p ELSE Grow(run[i - 1], pairs[i][1], pairs[i][2])
      OBVIOUS
  <2>2. \A i \in 0..n : run[i] = IF i = 0 THEN p ELSE Grow(run[i - 1], pairs[i][1], pairs[i][2])
      BY <1>9, <2>1
  <2>3. 0 \in 0..n /\ \A i \in 1..n : i \in 0..n /\ i # 0
      BY <1>1
  <2> QED
      BY <2>2, <2>3
<1> DEFINE OK(i) == /\ Sound(c, run[i]) /\ run[i].fs = p.fs /\ Extends(c, run[i], p)
                    /\ \A j \in 1..i : Covers(run[i], pairs[j][1], pairs[j][2])
           good == {i \in 0..n : OK(i)}
<1>12. 0 \in good
    BY <1>1, <1>11, ExtendsSelf
<1>13. ASSUME NEW i \in 1..n, i - 1 \in good PROVE i \in good
  <2>1. OK(i - 1)
      BY <1>13
  <2>2. /\ Sound(c, run[i]) /\ run[i].fs = p.fs /\ Extends(c, run[i], run[i - 1])
        /\ Covers(run[i], pairs[i][1], pairs[i][2])
    <3> DEFINE y == run[i - 1]
    <3>1. Sound(c, y) /\ y.fs = p.fs /\ run[i] = next(i, y)
        BY <1>11, <2>1
    <3> HIDE DEF next, y
    <3>2. /\ Sound(c, next(i, y)) /\ next(i, y).fs = p.fs /\ Extends(c, next(i, y), y)
          /\ Covers(next(i, y), pairs[i][1], pairs[i][2])
        BY <1>4, <3>1
    <3> QED
        BY <3>1, <3>2 DEF y
  <2>3. /\ Extends(c, run[i], p)
        /\ \A s \in SlotIds(c), m \in 0..Cap : Covers(run[i - 1], s, m) => Covers(run[i], s, m)
      BY <2>1, <2>2, ExtendsFar
  <2>4. ASSUME NEW j \in 1..i PROVE Covers(run[i], pairs[j][1], pairs[j][2])
    <3>1. CASE j = i
        BY <2>2, <3>1
    <3>2. CASE j # i
      <4>1. j \in 1..(i - 1) /\ j \in 1..n
          BY <1>1, <3>2
      <4> QED
          BY <1>1, <2>1, <2>3, <4>1
    <3> QED
        BY <3>1, <3>2
  <2>5. OK(i)
      BY <2>2, <2>3, <2>4
  <2> QED
      BY <2>5
<1>14. good = 0..n
  <2>1. good \in SUBSET (0..n)
      OBVIOUS
  <2> HIDE DEF good
  <2> QED
      BY <1>1, <1>12, <1>13, <2>1, StepwiseAll
<1>15. OK(n)
  <2>1. n \in good
    <3> HIDE DEF good
    <3> QED
        BY <1>1, <1>14
  <2> QED
      BY <2>1
<1> QED
    BY <1>10, <1>15 DEF n

\* The free list without its last element.
LEMMA LastFacts ==
  ASSUME NEW T, NEW s \in Seq(T), s # <<>>, IsInjective(s)
  PROVE  /\ Front(s) \in Seq(T) /\ IsInjective(Front(s)) /\ Len(Front(s)) = Len(s) - 1
         /\ Last(s) \in T /\ Last(s) \in Range(s) /\ Last(s) \notin Range(Front(s))
         /\ Range(s) = Range(Front(s)) \cup {Last(s)}
         /\ \A i \in 1..(Len(s) - 1) : Front(s)[i] = s[i]
<1> DEFINE k == 1
<1>1. Len(s) \in Nat /\ Len(s) # 0 /\ k \in 0..Len(s)
  <2>1. Len(s) \in Nat
      BY LenProperties
  <2>2. Len(s) # 0
      BY EmptySeq
  <2> QED
      BY <2>1, <2>2
<1>2. /\ StackLeft(s, k) \in Seq(T) /\ IsInjective(StackLeft(s, k)) /\ Len(StackLeft(s, k)) = Len(s) - k
      /\ StackTop(s, k) \in Seq(T) /\ Len(StackTop(s, k)) = k
      /\ Range(s) = Range(StackLeft(s, k)) \cup Range(StackTop(s, k))
      /\ Range(StackLeft(s, k)) \cap Range(StackTop(s, k)) = {}
  <2> HIDE DEF k
  <2>1. k \in 0..Len(s)
      BY <1>1
  <2>2. /\ StackLeft(s, k) \in Seq(T) /\ Len(StackLeft(s, k)) = Len(s) - k
        /\ StackTop(s, k) \in Seq(T) /\ Len(StackTop(s, k)) = k
        /\ Range(s) = Range(StackLeft(s, k)) \cup Range(StackTop(s, k))
      BY <2>1, PopFacts
  <2>3. IsInjective(StackLeft(s, k)) /\ Range(StackLeft(s, k)) \cap Range(StackTop(s, k)) = {}
      BY <2>1, PopFacts
  <2> QED
      BY <2>2, <2>3
<1>7. \A i \in 1..(Len(s) - k) : StackLeft(s, k)[i] = s[i]
  <2> HIDE DEF k
  <2> QED
      BY <1>1, PopFacts
<1>3. Front(s) = StackLeft(s, 1)
    BY DEF Front, StackLeft
<1>4. StackTop(s, 1) = <<Last(s)>>
  <2>1. Len(s) + 1 - 1 = Len(s)
      BY <1>1
  <2>2. StackTop(s, 1) \in Seq(T) /\ Len(StackTop(s, 1)) = 1
      BY <1>2
  <2>3. StackTop(s, 1)[1] = Last(s)
      BY <2>1 DEF StackTop, Last
  <2> QED
      BY <2>2, <2>3
<1>5. Range(StackTop(s, 1)) = {Last(s)}
  <2>1. Range(<<Last(s)>>) = {Last(s)}
      BY DEF Range
  <2> QED
      BY <1>4, <2>1
<1>6. Last(s) \in T
  <2>1. Range(s) \subseteq T
      BY SeqFacts
  <2> QED
      BY <1>2, <1>5, <2>1
<1> QED
    BY <1>2, <1>3, <1>5, <1>6, <1>7

LEMMA FrontLast ==
  ASSUME NEW T, NEW s \in Seq(T), s # <<>>
  PROVE  Append(Front(s), Last(s)) = s
<1> DEFINE n == Len(s)
           k == 1
           front == Front(s)
           last == Last(s)
<1>1. n \in Nat /\ n # 0 /\ k \in 0..n /\ k = 1 /\ \A i \in 1..n : s[i] \in T
    BY EmptySeq, LenProperties
<1>2. front \in Seq(T) /\ Len(front) = n - k /\ \A i \in 1..(n - k) : front[i] = s[i]
  <2>1. front = StackLeft(s, k)
      BY DEF Front, StackLeft
  <2> HIDE DEF k, front
  <2>2. k \in 0..Len(s)
      BY <1>1
  <2>3. /\ StackLeft(s, k) \in Seq(T) /\ Len(StackLeft(s, k)) = Len(s) - k
        /\ \A i \in 1..(Len(s) - k) : StackLeft(s, k)[i] = s[i]
      BY <2>2, PopFacts
  <2> QED
      BY <2>1, <2>3
<1>3. last \in T /\ last = s[n]
    BY <1>1 DEF Last
<1> DEFINE t == Append(front, last)
<1> HIDE DEF front, last, k, n
<1>4. /\ t \in Seq(T) /\ Len(t) = Len(front) + 1 /\ t[Len(front) + 1] = last
      /\ \A i \in 1..Len(front) : t[i] = front[i]
    BY <1>2, <1>3, AppendFacts
<1> HIDE DEF t
<1>5. Len(t) = n
    BY <1>1, <1>2, <1>4
<1>6. ASSUME NEW i \in 1..n PROVE t[i] = s[i]
  <2>1. CASE i = n
      BY <1>1, <1>2, <1>3, <1>4, <2>1
  <2>2. CASE i # n
    <3>1. i \in 1..Len(front) /\ i \in 1..(n - k)
        BY <1>1, <1>2, <2>2
    <3> QED
        BY <1>2, <1>4, <3>1
  <2> QED
      BY <2>1, <2>2
<1>7. t = s
    BY <1>4, <1>5, <1>6, SeqEqual DEF n
<1> QED
    BY <1>7 DEF t, front, last

\* alloc: the last slot of the free list is taken off it.
LEMMA TakeSlot ==
  ASSUME NEW c, NEW p, Sound(c, p), p.fs # <<>>
  PROVE  /\ Sound(c, Taken(p)) /\ Taken(p).fs = Front(p.fs) /\ Taken(p).tab = p.tab
         /\ Last(p.fs) \in SlotIds(c)
<1> DEFINE p2 == [fs |-> Front(p.fs), fb |-> p.fb, tab |-> p.tab, ok |-> p.ok]
<1>1. /\ p.ok = TRUE /\ p.fs \in Seq(SlotIds(c)) /\ IsInjective(p.fs) /\ BlocksApart(c, p.fb, p.tab)
    BY SoundFields
<1>6. Front(p.fs) \in Seq(SlotIds(c)) /\ IsInjective(Front(p.fs)) /\ Last(p.fs) \in SlotIds(c)
  <2> DEFINE fs == p.fs
  <2>1. fs \in Seq(SlotIds(c)) /\ IsInjective(fs) /\ fs # <<>>
      BY <1>1
  <2> HIDE DEF fs
  <2>2. Front(fs) \in Seq(SlotIds(c)) /\ IsInjective(Front(fs)) /\ Last(fs) \in SlotIds(c)
      BY <2>1, LastFacts
  <2> QED
      BY <2>2 DEF fs
<1>8. p2.fs = Front(p.fs) /\ p2.fb = p.fb /\ p2.tab = p.tab
      /\ p2 = [fs |-> p2.fs, fb |-> p2.fb, tab |-> p2.tab, ok |-> TRUE]
  <2>1. p2.fs = Front(p.fs) /\ p2.fb = p.fb /\ p2.tab = p.tab
      OBVIOUS
  <2>2. [fs |-> p2.fs, fb |-> p2.fb, tab |-> p2.tab, ok |-> p.ok] = p2
      BY <2>1, Zenon
  <2> QED
      BY <1>1, <2>1, <2>2, Zenon
<1> HIDE DEF p2
<1>9. Sound(c, p2)
    BY <1>1, <1>6, <1>8 DEF Sound
<1> QED
  <2>1. Taken(p) = p2
      BY DEF Taken, p2
  <2> QED
      BY <1>6, <1>8, <1>9, <2>1

\* _scratch: the object has a slot of its own afterwards, taken off the free
\* list at its first use.
LEMMA ScratchSound ==
  ASSUME NEW c, NEW p, Sound(c, p), NEW o \in Objects, NEW n \in 0..Cap,
         scratch[o] \in SlotIds(c) \cup {NoSlot}, scratch[o] = NoSlot => p.fs # <<>>
  PROVE  LET sc == Scratch(p, o, n)
         IN  /\ Sound(c, sc.pool) /\ Extends(c, sc.pool, p) /\ Covers(sc.pool, sc.slot, n)
             /\ sc.slot \in SlotIds(c)
             /\ IF scratch[o] = NoSlot THEN sc.pool.fs = Front(p.fs) /\ sc.slot = Last(p.fs)
                                       ELSE sc.pool.fs = p.fs /\ sc.slot = scratch[o]
<1> DEFINE sc == Scratch(p, o, n)
<1>1. CASE scratch[o] # NoSlot
  <2>1. sc.pool = Grow(p, scratch[o], n) /\ sc.slot = scratch[o]
      BY <1>1 DEF Scratch
  <2>2. scratch[o] \in SlotIds(c)
      BY <1>1
  <2> HIDE DEF sc
  <2>3. /\ Sound(c, sc.pool) /\ Extends(c, sc.pool, p) /\ Covers(sc.pool, sc.slot, n)
        /\ sc.pool.fs = p.fs
      BY <2>1, <2>2, GrowSound
  <2> QED
      BY <1>1, <2>1, <2>2, <2>3 DEF sc
<1>2. CASE scratch[o] = NoSlot
  <2> DEFINE t == Taken(p)
             s == Last(p.fs)
  <2>1. sc.pool = Grow(t, s, n) /\ sc.slot = s
      BY <1>2 DEF Scratch
  <2>2. Sound(c, t) /\ s \in SlotIds(c) /\ t.fs = Front(p.fs) /\ t.tab = p.tab
      BY <1>2, TakeSlot
  <2> HIDE DEF sc, t, s
  <2>3. /\ Sound(c, sc.pool) /\ Extends(c, sc.pool, t) /\ Covers(sc.pool, sc.slot, n)
        /\ sc.pool.fs = t.fs
      BY <2>1, <2>2, GrowSound
  <2>4. Extends(c, sc.pool, p)
      BY <2>2, <2>3 DEF Extends
  <2> QED
      BY <1>2, <2>1, <2>2, <2>3, <2>4 DEF sc, s
<1> QED
    BY <1>1, <1>2

\* free: the slot and its blocks go back to the end of the lists.
LEMMA ReleasedSound ==
  ASSUME NEW c, NEW p, Sound(c, p), NEW s \in SlotIds(c), s \notin Range(p.fs)
  PROVE  Sound(c, Released(p, s)) /\ Released(p, s).fs = Append(p.fs, s)
<1> DEFINE fs2 == Append(p.fs, s)
           fb2 == p.fb \o p.tab[s]
           tab2 == [p.tab EXCEPT ![s] = <<>>]
           p2 == [fs |-> fs2, fb |-> fb2, tab |-> tab2, ok |-> TRUE]
<1>1. /\ p.ok = TRUE /\ p.fs \in Seq(SlotIds(c)) /\ IsInjective(p.fs)
      /\ BlocksApart(c, p.fb, p.tab)
      /\ p.fb \in Seq(BlockIds(c)) /\ Len(p.fb) \in Nat /\ IsInjective(p.fb)
      /\ p.tab \in [SlotIds(c) -> Seq(BlockIds(c))]
      /\ \A t \in SlotIds(c) : /\ p.tab[t] \in Seq(BlockIds(c)) /\ Len(p.tab[t]) \in 0..BlocksPerSeq
                               /\ IsInjective(p.tab[t]) /\ Range(p.tab[t]) \cap Range(p.fb) = {}
    BY SoundFields
<1>2. Released(p, s) = p2
    BY <1>1 DEF Released
<1>3. /\ p2.fs = fs2 /\ p2.fb = fb2 /\ p2.tab = tab2
      /\ p2 = [fs |-> p2.fs, fb |-> p2.fb, tab |-> p2.tab, ok |-> TRUE]
    OBVIOUS
<1>4. fs2 \in Seq(SlotIds(c)) /\ IsInjective(fs2)
    BY <1>1, AppendFacts
<1>5. fb2 \in Seq(BlockIds(c)) /\ Range(fb2) = Range(p.fb) \cup Range(p.tab[s]) /\ IsInjective(fb2)
  <2> DEFINE old == p.tab[s]
             fb == p.fb
  <2>1. /\ fb2 = fb \o old /\ old \in Seq(BlockIds(c)) /\ fb \in Seq(BlockIds(c))
        /\ IsInjective(old) /\ IsInjective(fb) /\ Range(fb) \cap Range(old) = {}
      BY <1>1
  <2> HIDE DEF old, fb2, fb
  <2>2. fb2 \in Seq(BlockIds(c)) /\ Range(fb2) = Range(fb) \cup Range(old) /\ IsInjective(fb2)
      BY <2>1, ConcatFacts
  <2> QED
      BY <2>2 DEF old, fb
<1>6. /\ tab2 \in [SlotIds(c) -> Seq(BlockIds(c))]
      /\ tab2[s] = <<>> /\ \A t \in SlotIds(c) : t # s => tab2[t] = p.tab[t]
    BY <1>1
<1>7. Range(<<>>) = {} /\ IsInjective(<<>>) /\ Len(<<>>) = 0
    BY DEF Range, IsInjective
<1> HIDE DEF fs2, fb2, tab2, p2
<1>8. BlocksApart(c, fb2, tab2)
  <2>1. ASSUME NEW t \in SlotIds(c)
        PROVE  /\ Len(tab2[t]) <= BlocksPerSeq /\ IsInjective(tab2[t])
               /\ Range(tab2[t]) \cap Range(fb2) = {}
    <3>1. CASE t = s
        BY <1>6, <1>7, <3>1, Sizes
    <3>2. CASE t # s
      <4>1. Range(p.tab[t]) \cap Range(p.tab[s]) = {}
          BY <1>1, <3>2 DEF BlocksApart
      <4>2. Range(p.tab[t]) \cap Range(fb2) = {}
          BY <1>1, <1>5, <4>1
      <4>3. Len(p.tab[t]) <= BlocksPerSeq
          BY <1>1, Sizes
      <4> QED
          BY <1>1, <1>6, <3>2, <4>2, <4>3
    <3> QED
        BY <3>1, <3>2
  <2>2. ASSUME NEW t \in SlotIds(c), NEW u \in SlotIds(c), t # u
        PROVE  Range(tab2[t]) \cap Range(tab2[u]) = {}
    <3>1. Range(p.tab[t]) \cap Range(p.tab[u]) = {}
        BY <1>1, <2>2 DEF BlocksApart
    <3> QED
        BY <1>6, <1>7, <2>2, <3>1
  <2>3. ASSUME NEW b \in BlockIds(c)
        PROVE  b \in Range(fb2) \/ \E t \in SlotIds(c) : b \in Range(tab2[t])
    <3>1. b \in Range(p.fb) \/ \E t \in SlotIds(c) : b \in Range(p.tab[t])
        BY <1>1 DEF BlocksApart
    <3>2. \A t \in SlotIds(c) : b \in Range(p.tab[t]) => t = s \/ b \in Range(tab2[t])
        BY <1>6
    <3> QED
        BY <1>5, <3>1, <3>2
  <2> QED
      BY <1>5, <1>6, <2>1, <2>2, <2>3 DEF BlocksApart
<1>9. Sound(c, p2)
    BY <1>3, <1>4, <1>8 DEF Sound
<1> QED
    BY <1>2, <1>3, <1>9 DEF fs2

-----------------------------------------------------------------------------
(* Who holds which slot *)

\* alloc: a sequence takes the last free slot.
LEMMA SeatTaken ==
  ASSUME NEW c, NEW fs, NEW scr, NEW R, NEW at, SlotsApart(c, fs, scr, R, at),
         fs # <<>>, NEW q, q \notin R, NEW at2, at2[q] = Last(fs), \A r \in R : at2[r] = at[r]
  PROVE  SlotsApart(c, Front(fs), scr, R \cup {q}, at2)
<1>1. /\ Front(fs) \in Seq(SlotIds(c)) /\ IsInjective(Front(fs))
      /\ Last(fs) \in SlotIds(c) /\ Last(fs) \notin Range(Front(fs))
      /\ Range(fs) = Range(Front(fs)) \cup {Last(fs)}
    BY LastFacts DEF SlotsApart
<1> DEFINE front == Front(fs)
           last == Last(fs)
<1> HIDE DEF front, last
<1>2. /\ front \in Seq(SlotIds(c)) /\ IsInjective(front) /\ last \in SlotIds(c) /\ last \notin Range(front)
      /\ Range(fs) = Range(front) \cup {last} /\ at2[q] = last
    BY <1>1 DEF front, last
<1>3. ASSUME NEW r \in R \cup {q}
      PROVE  /\ at2[r] \in SlotIds(c) /\ at2[r] \notin Range(front)
             /\ \A o \in Objects : at2[r] # scr[o]
             /\ \A t \in R \cup {q} : at2[r] = at2[t] => r = t
  <2>1. CASE r = q
      BY <1>2, <2>1 DEF SlotsApart
  <2>2. CASE r \in R
      BY <1>2, <2>2 DEF SlotsApart
  <2> QED
      BY <2>1, <2>2
<1>4. ASSUME NEW s \in SlotIds(c)
      PROVE  \/ s \in Range(front) \/ (\E r \in R \cup {q} : at2[r] = s) \/ \E o \in Objects : scr[o] = s
  <2>1. s \in Range(fs) \/ (\E r \in R : at[r] = s) \/ \E o \in Objects : scr[o] = s
      BY DEF SlotsApart
  <2> QED
      BY <1>2, <2>1
<1>5. \A o \in Objects : scr[o] \notin Range(front)
    BY <1>2 DEF SlotsApart
<1>6. SlotsApart(c, front, scr, R \cup {q}, at2)
  <2>1. scr \in [Objects -> SlotIds(c) \cup {NoSlot}]
      BY DEF SlotsApart
  <2> QED
      BY <1>2, <1>3, <1>4, <1>5, <2>1 DEF SlotsApart
<1> QED
    BY <1>6 DEF front

\* _scratch: a graph object takes the last free slot.
LEMMA ScratchTaken ==
  ASSUME NEW c, NEW fs, NEW scr, NEW R, NEW at, SlotsApart(c, fs, scr, R, at),
         fs # <<>>, NEW o \in Objects, scr[o] = NoSlot
  PROVE  SlotsApart(c, Front(fs), [scr EXCEPT ![o] = Last(fs)], R, at)
<1>1. /\ Front(fs) \in Seq(SlotIds(c)) /\ IsInjective(Front(fs))
      /\ Last(fs) \in SlotIds(c) /\ Last(fs) \notin Range(Front(fs))
      /\ Range(fs) = Range(Front(fs)) \cup {Last(fs)}
    BY LastFacts DEF SlotsApart
<1> DEFINE front == Front(fs)
           last == Last(fs)
           scr2 == [scr EXCEPT ![o] = last]
<1> HIDE DEF front, last
<1>2. /\ front \in Seq(SlotIds(c)) /\ IsInjective(front) /\ last \in SlotIds(c) /\ last \notin Range(front)
      /\ Range(fs) = Range(front) \cup {last}
    BY <1>1 DEF front, last
<1>3. /\ scr \in [Objects -> SlotIds(c) \cup {NoSlot}]
      /\ scr2 \in [Objects -> SlotIds(c) \cup {NoSlot}]
      /\ scr2[o] = last /\ \A u \in Objects : u # o => scr2[u] = scr[u]
    BY <1>2 DEF SlotsApart
<1> HIDE DEF scr2
<1>4. \A u \in Objects : scr2[u] \notin Range(front)
    BY <1>2, <1>3 DEF SlotsApart
<1>5. ASSUME NEW r \in R
      PROVE  /\ at[r] \in SlotIds(c) /\ at[r] \notin Range(front)
             /\ \A u \in Objects : at[r] # scr2[u]
             /\ \A t \in R : at[r] = at[t] => r = t
    BY <1>2, <1>3 DEF SlotsApart
<1>6. ASSUME NEW s \in SlotIds(c)
      PROVE  \/ s \in Range(front) \/ (\E r \in R : at[r] = s) \/ \E u \in Objects : scr2[u] = s
  <2>1. s \in Range(fs) \/ (\E r \in R : at[r] = s) \/ \E u \in Objects : scr[u] = s
      BY DEF SlotsApart
  <2>2. ASSUME NEW u \in Objects, scr[u] = s PROVE scr2[u] = s
    <3>1. u # o
        BY <2>2, Sizes
    <3> QED
        BY <1>3, <2>2, <3>1
  <2> QED
      BY <1>2, <1>3, <2>1, <2>2
<1>7. SlotsApart(c, front, scr2, R, at)
    BY <1>2, <1>3, <1>4, <1>5, <1>6 DEF SlotsApart
<1> QED
    BY <1>7 DEF front, last, scr2

\* free: the slot of a sequence goes back.
LEMMA SeatLeft ==
  ASSUME NEW c, NEW fs, NEW scr, NEW R, NEW at, SlotsApart(c, fs, scr, R, at), NEW q \in R,
         NEW R2, R2 = R \ {q}, NEW at2, \A r \in R2 : at2[r] = at[r]
  PROVE  SlotsApart(c, Append(fs, at[q]), scr, R2, at2)
<1> DEFINE back == Append(fs, at[q])
           s0 == at[q]
<1>0. fs \in Seq(SlotIds(c)) /\ IsInjective(fs) /\ s0 \in SlotIds(c) /\ s0 \notin Range(fs)
    BY DEF SlotsApart
<1>1. /\ back \in Seq(SlotIds(c)) /\ IsInjective(back)
      /\ Range(back) = Range(fs) \cup {s0}
  <2>1. back = Append(fs, s0)
      OBVIOUS
  <2> HIDE DEF back, s0
  <2> QED
      BY <1>0, <2>1, AppendFacts
<1> HIDE DEF back
<1>2. ASSUME NEW r \in R2
      PROVE  /\ at2[r] \in SlotIds(c) /\ at2[r] \notin Range(back)
             /\ \A o \in Objects : at2[r] # scr[o]
             /\ \A t \in R2 : at2[r] = at2[t] => r = t
    BY <1>1 DEF SlotsApart
<1>3. ASSUME NEW s \in SlotIds(c)
      PROVE  \/ s \in Range(back) \/ (\E r \in R2 : at2[r] = s) \/ \E o \in Objects : scr[o] = s
  <2>1. s \in Range(fs) \/ (\E r \in R : at[r] = s) \/ \E o \in Objects : scr[o] = s
      BY DEF SlotsApart
  <2> QED
      BY <1>1, <2>1
<1>4. \A o \in Objects : scr[o] \notin Range(back)
    BY <1>1 DEF SlotsApart
<1>5. SlotsApart(c, back, scr, R2, at2)
  <2>1. scr \in [Objects -> SlotIds(c) \cup {NoSlot}]
      BY DEF SlotsApart
  <2> QED
      BY <1>1, <1>2, <1>3, <1>4, <2>1 DEF SlotsApart
<1> QED
    BY <1>5 DEF back

LEMMA OtherObjects ==
  ASSUME NEW o \in Objects
  PROVE  IsFiniteSet(Objects \ {o}) /\ Cardinality(Objects \ {o}) \in 0..2
<1>1. PICK a, b : Objects \ {o} = {a} \cup {b}
  <2>1. CASE o = "layers"
    <3>1. Objects \ {o} = {"verify"} \cup {"prefill"}
        BY <2>1 DEF Objects
    <3> QED
        BY <3>1
  <2>2. CASE o = "verify"
    <3>1. Objects \ {o} = {"layers"} \cup {"prefill"}
        BY <2>2 DEF Objects
    <3> QED
        BY <3>1
  <2>3. CASE o = "prefill"
    <3>1. Objects \ {o} = {"layers"} \cup {"verify"}
        BY <2>3 DEF Objects
    <3> QED
        BY <3>1
  <2> QED
      BY <2>1, <2>2, <2>3 DEF Objects
<1>2. IsFiniteSet({a}) /\ Cardinality({a}) = 1
    BY FS_Singleton
<1>3. IsFiniteSet({a} \cup {b}) /\ Cardinality({a} \cup {b}) = IF b \in {a} THEN 1 ELSE 1 + 1
    BY <1>2, FS_AddElement
<1> QED
    BY <1>1, <1>3

\* There is a free slot for every object that may ask for one.
LEMMA SlotLeft ==
  ASSUME NEW c, NEW fs, NEW scr, NEW T, NEW run \in Seq(T), NEW at, SlotsApart(c, fs, scr, Range(run), at),
         Len(run) <= MaxSeqs, NEW o \in Objects, scr[o] = NoSlot,
         c.layers \/ \A u \in Objects : scr[u] = NoSlot
  PROVE  fs # <<>>
<1> SUFFICES ASSUME fs = <<>> PROVE FALSE
    OBVIOUS
<1> DEFINE R == Range(run)
           A == {s \in SlotIds(c) : \E q \in R : at[q] = s}
           B == SlotIds(c) \ A
           h == [s \in A |-> CHOOSE q \in R : at[q] = s]
           g == [s \in B |-> CHOOSE u \in Objects \ {o} : scr[u] = s]
<1>1. IsFiniteSet(R) /\ Cardinality(R) \in Nat /\ Cardinality(R) <= MaxSeqs
  <2>1. IsFiniteSet(R) /\ Cardinality(R) \in Nat /\ Cardinality(R) <= Len(run)
      BY RangeCount
  <2>2. Len(run) \in Nat
      BY LenProperties
  <2> HIDE DEF R
  <2> QED
      BY <2>1, <2>2, Sizes
<1>2. \A s \in B : \E u \in Objects \ {o} : scr[u] = s
  <2> SUFFICES ASSUME NEW s \in B PROVE \E u \in Objects \ {o} : scr[u] = s
      OBVIOUS
  <2>1. s \notin Range(fs)
      BY DEF Range
  <2>2. PICK u \in Objects : scr[u] = s
      BY <2>1 DEF SlotsApart
  <2>3. u # o
      BY <2>2, Sizes
  <2> QED
      BY <2>2, <2>3
<1>3. h \in Injection(A, R)
  <2>1. \A s \in A : h[s] \in R /\ at[h[s]] = s
    <3> HIDE DEF R
    <3> QED
        OBVIOUS
  <2>2. h = [s \in A |-> h[s]] /\ DOMAIN h = A
      OBVIOUS
  <2> HIDE DEF h, A, R
  <2>3. h \in [A -> R]
      BY <2>1, <2>2
  <2>4. IsInjective(h)
      BY <2>1, <2>2 DEF IsInjective
  <2> QED
      BY <2>3, <2>4 DEF Injection
<1>4. g \in Injection(B, Objects \ {o})
  <2> HIDE DEF B
  <2>1. \A s \in B : g[s] \in Objects \ {o} /\ scr[g[s]] = s
      BY <1>2
  <2>2. g = [s \in B |-> g[s]] /\ DOMAIN g = B
      OBVIOUS
  <2> HIDE DEF g
  <2>3. g \in [B -> Objects \ {o}]
      BY <2>1, <2>2
  <2>4. IsInjective(g)
      BY <2>1, <2>2 DEF IsInjective
  <2> QED
      BY <2>3, <2>4 DEF Injection
<1>5. ~ c.layers => B = {}
  <2> SUFFICES ASSUME ~ c.layers, NEW s \in B PROVE FALSE
      OBVIOUS
  <2>1. PICK u \in Objects : scr[u] = s
      BY <1>2
  <2>2. s = NoSlot
      BY <2>1
  <2> QED
      BY <2>2, Sizes
<1> HIDE DEF h, g, R
<1>6. IsFiniteSet(A) /\ Cardinality(A) <= MaxSeqs /\ Cardinality(A) \in Nat
  <2> HIDE DEF A
  <2>1. IsFiniteSet(A) /\ Cardinality(A) <= Cardinality(R)
      BY <1>1, <1>3, FS_Injection
  <2>2. Cardinality(A) \in Nat
      BY <2>1, FS_CardinalityType
  <2> QED
      BY <1>1, <2>1, <2>2, Sizes
<1>7. IsFiniteSet(B) /\ Cardinality(B) <= 2 /\ Cardinality(B) \in Nat
  <2> HIDE DEF B
  <2>1. IsFiniteSet(B) /\ Cardinality(B) <= Cardinality(Objects \ {o})
      BY <1>4, OtherObjects, FS_Injection
  <2>2. Cardinality(B) \in Nat
      BY <2>1, FS_CardinalityType
  <2>3. Cardinality(Objects \ {o}) \in 0..2
      BY OtherObjects
  <2> DEFINE m == Cardinality(Objects \ {o})
             k == Cardinality(B)
  <2>4. k \in Nat /\ k <= m /\ m \in 0..2
      BY <2>1, <2>2, <2>3
  <2> HIDE DEF k, m
  <2>5. k <= 2
      BY <2>4
  <2> QED
      BY <2>1, <2>2, <2>5 DEF k
<1>8. /\ Cardinality(A \cup B) = Cardinality(A) + Cardinality(B) - Cardinality(A \cap B)
      /\ Cardinality(A \cap B) = 0
  <2>1. A \cap B = {}
      OBVIOUS
  <2> HIDE DEF A, B
  <2> QED
      BY <1>6, <1>7, <2>1, FS_Union, FS_EmptySet
<1>9. Cardinality(A \cup B) = NumSlots(c)
  <2>1. A \cup B = 0..NumSlots(c) - 1
      BY DEF SlotIds
  <2>2. NumSlots(c) \in Nat
      BY Sizes
  <2> HIDE DEF A, B
  <2> QED
      BY <2>1, <2>2, FirstNumbers
<1> HIDE DEF A, B
<1>10. CASE c.layers
  <2>1. NumSlots(c) = MaxSeqs + 3
      BY <1>10, Sizes DEF ExtraSlots
  <2> DEFINE a == Cardinality(A)
             b == Cardinality(B)
             n == NumSlots(c)
  <2>2. a \in Nat /\ b \in Nat /\ MaxSeqs \in Nat /\ a <= MaxSeqs /\ b <= 2 /\ n = a + b /\ n = MaxSeqs + 3
      BY <1>6, <1>7, <1>8, <1>9, <2>1, Sizes
  <2> HIDE DEF a, b, n
  <2> QED
      BY <2>2
<1>11. CASE ~ c.layers
  <2>1. NumSlots(c) = MaxSeqs + 1
      BY <1>11, Sizes DEF ExtraSlots
  <2>2. Cardinality(B) = 0
      BY <1>5, <1>11, FS_EmptySet
  <2> QED
      BY <1>6, <1>8, <1>9, <2>1, <2>2, Sizes
<1> QED
    BY <1>10, <1>11

-----------------------------------------------------------------------------
(* Numbers *)

\* The least of a set of numbers, and the greatest of one that a number bounds.
LEMMA MinFacts ==
  ASSUME NEW S \in SUBSET Nat, S # {}
  PROVE  Min(S) \in S /\ \A n \in S : Min(S) <= n
<1>1. PICK m \in S : \A n \in S : m <= n
    BY LeastExists
<1> DEFINE P(x) == x \in S /\ \A y \in S : x <= y
<1>2. P(m)
    BY <1>1
<1>3. Min(S) = CHOOSE x : P(x)
    BY DEF Min
<1> HIDE DEF P
<1>4. P(Min(S))
    BY <1>2, <1>3
<1> QED
    BY <1>4 DEF P

LEMMA MaxFacts ==
  ASSUME NEW S \in SUBSET Nat, S # {}, NEW bound \in Nat, \A n \in S : n <= bound
  PROVE  Max(S) \in S /\ \A n \in S : n <= Max(S)
<1> DEFINE gaps == {e \in 0..bound : bound - e \in S}
<1>0. \A n \in S : bound - n \in gaps
    OBVIOUS
<1>1. gaps \in SUBSET Nat /\ gaps # {}
  <2>1. 0..bound \subseteq Nat /\ gaps \subseteq 0..bound
      OBVIOUS
  <2>2. PICK n : n \in S
      OBVIOUS
  <2>3. bound - n \in gaps
      BY <1>0, <2>2
  <2> HIDE DEF gaps
  <2> QED
      BY <2>1, <2>3
<1>2. PICK d \in gaps : \A e \in gaps : d <= e
  <2> HIDE DEF gaps
  <2> QED
      BY <1>1, LeastExists
<1>3. d \in 0..bound /\ bound - d \in S
    OBVIOUS
<1> DEFINE m == bound - d
<1>4. ASSUME NEW n \in S PROVE n <= m
  <2>1. d <= bound - n
      BY <1>0, <1>2
  <2> QED
      BY <1>3, <2>1
<1> DEFINE P(x) == x \in S /\ \A y \in S : x >= y
<1>5. P(m)
    BY <1>3, <1>4
<1>6. Max(S) = CHOOSE x : P(x)
    BY DEF Max
<1> HIDE DEF P
<1>7. P(Max(S))
    BY <1>5, <1>6
<1> QED
    BY <1>7 DEF P

\* The narrowest bucket that holds n.
LEMMA BucketFacts ==
  ASSUME NEW buckets \in SUBSET (Nat \ {0}), NEW n \in Nat
  PROVE  /\ NextBucket(buckets, n) \in buckets \cup {0}
         /\ NextBucket(buckets, n) # 0 => n <= NextBucket(buckets, n)
<1> DEFINE fit == {b \in buckets : n <= b}
<1>1. CASE fit = {}
    BY <1>1 DEF NextBucket
<1>2. CASE fit # {}
  <2>1. NextBucket(buckets, n) = Min(fit) /\ fit \in SUBSET Nat /\ fit \in SUBSET buckets
        /\ \A b \in fit : n <= b
      BY <1>2 DEF NextBucket
  <2> HIDE DEF fit
  <2> QED
      BY <1>2, <2>1, MinFacts
<1> QED
    BY <1>1, <1>2

\* _draft_bucket rounds up.
LEMMA DraftFacts ==
  ASSUME NEW n \in 0..MaxDraft
  PROVE  DraftBucket(n) \in Nat /\ n <= DraftBucket(n)
<1> DEFINE S == {b \in {1, 2, 4, 8, 16, 32} : n <= b /\ b < MaxDraft} \cup {MaxDraft}
<1>1. MaxDraft \in Nat
    BY GraphSizesAssumption
<1>2. S \in SUBSET Nat /\ S # {} /\ \A b \in S : n <= b
    BY <1>1
<1>3. DraftBucket(n) = Min(S)
    BY DEF DraftBucket
<1> HIDE DEF S
<1> QED
    BY <1>2, <1>3, MinFacts

-----------------------------------------------------------------------------
(* States *)

\* What the invariant says of a state, unfolded once for the steps.
LEMMA Here ==
  ASSUME RunnerInv, AllFit
  PROVE  /\ conf \in Deployments /\ Fits(conf)
         /\ seq \in [Seqs -> Seats(conf)]
         /\ running \in Seq(Seqs) /\ IsInjective(running) /\ Range(running) \subseteq Seqs
         /\ \A q \in Seqs : seq[q].state = "running" <=> q \in Range(running)
         /\ rowIdx = NoKey \/ rowIdx \in DOMAIN bufs
         /\ SlotsInv /\ ObjectsInv /\ NeverStarved
         /\ scratch \in [Objects -> SlotIds(conf) \cup {NoSlot}]
         /\ Sound(conf, Pool) /\ Pool.fs = freeSlots /\ Pool.fb = freeBlocks /\ Pool.tab = table
         /\ freeSlots \in Seq(SlotIds(conf)) /\ IsInjective(freeSlots)
         /\ \A q \in Range(running) : seq[q].slot \in SlotIds(conf) /\ seq[q].len \in 0..Cap
<1>1. /\ conf \in Deployments /\ seq \in [Seqs -> Seats(conf)] /\ GraphTypeOK
      /\ BlocksApart(conf, freeBlocks, table) /\ SlotsInv /\ ObjectsInv /\ NeverStarved
    BY DEF RunnerInv
<1>2. Fits(conf)
    BY <1>1 DEF AllFit
<1>3. /\ running \in Seq(Seqs) /\ IsInjective(running)
      /\ \A q \in Seqs : seq[q].state = "running" <=> q \in Range(running)
      /\ rowIdx = NoKey \/ rowIdx \in DOMAIN bufs
    BY <1>1 DEF GraphTypeOK
<1>4. Range(running) \subseteq Seqs
    BY <1>3, SeqFacts
<1>5. SlotsApart(conf, freeSlots, scratch, Range(running), At(seq))
    BY <1>1 DEF SlotsInv
<1>6. /\ freeSlots \in Seq(SlotIds(conf)) /\ IsInjective(freeSlots)
      /\ scratch \in [Objects -> SlotIds(conf) \cup {NoSlot}]
    BY <1>5 DEF SlotsApart
<1>7. Pool.fs = freeSlots /\ Pool.fb = freeBlocks /\ Pool.tab = table
      /\ Pool = [fs |-> Pool.fs, fb |-> Pool.fb, tab |-> Pool.tab, ok |-> TRUE]
    BY DEF Pool
<1>8. Sound(conf, Pool)
    BY <1>1, <1>6, <1>7 DEF Sound
<1>9. ASSUME NEW q \in Range(running) PROVE seq[q].slot \in SlotIds(conf) /\ seq[q].len \in 0..Cap
  <2>1. q \in Seqs
      BY <1>4
  <2>2. At(seq)[q] \in SlotIds(conf)
      BY <1>5 DEF SlotsApart
  <2>3. seq[q].len \in 0..Cap
      BY <1>1, <2>1 DEF Seats
  <2> QED
      BY <2>1, <2>2, <2>3 DEF At
<1> QED
    BY <1>1, <1>2, <1>3, <1>4, <1>6, <1>7, <1>8, <1>9

\* What a step has to establish.
LEMMA Assembled ==
  ASSUME RunnerInv, conf' = conf, NEW p, Sound(conf, p),
         freeSlots' = p.fs, freeBlocks' = p.fb, table' = p.tab, raised' \in {No, Uncapturable},
         running' \in Seq(Seqs), IsInjective(running'), seq' \in [Seqs -> Seats(conf)],
         \A q \in Seqs : seq'[q].state = "running" <=> q \in Range(running'),
         rowIdx' = NoKey \/ rowIdx' \in DOMAIN bufs',
         SlotsApart(conf, p.fs, scratch', Range(running'), At(seq')), Len(running') <= MaxSeqs,
         ObjectsInv'
  PROVE  RunnerInv'
<1>1. BlocksApart(conf, freeBlocks', table') /\ table' \in [SlotIds(conf) -> Seq(BlockIds(conf))]
    BY SoundFields
<1>2. SlotsInv'
    BY DEF SlotsInv, SlotsApart, At, SlotIds, NumSlots, ExtraSlots
<1>3. NeverStarved'
    BY DEF NeverStarved, No, Starved, Uncapturable
<1>4. GraphTypeOK'
  <2>1. \A q \in Seqs : /\ seq'[q].state \in {"waiting", "running", "done"}
                        /\ seq'[q].len \in 0..Cap
                        /\ seq'[q].slot \in DOMAIN table' \cup {NoSlot}
      BY <1>1 DEF Seats
  <2> QED
      BY <2>1 DEF GraphTypeOK
<1>5. BlocksApart(conf, freeBlocks, table)'
    BY <1>1 DEF BlocksApart, SlotIds, BlockIds, NumBlocks, NumSlots, ExtraSlots
<1>6. (seq \in [Seqs -> Seats(conf)])'
    BY DEF Seats, SlotIds, NumSlots, ExtraSlots
<1>7. conf' \in Deployments
    BY DEF RunnerInv
<1> QED
    BY <1>2, <1>3, <1>4, <1>5, <1>6, <1>7 DEF RunnerInv

\* Steps that move no slot.
LEMMA SeatsKept ==
  ASSUME RunnerInv, raised = No, conf' = conf, scratch' = scratch, running' = running,
         captured' = captured, NEW p, Sound(conf, p), p.fs = freeSlots, SetPool(p),
         seq' \in [Seqs -> Seats(conf)],
         \A q \in Seqs : seq'[q].state = seq[q].state /\ seq'[q].slot = seq[q].slot,
         rowIdx' = NoKey \/ rowIdx' \in DOMAIN bufs'
  PROVE  RunnerInv'
<1>1. /\ freeSlots' = p.fs /\ freeBlocks' = p.fb /\ table' = p.tab /\ raised' = No
    BY SoundFields DEF SetPool
<1>2. /\ running \in Seq(Seqs) /\ IsInjective(running) /\ SlotsInv /\ ObjectsInv
      /\ \A q \in Seqs : seq[q].state = "running" <=> q \in Range(running)
    BY DEF RunnerInv, GraphTypeOK
<1>3. At(seq') = At(seq)
    BY DEF At
<1>4. SlotsApart(conf, p.fs, scratch', Range(running'), At(seq')) /\ Len(running') <= MaxSeqs
    BY <1>2, <1>3 DEF SlotsInv
<1>5. ObjectsInv'
    BY <1>2 DEF ObjectsInv, Graphs
<1> QED
    BY <1>1, <1>2, <1>4, <1>5, Assembled

\* Steps in which a graph object may take its scratch slot.
LEMMA ScratchKept ==
  ASSUME RunnerInv, raised = No, conf' = conf, running' = running,
         NEW p, Sound(conf, p), freeSlots' = p.fs, freeBlocks' = p.fb, table' = p.tab,
         raised' \in {No, Uncapturable}, NEW o \in Objects, NEW s, scratch' = [scratch EXCEPT ![o] = s],
         IF scratch[o] = NoSlot THEN freeSlots # <<>> /\ p.fs = Front(freeSlots) /\ s = Last(freeSlots)
                                ELSE p.fs = freeSlots /\ s = scratch[o],
         seq' \in [Seqs -> Seats(conf)],
         \A q \in Seqs : seq'[q].state = seq[q].state /\ seq'[q].slot = seq[q].slot,
         rowIdx' = NoKey \/ rowIdx' \in DOMAIN bufs',
         ObjectsInv'
  PROVE  RunnerInv'
<1>1. /\ running \in Seq(Seqs) /\ IsInjective(running) /\ SlotsInv
      /\ \A q \in Seqs : seq[q].state = "running" <=> q \in Range(running)
    BY DEF RunnerInv, GraphTypeOK
<1>2. At(seq') = At(seq)
    BY DEF At
<1>3. SlotsApart(conf, freeSlots, scratch, Range(running), At(seq)) /\ Len(running) <= MaxSeqs
    BY <1>1 DEF SlotsInv
<1>4. SlotsApart(conf, p.fs, scratch', Range(running), At(seq))
  <2>1. CASE scratch[o] = NoSlot
    <3>1. SlotsApart(conf, Front(freeSlots), [scratch EXCEPT ![o] = Last(freeSlots)], Range(running), At(seq))
      <4> DEFINE fs == freeSlots
                 scr == scratch
                 at == At(seq)
                 R == Range(running)
      <4>1. SlotsApart(conf, fs, scr, R, at) /\ fs # <<>> /\ scr[o] = NoSlot
          BY <1>3, <2>1
      <4> HIDE DEF fs, scr, at, R
      <4>2. SlotsApart(conf, Front(fs), [scr EXCEPT ![o] = Last(fs)], R, at)
          BY <4>1, ScratchTaken
      <4> QED
          BY <4>2 DEF fs, scr, at, R
    <3> QED
        BY <2>1, <3>1
  <2>2. CASE scratch[o] # NoSlot
    <3>1. scratch' = scratch
      <4>1. scratch \in [Objects -> SlotIds(conf) \cup {NoSlot}]
          BY <1>3 DEF SlotsApart
      <4> QED
          BY <2>2, <4>1
    <3> QED
        BY <1>3, <2>2, <3>1
  <2> QED
      BY <2>1, <2>2
<1> QED
    BY <1>1, <1>2, <1>3, <1>4, Assembled

\* A sequence that grows stays inside the window.
LEMMA Longer ==
  ASSUME NEW c, NEW r \in Seats(c), NEW k \in Nat, r.len + k <= Cap
  PROVE  /\ [r EXCEPT !.len = @ + k] \in Seats(c)
         /\ [r EXCEPT !.len = @ + k].state = r.state /\ [r EXCEPT !.len = @ + k].slot = r.slot
<1>1. r.len \in 0..Cap
    BY DEF Seats
<1>2. Cap \in Nat
    BY Sizes
<1>3. r.len + k \in 0..Cap
    BY <1>1, <1>2
<1> DEFINE n == r.len + k
           r1 == [r EXCEPT !.len = n]
<1> HIDE DEF n
<1>4. r1 \in Seats(c) /\ r1.state = r.state /\ r1.slot = r.slot
    BY <1>3 DEF Seats, n
<1> QED
    BY <1>4 DEF n

Carrying(r, b) == [r EXCEPT !.carry = b]

LEMMA Carries ==
  ASSUME NEW c, NEW r \in Seats(c), NEW b \in Flags
  PROVE  /\ Carrying(r, b) \in Seats(c) /\ Carrying(r, b).state = r.state
         /\ Carrying(r, b).slot = r.slot
BY DEF Carrying, Seats

\* A step that lengthens the running sequences and sets their carry.
Lengthen(by, b) ==
  seq' = [q \in Seqs |-> IF q \in Range(running)
                           THEN [seq[q] EXCEPT !.len = @ + by[q], !.carry = b] ELSE seq[q]]

LEMMA Lengthened ==
  ASSUME RunnerInv, AllFit, NEW by, \A q \in Range(running) : by[q] \in Nat /\ seq[q].len + by[q] <= Cap,
         NEW b \in Flags, Lengthen(by, b)
  PROVE  /\ seq' \in [Seqs -> Seats(conf)]
         /\ \A q \in Seqs : seq'[q].state = seq[q].state /\ seq'[q].slot = seq[q].slot
<1>1. seq \in [Seqs -> Seats(conf)] /\ Range(running) \subseteq Seqs
    BY Here
<1>2. ASSUME NEW q \in Seqs
      PROVE  seq'[q] \in Seats(conf) /\ seq'[q].state = seq[q].state /\ seq'[q].slot = seq[q].slot
  <2>1. CASE q \in Range(running)
    <3> DEFINE r == seq[q]
               k == by[q]
    <3>1. r \in Seats(conf) /\ k \in Nat /\ r.len + k <= Cap
        BY <1>1, <2>1
    <3> DEFINE r1 == [r EXCEPT !.len = @ + k]
    <3>2. seq'[q] = Carrying(r1, b)
        BY <2>1 DEF Lengthen, Carrying
    <3> HIDE DEF r, k
    <3>3. r1 \in Seats(conf) /\ r1.state = r.state /\ r1.slot = r.slot
        BY <3>1, Longer
    <3> HIDE DEF r1
    <3>4. /\ Carrying(r1, b) \in Seats(conf)
          /\ Carrying(r1, b).state = r1.state
          /\ Carrying(r1, b).slot = r1.slot
        BY <3>3, Carries
    <3> QED
        BY <3>2, <3>3, <3>4 DEF r
  <2>2. CASE q \notin Range(running)
      BY <1>1, <2>2 DEF Lengthen
  <2> QED
      BY <2>1, <2>2
<1>3. seq' = [q \in Seqs |-> seq'[q]]
    BY DEF Lengthen
<1> QED
    BY <1>2, <1>3

\* Advance by one or more.
LEMMA Advanced ==
  ASSUME RunnerInv, AllFit, NEW by, \A q \in Range(running) : by[q] \in Nat /\ seq[q].len + by[q] <= Cap,
         Advance(by)
  PROVE  /\ seq' \in [Seqs -> Seats(conf)]
         /\ \A q \in Seqs : seq'[q].state = seq[q].state /\ seq'[q].slot = seq[q].slot
<1>1. seq \in [Seqs -> Seats(conf)] /\ Range(running) \subseteq Seqs
    BY Here
<1>2. ASSUME NEW q \in Seqs
      PROVE  seq'[q] \in Seats(conf) /\ seq'[q].state = seq[q].state /\ seq'[q].slot = seq[q].slot
  <2>1. CASE q \in Range(running)
    <3> DEFINE r == seq[q]
               k == by[q]
    <3>1. r \in Seats(conf) /\ k \in Nat /\ r.len + k <= Cap
        BY <1>1, <2>1
    <3>2. seq'[q] = [r EXCEPT !.len = @ + k]
        BY <2>1 DEF Advance
    <3> HIDE DEF r, k
    <3>4. /\ [r EXCEPT !.len = @ + k] \in Seats(conf)
          /\ [r EXCEPT !.len = @ + k].state = r.state /\ [r EXCEPT !.len = @ + k].slot = r.slot
        BY <3>1, Longer
    <3> QED
        BY <3>2, <3>4 DEF r
  <2>2. CASE q \notin Range(running)
      BY <1>1, <2>2 DEF Advance
  <2> QED
      BY <2>1, <2>2
<1>3. seq' = [q \in Seqs |-> seq'[q]]
    BY DEF Advance
<1> QED
    BY <1>2, <1>3

\* A decodable batch: every sequence can take one more position.
LEMMA LongestFacts ==
  ASSUME RunnerInv, AllFit, running # <<>>
  PROVE  /\ Longest \in Nat /\ \A q \in Range(running) : seq[q].len \in Nat /\ seq[q].len <= Longest
         /\ Range(running) # {}
<1> DEFINE S == {seq[q].len : q \in Range(running)}
<1>1. running \in Seq(Seqs) /\ \A q \in Range(running) : seq[q].len \in 0..Cap
    BY Here
<1>2. Range(running) # {}
  <2>1. Len(running) \in Nat /\ Len(running) # 0
      BY <1>1, EmptySeq, LenProperties
  <2>2. 1 \in 1..Len(running)
      BY <2>1
  <2>3. running[1] \in Range(running)
      BY <1>1, <2>2, SeqFacts
  <2> QED
      BY <2>3
<1>3. Cap \in Nat /\ 0..Cap \subseteq Nat /\ \A n \in 0..Cap : n <= Cap
    BY Sizes
<1>4. S # {} /\ S \in SUBSET Nat /\ \A n \in S : n <= Cap
    BY <1>1, <1>2, <1>3
<1>5. Longest = Max(S)
    BY DEF Longest
<1>6. \A q \in Range(running) : seq[q].len \in S
    OBVIOUS
<1> HIDE DEF S
<1>7. Max(S) \in S /\ \A n \in S : n <= Max(S)
    BY <1>3, <1>4, MaxFacts
<1> QED
    BY <1>2, <1>4, <1>5, <1>6, <1>7

\* What a batch asks of the pool.
LEMMA NeedsFacts ==
  ASSUME RunnerInv, AllFit, NEW shift \in Nat, \A q \in Range(running) : seq[q].len + shift <= Cap
  PROVE  /\ Needs(shift) \in Seq(SlotIds(conf) \X (0..Cap)) /\ Len(Needs(shift)) = Len(running)
         /\ \A i \in 1..Len(running) : Needs(shift)[i] = <<seq[running[i]].slot, seq[running[i]].len + shift>>
<1>1. /\ running \in Seq(Seqs)
      /\ \A q \in Range(running) : seq[q].slot \in SlotIds(conf) /\ seq[q].len \in 0..Cap
    BY Here
<1>2. Len(running) \in Nat /\ DOMAIN running = 1..Len(running) /\ \A i \in 1..Len(running) : running[i] \in Range(running)
    BY <1>1, SeqFacts
<1>3. Needs(shift) = [i \in 1..Len(running) |-> <<seq[running[i]].slot, seq[running[i]].len + shift>>]
    BY <1>2 DEF Needs
<1>4. \A i \in 1..Len(running) : Needs(shift)[i] \in SlotIds(conf) \X (0..Cap)
  <2> SUFFICES ASSUME NEW i \in 1..Len(running) PROVE Needs(shift)[i] \in SlotIds(conf) \X (0..Cap)
      OBVIOUS
  <2> DEFINE q == running[i]
  <2>1. /\ q \in Range(running) /\ seq[q].slot \in SlotIds(conf) /\ seq[q].len \in 0..Cap
        /\ seq[q].len + shift <= Cap
      BY <1>1, <1>2
  <2>2. Needs(shift)[i] = <<seq[q].slot, seq[q].len + shift>>
      BY <1>3
  <2>3. Cap \in Nat
      BY Sizes
  <2> HIDE DEF q
  <2>4. seq[q].len + shift \in 0..Cap
      BY <2>1, <2>3
  <2> QED
      BY <2>1, <2>2, <2>4
<1> DEFINE s == Needs(shift)
           T == SlotIds(conf) \X (0..Cap)
           n == Len(running)
<1>5. n \in Nat /\ s = [i \in 1..n |-> s[i]] /\ \A i \in 1..n : s[i] \in T
    BY <1>2, <1>3, <1>4
<1> HIDE DEF s, T, n
<1>6. s \in Seq(T)
    BY <1>5, IsASeq
<1>7. Len(s) \in Nat /\ DOMAIN s = 1..Len(s)
    BY <1>6, LenProperties
<1>8. Len(s) = n
    BY <1>5, <1>7
<1> QED
    BY <1>3, <1>6, <1>8 DEF s, T, n

\* ensure_capacity for the whole batch.
LEMMA BatchGrown ==
  ASSUME RunnerInv, AllFit, NEW p, Sound(conf, p), NEW shift \in Nat,
         \A q \in Range(running) : seq[q].len + shift <= Cap
  PROVE  /\ Sound(conf, GrowAll(p, Needs(shift))) /\ GrowAll(p, Needs(shift)).fs = p.fs
         /\ Extends(conf, GrowAll(p, Needs(shift)), p)
         /\ \A q \in Range(running) : Covers(GrowAll(p, Needs(shift)), seq[q].slot, seq[q].len + shift)
<1> DEFINE pairs == Needs(shift)
           pool == GrowAll(p, pairs)
<1>1. /\ pairs \in Seq(SlotIds(conf) \X (0..Cap)) /\ Len(pairs) = Len(running)
      /\ \A i \in 1..Len(running) : pairs[i] = <<seq[running[i]].slot, seq[running[i]].len + shift>>
    BY NeedsFacts
<1>2. running \in Seq(Seqs)
    BY Here
<1> HIDE DEF pairs
<1>3. /\ Sound(conf, pool) /\ pool.fs = p.fs /\ Extends(conf, pool, p)
      /\ \A i \in 1..Len(pairs) : Covers(pool, pairs[i][1], pairs[i][2])
    BY <1>1, GrowAllSound
<1> HIDE DEF pool
<1>4. ASSUME NEW q \in Range(running) PROVE Covers(pool, seq[q].slot, seq[q].len + shift)
  <2>1. PICK i \in 1..Len(running) : running[i] = q
      BY <1>2, SeqFacts
  <2>2. pairs[i][1] = seq[q].slot /\ pairs[i][2] = seq[q].len + shift
      BY <1>1, <2>1
  <2>3. Covers(pool, pairs[i][1], pairs[i][2])
      BY <1>1, <1>3, <2>1
  <2> QED
      BY <2>2, <2>3
<1> QED
    BY <1>3, <1>4 DEF pool, pairs

\* Room for one more position each.
LEMMA RoomForOne ==
  ASSUME RunnerInv, AllFit, Decodable
  PROVE  /\ raised = No /\ running # <<>> /\ Longest \in Nat /\ Longest + 1 <= Cap
         /\ \A q \in Range(running) : seq[q].len \in Nat /\ seq[q].len <= Longest /\ seq[q].len + 1 <= Cap
<1>1. raised = No /\ running # <<>> /\ Longest + 1 <= Cap
    BY DEF Decodable
<1>2. Longest \in Nat /\ \A q \in Range(running) : seq[q].len \in Nat /\ seq[q].len <= Longest
    BY <1>1, LongestFacts
<1>3. Cap \in Nat
    BY Sizes
<1>4. \A q \in Range(running) : seq[q].len + 1 <= Cap
    BY <1>1, <1>2, <1>3
<1> QED
    BY <1>1, <1>2, <1>4

LEMMA DecodeEagerKeeps ==
  ASSUME RunnerInv, AllFit, DecodeEager
  PROVE  RunnerInv'
<1> DEFINE k == 1
           pool == GrowAll(Pool, Needs(k))
<1>1. /\ raised = No /\ conf' = conf /\ running' = running /\ scratch' = scratch /\ captured' = captured
      /\ SetPool(pool) /\ rowIdx' = NoKey /\ Advance(Ones(Seqs))
    BY RoomForOne DEF DecodeEager, Bind
<1>2. k \in Nat /\ \A q \in Range(running) : seq[q].len + k <= Cap
    BY RoomForOne DEF DecodeEager
<1> HIDE DEF k
<1>3. Sound(conf, Pool) /\ Pool.fs = freeSlots
    BY Here
<1>4. Sound(conf, pool) /\ pool.fs = freeSlots
    BY <1>2, <1>3, BatchGrown
<1> HIDE DEF pool
<1>5. \A q \in Range(running) : Ones(Seqs)[q] \in Nat /\ seq[q].len + Ones(Seqs)[q] <= Cap
  <2>1. \A q \in Range(running) : Ones(Seqs)[q] = k
      BY Here DEF Ones, k
  <2> QED
      BY <1>2, <2>1
<1> DEFINE ones == Ones(Seqs)
<1> HIDE DEF ones
<1>6. /\ seq' \in [Seqs -> Seats(conf)]
      /\ \A q \in Seqs : seq'[q].state = seq[q].state /\ seq'[q].slot = seq[q].slot
  <2>1. Advance(ones) /\ \A q \in Range(running) : ones[q] \in Nat /\ seq[q].len + ones[q] <= Cap
      BY <1>1, <1>5 DEF ones
  <2> QED
      BY <2>1, Advanced
<1> QED
    BY <1>1, <1>4, <1>6, SeatsKept

\* The sequences without a carried base: each once, in no other order.
LEMMA BasesFacts ==
  ASSUME RunnerInv, AllFit
  PROVE  /\ Bases \in Seq(Seqs) /\ IsInjective(Bases)
         /\ Range(Bases) = {q \in Range(running) : ~ seq[q].carry}
<1> DEFINE n == Len(running)
           S == Seq(Seqs)
           Carry(i) == seq[running[i]].carry
           next(i, x) == IF Carry(i) THEN x ELSE Append(x, running[i])
           f == [i \in 1..n |-> [x \in S |-> next(i, x)]]
           start == <<>>
<1>1. /\ n \in Nat /\ \A i \in 1..n : running[i] \in Seqs
      /\ running \in Seq(Seqs) /\ IsInjective(running) /\ DOMAIN running = 1..n
    BY Here, SeqFacts
<1> HIDE DEF n
<1>2. \A i \in 1..n : \A x \in S : next(i, x) \in S
  <2> SUFFICES ASSUME NEW i \in 1..n, NEW x \in S PROVE next(i, x) \in S
      OBVIOUS
  <2>1. Append(x, running[i]) \in S
      BY <1>1, AppendProperties
  <2> QED
      BY <2>1
<1> HIDE DEF S
<1>3. f \in [1..n -> [S -> S]] /\ start \in S
  <2>1. start \in S
      BY DEF S
  <2> HIDE DEF next
  <2> QED
      BY <1>2, <2>1
<1> HIDE DEF start
<1>4. PICK w : w \in [0..n -> S] /\ w[0] = start /\ \A i \in 1..n : w[i] = f[i][w[i - 1]]
  <2> HIDE DEF f
  <2>2. \E w : Iterated(w, n, S, start, f)
      BY <1>1, <1>3, Iterates
  <2> QED
      BY <2>2 DEF Iterated
<1> DEFINE body(g) == [i \in 0..n |-> IF i = 0 THEN start
                                      ELSE IF Carry(i) THEN g[i - 1] ELSE Append(g[i - 1], running[i])]
           run == CHOOSE g : g = body(g)
<1>5. \A i \in 1..n : i - 1 \in 0..n /\ i \in 0..n /\ i # 0
    BY <1>1
<1>6. w = body(w)
  <2>1. \A i \in 1..n : w[i] = next(i, w[i - 1])
    <3>1. \A i \in 1..n : w[i - 1] \in S
        BY <1>4, <1>5
    <3>2. \A i \in 1..n : f[i][w[i - 1]] = next(i, w[i - 1])
      <4> HIDE DEF next
      <4> QED
          BY <3>1
    <3> HIDE DEF next, f
    <3> QED
        BY <1>4, <3>2
  <2>2. \A i \in 0..n : w[i] = IF i = 0 THEN start ELSE next(i, w[i - 1])
    <3>1. \A i \in 0..n : i # 0 => i \in 1..n
        BY <1>1
    <3> HIDE DEF next
    <3> QED
        BY <1>4, <2>1, <3>1
  <2> QED
      BY <1>4, <2>2
<1>7. run = body(run)
  <2>1. \E g : g = body(g)
      BY <1>6
  <2> QED
      BY <2>1
<1>8. Bases = run[n]
    BY DEF Bases, n, start
<1> HIDE DEF run
<1>9. run[0] = start /\ \A i \in 1..n : run[i] = next(i, run[i - 1])
  <2>1. \A i \in 0..n : run[i] = IF i = 0 THEN start ELSE next(i, run[i - 1])
    <3>1. \A i \in 0..n : body(run)[i] = IF i = 0 THEN start ELSE next(i, run[i - 1])
        OBVIOUS
    <3> HIDE DEF body
    <3> QED
        BY <1>7, <3>1
  <2>2. 0 \in 0..n
      BY <1>1
  <2> HIDE DEF next
  <2> QED
      BY <1>5, <2>1, <2>2
<1> DEFINE part(i) == {q \in Range(running) : ~ seq[q].carry /\ \E j \in 1..i : running[j] = q}
           OK(i) == run[i] \in Seq(Seqs) /\ IsInjective(run[i]) /\ Range(run[i]) = part(i)
           good == {i \in 0..n : OK(i)}
<1>10. 0 \in good
  <2>1. 0 \in 0..n
      BY <1>1
  <2>2. start \in Seq(Seqs) /\ IsInjective(start) /\ Range(start) = {}
      BY DEF start, IsInjective, Range
  <2>3. part(0) = {}
      OBVIOUS
  <2> HIDE DEF part
  <2> QED
      BY <1>9, <2>1, <2>2, <2>3
<1>11. ASSUME NEW i \in 1..n, i - 1 \in good PROVE i \in good
  <2> DEFINE old == run[i - 1]
             q == running[i]
  <2>1. old \in Seq(Seqs) /\ IsInjective(old) /\ Range(old) = part(i - 1)
    <3> HIDE DEF part
    <3> QED
        BY <1>11
  <2>2. q \in Seqs /\ q \in Range(running) /\ \A j \in 1..(i - 1) : running[j] # q
    <3>1. \A j \in 1..(i - 1) : j \in 1..n /\ j # i
        BY <1>1
    <3> QED
        BY <1>1, <3>1, SeqFacts DEF IsInjective
  <2>3. \A j \in 1..i : j \in 1..(i - 1) \/ j = i
      BY <1>1
  <2>4. \A j \in 1..(i - 1) : j \in 1..i
      BY <1>1
  <2>5. i \in 1..i
      BY <1>1
  <2>6. CASE Carry(i)
    <3>1. run[i] = old
        BY <1>9, <2>6
    <3>2. part(i) = part(i - 1)
        BY <2>3, <2>4, <2>6
    <3> HIDE DEF part
    <3> QED
        BY <1>5, <2>1, <3>1, <3>2
  <2>7. CASE ~ Carry(i)
    <3>1. run[i] = Append(old, q)
        BY <1>9, <2>7
    <3>2. part(i) = part(i - 1) \cup {q}
        BY <2>2, <2>3, <2>4, <2>5, <2>7
    <3>3. q \notin part(i - 1)
        BY <2>2
    <3> HIDE DEF part, old, q
    <3>4. /\ Append(old, q) \in Seq(Seqs) /\ IsInjective(Append(old, q))
          /\ Range(Append(old, q)) = Range(old) \cup {q}
        BY <2>1, <2>2, <3>3, AppendFacts
    <3> QED
        BY <1>5, <2>1, <3>1, <3>2, <3>4
  <2> QED
      BY <2>6, <2>7
<1>12. good = 0..n
  <2>1. good \in SUBSET (0..n)
      OBVIOUS
  <2> HIDE DEF good
  <2> QED
      BY <1>1, <1>10, <1>11, <2>1, StepwiseAll
<1>13. OK(n)
  <2>1. n \in good
    <3> HIDE DEF good
    <3> QED
        BY <1>1, <1>12
  <2> HIDE DEF OK
  <2> QED
      BY <2>1
<1>14. part(n) = {q \in Range(running) : ~ seq[q].carry}
    BY <1>1, SeqFacts
<1> HIDE DEF part
<1> QED
    BY <1>8, <1>13, <1>14

\* The base tokens' forward.
LEMMA BaseGrown ==
  ASSUME RunnerInv, AllFit, Decodable
  PROVE  /\ Sound(conf, BasePool) /\ BasePool.fs = freeSlots /\ BasePool.ok = TRUE
         /\ Extends(conf, BasePool, Pool)
         /\ \A q \in Range(Bases) : Covers(BasePool, seq[q].slot, seq[q].len + 1)
<1> DEFINE qs == Bases
           T == SlotIds(conf) \X (0..Cap)
           n == Len(qs)
           pairs == [i \in DOMAIN qs |-> <<seq[qs[i]].slot, seq[qs[i]].len + 1>>]
           pool == GrowAll(Pool, pairs)
<1>1. /\ qs \in Seq(Seqs) /\ n \in Nat /\ DOMAIN qs = 1..n /\ \A i \in 1..n : qs[i] \in Range(qs)
      /\ Range(qs) \subseteq Range(running) /\ \A q \in Range(qs) : \E i \in 1..n : qs[i] = q
    BY BasesFacts, SeqFacts
<1> HIDE DEF qs, n
<1>2. ASSUME NEW q \in Range(qs) PROVE <<seq[q].slot, seq[q].len + 1>> \in T
  <2>1. q \in Range(running)
      BY <1>1
  <2>2. seq[q].slot \in SlotIds(conf) /\ seq[q].len \in Nat /\ seq[q].len + 1 <= Cap
      BY <2>1, Here, RoomForOne
  <2>3. seq[q].len + 1 \in 0..Cap
      BY <2>2, Sizes
  <2> QED
      BY <2>2, <2>3
<1> HIDE DEF T
<1>3. \A i \in 1..n : pairs[i] = <<seq[qs[i]].slot, seq[qs[i]].len + 1>> /\ pairs[i] \in T
    BY <1>1, <1>2
<1>4. pairs = [i \in 1..n |-> pairs[i]]
    BY <1>1
<1> HIDE DEF pairs
<1>5. pairs \in Seq(T)
    BY <1>1, <1>3, <1>4, IsASeq
<1>6. Len(pairs) = n
    BY <1>1, <1>4, <1>5, LenProperties
<1>7. Sound(conf, Pool) /\ Pool.fs = freeSlots
    BY Here
<1>8. /\ Sound(conf, pool) /\ pool.fs = freeSlots /\ Extends(conf, pool, Pool)
      /\ \A i \in 1..Len(pairs) : Covers(pool, pairs[i][1], pairs[i][2])
    BY <1>5, <1>7, GrowAllSound DEF T
<1> HIDE DEF pool
<1>9. \A q \in Range(qs) : Covers(pool, seq[q].slot, seq[q].len + 1)
  <2> SUFFICES ASSUME NEW i \in 1..n PROVE Covers(pool, seq[qs[i]].slot, seq[qs[i]].len + 1)
      BY <1>1
  <2>1. pairs[i][1] = seq[qs[i]].slot /\ pairs[i][2] = seq[qs[i]].len + 1
      BY <1>3
  <2>2. Covers(pool, pairs[i][1], pairs[i][2])
      BY <1>6, <1>8
  <2> QED
      BY <2>1, <2>2
<1>10. pool.ok = TRUE
    BY <1>8, SoundFields
<1>11. BasePool = pool
    BY DEF BasePool, pool, pairs, qs
<1> QED
    BY <1>8, <1>9, <1>10, <1>11 DEF qs

LEMMA SpecNoProposalKeeps ==
  ASSUME RunnerInv, AllFit, SpecNoProposal
  PROVE  RunnerInv'
<1>1. /\ Decodable /\ conf' = conf /\ running' = running /\ scratch' = scratch /\ captured' = captured
      /\ bufs' = bufs /\ SetPool(BasePool) /\ rowIdx' = IF Bases = <<>> THEN rowIdx ELSE NoKey
    BY DEF SpecNoProposal, Bind
<1>2. rowIdx' = NoKey \/ rowIdx' \in DOMAIN bufs'
    BY <1>1, Here
<1>3. Sound(conf, BasePool) /\ BasePool.fs = freeSlots
    BY <1>1, BaseGrown
<1> DEFINE ones == Ones(Seqs)
           none == FALSE
<1>4. Lengthen(ones, none)
  <2>1. \A q \in Seqs : ones[q] = 1
      BY DEF Ones
  <2>2. \A q \in Seqs : (IF q \in Range(running) THEN [seq[q] EXCEPT !.len = @ + 1, !.carry = FALSE] ELSE seq[q])
                        = IF q \in Range(running) THEN [seq[q] EXCEPT !.len = @ + ones[q], !.carry = FALSE] ELSE seq[q]
    <3> HIDE DEF ones
    <3> QED
        BY <2>1, Zenon
  <2>3. seq' = [q \in Seqs |-> IF q \in Range(running) THEN [seq[q] EXCEPT !.len = @ + 1, !.carry = FALSE] ELSE seq[q]]
      BY DEF SpecNoProposal
  <2> HIDE DEF ones
  <2>4. seq' = [q \in Seqs |-> IF q \in Range(running) THEN [seq[q] EXCEPT !.len = @ + ones[q], !.carry = FALSE] ELSE seq[q]]
      BY <2>2, <2>3, Zenon
  <2> QED
      BY <2>4 DEF Lengthen
<1>5. \A q \in Range(running) : ones[q] \in Nat /\ seq[q].len + ones[q] <= Cap
  <2>1. \A q \in Range(running) : ones[q] = 1
      BY Here DEF Ones
  <2> QED
      BY <1>1, <2>1, RoomForOne
<1>6. none \in Flags
    BY DEF Flags
<1> HIDE DEF ones, none
<1>7. /\ seq' \in [Seqs -> Seats(conf)]
      /\ \A q \in Seqs : seq'[q].state = seq[q].state /\ seq'[q].slot = seq[q].slot
    BY <1>4, <1>5, <1>6, Lengthened
<1>8. raised = No
    BY <1>1, RoomForOne
<1> DEFINE p == BasePool
<1>9. Sound(conf, p) /\ p.fs = freeSlots /\ SetPool(p)
    BY <1>1, <1>3
<1> HIDE DEF p
<1> QED
    BY <1>1, <1>2, <1>7, <1>8, <1>9, SeatsKept

-----------------------------------------------------------------------------
(* Requests that start and end *)

Seat(slot, n) == [state |-> "running", slot |-> slot, len |-> n, carry |-> FALSE]

Joined(qs, slots, ns) ==
  /\ running' \in Seq(Seqs) /\ IsInjective(running') /\ Len(running') = Len(running) + Len(qs)
  /\ Range(running') = Range(running) \cup Range(qs) /\ Range(running) \cap Range(qs) = {}
  /\ seq' \in [Seqs -> Seats(conf)]
  /\ \A q \in Seqs \ Range(qs) : seq'[q] = seq[q]
  /\ \A i \in 1..Len(qs) : seq'[qs[i]] = Seat(slots[i], ns[i])
  /\ \A q \in Seqs : seq'[q].state = "running" <=> q \in Range(running')

\* Start puts the admitted sequences at the end of running.
LEMMA Started ==
  ASSUME RunnerInv, AllFit, NEW qs \in Seq(Seqs), IsInjective(qs), Range(qs) \subseteq Waiting,
         NEW slots, NEW ns, \A i \in 1..Len(qs) : slots[i] \in SlotIds(conf) /\ ns[i] \in 0..Cap,
         Start(qs, slots, ns)
  PROVE  Joined(qs, slots, ns)
<1>1. /\ running \in Seq(Seqs) /\ IsInjective(running) /\ seq \in [Seqs -> Seats(conf)]
      /\ \A q \in Seqs : seq[q].state = "running" <=> q \in Range(running)
    BY Here
<1>2. Range(running) \cap Range(qs) = {} /\ Range(qs) \subseteq Seqs
    BY <1>1 DEF Waiting
<1>3. /\ running' \in Seq(Seqs) /\ IsInjective(running') /\ Len(running') = Len(running) + Len(qs)
      /\ Range(running') = Range(running) \cup Range(qs)
  <2>1. running' = running \o qs
      BY DEF Start
  <2> QED
      BY <1>1, <1>2, <2>1, ConcatFacts
<1>4. Len(qs) \in Nat /\ DOMAIN qs = 1..Len(qs) /\ (\A i \in 1..Len(qs) : qs[i] \in Seqs /\ qs[i] \in Range(qs))
      /\ \A q \in Range(qs) : \E i \in 1..Len(qs) : qs[i] = q
    BY SeqFacts
<1> DEFINE seat(i) == Seat(slots[i], ns[i])
<1>5. ASSUME NEW i \in 1..Len(qs) PROVE seq'[qs[i]] = seat(i) /\ seat(i) \in Seats(conf)
  <2>1. (CHOOSE j \in DOMAIN qs : qs[j] = qs[i]) = i
      BY <1>4 DEF IsInjective
  <2>2. seq'[qs[i]] = [NewSeq EXCEPT !.state = "running", !.slot = slots[i], !.len = ns[i]]
      BY <1>4, <2>1 DEF Start
  <2>3. seq'[qs[i]] = seat(i)
      BY <2>2 DEF NewSeq, Seat
  <2>4. seat(i) \in Seats(conf)
      BY DEF Seats, Flags, Seat
  <2> QED
      BY <2>3, <2>4
<1>6. \A q \in Seqs \ Range(qs) : seq'[q] = seq[q]
    BY DEF Start
<1> HIDE DEF seat
<1>7. seq' \in [Seqs -> Seats(conf)]
  <2>1. \A q \in Seqs : seq'[q] \in Seats(conf)
      BY <1>1, <1>4, <1>5, <1>6
  <2> DEFINE now(q) == IF q \in Range(qs)
                         THEN LET i == CHOOSE j \in DOMAIN qs : qs[j] = q
                              IN  [NewSeq EXCEPT !.state = "running", !.slot = slots[i], !.len = ns[i]]
                         ELSE seq[q]
  <2>2. seq' = [q \in Seqs |-> now(q)]
      BY DEF Start
  <2> HIDE DEF now
  <2>3. seq' = [q \in Seqs |-> seq'[q]]
      BY <2>2
  <2> QED
      BY <2>1, <2>3
<1>8. ASSUME NEW q \in Seqs PROVE seq'[q].state = "running" <=> q \in Range(running')
  <2>1. CASE q \in Range(qs)
    <3>1. PICK i \in 1..Len(qs) : qs[i] = q
        BY <1>4, <2>1
    <3>2. seq'[q] = seat(i)
        BY <1>5, <3>1
    <3>3. seat(i).state = "running"
        BY DEF seat, Seat
    <3> QED
        BY <1>3, <2>1, <3>2, <3>3
  <2>2. CASE q \notin Range(qs)
      BY <1>1, <1>3, <1>6, <2>2
  <2> QED
      BY <2>1, <2>2
<1> QED
    BY <1>2, <1>3, <1>5, <1>6, <1>7, <1>8 DEF seat, Joined

\* alloc takes the last free slot.
LEMMA OneAdmitted ==
  ASSUME RunnerInv, AllFit, NEW q \in Waiting, CanAdmit(<<q>>)
  PROVE  /\ Alloc(<<q>>)[1] = Last(freeSlots) /\ AfterAlloc(<<q>>) = Taken(Pool)
         /\ freeSlots # <<>> /\ raised = No /\ q \in Seqs /\ q \notin Range(running)
         /\ Len(running) + 1 <= MaxSeqs
         /\ Sound(conf, Taken(Pool)) /\ Taken(Pool).fs = Front(freeSlots)
         /\ Taken(Pool).tab = table /\ Last(freeSlots) \in SlotIds(conf)
<1>1. Len(<<q>>) = 1 /\ DOMAIN <<q>> = 1..1
    OBVIOUS
<1>2. raised = No /\ Len(running) + 1 <= MaxSeqs /\ 1 <= Len(freeSlots)
    BY <1>1 DEF CanAdmit
<1>3. /\ freeSlots \in Seq(SlotIds(conf)) /\ Sound(conf, Pool) /\ Pool.fs = freeSlots
      /\ \A r \in Seqs : seq[r].state = "running" <=> r \in Range(running)
    BY Here
<1>4. Len(freeSlots) \in Nat
    BY <1>3, LenProperties
<1>5. freeSlots # <<>>
    BY <1>2
<1>6. Alloc(<<q>>)[1] = Last(freeSlots)
  <2>1. Len(freeSlots) + 1 - 1 = Len(freeSlots)
      BY <1>4
  <2>2. Alloc(<<q>>)[1] = freeSlots[Len(freeSlots) + 1 - 1]
      BY <1>1 DEF Alloc
  <2> QED
      BY <2>1, <2>2 DEF Last
<1>7. AfterAlloc(<<q>>) = Taken(Pool)
    BY <1>1 DEF AfterAlloc, Taken, Pool, Front
<1>8. q \in Seqs /\ q \notin Range(running)
    BY <1>3 DEF Waiting
<1>9. Pool.tab = table
    BY Here
<1> DEFINE p == Pool
<1>10. Sound(conf, Taken(p)) /\ Taken(p).fs = Front(p.fs) /\ Taken(p).tab = p.tab /\ Last(p.fs) \in SlotIds(conf)
  <2>1. Sound(conf, p) /\ p.fs # <<>>
      BY <1>3, <1>5
  <2> HIDE DEF p
  <2> QED
      BY <2>1, TakeSlot
<1> QED
    BY <1>2, <1>3, <1>5, <1>6, <1>7, <1>8, <1>9, <1>10

\* A sequence starts on the slot it was given.
LEMMA OneStarted ==
  ASSUME RunnerInv, AllFit, NEW q \in Waiting, CanAdmit(<<q>>), NEW s, s = Last(freeSlots), NEW n \in 0..Cap,
         Start(<<q>>, <<s>>, <<n>>)
  PROVE  /\ running' \in Seq(Seqs) /\ IsInjective(running') /\ Len(running') <= MaxSeqs
         /\ seq' \in [Seqs -> Seats(conf)]
         /\ \A r \in Seqs : seq'[r].state = "running" <=> r \in Range(running')
         /\ SlotsApart(conf, Front(freeSlots), scratch, Range(running'), At(seq'))
<1> DEFINE qs == <<q>>
           slots == <<s>>
           ns == <<n>>
<1>1. /\ freeSlots # <<>> /\ q \in Seqs /\ q \notin Range(running) /\ Len(running) + 1 <= MaxSeqs
      /\ s \in SlotIds(conf)
    BY OneAdmitted
<1>2. /\ qs \in Seq(Seqs) /\ IsInjective(qs) /\ Range(qs) = {q} /\ Len(qs) = 1 /\ qs[1] = q
      /\ slots[1] = s /\ ns[1] = n
    BY <1>1 DEF IsInjective, Range
<1>3. \A i \in 1..Len(qs) : i = 1
    BY <1>2
<1> HIDE DEF qs, slots, ns
<1>4. \A i \in 1..Len(qs) : slots[i] \in SlotIds(conf) /\ ns[i] \in 0..Cap
    BY <1>1, <1>2, <1>3
<1>5. Start(qs, slots, ns)
    BY DEF qs, slots, ns
<1>6. Range(qs) \subseteq Waiting
    BY <1>2
<1>7. /\ running' \in Seq(Seqs) /\ IsInjective(running') /\ Len(running') = Len(running) + Len(qs)
      /\ Range(running') = Range(running) \cup Range(qs)
      /\ seq' \in [Seqs -> Seats(conf)]
      /\ \A r \in Seqs \ Range(qs) : seq'[r] = seq[r]
      /\ \A i \in 1..Len(qs) : seq'[qs[i]] = Seat(slots[i], ns[i])
      /\ \A r \in Seqs : seq'[r].state = "running" <=> r \in Range(running')
  <2>1. qs \in Seq(Seqs) /\ IsInjective(qs)
      BY <1>2
  <2>2. Joined(qs, slots, ns)
      BY <1>4, <1>5, <1>6, <2>1, Started
  <2> QED
      BY <2>2 DEF Joined
<1>8. seq'[q].slot = s
  <2>1. 1 \in 1..Len(qs)
      BY <1>2
  <2>2. seq'[q] = Seat(s, n)
      BY <1>2, <1>7, <2>1
  <2> QED
      BY <2>2 DEF Seat
<1> DEFINE R == Range(running)
           at == At(seq)
           at2 == At(seq')
           fs == freeSlots
<1>9. SlotsApart(conf, fs, scratch, R, at)
    BY Here DEF SlotsInv
<1>10. at2[q] = Last(fs) /\ \A r \in R : at2[r] = at[r]
  <2>1. \A r \in R : r \in Seqs \ Range(qs)
      BY <1>1, <1>2, Here
  <2>2. \A r \in R : at2[r] = at[r]
      BY <1>7, <2>1 DEF At
  <2> QED
      BY <1>1, <1>8, <2>2 DEF At
<1>11. fs # <<>> /\ q \notin R
    BY <1>1
<1> HIDE DEF R, at, at2, fs
<1>12. SlotsApart(conf, Front(fs), scratch, R \cup {q}, at2)
    BY <1>9, <1>10, <1>11, SeatTaken
<1>13. Len(running') <= MaxSeqs
    BY <1>1, <1>2, <1>7
<1> QED
    BY <1>2, <1>7, <1>12, <1>13 DEF R, at2, fs

LEMMA PrefillEagerKeeps ==
  ASSUME RunnerInv, AllFit, NEW q \in Waiting, NEW n \in conf.prompts, PrefillEager(q, n)
  PROVE  RunnerInv'
<1> DEFINE s == Last(freeSlots)
           t == Taken(Pool)
           p == Grow(t, s, n)
<1>1. n \in 0..Cap
    BY Here DEF Fits
<1>2. CanAdmit(<<q>>)
    BY DEF PrefillEager
<1>3. /\ Alloc(<<q>>)[1] = s /\ AfterAlloc(<<q>>) = t
      /\ Sound(conf, t) /\ t.fs = Front(freeSlots) /\ s \in SlotIds(conf)
    BY <1>2, OneAdmitted
<1>4. /\ SetPool(p) /\ Start(<<q>>, <<s>>, <<n>>) /\ rowIdx' = NoKey
      /\ conf' = conf /\ scratch' = scratch /\ captured' = captured
    BY <1>3 DEF PrefillEager, Bind
<1> HIDE DEF s, t
<1>5. Sound(conf, p) /\ p.fs = t.fs
    BY <1>1, <1>3, GrowSound
<1>6. p.ok = TRUE
    BY <1>5, SoundFields
<1> HIDE DEF p
<1>7. freeSlots' = p.fs /\ freeBlocks' = p.fb /\ table' = p.tab /\ raised' = No
    BY <1>4, <1>6 DEF SetPool
<1>8. /\ running' \in Seq(Seqs) /\ IsInjective(running') /\ Len(running') <= MaxSeqs
      /\ seq' \in [Seqs -> Seats(conf)]
      /\ \A r \in Seqs : seq'[r].state = "running" <=> r \in Range(running')
      /\ SlotsApart(conf, Front(freeSlots), scratch, Range(running'), At(seq'))
    BY <1>1, <1>2, <1>4, OneStarted DEF s
<1>9. SlotsApart(conf, p.fs, scratch', Range(running'), At(seq'))
    BY <1>3, <1>4, <1>5, <1>8
<1>10. ObjectsInv'
  <2>1. ObjectsInv /\ raised = No
      BY <1>2, Here DEF CanAdmit
  <2> QED
      BY <1>4, <1>7, <2>1 DEF ObjectsInv, Graphs
<1> QED
    BY <1>4, <1>5, <1>7, <1>8, <1>9, <1>10, Assembled

\* encode gives back the slot it took.
LEMMA EncodeKeeps ==
  ASSUME RunnerInv, AllFit, NEW q \in Waiting, NEW n \in conf.prompts, Encode(q, n)
  PROVE  RunnerInv'
<1> DEFINE s == Last(freeSlots)
           t == Taken(Pool)
           g == Grow(t, s, n)
           p == Released(g, s)
<1>1. n \in 0..Cap
    BY Here DEF Fits
<1>2. CanAdmit(<<q>>)
    BY DEF Encode
<1>3. /\ Alloc(<<q>>)[1] = s /\ AfterAlloc(<<q>>) = t
      /\ Sound(conf, t) /\ t.fs = Front(freeSlots) /\ s \in SlotIds(conf) /\ freeSlots # <<>>
    BY <1>2, OneAdmitted
<1>4. /\ SetPool(IF g.ok THEN p ELSE g) /\ rowIdx' = NoKey /\ running' = running
      /\ conf' = conf /\ scratch' = scratch /\ captured' = captured /\ raised = No
      /\ seq' = [seq EXCEPT ![q].state = "done"]
    BY <1>2, <1>3 DEF Encode, Bind, CanAdmit
<1>5. freeSlots \in Seq(SlotIds(conf)) /\ IsInjective(freeSlots)
    BY Here
<1>6. s \notin Range(t.fs) /\ Append(Front(freeSlots), s) = freeSlots
    BY <1>3, <1>5, LastFacts, FrontLast
<1> HIDE DEF s, t
<1>7. Sound(conf, g) /\ g.fs = t.fs
    BY <1>1, <1>3, GrowSound
<1>8. g.ok = TRUE
    BY <1>7, SoundFields
<1> HIDE DEF g
<1>9. Sound(conf, p) /\ p.fs = freeSlots
  <2>1. s \notin Range(g.fs)
      BY <1>6, <1>7
  <2>2. Sound(conf, p) /\ p.fs = Append(g.fs, s)
      BY <1>3, <1>7, <2>1, ReleasedSound
  <2> QED
      BY <1>3, <1>6, <1>7, <2>2
<1> HIDE DEF p
<1>10. SetPool(p)
    BY <1>4, <1>8
<1>11. p.ok = TRUE
    BY <1>9, SoundFields
<1>12. freeSlots' = p.fs /\ freeBlocks' = p.fb /\ table' = p.tab /\ raised' = No
    BY <1>10, <1>11 DEF SetPool
<1>13. /\ running \in Seq(Seqs) /\ IsInjective(running) /\ seq \in [Seqs -> Seats(conf)] /\ q \in Seqs
       /\ \A r \in Seqs : seq[r].state = "running" <=> r \in Range(running)
       /\ SlotsInv /\ ObjectsInv /\ q \notin Range(running)
    BY <1>2, Here, OneAdmitted
<1>14. /\ seq' \in [Seqs -> Seats(conf)] /\ At(seq') = At(seq)
       /\ \A r \in Seqs : seq'[r].state = "running" <=> r \in Range(running)
  <2> DEFINE r0 == seq[q]
             r1 == [r0 EXCEPT !.state = "done"]
  <2>1. r1 \in Seats(conf) /\ r1.state = "done" /\ r1.slot = r0.slot
    <3>1. r0 \in Seats(conf)
        BY <1>13
    <3> HIDE DEF r0
    <3> QED
        BY <3>1 DEF Seats
  <2>2. seq' = [seq EXCEPT ![q] = r1]
      BY <1>4
  <2> HIDE DEF r1
  <2>3. \A r \in Seqs : seq'[r].slot = seq[r].slot
      BY <1>13, <2>1, <2>2 DEF r0
  <2>4. seq' \in [Seqs -> Seats(conf)]
      BY <1>13, <2>1, <2>2
  <2>5. \A r \in Seqs : seq'[r].state = "running" <=> r \in Range(running)
      BY <1>13, <2>1, <2>2
  <2> QED
      BY <2>3, <2>4, <2>5 DEF At
<1>15. SlotsApart(conf, p.fs, scratch', Range(running'), At(seq')) /\ Len(running') <= MaxSeqs
    BY <1>4, <1>9, <1>13, <1>14 DEF SlotsInv
<1>16. ObjectsInv'
    BY <1>4, <1>12, <1>13 DEF ObjectsInv, Graphs
<1> QED
    BY <1>4, <1>9, <1>12, <1>13, <1>14, <1>15, <1>16, Assembled

LEMMA FinishKeeps ==
  ASSUME RunnerInv, AllFit, NEW q \in Seqs, Finish(q)
  PROVE  RunnerInv'
<1> DEFINE s == seq[q].slot
           p == Released(Pool, s)
           R == Range(running)
<1>1. /\ q \in R /\ raised = No /\ SetPool(p) /\ running' = RemoveFirst(running, q)
      /\ seq' = [seq EXCEPT ![q] = [NewSeq EXCEPT !.state = "done"]]
      /\ conf' = conf /\ scratch' = scratch /\ captured' = captured /\ rowIdx' = rowIdx /\ bufs' = bufs
    BY DEF Finish
<1>2. /\ running \in Seq(Seqs) /\ IsInjective(running) /\ seq \in [Seqs -> Seats(conf)]
      /\ \A r \in Seqs : seq[r].state = "running" <=> r \in R
      /\ SlotsInv /\ ObjectsInv /\ Sound(conf, Pool) /\ Pool.fs = freeSlots
      /\ rowIdx = NoKey \/ rowIdx \in DOMAIN bufs
      /\ s \in SlotIds(conf)
    BY <1>1, Here
<1>3. SlotsApart(conf, freeSlots, scratch, R, At(seq)) /\ Len(running) <= MaxSeqs
    BY <1>2 DEF SlotsInv
<1>4. s = At(seq)[q] /\ s \notin Range(freeSlots)
  <2>1. s = At(seq)[q]
      BY DEF At
  <2> HIDE DEF s, R
  <2> QED
      BY <1>1, <1>3, <2>1 DEF SlotsApart
<1> HIDE DEF s
<1>5. Sound(conf, p) /\ p.fs = Append(freeSlots, s)
  <2> DEFINE pool == Pool
  <2>1. Sound(conf, pool) /\ s \notin Range(pool.fs) /\ p = Released(pool, s)
      BY <1>2, <1>4
  <2> HIDE DEF pool, p
  <2>2. Sound(conf, p) /\ p.fs = Append(pool.fs, s)
      BY <1>2, <2>1, ReleasedSound
  <2> QED
      BY <1>2, <2>2 DEF pool
<1> HIDE DEF p
<1>6. freeSlots' = p.fs /\ freeBlocks' = p.fb /\ table' = p.tab /\ raised' = No
    BY <1>1, <1>5, SoundFields DEF SetPool
<1>7. /\ running' \in Seq(Seqs) /\ Len(running') <= MaxSeqs /\ IsInjective(running')
      /\ Range(running') = R \ {q}
  <2>1. /\ running' \in Seq(Seqs) /\ Len(running') = Len(running) - 1
        /\ IsInjective(running') /\ Range(running') = R \ {q}
      BY <1>1, <1>2, RemoveFacts
  <2>2. Len(running) \in Nat
      BY <1>2, LenProperties
  <2> QED
      BY <1>3, <2>1, <2>2, Sizes
<1>8. /\ seq' \in [Seqs -> Seats(conf)] /\ \A r \in Seqs : r # q => seq'[r] = seq[r]
      /\ seq'[q].state = "done"
  <2> DEFINE r1 == [NewSeq EXCEPT !.state = "done"]
  <2>1. r1 \in Seats(conf) /\ r1.state = "done"
    <3>1. 0 \in 0..Cap
        BY Sizes
    <3> QED
        BY <3>1 DEF Seats, Flags, NewSeq
  <2>2. seq' = [seq EXCEPT ![q] = r1]
      BY <1>1
  <2> HIDE DEF r1
  <2> QED
      BY <1>2, <2>1, <2>2
<1>9. \A r \in Seqs : seq'[r].state = "running" <=> r \in Range(running')
    BY <1>2, <1>7, <1>8
<1>10. SlotsApart(conf, p.fs, scratch', Range(running'), At(seq'))
  <2> DEFINE at == At(seq)
             at2 == At(seq')
             R2 == R \ {q}
             fs == freeSlots
  <2>1. \A r \in R2 : at2[r] = at[r]
      BY <1>8, Here DEF At
  <2>2. SlotsApart(conf, fs, scratch, R, at) /\ R2 = R \ {q} /\ s = at[q]
      BY <1>3, <1>4
  <2> HIDE DEF at, at2, R2, fs, R
  <2>3. SlotsApart(conf, Append(fs, at[q]), scratch, R2, at2)
      BY <1>1, <2>1, <2>2, SeatLeft
  <2> QED
      BY <1>1, <1>5, <1>7, <2>2, <2>3 DEF at2, fs, R2
<1>11. ObjectsInv'
    BY <1>1, <1>2, <1>6 DEF ObjectsInv, Graphs
<1> QED
    BY <1>1, <1>2, <1>5, <1>6, <1>7, <1>8, <1>9, <1>10, <1>11, Assembled

-----------------------------------------------------------------------------
(* Steps through a graph *)

\* A graph object that asks for its scratch slot finds one.
LEMMA ScratchThere ==
  ASSUME RunnerInv, AllFit, NEW o \in Objects, scratch[o] = NoSlot,
         conf.layers \/ \A u \in Objects : scratch[u] = NoSlot
  PROVE  freeSlots # <<>>
<1>1. SlotsApart(conf, freeSlots, scratch, Range(running), At(seq)) /\ Len(running) <= MaxSeqs
    BY Here DEF SlotsInv
<1>2. running \in Seq(Seqs)
    BY Here
<1> DEFINE fs == freeSlots
           scr == scratch
           at == At(seq)
           run == running
<1>3. /\ SlotsApart(conf, fs, scr, Range(run), at) /\ Len(run) <= MaxSeqs /\ run \in Seq(Seqs)
      /\ scr[o] = NoSlot /\ (conf.layers \/ \A u \in Objects : scr[u] = NoSlot)
    BY <1>1, <1>2
<1> HIDE DEF fs, scr, at, run
<1>4. fs # <<>>
    BY <1>3, SlotLeft
<1> QED
    BY <1>4 DEF fs

\* How a graph object comes by its slot and pool p2 by its free list.
ScratchStep(o, s, p2) ==
  /\ scratch' = [scratch EXCEPT ![o] = s]
  /\ IF scratch[o] = NoSlot THEN freeSlots # <<>> /\ p2.fs = Front(freeSlots) /\ s = Last(freeSlots)
                            ELSE p2.fs = freeSlots /\ s = scratch[o]

LEMMA ScratchGrown ==
  ASSUME RunnerInv, AllFit, NEW p, Sound(conf, p), p.fs = freeSlots, NEW o \in Objects, NEW n \in 0..Cap,
         conf.layers \/ \A u \in Objects : u # o => scratch[u] = NoSlot
  PROVE  LET sc == Scratch(p, o, n)
         IN  /\ Sound(conf, sc.pool) /\ Extends(conf, sc.pool, p) /\ Covers(sc.pool, sc.slot, n)
             /\ sc.slot \in SlotIds(conf)
             /\ IF scratch[o] = NoSlot
                  THEN freeSlots # <<>> /\ sc.pool.fs = Front(freeSlots) /\ sc.slot = Last(freeSlots)
                  ELSE sc.pool.fs = freeSlots /\ sc.slot = scratch[o]
<1>1. scratch[o] \in SlotIds(conf) \cup {NoSlot}
    BY Here
<1>2. scratch[o] = NoSlot => p.fs # <<>>
  <2> SUFFICES ASSUME scratch[o] = NoSlot PROVE freeSlots # <<>>
      OBVIOUS
  <2>1. conf.layers \/ \A u \in Objects : scratch[u] = NoSlot
      OBVIOUS
  <2> QED
      BY <2>1, ScratchThere
<1> DEFINE sc == Scratch(p, o, n)
<1>3. /\ Sound(conf, sc.pool) /\ Extends(conf, sc.pool, p) /\ Covers(sc.pool, sc.slot, n)
      /\ sc.slot \in SlotIds(conf)
      /\ IF scratch[o] = NoSlot THEN sc.pool.fs = Front(p.fs) /\ sc.slot = Last(p.fs)
                                ELSE sc.pool.fs = p.fs /\ sc.slot = scratch[o]
    BY <1>1, <1>2, ScratchSound
<1> HIDE DEF sc
<1>4. IF scratch[o] = NoSlot
        THEN freeSlots # <<>> /\ sc.pool.fs = Front(freeSlots) /\ sc.slot = Last(freeSlots)
        ELSE sc.pool.fs = freeSlots /\ sc.slot = scratch[o]
    BY <1>2, <1>3
<1> QED
    BY <1>3, <1>4 DEF sc

Room(o, width) == IF o = "verify" THEN width + 1 ELSE width

\* A replay gets its scratch slot and its blocks, and its key is captured.
LEMMA ReplayGrows ==
  ASSUME RunnerInv, AllFit, conf.layers, NEW p, Sound(conf, p), p.fs = freeSlots,
         NEW o \in Objects, NEW key, NEW m, NEW shift \in Nat, NEW width \in Nat, NEW acc,
         Room(o, width) \in 0..Cap, \A q \in Range(running) : seq[q].len + (shift + width) <= Cap,
         Replay(o, key, m, p, shift, width, acc)
  PROVE  /\ key \in DOMAIN bufs'
         /\ \E p2, s : /\ Sound(conf, p2) /\ SetPool(p2) /\ ScratchStep(o, s, p2)
<1> DEFINE room == Room(o, width)
           sc == Scratch(p, o, room)
           need == shift + width
           pool == GrowAll(sc.pool, Needs(need))
<1>1. room \in 0..Cap
    OBVIOUS
<1> HIDE DEF room
<1>2. /\ Sound(conf, sc.pool)
      /\ IF scratch[o] = NoSlot
           THEN freeSlots # <<>> /\ sc.pool.fs = Front(freeSlots) /\ sc.slot = Last(freeSlots)
           ELSE sc.pool.fs = freeSlots /\ sc.slot = scratch[o]
    BY <1>1, ScratchGrown
<1>3. need \in Nat /\ \A q \in Range(running) : seq[q].len + need <= Cap
    OBVIOUS
<1>4. /\ SetPool(pool)
      /\ pool.ok => /\ scratch' = [scratch EXCEPT ![o] = sc.slot]
                    /\ key \in DOMAIN bufs'
  <2> DEFINE goal == pool.ok => scratch' = [scratch EXCEPT ![o] = sc.slot] /\ key \in DOMAIN bufs'
  <2>1. SetPool(pool)
      BY DEF Replay, room, Room
  <2>2. ASSUME pool.ok PROVE scratch' = [scratch EXCEPT ![o] = sc.slot]
      BY <2>2 DEF Replay, room, Room
  <2>3. ASSUME pool.ok PROVE key \in DOMAIN bufs'
    <3> DEFINE pad == PadRow(pool.tab, sc.slot, width)
               old == IF key \notin DOMAIN bufs THEN [i \in 1..key[2] |-> pad] ELSE bufs[key]
               rows == FillRows(old, LiveRows(pool.tab, running, shift, width), pad)
    <3>1. bufs' = [x \in DOMAIN bufs \cup {key} |-> IF x = key THEN rows ELSE bufs[x]]
        BY <2>3 DEF Replay, room, Room
    <3> HIDE DEF rows
    <3> QED
        BY <3>1
  <2> QED
      BY <2>1, <2>2, <2>3
<1> DEFINE p1 == sc.pool
<1>5. Sound(conf, p1) /\ pool = GrowAll(p1, Needs(need))
    BY <1>2
<1> HIDE DEF p1, need, pool
<1>6. Sound(conf, pool) /\ pool.fs = p1.fs
    BY <1>3, <1>5, BatchGrown
<1>7. pool.ok = TRUE
    BY <1>6, SoundFields
<1>8. ScratchStep(o, sc.slot, pool)
    BY <1>2, <1>4, <1>6, <1>7 DEF ScratchStep, p1
<1> HIDE DEF sc
<1> QED
    BY <1>4, <1>6, <1>7, <1>8

\* ... and leaves the invariant as it was.
LEMMA ScratchStepKeeps ==
  ASSUME RunnerInv, AllFit, raised = No, conf.layers, conf' = conf, running' = running, captured' = captured,
         NEW o \in Objects, o # "prefill",
         \E p2, s : Sound(conf, p2) /\ SetPool(p2) /\ ScratchStep(o, s, p2),
         seq' \in [Seqs -> Seats(conf)],
         \A q \in Seqs : seq'[q].state = seq[q].state /\ seq'[q].slot = seq[q].slot,
         rowIdx' = NoKey \/ rowIdx' \in DOMAIN bufs'
  PROVE  RunnerInv'
<1>1. PICK p2, s : Sound(conf, p2) /\ SetPool(p2) /\ ScratchStep(o, s, p2)
    OBVIOUS
<1>2. freeSlots' = p2.fs /\ freeBlocks' = p2.fb /\ table' = p2.tab /\ raised' = No
    BY <1>1, SoundFields DEF SetPool
<1>3. /\ scratch' = [scratch EXCEPT ![o] = s]
      /\ IF scratch[o] = NoSlot THEN freeSlots # <<>> /\ p2.fs = Front(freeSlots) /\ s = Last(freeSlots)
                                ELSE p2.fs = freeSlots /\ s = scratch[o]
    BY <1>1 DEF ScratchStep
<1>4. ObjectsInv'
  <2>1. ObjectsInv /\ scratch \in [Objects -> SlotIds(conf) \cup {NoSlot}]
      BY Here
  <2>2. scratch'["prefill"] = scratch["prefill"]
      BY <1>3, <2>1 DEF Objects
  <2> QED
      BY <2>1, <2>2 DEF ObjectsInv
<1> QED
    BY <1>1, <1>2, <1>3, <1>4, ScratchKept

LEMMA DecodeGraphedKeeps ==
  ASSUME RunnerInv, AllFit, DecodeGraphed
  PROVE  RunnerInv'
<1> DEFINE o == "layers"
           key == DecodeKey
           m == Mem
           p == Pool
           shift == 0
           width == 1
           ones == Ones(Seqs)
<1>1. /\ Decodable /\ conf.layers /\ Replay(o, key, m, p, shift, width, ones)
      /\ rowIdx' = key /\ Advance(ones) /\ conf' = conf /\ running' = running /\ captured' = captured
    BY DEF DecodeGraphed, LayerGraphServes
<1>2. Sound(conf, p) /\ p.fs = freeSlots /\ o \in Objects
    BY Here DEF Objects
<1>3. /\ raised = No /\ Longest \in Nat /\ Longest + 1 <= Cap
      /\ \A q \in Range(running) : seq[q].len \in Nat /\ seq[q].len <= Longest /\ seq[q].len + 1 <= Cap
    BY <1>1, RoomForOne
<1>4. shift \in Nat /\ width \in Nat /\ \A q \in Range(running) : seq[q].len + (shift + width) <= Cap
    BY <1>3
<1>5. \A q \in Range(running) : ones[q] \in Nat /\ seq[q].len + ones[q] <= Cap
  <2>1. \A q \in Range(running) : ones[q] = 1
      BY Here DEF Ones
  <2> QED
      BY <1>3, <2>1
<1>6. Room(o, width) \in 0..Cap /\ o # "prefill"
    BY Sizes DEF Room
<1> HIDE DEF o, key, m, p, shift, width, ones
<1>7. /\ key \in DOMAIN bufs'
      /\ \E p2, s : Sound(conf, p2) /\ SetPool(p2) /\ ScratchStep(o, s, p2)
    BY <1>1, <1>2, <1>4, <1>6, ReplayGrows
<1>8. /\ seq' \in [Seqs -> Seats(conf)]
      /\ \A q \in Seqs : seq'[q].state = seq[q].state /\ seq'[q].slot = seq[q].slot
    BY <1>1, <1>5, Advanced
<1> QED
    BY <1>1, <1>2, <1>3, <1>6, <1>7, <1>8, ScratchStepKeeps

\* The verify width holds the base token and every draft.
LEMMA WidthCovers ==
  ASSUME RunnerInv, AllFit, running # <<>>, NEW drafts \in [Range(running) -> 0..MaxDraft],
         NEW acc \in [Range(running) -> 1..MaxDraft + 1], \A q \in Range(running) : acc[q] <= drafts[q] + 1
  PROVE  LET width == DraftBucket(Max(Range(drafts))) + 1
         IN  width \in Nat /\ \A q \in Range(running) : acc[q] \in Nat /\ acc[q] \in 1..width /\ acc[q] <= width
<1> DEFINE longest == Max(Range(drafts))
           width == DraftBucket(longest) + 1
<1>1. MaxDraft \in Nat
    BY GraphSizesAssumption
<1>2. longest \in 0..MaxDraft /\ \A q \in Range(running) : drafts[q] <= longest
  <2> DEFINE S == Range(drafts)
  <2>1. \A q \in Range(running) : drafts[q] \in S
      BY DEF Range
  <2>2. S \subseteq 0..MaxDraft
      BY DEF Range
  <2>3. S \in SUBSET Nat /\ S # {} /\ \A n \in S : n <= MaxDraft
    <3>1. Range(running) # {}
        BY LongestFacts
    <3> HIDE DEF S
    <3> QED
        BY <1>1, <2>1, <2>2, <3>1
  <2> HIDE DEF S
  <2>4. Max(S) \in S /\ \A n \in S : n <= Max(S)
      BY <1>1, <2>3, MaxFacts
  <2>5. longest = Max(S)
      BY DEF S
  <2> QED
      BY <2>1, <2>2, <2>4, <2>5
<1> HIDE DEF longest
<1>3. width \in Nat /\ \A q \in Range(running) : acc[q] \in Nat /\ acc[q] \in 1..width /\ acc[q] <= width
  <2>1. DraftBucket(longest) \in Nat /\ longest <= DraftBucket(longest)
      BY <1>2, DraftFacts
  <2> DEFINE d == DraftBucket(longest)
  <2> HIDE DEF d
  <2>2. d \in Nat /\ longest <= d /\ width = d + 1
      BY <2>1 DEF d
  <2> HIDE DEF width
  <2>3. ASSUME NEW q \in Range(running) PROVE acc[q] \in Nat /\ acc[q] \in 1..width /\ acc[q] <= width
    <3>1. acc[q] \in 1..MaxDraft + 1 /\ drafts[q] \in 0..MaxDraft /\ acc[q] <= drafts[q] + 1
        BY Zenon
    <3>2. drafts[q] <= longest
        BY <1>2
    <3> QED
        BY <1>1, <1>2, <2>2, <3>1, <3>2
  <2> QED
      BY <2>2, <2>3
<1> QED
    BY <1>3 DEF longest

LEMMA SpecVerifyKeeps ==
  ASSUME RunnerInv, AllFit, running # <<>>, NEW drafts \in [Range(running) -> 0..MaxDraft],
         NEW acc \in [Range(running) -> 1..MaxDraft + 1],
         \A q \in Range(running) : acc[q] <= drafts[q] + 1, SpecVerify(drafts, acc)
  PROVE  RunnerInv'
<1> DEFINE longest == Max(Range(drafts))
           width == DraftBucket(longest) + 1
           p == BasePool
           b == TRUE
<1>3. width \in Nat /\ \A q \in Range(running) : acc[q] \in Nat /\ acc[q] <= width
    BY WidthCovers
<1>4. /\ Decodable /\ Longest + 1 + width <= Cap /\ rowIdx' = NoKey
      /\ conf' = conf /\ running' = running /\ captured' = captured
    BY DEF SpecVerify, Bind, width, longest
<1>5. seq' = [q \in Seqs |-> IF q \in Range(running)
                              THEN [seq[q] EXCEPT !.len = @ + acc[q], !.carry = TRUE] ELSE seq[q]]
    BY DEF SpecVerify
<1>6. Lengthen(acc, b)
    BY <1>5 DEF Lengthen
<1>7. b \in Flags
    BY DEF Flags
<1>8. \/ ~ BasePool.ok /\ SetPool(BasePool) /\ scratch' = scratch
      \/ conf.layers /\ \E key, m : Replay("verify", key, m, BasePool, 1, width, acc)
      \/ scratch' = scratch /\ SetPool(GrowAll(BasePool, Needs(1 + width)))
  <2>1. CASE ~ BasePool.ok
      BY <2>1 DEF SpecVerify
  <2>2. CASE BasePool.ok /\ VerifyGraphServes(width)
    <3>1. conf.layers
        BY <2>2 DEF VerifyGraphServes
    <3>2. Replay("verify", VerifyKey(width), BaseMem, BasePool, 1, width, acc)
        BY <2>2 DEF SpecVerify, width, longest
    <3> QED
        BY <3>1, <3>2
  <2>3. CASE BasePool.ok /\ ~ VerifyGraphServes(width)
      BY <2>3 DEF SpecVerify, width, longest
  <2> QED
      BY <2>1, <2>2, <2>3
<1> HIDE DEF width, b, p
<1>9. /\ raised = No /\ Longest \in Nat
      /\ \A q \in Range(running) : seq[q].len \in Nat /\ seq[q].len <= Longest
    BY <1>4, RoomForOne
<1>10. Sound(conf, p) /\ p.fs = freeSlots /\ p.ok = TRUE
    BY <1>4, BaseGrown DEF p
<1>11. \A q \in Range(running) : /\ acc[q] \in Nat /\ seq[q].len + acc[q] <= Cap
                                 /\ seq[q].len + (1 + width) <= Cap
  <2> SUFFICES ASSUME NEW q \in Range(running)
               PROVE  /\ acc[q] \in Nat /\ seq[q].len + acc[q] <= Cap /\ seq[q].len + (1 + width) <= Cap
      OBVIOUS
  <2> DEFINE a == acc[q]
             l == seq[q].len
  <2>1. a \in Nat /\ a <= width /\ l \in Nat /\ l <= Longest
      BY <1>3, <1>9
  <2>2. Cap \in Nat
      BY Sizes
  <2> HIDE DEF a, l
  <2>3. l + a <= Cap /\ l + (1 + width) <= Cap
      BY <1>3, <1>4, <1>9, <2>1, <2>2
  <2> QED
      BY <2>1, <2>3 DEF a, l
<1>12. /\ seq' \in [Seqs -> Seats(conf)]
       /\ \A q \in Seqs : seq'[q].state = seq[q].state /\ seq'[q].slot = seq[q].slot
    BY <1>6, <1>7, <1>11, Lengthened
<1>13. CASE ~ BasePool.ok /\ SetPool(BasePool) /\ scratch' = scratch
    BY <1>10, <1>13 DEF p
<1>14. CASE conf.layers /\ \E key, m : Replay("verify", key, m, BasePool, 1, width, acc)
  <2> DEFINE o == "verify"
             shift == 1
  <2>1. PICK key, m : Replay(o, key, m, p, shift, width, acc)
      BY <1>14 DEF p
  <2>2. o \in Objects /\ o # "prefill" /\ shift \in Nat /\ \A q \in Range(running) : seq[q].len + (shift + width) <= Cap
      BY <1>11 DEF Objects
  <2>3. Room(o, width) \in 0..Cap
    <3>1. Cap \in Nat
        BY Sizes
    <3> QED
        BY <1>3, <1>4, <1>9, <3>1 DEF Room
  <2> HIDE DEF o, shift
  <2>4. \E p2, s : Sound(conf, p2) /\ SetPool(p2) /\ ScratchStep(o, s, p2)
      BY <1>3, <1>10, <1>14, <2>1, <2>2, <2>3, ReplayGrows
  <2> QED
      BY <1>4, <1>9, <1>12, <1>14, <2>2, <2>4, ScratchStepKeeps
<1>15. CASE scratch' = scratch /\ SetPool(GrowAll(BasePool, Needs(1 + width)))
  <2> DEFINE need == 1 + width
             pool == GrowAll(p, Needs(need))
  <2>1. need \in Nat /\ \A q \in Range(running) : seq[q].len + need <= Cap
      BY <1>3, <1>11
  <2>2. SetPool(pool)
      BY <1>15 DEF p
  <2> HIDE DEF need
  <2>3. Sound(conf, pool) /\ pool.fs = freeSlots
      BY <1>10, <2>1, BatchGrown
  <2> HIDE DEF pool
  <2> QED
      BY <1>4, <1>9, <1>12, <1>15, <2>2, <2>3, SeatsKept
<1> QED
    BY <1>8, <1>13, <1>14, <1>15

\* The step graph takes its scratch slot before it fails.
LEMMA DecodeStepGraphKeeps ==
  ASSUME RunnerInv, AllFit, DecodeStepGraph
  PROVE  RunnerInv'
<1> DEFINE o == "verify"
           n == 1
           p == Pool
           sc == Scratch(p, o, n)
<1>1. /\ Decodable /\ ~ conf.spec /\ conf' = conf /\ running' = running /\ captured' = captured
      /\ seq' = seq /\ rowIdx' = rowIdx /\ bufs' = bufs
      /\ freeSlots' = sc.pool.fs /\ freeBlocks' = sc.pool.fb /\ table' = sc.pool.tab
      /\ raised' = (IF sc.pool.ok THEN Uncapturable ELSE Starved)
      /\ scratch' = [scratch EXCEPT ![o] = sc.slot]
    BY DEF DecodeStepGraph
<1>2. raised = No
    BY <1>1, RoomForOne
<1>3. /\ Sound(conf, p) /\ p.fs = freeSlots /\ Fits(conf) /\ ObjectsInv
      /\ seq \in [Seqs -> Seats(conf)] /\ (rowIdx = NoKey \/ rowIdx \in DOMAIN bufs)
      /\ scratch \in [Objects -> SlotIds(conf) \cup {NoSlot}]
    BY Here
<1>4. n \in 0..Cap /\ o \in Objects /\ o # "prefill" /\ o # "layers"
    BY Sizes DEF Objects
<1>5. conf.layers \/ \A u \in Objects : u # o => scratch[u] = NoSlot
    BY <1>1, <1>3 DEF ObjectsInv, Fits, Objects
<1> HIDE DEF p, n, o
<1>6. /\ Sound(conf, sc.pool)
      /\ IF scratch[o] = NoSlot
           THEN freeSlots # <<>> /\ sc.pool.fs = Front(freeSlots) /\ sc.slot = Last(freeSlots)
           ELSE sc.pool.fs = freeSlots /\ sc.slot = scratch[o]
    BY <1>3, <1>4, <1>5, ScratchGrown
<1> DEFINE p2 == sc.pool
           s == sc.slot
<1> HIDE DEF sc
<1>7. sc.pool.ok = TRUE
    BY <1>6, SoundFields
<1>8. raised' = Uncapturable
    BY <1>1, <1>7
<1>9. ObjectsInv'
  <2>1. scratch'["prefill"] = scratch["prefill"] /\ scratch'["layers"] = scratch["layers"]
      BY <1>1, <1>3, <1>4 DEF Objects
  <2>2. raised' # No
      BY <1>8 DEF No, Uncapturable
  <2> QED
      BY <1>1, <1>3, <2>1, <2>2 DEF ObjectsInv, Graphs
<1>10. /\ Sound(conf, p2) /\ freeSlots' = p2.fs /\ freeBlocks' = p2.fb /\ table' = p2.tab
       /\ raised' \in {No, Uncapturable} /\ scratch' = [scratch EXCEPT ![o] = s]
       /\ IF scratch[o] = NoSlot THEN freeSlots # <<>> /\ p2.fs = Front(freeSlots) /\ s = Last(freeSlots)
                                 ELSE p2.fs = freeSlots /\ s = scratch[o]
    BY <1>1, <1>6, <1>8
<1>11. /\ seq' \in [Seqs -> Seats(conf)]
       /\ \A q \in Seqs : seq'[q].state = seq[q].state /\ seq'[q].slot = seq[q].slot
       /\ rowIdx' = NoKey \/ rowIdx' \in DOMAIN bufs'
    BY <1>1, <1>3
<1>12. conf' = conf /\ running' = running /\ o \in Objects
    BY <1>1, <1>4
<1> HIDE DEF p2, s
<1> QED
    BY <1>2, <1>9, <1>10, <1>11, <1>12, ScratchKept

\* A prompt through a graph has its own slot and, when the bucket is new, the
\* graph's.
LEMMA GraphedPools ==
  ASSUME RunnerInv, AllFit, NEW q \in Waiting, NEW n \in conf.prompts, PrefillGraphed(q, n)
  PROVE  LET s == Last(freeSlots)
             b == NextBucket(PrefillBuckets, n)
             grown == Grow(Taken(Pool), s, n)
             sc == Scratch(grown, "prefill", b)
         IN  /\ Graphs(conf, n) /\ b \in 0..Cap
             /\ Sound(conf, grown) /\ grown.fs = Front(freeSlots) /\ Extends(conf, grown, Taken(Pool))
             /\ Covers(grown, s, n)
             /\ scratch["prefill"] = NoSlot => grown.fs # <<>>
             /\ Sound(conf, sc.pool) /\ sc.slot \in SlotIds(conf)
             /\ Extends(conf, sc.pool, grown) /\ Covers(sc.pool, sc.slot, b)
             /\ IF scratch["prefill"] = NoSlot THEN sc.pool.fs = Front(grown.fs) /\ sc.slot = Last(grown.fs)
                                               ELSE sc.pool.fs = grown.fs /\ sc.slot = scratch["prefill"]
<1> DEFINE s == Last(freeSlots)
           t == Taken(Pool)
           b == NextBucket(PrefillBuckets, n)
           o == "prefill"
           grown == Grow(t, s, n)
           sc == Scratch(grown, o, b)
<1>1. CanAdmit(<<q>>) /\ ~ Chunked(n) /\ b > 0
    BY DEF PrefillGraphed
<1>2. /\ Fits(conf) /\ ObjectsInv /\ scratch \in [Objects -> SlotIds(conf) \cup {NoSlot}] /\ o \in Objects
      /\ running \in Seq(Seqs)
    BY Here DEF Objects
<1>3. n \in 1..Cap /\ n \in 0..Cap
    BY <1>2, Sizes DEF Fits
<1>4. Graphs(conf, n) /\ b \in 0..Cap
  <2>1. b \in Nat
    <3>1. PrefillBuckets \in SUBSET (Nat \ {0}) /\ n \in Nat
        BY <1>3, Sizes, GraphSizesAssumption
    <3>2. b \in PrefillBuckets \cup {0}
        BY <3>1, BucketFacts
    <3> HIDE DEF b
    <3> QED
        BY <3>1, <3>2
  <2>2. Graphs(conf, n)
      BY <1>1, <2>1 DEF Graphs, Chunked
  <2>3. b <= Cap
      BY <1>2, <2>2 DEF Fits
  <2> QED
      BY <2>1, <2>2, <2>3, Sizes
<1>5. /\ Alloc(<<q>>)[1] = s /\ AfterAlloc(<<q>>) = t /\ raised = No
      /\ Sound(conf, t) /\ t.fs = Front(freeSlots) /\ s \in SlotIds(conf) /\ freeSlots # <<>>
    BY <1>1, OneAdmitted
<1>6. Start(<<q>>, <<s>>, <<n>>)
    BY <1>5 DEF PrefillGraphed
<1>8. /\ running' \in Seq(Seqs) /\ IsInjective(running') /\ Len(running') <= MaxSeqs
      /\ seq' \in [Seqs -> Seats(conf)]
      /\ \A r \in Seqs : seq'[r].state = "running" <=> r \in Range(running')
      /\ SlotsApart(conf, Front(freeSlots), scratch, Range(running'), At(seq'))
    BY <1>1, <1>3, <1>6, OneStarted
<1> HIDE DEF s, t, b, o
<1>9. Sound(conf, grown) /\ grown.fs = t.fs /\ Extends(conf, grown, t) /\ Covers(grown, s, n)
    BY <1>3, <1>5, GrowSound
<1> HIDE DEF grown
<1>10. scratch[o] = NoSlot => grown.fs # <<>>
  <2> DEFINE fs == Front(freeSlots)
             scr == scratch
             at == At(seq')
             run == running'
  <2> SUFFICES ASSUME scr[o] = NoSlot PROVE fs # <<>>
      BY <1>5, <1>9
  <2>1. conf.layers \/ \A u \in Objects : scr[u] = NoSlot
      BY <1>2, <1>5 DEF ObjectsInv, Objects, o
  <2>2. SlotsApart(conf, fs, scr, Range(run), at) /\ Len(run) <= MaxSeqs /\ run \in Seq(Seqs)
      BY <1>8
  <2> HIDE DEF fs, scr, at, run
  <2> QED
      BY <1>2, <2>1, <2>2, SlotLeft
<1>11. /\ Sound(conf, sc.pool) /\ sc.slot \in SlotIds(conf)
       /\ Extends(conf, sc.pool, grown) /\ Covers(sc.pool, sc.slot, b)
       /\ IF scratch[o] = NoSlot THEN sc.pool.fs = Front(grown.fs) /\ sc.slot = Last(grown.fs)
                                 ELSE sc.pool.fs = grown.fs /\ sc.slot = scratch[o]
  <2>1. scratch[o] \in SlotIds(conf) \cup {NoSlot}
      BY <1>2
  <2> QED
      BY <1>2, <1>4, <1>9, <1>10, <2>1, ScratchSound
<1> HIDE DEF sc
<1> QED
    BY <1>4, <1>5, <1>9, <1>10, <1>11 DEF s, t, b, o, grown, sc

LEMMA PrefillGraphedKeeps ==
  ASSUME RunnerInv, AllFit, NEW q \in Waiting, NEW n \in conf.prompts, PrefillGraphed(q, n)
  PROVE  RunnerInv'
<1> DEFINE s == Last(freeSlots)
           t == Taken(Pool)
           b == NextBucket(PrefillBuckets, n)
           o == "prefill"
           grown == Grow(t, s, n)
           sc == Scratch(grown, o, b)
           pool == IF b \in DOMAIN captured THEN grown ELSE sc.pool
           key == <<"prefill", b, 1>>
<1>1. CanAdmit(<<q>>) /\ ~ Chunked(n) /\ b > 0
    BY DEF PrefillGraphed
<1>2. /\ Fits(conf) /\ ObjectsInv /\ scratch \in [Objects -> SlotIds(conf) \cup {NoSlot}] /\ o \in Objects
      /\ running \in Seq(Seqs)
    BY Here DEF Objects
<1>3. n \in 1..Cap /\ n \in 0..Cap
    BY <1>2, Sizes DEF Fits
<1>4. Graphs(conf, n) /\ b \in 0..Cap
    BY GraphedPools
<1>5. /\ Alloc(<<q>>)[1] = s /\ AfterAlloc(<<q>>) = t /\ raised = No
      /\ Sound(conf, t) /\ t.fs = Front(freeSlots) /\ s \in SlotIds(conf) /\ freeSlots # <<>>
    BY <1>1, OneAdmitted
<1>6. SetPool(pool) /\ Start(<<q>>, <<s>>, <<n>>) /\ conf' = conf
    BY <1>5 DEF PrefillGraphed
<1>7. pool.ok => /\ scratch' = [scratch EXCEPT ![o] = sc.slot]
                 /\ rowIdx' = key /\ key \in DOMAIN bufs'
  <2> SUFFICES ASSUME pool.ok
               PROVE  /\ scratch' = [scratch EXCEPT ![o] = sc.slot] /\ rowIdx' = key /\ key \in DOMAIN bufs'
      OBVIOUS
  <2>1. scratch' = [scratch EXCEPT ![o] = sc.slot] /\ rowIdx' = key
      BY <1>5 DEF PrefillGraphed
  <2>2. bufs' = [x \in DOMAIN bufs \cup {<<"prefill", b, 1>>} |->
                   IF x = <<"prefill", b, 1>> THEN <<[st |-> s]>> ELSE bufs[x]]
      BY <1>5 DEF PrefillGraphed
  <2> QED
      BY <2>1, <2>2
<1>8. /\ running' \in Seq(Seqs) /\ IsInjective(running') /\ Len(running') <= MaxSeqs
      /\ seq' \in [Seqs -> Seats(conf)]
      /\ \A r \in Seqs : seq'[r].state = "running" <=> r \in Range(running')
      /\ SlotsApart(conf, Front(freeSlots), scratch, Range(running'), At(seq'))
    BY <1>1, <1>3, <1>6, OneStarted
<1>9. /\ Sound(conf, grown) /\ grown.fs = t.fs
      /\ scratch[o] = NoSlot => grown.fs # <<>>
      /\ Sound(conf, sc.pool) /\ sc.slot \in SlotIds(conf)
      /\ IF scratch[o] = NoSlot THEN sc.pool.fs = Front(grown.fs) /\ sc.slot = Last(grown.fs)
                                ELSE sc.pool.fs = grown.fs /\ sc.slot = scratch[o]
    BY <1>5, GraphedPools
<1> HIDE DEF s, t, b, o, key
<1> HIDE DEF grown, sc
<1>12. Sound(conf, pool)
    BY <1>9
<1>13. pool.ok = TRUE
    BY <1>12, SoundFields
<1>14. SlotsApart(conf, pool.fs, scratch', Range(running'), At(seq'))
  <2> DEFINE fs == Front(freeSlots)
             at == At(seq')
             R == Range(running')
  <2>1. SlotsApart(conf, fs, scratch, R, at) /\ grown.fs = fs
      BY <1>5, <1>8, <1>9
  <2> HIDE DEF fs, at, R
  <2>2. CASE scratch[o] # NoSlot
    <3>1. scratch' = scratch
        BY <1>2, <1>7, <1>9, <1>13, <2>2
    <3>2. pool.fs = fs
        BY <1>9, <2>1, <2>2
    <3> QED
        BY <2>1, <3>1, <3>2 DEF at, R
  <2>3. CASE scratch[o] = NoSlot
    <3>1. b \notin DOMAIN captured
        BY <1>2, <2>3 DEF ObjectsInv, o
    <3>2. pool.fs = Front(fs) /\ sc.slot = Last(fs) /\ fs # <<>>
        BY <1>9, <2>1, <2>3, <3>1
    <3>3. SlotsApart(conf, Front(fs), [scratch EXCEPT ![o] = Last(fs)], R, at)
        BY <1>2, <2>1, <2>3, <3>2, ScratchTaken
    <3> QED
        BY <1>7, <1>13, <3>2, <3>3 DEF at, R
  <2> QED
      BY <2>2, <2>3
<1>15. freeSlots' = pool.fs /\ freeBlocks' = pool.fb /\ table' = pool.tab /\ raised' = No
    BY <1>6, <1>13 DEF SetPool
<1>16. ObjectsInv'
  <2>1. scratch' = [scratch EXCEPT ![o] = sc.slot]
      BY <1>7, <1>13
  <2>2. /\ scratch'["layers"] = scratch["layers"] /\ scratch'["verify"] = scratch["verify"]
        /\ scratch'["prefill"] = sc.slot
      BY <1>2, <2>1 DEF Objects, o
  <2>3. scratch'["prefill"] # NoSlot
      BY <1>9, <2>2, Sizes
  <2>4. ~ conf.layers => scratch["layers"] = NoSlot /\ scratch["verify"] = NoSlot
      BY <1>2, <1>5 DEF ObjectsInv
  <2>5. ~ \A m \in conf.prompts : ~ Graphs(conf, m)
      BY <1>4
  <2> QED
      BY <1>6, <2>2, <2>3, <2>4, <2>5 DEF ObjectsInv, Graphs
<1>17. rowIdx' = NoKey \/ rowIdx' \in DOMAIN bufs'
    BY <1>7, <1>13
<1>18. /\ freeSlots' = pool.fs /\ freeBlocks' = pool.fb /\ table' = pool.tab
       /\ raised' \in {No, Uncapturable} /\ conf' = conf
    BY <1>6, <1>15
<1> HIDE DEF pool
<1> QED
    BY <1>8, <1>12, <1>14, <1>16, <1>17, <1>18, Assembled

\* Two sequences packed into one prefill take the last two slots.
LEMMA TwoAdmitted ==
  ASSUME RunnerInv, AllFit, NEW qs, Len(qs) = 2, DOMAIN qs = 1..2, CanAdmit(qs)
  PROVE  /\ Alloc(qs)[1] = Last(freeSlots) /\ Alloc(qs)[2] = Last(Front(freeSlots))
         /\ AfterAlloc(qs) = Taken(Taken(Pool))
         /\ freeSlots # <<>> /\ Front(freeSlots) # <<>> /\ raised = No
         /\ Len(running) + 2 <= MaxSeqs
         /\ Sound(conf, Taken(Taken(Pool))) /\ Taken(Taken(Pool)).fs = Front(Front(freeSlots))
         /\ Taken(Taken(Pool)).tab = table
         /\ Last(freeSlots) \in SlotIds(conf) /\ Last(Front(freeSlots)) \in SlotIds(conf)
<1> DEFINE fs == freeSlots
           f1 == Front(fs)
           f2 == Front(f1)
           k == 2
           T == SlotIds(conf)
<1>1. raised = No /\ Len(running) + 2 <= MaxSeqs /\ 2 <= Len(fs)
    BY DEF CanAdmit
<1>2. fs \in Seq(T) /\ IsInjective(fs) /\ Sound(conf, Pool) /\ Pool.fs = fs /\ Pool.fb = freeBlocks /\ Pool.tab = table
    BY Here
<1>3. Len(fs) \in Nat /\ fs # <<>> /\ k \in 0..Len(fs)
    BY <1>1, <1>2, EmptySeq, LenProperties
<1>4. /\ f1 \in Seq(T) /\ IsInjective(f1) /\ Len(f1) = Len(fs) - 1 /\ Last(fs) \in T
      /\ \A i \in 1..Len(f1) : f1[i] = fs[i]
  <2>1. /\ Front(fs) \in Seq(T) /\ IsInjective(Front(fs)) /\ Len(Front(fs)) = Len(fs) - 1 /\ Last(fs) \in T
        /\ \A i \in 1..(Len(fs) - 1) : Front(fs)[i] = fs[i]
    <3> HIDE DEF fs, T
    <3> QED
        BY <1>2, <1>3, LastFacts
  <2> QED
      BY <2>1
<1>5. f1 # <<>>
    BY <1>1, <1>3, <1>4, EmptySeq
<1> HIDE DEF fs, f1, T
<1>6. /\ f2 \in Seq(T) /\ IsInjective(f2) /\ Len(f2) = Len(f1) - 1 /\ Last(f1) \in T
      /\ \A i \in 1..(Len(f1) - 1) : f2[i] = f1[i]
    BY <1>4, <1>5, LastFacts
<1> HIDE DEF f2, k
<1>7. StackLeft(fs, k) \in Seq(T) /\ Len(StackLeft(fs, k)) = Len(fs) - k /\ \A i \in 1..(Len(fs) - k) : StackLeft(fs, k)[i] = fs[i]
    BY <1>2, <1>3, PopFacts
<1>8. StackLeft(fs, k) = f2
  <2>1. k = 2
      BY DEF k
  <2>2. Len(f2) = Len(fs) - k /\ Len(f1) \in Nat
      BY <1>3, <1>4, <1>6, <2>1, LenProperties
  <2>3. \A i \in 1..(Len(fs) - k) : i \in 1..(Len(f1) - 1) /\ i \in 1..Len(f1)
      BY <1>3, <1>4, <2>1
  <2>4. \A i \in 1..(Len(fs) - k) : f2[i] = fs[i]
      BY <1>4, <1>6, <2>3
  <2> QED
      BY <1>6, <1>7, <2>2, <2>4, SeqEqual
<1>9. Alloc(qs)[1] = Last(fs) /\ Alloc(qs)[2] = Last(f1)
  <2>1. Alloc(qs)[1] = fs[Len(fs) + 1 - 1] /\ Alloc(qs)[2] = fs[Len(fs) + 1 - 2]
      BY DEF Alloc, fs
  <2>2. Len(fs) + 1 - 1 = Len(fs) /\ Len(fs) + 1 - 2 = Len(f1) /\ Len(f1) \in 1..Len(f1)
      BY <1>1, <1>3, <1>4
  <2> QED
      BY <1>4, <2>1, <2>2 DEF Last
<1> DEFINE p == Pool
<1>10. Sound(conf, p) /\ p.fs = fs
    BY <1>2
<1> DEFINE p1 == Taken(p)
           p2 == Taken(p1)
<1> HIDE DEF p
<1>11. Sound(conf, p1) /\ p1.fs = f1 /\ p1.tab = p.tab
    BY <1>3, <1>10, TakeSlot DEF f1
<1> HIDE DEF p1
<1>12. Sound(conf, p2) /\ p2.fs = f2 /\ p2.tab = p1.tab
    BY <1>5, <1>11, TakeSlot DEF f2
<1> HIDE DEF p2
<1>13. AfterAlloc(qs) = p2
  <2>1. AfterAlloc(qs) = [fs |-> StackLeft(fs, k), fb |-> freeBlocks, tab |-> table, ok |-> TRUE]
      BY DEF AfterAlloc, StackLeft, fs, k
  <2>2. p2 = [fs |-> f2, fb |-> freeBlocks, tab |-> table, ok |-> TRUE]
      BY DEF p2, p1, p, Taken, Pool, f2, f1, fs
  <2> QED
      BY <1>8, <2>1, <2>2
<1>14. p2.tab = table
    BY <1>2, <1>11, <1>12 DEF p
<1> QED
    BY <1>1, <1>3, <1>4, <1>5, <1>6, <1>9, <1>12, <1>13, <1>14 DEF p2, p1, p, f2, f1, fs, T

\* Two packed prompts have a slot each, and the blocks for it.
LEMMA PackedPools ==
  ASSUME RunnerInv, AllFit, NEW q1 \in Waiting, NEW q2 \in Waiting, q1 # q2,
         NEW n1 \in conf.prompts, NEW n2 \in conf.prompts, PrefillVarlen(<<q1, q2>>, <<n1, n2>>)
  PROVE  LET qs == <<q1, q2>>
             ns == <<n1, n2>>
             slots == Alloc(qs)
             p == GrowAll(AfterAlloc(qs), [i \in DOMAIN qs |-> <<slots[i], ns[i]>>])
         IN  /\ n1 \in 0..Cap /\ n2 \in 0..Cap /\ CanAdmit(qs)
             /\ slots[1] = Last(freeSlots) /\ slots[2] = Last(Front(freeSlots))
             /\ freeSlots # <<>> /\ Front(freeSlots) # <<>> /\ raised = No /\ Len(running) + 2 <= MaxSeqs
             /\ Last(freeSlots) \in SlotIds(conf) /\ Last(Front(freeSlots)) \in SlotIds(conf)
             /\ Sound(conf, p) /\ p.fs = Front(Front(freeSlots)) /\ Extends(conf, p, Pool)
             /\ Covers(p, slots[1], n1) /\ Covers(p, slots[2], n2)
             /\ Joined(qs, slots, ns)
<1> DEFINE qs == <<q1, q2>>
           ns == <<n1, n2>>
           slots == Alloc(qs)
           T == SlotIds(conf) \X (0..Cap)
           pairs == [i \in DOMAIN qs |-> <<slots[i], ns[i]>>]
           t == AfterAlloc(qs)
           p == GrowAll(t, pairs)
           fs == freeSlots
           f1 == Front(fs)
<1>1. CanAdmit(qs) /\ Start(qs, slots, ns)
    BY DEF PrefillVarlen
<1>2. /\ Len(qs) = 2 /\ DOMAIN qs = 1..2 /\ qs[1] = q1 /\ qs[2] = q2 /\ ns[1] = n1 /\ ns[2] = n2
      /\ IsInjective(qs) /\ Range(qs) = {q1, q2}
    BY DEF IsInjective, Range
<1>3. q1 \in Seqs /\ q2 \in Seqs /\ qs \in Seq(Seqs) /\ Range(qs) \subseteq Waiting
    BY <1>2 DEF Waiting
<1>4. n1 \in 0..Cap /\ n2 \in 0..Cap
  <2>1. Fits(conf)
      BY Here
  <2> QED
      BY <2>1, Sizes DEF Fits
<1>5. \A i \in 1..2 : i = 1 \/ i = 2
    OBVIOUS
<1> HIDE DEF qs, ns
<1>6. /\ slots[1] = Last(fs) /\ slots[2] = Last(f1)
      /\ fs # <<>> /\ f1 # <<>> /\ raised = No /\ Len(running) + 2 <= MaxSeqs
      /\ Sound(conf, t) /\ t.fs = Front(f1) /\ t.tab = table
      /\ Last(fs) \in SlotIds(conf) /\ Last(f1) \in SlotIds(conf)
    BY <1>1, <1>2, TwoAdmitted
<1>10. \A i \in 1..2 : pairs[i] = <<slots[i], ns[i]>>
    BY <1>2
<1> HIDE DEF slots, t
<1>7. \A i \in 1..2 : slots[i] \in SlotIds(conf) /\ ns[i] \in 0..Cap
    BY <1>2, <1>4, <1>5, <1>6
<1>8. pairs \in Seq(T)
  <2> DEFINE k == 2
  <2>1. pairs = [i \in 1..k |-> pairs[i]] /\ k \in Nat
      BY <1>2
  <2>2. \A i \in 1..k : pairs[i] \in T
      BY <1>2, <1>7
  <2> HIDE DEF pairs, T, k
  <2> QED
      BY <2>1, <2>2, IsASeq
<1>11. Len(pairs) = 2
  <2> DEFINE k == 2
  <2>1. pairs = [i \in 1..k |-> pairs[i]] /\ k \in Nat
      BY <1>2
  <2> HIDE DEF pairs, k, T
  <2>2. Len(pairs) \in Nat /\ DOMAIN pairs = 1..Len(pairs)
      BY <1>8, LenProperties
  <2>3. Len(pairs) = k
      BY <2>1, <2>2
  <2> QED
      BY <2>3 DEF k
<1> HIDE DEF pairs
<1>9. /\ Sound(conf, p) /\ p.fs = t.fs /\ Extends(conf, p, t)
      /\ \A i \in 1..Len(pairs) : Covers(p, pairs[i][1], pairs[i][2])
    BY <1>6, <1>8, GrowAllSound DEF T
<1> HIDE DEF p
<1>12. Joined(qs, slots, ns)
  <2>1. \A i \in 1..Len(qs) : slots[i] \in SlotIds(conf) /\ ns[i] \in 0..Cap
      BY <1>2, <1>7
  <2> QED
      BY <1>1, <1>2, <1>3, <2>1, Started
<1>13. Covers(p, slots[1], n1) /\ Covers(p, slots[2], n2)
  <2>1. Covers(p, slots[1], ns[1]) /\ Covers(p, slots[2], ns[2])
      BY <1>9, <1>10, <1>11
  <2> QED
      BY <1>2, <2>1
<1>14. Extends(conf, p, Pool)
  <2>1. Pool.tab = table
      BY DEF Pool
  <2> HIDE DEF fs
  <2> QED
      BY <1>6, <1>9, <2>1 DEF Extends
<1> QED
    BY <1>1, <1>4, <1>6, <1>9, <1>12, <1>13, <1>14 DEF qs, ns, slots, p, t, pairs

LEMMA PrefillVarlenKeeps ==
  ASSUME RunnerInv, AllFit, NEW q1 \in Waiting, NEW q2 \in Waiting, q1 # q2,
         NEW n1 \in conf.prompts, NEW n2 \in conf.prompts, PrefillVarlen(<<q1, q2>>, <<n1, n2>>)
  PROVE  RunnerInv'
<1> DEFINE qs == <<q1, q2>>
           ns == <<n1, n2>>
           slots == Alloc(qs)
           T == SlotIds(conf) \X (0..Cap)
           pairs == [i \in DOMAIN qs |-> <<slots[i], ns[i]>>]
           t == AfterAlloc(qs)
           p == GrowAll(t, pairs)
           fs == freeSlots
           f1 == Front(fs)
<1>1. /\ CanAdmit(qs) /\ SetPool(p) /\ Start(qs, slots, ns) /\ rowIdx' = NoKey
      /\ conf' = conf /\ scratch' = scratch /\ captured' = captured
    BY DEF PrefillVarlen, Bind
<1>2. /\ Len(qs) = 2 /\ DOMAIN qs = 1..2 /\ qs[1] = q1 /\ qs[2] = q2 /\ ns[1] = n1 /\ ns[2] = n2
      /\ IsInjective(qs) /\ Range(qs) = {q1, q2}
    BY DEF IsInjective, Range
<1>3. q1 \in Seqs /\ q2 \in Seqs /\ qs \in Seq(Seqs) /\ Range(qs) \subseteq Waiting
    BY <1>2 DEF Waiting
<1>6. /\ slots[1] = Last(fs) /\ slots[2] = Last(f1)
      /\ fs # <<>> /\ f1 # <<>> /\ raised = No /\ Len(running) + 2 <= MaxSeqs
      /\ Last(fs) \in SlotIds(conf) /\ Last(f1) \in SlotIds(conf)
      /\ Sound(conf, p) /\ p.fs = Front(f1)
      /\ Joined(qs, slots, ns)
    BY PackedPools
<1> HIDE DEF qs, ns, slots, t, pairs, p
<1>10. p.ok = TRUE
    BY <1>6, SoundFields
<1>11. freeSlots' = p.fs /\ freeBlocks' = p.fb /\ table' = p.tab /\ raised' = No
    BY <1>1, <1>10 DEF SetPool
<1>13. /\ running' \in Seq(Seqs) /\ IsInjective(running') /\ Len(running') <= MaxSeqs
       /\ seq' \in [Seqs -> Seats(conf)]
       /\ \A q \in Seqs : seq'[q].state = "running" <=> q \in Range(running')
       /\ Range(running') = (Range(running) \cup {q1}) \cup {q2}
       /\ q1 \notin Range(running) /\ q2 \notin Range(running)
       /\ \A q \in Range(running) : seq'[q] = seq[q]
       /\ seq'[q1].slot = Last(fs) /\ seq'[q2].slot = Last(f1)
  <2>1. seq'[q1] = Seat(slots[1], ns[1]) /\ seq'[q2] = Seat(slots[2], ns[2])
    <3>1. 1 \in 1..Len(qs) /\ 2 \in 1..Len(qs)
        BY <1>2
    <3> QED
        BY <1>2, <1>6, <3>1 DEF Joined
  <2>2. seq'[q1].slot = Last(fs) /\ seq'[q2].slot = Last(f1)
      BY <1>6, <2>1 DEF Seat
  <2>3. Range(running) \subseteq Seqs
      BY Here
  <2>4. Range(running') = (Range(running) \cup {q1}) \cup {q2}
      BY <1>2, <1>6 DEF Joined
  <2>5. q1 \notin Range(running) /\ q2 \notin Range(running)
      BY <1>2, <1>6 DEF Joined
  <2>6. \A q \in Range(running) : seq'[q] = seq[q]
      BY <1>2, <1>6, <2>3, <2>5 DEF Joined
  <2>7. Len(running') <= MaxSeqs
      BY <1>2, <1>6 DEF Joined
  <2> QED
      BY <1>6, <2>2, <2>4, <2>5, <2>6, <2>7 DEF Joined
<1>14. SlotsApart(conf, p.fs, scratch', Range(running'), At(seq'))
  <2> DEFINE R == Range(running)
             R1 == R \cup {q1}
             at == At(seq)
             at2 == At(seq')
  <2>1. SlotsApart(conf, fs, scratch, R, at)
      BY Here DEF SlotsInv
  <2>2. at2[q1] = Last(fs) /\ at2[q2] = Last(f1) /\ \A r \in R : at2[r] = at[r]
      BY <1>3, <1>13, Here DEF At
  <2>3. q1 \notin R /\ q2 \notin R1
      BY <1>13
  <2> HIDE DEF R, at, at2, fs
  <2>4. SlotsApart(conf, Front(fs), scratch, R \cup {q1}, at2)
      BY <1>6, <2>1, <2>2, <2>3, SeatTaken
  <2>5. SlotsApart(conf, f1, scratch, R1, at2)
      BY <2>4
  <2> HIDE DEF f1, R1
  <2>6. SlotsApart(conf, Front(f1), scratch, R1 \cup {q2}, at2)
      BY <1>6, <2>2, <2>3, <2>5, SeatTaken
  <2> QED
      BY <1>1, <1>6, <1>13, <2>6 DEF at2, R1, R
<1>15. ObjectsInv'
  <2>1. ObjectsInv
      BY Here
  <2> QED
      BY <1>1, <1>6, <1>11, <2>1 DEF ObjectsInv, Graphs
<1> QED
    BY <1>1, <1>6, <1>11, <1>13, <1>14, <1>15, Assembled

-----------------------------------------------------------------------------
(* The whole runner *)

LEMMA RunnerInit ==
  ASSUME AllFit, GraphInit
  PROVE  RunnerInv
<1> DEFINE c == conf
           ns == NumSlots(c)
           nb == NumBlocks(c)
<1>1. conf \in Deployments /\ ns \in Nat \ {0} /\ nb \in Nat /\ Cap \in Nat
    BY Sizes DEF GraphInit
<1>2. /\ freeSlots = UpTo(ns) /\ freeBlocks = UpTo(nb) /\ table = [s \in SlotIds(conf) |-> <<>>]
      /\ running = <<>> /\ seq = [q \in Seqs |-> NewSeq] /\ scratch = [o \in Objects |-> NoSlot]
      /\ rowIdx = NoKey /\ captured = <<>> /\ raised = No
    BY DEF GraphInit, SlotIds
<1> HIDE DEF c
<1>3. ASSUME NEW n \in Nat
      PROVE  UpTo(n) \in Seq(0..n - 1) /\ IsInjective(UpTo(n)) /\ Range(UpTo(n)) = 0..n - 1
  <2> DEFINE u == UpTo(n)
  <2>1. u = [i \in 1..n |-> i - 1] /\ \A i \in 1..n : i - 1 \in 0..n - 1
      BY DEF UpTo
  <2>2. IsInjective(u)
      BY <2>1 DEF IsInjective
  <2>3. Range(u) = 0..n - 1
    <3>1. \A x \in 0..n - 1 : x + 1 \in 1..n /\ u[x + 1] = x
        BY <2>1
    <3>2. \A i \in 1..n : u[i] \in 0..n - 1
        BY <2>1
    <3>3. DOMAIN u = 1..n
        BY <2>1
    <3> HIDE DEF u
    <3> QED
        BY <3>1, <3>2, <3>3 DEF Range
  <2>4. u \in Seq(0..n - 1)
      BY <2>1, IsASeq
  <2> QED
      BY <2>2, <2>3, <2>4
<1>4. /\ freeSlots \in Seq(SlotIds(conf)) /\ IsInjective(freeSlots) /\ Range(freeSlots) = SlotIds(conf)
      /\ freeBlocks \in Seq(BlockIds(conf)) /\ IsInjective(freeBlocks) /\ Range(freeBlocks) = BlockIds(conf)
  <2> HIDE DEF ns, nb
  <2>1. /\ UpTo(ns) \in Seq(0..ns - 1) /\ IsInjective(UpTo(ns)) /\ Range(UpTo(ns)) = 0..ns - 1
        /\ UpTo(nb) \in Seq(0..nb - 1) /\ IsInjective(UpTo(nb)) /\ Range(UpTo(nb)) = 0..nb - 1
      BY <1>1, <1>3
  <2> QED
      BY <1>2, <2>1 DEF SlotIds, BlockIds, ns, nb, c
<1>5. /\ Range(<<>>) = {} /\ IsInjective(<<>>) /\ Len(<<>>) = 0 /\ DOMAIN <<>> = {}
      /\ <<>> \in Seq(BlockIds(conf)) /\ <<>> \in Seq(Seqs)
    BY DEF Range, IsInjective
<1>6. BlocksApart(conf, freeBlocks, table)
  <2>1. 0 <= BlocksPerSeq
      BY Sizes
  <2> QED
      BY <1>2, <1>4, <1>5, <2>1 DEF BlocksApart
<1>7. SlotsInv
  <2>1. SlotsApart(conf, freeSlots, scratch, {}, At(seq))
    <3>1. \A o \in Objects : scratch[o] \notin Range(freeSlots)
        BY <1>2, <1>4, Sizes
    <3> QED
        BY <1>2, <1>4, <3>1 DEF SlotsApart
  <2>2. Len(running) <= MaxSeqs
      BY <1>2, <1>5, Sizes
  <2> QED
      BY <1>2, <1>5, <2>1, <2>2 DEF SlotsInv
<1>8. ObjectsInv
    BY <1>2, <1>5 DEF ObjectsInv, Objects
<1>9. NewSeq \in Seats(conf) /\ NewSeq.state = "waiting"
  <2>1. 0 \in 0..Cap
      BY <1>1
  <2> QED
      BY <2>1 DEF NewSeq, Seats, Flags
<1>10. seq \in [Seqs -> Seats(conf)] /\ \A q \in Seqs : seq[q].state = "waiting"
    BY <1>2, <1>9
<1>11. GraphTypeOK
  <2>1. DOMAIN table = SlotIds(conf)
      BY <1>2
  <2>2. \A q \in Seqs : /\ seq[q].state \in {"waiting", "running", "done"}
                        /\ seq[q].len \in 0..Cap /\ seq[q].slot \in DOMAIN table \cup {NoSlot}
      BY <1>10, <2>1 DEF Seats
  <2> QED
      BY <1>2, <1>5, <1>10, <2>2 DEF GraphTypeOK
<1>12. NeverStarved
    BY <1>2 DEF NeverStarved, No, Starved
<1> QED
    BY <1>1, <1>6, <1>7, <1>8, <1>10, <1>11, <1>12 DEF RunnerInv

LEMMA RunnerNext ==
  ASSUME RunnerInv, AllFit, [GraphNext]_vars
  PROVE  RunnerInv'
<1>1. CASE UNCHANGED vars
  <2>1. conf' = conf /\ seq' = seq /\ running' = running /\ table' = table /\ freeSlots' = freeSlots
        /\ freeBlocks' = freeBlocks /\ scratch' = scratch /\ captured' = captured /\ raised' = raised
        /\ rowIdx' = rowIdx /\ bufs' = bufs
      BY <1>1 DEF vars
  <2>2. raised \in {No, Uncapturable}
      BY DEF RunnerInv, GraphTypeOK, NeverStarved
  <2>3. ObjectsInv'
    <3>1. ObjectsInv
        BY Here
    <3> QED
        BY <2>1, <3>1 DEF ObjectsInv, Graphs
  <2>4. SlotsApart(conf, Pool.fs, scratch', Range(running'), At(seq')) /\ Len(running') <= MaxSeqs
    <3>1. SlotsInv /\ Pool.fs = freeSlots
        BY Here
    <3> QED
        BY <2>1, <3>1 DEF SlotsInv
  <2>5. /\ Sound(conf, Pool) /\ freeSlots' = Pool.fs /\ freeBlocks' = Pool.fb /\ table' = Pool.tab
      BY <2>1, Here
  <2>6. /\ running' \in Seq(Seqs) /\ IsInjective(running') /\ seq' \in [Seqs -> Seats(conf)]
        /\ \A q \in Seqs : seq'[q].state = "running" <=> q \in Range(running')
        /\ rowIdx' = NoKey \/ rowIdx' \in DOMAIN bufs'
      BY <2>1, Here
  <2> DEFINE p == Pool
  <2>7. Sound(conf, p) /\ freeSlots' = p.fs /\ freeBlocks' = p.fb /\ table' = p.tab
        /\ SlotsApart(conf, p.fs, scratch', Range(running'), At(seq'))
      BY <2>4, <2>5
  <2> HIDE DEF p
  <2> QED
      BY <2>1, <2>2, <2>3, <2>4, <2>6, <2>7, Assembled
<1>2. CASE \E q \in Waiting, n \in Prompts : PrefillEager(q, n)
    BY <1>2, PrefillEagerKeeps DEF Prompts
<1>3. CASE \E q \in Waiting, n \in Prompts : PrefillGraphed(q, n)
    BY <1>3, PrefillGraphedKeeps DEF Prompts
<1>4. CASE \E q \in Waiting, n \in Prompts : Encode(q, n)
    BY <1>4, EncodeKeeps DEF Prompts
<1>5. CASE \E q1, q2 \in Waiting, n1, n2 \in Prompts : q1 # q2 /\ PrefillVarlen(<<q1, q2>>, <<n1, n2>>)
    BY <1>5, PrefillVarlenKeeps DEF Prompts
<1>6. CASE DecodeGraphed
    BY <1>6, DecodeGraphedKeeps
<1>7. CASE DecodeStepGraph
    BY <1>7, DecodeStepGraphKeeps
<1>8. CASE DecodeEager
    BY <1>8, DecodeEagerKeeps
<1>9. CASE SpecNoProposal
    BY <1>9, SpecNoProposalKeeps
<1>10. CASE running # <<>> /\ SpecNext
    BY <1>10, SpecVerifyKeeps DEF SpecNext
<1>11. CASE \E q \in Seqs : Finish(q)
    BY <1>11, FinishKeeps
<1> QED
    BY <1>1, <1>2, <1>3, <1>4, <1>5, <1>6, <1>7, <1>8, <1>9, <1>10, <1>11 DEF GraphNext

\* What it means for the run's invariant.
LEMMA RunnerShows ==
  ASSUME RunnerInv, AllFit
  PROVE  GraphInv
<1> DEFINE at == At(seq)
           n == Len(running)
           R == Range(running)
<1>1. /\ GraphTypeOK /\ NeverStarved /\ BlocksApart(conf, freeBlocks, table)
      /\ SlotsApart(conf, freeSlots, scratch, R, at)
    BY DEF RunnerInv, SlotsInv
<1>2. /\ running \in Seq(Seqs) /\ IsInjective(running) /\ R \subseteq Seqs
      /\ n \in Nat /\ DOMAIN running = 1..n /\ (\A i \in 1..n : running[i] \in R)
      /\ \A q \in R : \E i \in 1..n : running[i] = q
    BY Here, SeqFacts
<1>3. \A q \in R : at[q] = seq[q].slot
    BY <1>2 DEF At
<1> HIDE DEF at, n, R
<1>4. LiveSlots = {at[q] : q \in R}
    BY <1>3 DEF LiveSlots, R
<1>5. Cardinality(LiveSlots) = n
  <2> DEFINE f == [i \in 1..n |-> at[running[i]]]
             L == LiveSlots
  <2>1. f \in [1..n -> L]
      BY <1>2, <1>4
  <2>2. \A i, j \in 1..n : f[i] = f[j] => i = j
      BY <1>1, <1>2 DEF SlotsApart, IsInjective
  <2>3. \A x \in L : \E i \in 1..n : f[i] = x
      BY <1>2, <1>4
  <2> HIDE DEF f, L
  <2>4. f \in Bijection(1..n, L)
      BY <2>1, <2>2, <2>3 DEF Bijection, Injection, Surjection, IsInjective
  <2>5. ExistsBijection(1..n, L)
      BY <2>4 DEF ExistsBijection
  <2> QED
      BY <1>2, <2>5, FS_CountingElements DEF L
<1>6. LiveSlots \cap ScratchSlots = {}
    BY <1>1, <1>4 DEF ScratchSlots, SlotsApart
<1>7. Held \cap Range(freeSlots) = {}
    BY <1>1, <1>4 DEF Held, ScratchSlots, SlotsApart
<1>8. Held \subseteq SlotIds(conf)
    BY <1>1, <1>4 DEF Held, ScratchSlots, SlotsApart
<1>9. IsInjective(freeSlots) /\ IsInjective(freeBlocks)
    BY <1>1 DEF SlotsApart, BlocksApart
<1>10. \A s \in Held : /\ IsInjective(table[s]) /\ Range(table[s]) \cap Range(freeBlocks) = {}
                       /\ \A t \in Held \ {s} : Range(table[s]) \cap Range(table[t]) = {}
    BY <1>1, <1>8 DEF BlocksApart
<1>11. ScratchReserved
    BY <1>5, <1>6, <1>7, <1>9, <1>10 DEF ScratchReserved, n
<1> QED
    BY <1>1, <1>11 DEF GraphInv

\* Over any deployment that grants what Fits asks, no path of the runner, graphed
\* or not, hands a slot or a block to two holders, and the slots added for the
\* graph objects' scratch rows are always enough (_extra_graph_slots).
THEOREM RunnerIsSafe == AllFit => (GraphSpec => []GraphInv)
<1> SUFFICES ASSUME AllFit PROVE GraphSpec => []GraphInv
    OBVIOUS
<1>1. GraphInit => RunnerInv
    BY RunnerInit
<1>2. RunnerInv /\ [GraphNext]_vars => RunnerInv'
    BY RunnerNext
<1>3. RunnerInv => GraphInv
    BY RunnerShows
<1> QED
    BY <1>1, <1>2, <1>3, PTL DEF GraphSpec

-----------------------------------------------------------------------------
(* What the blocks hold.  Every running sequence finds its own K/V and its *)
(* own recurrent row as long as prompts are prefilled one way: a graph     *)
(* whose pads write, or a second way beside the graph's own, breaks that   *)
(* (KVIntact is violated on each such instance).                           *)

\* No prompt goes through a prefill graph, or all go through one, fill its bucket
\* and have nothing written beside it that reads the tensor it is bound to.
OneWay(c) ==
  \/ \A n \in c.prompts : ~ Graphs(c, n)
  \/ ~ c.encode /\ \E b \in PrefillBuckets : \A n \in c.prompts : n = b /\ Graphs(c, n)

AllOneWay == \A c \in Deployments : OneWay(c)

FlatRows(c) == 0..NumBlocks(c) * BlockSize - 1

\* Memory m is as large as the pool.
MemoryOf(c, m) ==
  /\ m = [kv |-> m.kv, rec |-> m.rec]
  /\ DOMAIN m.kv = FlatRows(c) /\ DOMAIN m.rec = SlotIds(c)

\* Slot s is q's after n tokens.
Holds(m, tab, s, q, n) ==
  /\ Ceil(n, BlockSize) <= Len(tab[s])
  /\ \A p \in 0..n - 1 : m.kv[Flat(tab[s], p)] = <<q, p>>
  /\ m.rec[s] = <<q, n>>

\* A captured key has as many static rows as its bucket.
BufsInv == \A key \in DOMAIN bufs : key[1] # "prefill" => DOMAIN bufs[key] = 1..key[2]

\* At most one prefill graph is captured, and it goes on reading the tensor that
\* was bound last.
PagesInv ==
  IF DOMAIN captured = {} THEN pages = <<>>
  ELSE \E b \in PrefillBuckets :
         /\ DOMAIN captured = {b} /\ captured[b] = 1
         /\ ~ conf.encode /\ \A n \in conf.prompts : n = b /\ Graphs(conf, n)
         /\ pages = <<pages[1]>> /\ DOMAIN pages[1] = 1..NumBlocks(conf)

ContextInv ==
  /\ RunnerInv /\ MemoryOf(conf, Mem) /\ BufsInv /\ PagesInv
  /\ ~ conf.spec => \A q \in Range(running) : ~ seq[q].carry
  /\ \A q \in Range(running) : Holds(Mem, table, seq[q].slot, q, Committed(q))

\* Slot s has a block for position p.
HasPlace(tab, s, p) == p \in Nat /\ p \div BlockSize < Len(tab[s])

LEMMA DivMod ==
  ASSUME NEW p \in Nat
  PROVE  /\ p \div BlockSize \in Nat /\ p % BlockSize \in 0..BlockSize - 1
         /\ p = (p \div BlockSize) * BlockSize + (p % BlockSize)
<1>1. BlockSize \in Nat \ {0}
    BY Sizes
<1> QED
    BY <1>1

\* A flat row names its block and its offset.
LEMMA RowSplits ==
  ASSUME NEW b1 \in Nat, NEW b2 \in Nat, NEW o1 \in 0..BlockSize - 1, NEW o2 \in 0..BlockSize - 1,
         b1 * BlockSize + o1 = b2 * BlockSize + o2
  PROVE  b1 = b2 /\ o1 = o2
<1>1. BlockSize \in Nat \ {0}
    BY Sizes
<1>2. ASSUME NEW a \in Nat, NEW b \in Nat, a < b PROVE a * BlockSize + BlockSize <= b * BlockSize
  <2>1. PICK d \in Nat : b = a + 1 + d
    <3>1. b - a - 1 \in Nat /\ b = a + 1 + (b - a - 1)
        BY <1>2
    <3> QED
        BY <3>1
  <2>2. b * BlockSize = a * BlockSize + BlockSize + d * BlockSize
      BY <1>1, <2>1
  <2>3. d * BlockSize \in Nat /\ a * BlockSize \in Nat
      BY <1>1
  <2> QED
      BY <1>1, <2>2, <2>3
<1>3. b1 * BlockSize \in Nat /\ b2 * BlockSize \in Nat
    BY <1>1
<1>4. ~ (b1 < b2)
  <2>1. b1 < b2 => b1 * BlockSize + BlockSize <= b2 * BlockSize
      BY <1>2
  <2> QED
      BY <1>1, <1>3, <2>1
<1>5. ~ (b2 < b1)
  <2>1. b2 < b1 => b2 * BlockSize + BlockSize <= b1 * BlockSize
      BY <1>2
  <2> QED
      BY <1>1, <1>3, <2>1
<1>6. b1 = b2
    BY <1>4, <1>5
<1> QED
    BY <1>1, <1>3, <1>6

\* Two places of the pool are one flat row only when they are one place.
LEMMA FlatApart ==
  ASSUME NEW c, NEW fb, NEW tab, BlocksApart(c, fb, tab), NEW s \in SlotIds(c), NEW p, HasPlace(tab, s, p)
  PROVE  /\ Flat(tab[s], p) \in FlatRows(c)
         /\ \A t \in SlotIds(c) : \A r : HasPlace(tab, t, r) /\ Flat(tab[s], p) = Flat(tab[t], r) => s = t /\ p = r
<1>1. BlockSize \in Nat \ {0} /\ NumBlocks(c) \in Nat
    BY Sizes
<1>2. ASSUME NEW t \in SlotIds(c), NEW r, HasPlace(tab, t, r)
      PROVE  /\ r \in Nat /\ (r \div BlockSize) + 1 \in 1..Len(tab[t])
             /\ tab[t][(r \div BlockSize) + 1] \in BlockIds(c)
             /\ tab[t][(r \div BlockSize) + 1] \in Range(tab[t])
             /\ tab[t][(r \div BlockSize) + 1] \in Nat
             /\ r % BlockSize \in 0..BlockSize - 1
             /\ r = (r \div BlockSize) * BlockSize + (r % BlockSize)
  <2>1. tab[t] \in Seq(BlockIds(c)) /\ Len(tab[t]) \in Nat /\ DOMAIN tab[t] = 1..Len(tab[t])
      BY SeqFacts DEF BlocksApart
  <2>2. r \in Nat /\ r \div BlockSize \in Nat /\ r \div BlockSize < Len(tab[t])
      BY <1>2, DivMod DEF HasPlace
  <2>3. (r \div BlockSize) + 1 \in 1..Len(tab[t])
      BY <2>1, <2>2
  <2> DEFINE k == (r \div BlockSize) + 1
  <2>4. tab[t][k] \in BlockIds(c) /\ tab[t][k] \in Range(tab[t])
    <3> HIDE DEF k
    <3> QED
        BY <2>1, <2>3, SeqFacts DEF k
  <2>5. tab[t][k] \in Nat
      BY <1>1, <2>4 DEF BlockIds
  <2> QED
      BY <2>2, <2>3, <2>4, <2>5, DivMod
<1>3. Flat(tab[s], p) \in FlatRows(c)
  <2> DEFINE b == tab[s][(p \div BlockSize) + 1]
             o == p % BlockSize
  <2>1. b \in 0..NumBlocks(c) - 1 /\ o \in 0..BlockSize - 1
      BY <1>2 DEF BlockIds
  <2>2. Flat(tab[s], p) = b * BlockSize + o
      BY DEF Flat
  <2> HIDE DEF b, o
  <2>3. (b + 1) * BlockSize <= NumBlocks(c) * BlockSize
    <3>1. PICK d \in Nat : NumBlocks(c) = (b + 1) + d
      <4>1. NumBlocks(c) - (b + 1) \in Nat
          BY <1>1, <2>1
      <4> QED
          BY <1>1, <2>1, <4>1
    <3>2. NumBlocks(c) * BlockSize = (b + 1) * BlockSize + d * BlockSize
        BY <1>1, <2>1, <3>1
    <3> QED
        BY <1>1, <2>1, <3>2
  <2>4. (b + 1) * BlockSize = b * BlockSize + BlockSize /\ b * BlockSize \in Nat
      BY <1>1, <2>1
  <2>5. NumBlocks(c) * BlockSize \in Nat
      BY <1>1
  <2> QED
      BY <1>1, <2>1, <2>2, <2>3, <2>4, <2>5 DEF FlatRows
<1>4. ASSUME NEW t \in SlotIds(c), NEW r, HasPlace(tab, t, r), Flat(tab[s], p) = Flat(tab[t], r)
      PROVE  s = t /\ p = r
  <2> DEFINE i == (p \div BlockSize) + 1
             j == (r \div BlockSize) + 1
             b1 == tab[s][i]
             b2 == tab[t][j]
             o1 == p % BlockSize
             o2 == r % BlockSize
  <2>1. /\ i \in 1..Len(tab[s]) /\ b1 \in Range(tab[s]) /\ b1 \in Nat /\ o1 \in 0..BlockSize - 1
        /\ j \in 1..Len(tab[t]) /\ b2 \in Range(tab[t]) /\ b2 \in Nat /\ o2 \in 0..BlockSize - 1
      BY <1>2, <1>4
  <2>2. b1 * BlockSize + o1 = b2 * BlockSize + o2
      BY <1>4 DEF Flat
  <2>3. /\ p = (p \div BlockSize) * BlockSize + o1 /\ r = (r \div BlockSize) * BlockSize + o2
        /\ p \div BlockSize \in Nat /\ r \div BlockSize \in Nat
      BY <1>2, <1>4, DivMod
  <2>4. DOMAIN tab[s] = 1..Len(tab[s]) /\ DOMAIN tab[t] = 1..Len(tab[t])
      BY SeqFacts DEF BlocksApart
  <2> HIDE DEF b1, b2, o1, o2
  <2>5. b1 = b2 /\ o1 = o2
      BY <2>1, <2>2, RowSplits
  <2>6. s = t
      BY <2>1, <2>5 DEF BlocksApart
  <2>7. i = j
    <3>1. IsInjective(tab[s])
        BY DEF BlocksApart
    <3> HIDE DEF i, j
    <3>2. tab[s][i] = tab[s][j]
        BY <2>5, <2>6 DEF b1, b2
    <3> QED
        BY <2>1, <2>4, <2>6, <3>1, <3>2 DEF IsInjective
  <2>8. p \div BlockSize = r \div BlockSize
      BY <2>3, <2>7
  <2> QED
      BY <2>3, <2>5, <2>6, <2>8
<1> QED
    BY <1>3, <1>4

\* The positions a table has room for have their places.
LEMMA Under ==
  ASSUME NEW L \in Nat, NEW n \in Nat, Ceil(n, BlockSize) <= L, NEW p \in 0..n - 1
  PROVE  p \div BlockSize < L
<1>1. BlockSize \in Nat \ {0}
    BY Sizes
<1> DEFINE k == (n + BlockSize - 1) \div BlockSize
           d == p \div BlockSize
<1>2. k \in Nat /\ n <= k * BlockSize
    BY <1>1
<1>3. p \in Nat /\ p < n /\ d \in Nat /\ d * BlockSize <= p
    BY <1>1, DivMod
<1>4. k <= L
    BY DEF Ceil
<1> HIDE DEF k, d
<1>5. d < k
  <2>1. SUFFICES ASSUME ~ (d < k) PROVE FALSE
      OBVIOUS
  <2>2. PICK e \in Nat : d = k + e
    <3>1. d - k \in Nat
        BY <1>2, <1>3, <2>1
    <3> QED
        BY <1>2, <1>3, <3>1
  <2>3. d * BlockSize = k * BlockSize + e * BlockSize /\ e * BlockSize \in Nat /\ k * BlockSize \in Nat
      BY <1>1, <1>2, <2>2
  <2> QED
      BY <1>1, <1>2, <1>3, <2>3
<1> QED
    BY <1>2, <1>3, <1>4, <1>5 DEF d

\* Room for n positions is room for fewer.
LEMMA CeilGrows ==
  ASSUME NEW n \in Nat, NEW m \in 0..n
  PROVE  Ceil(m, BlockSize) \in Nat /\ Ceil(n, BlockSize) \in Nat /\ Ceil(m, BlockSize) <= Ceil(n, BlockSize)
<1>1. BlockSize \in Nat \ {0}
    BY Sizes
<1>2. n + BlockSize - 1 \in Nat /\ m + BlockSize - 1 \in Nat /\ m + BlockSize - 1 <= n + BlockSize - 1
    BY <1>1
<1> QED
    BY <1>1, <1>2 DEF Ceil

LEMMA Placed ==
  ASSUME NEW c, NEW fb, NEW tab, BlocksApart(c, fb, tab), NEW s \in SlotIds(c), NEW n \in Nat,
         Ceil(n, BlockSize) <= Len(tab[s])
  PROVE  \A p \in 0..n - 1 : HasPlace(tab, s, p)
<1>1. Len(tab[s]) \in Nat
    BY SeqFacts DEF BlocksApart
<1> QED
    BY <1>1, Under DEF HasPlace

-----------------------------------------------------------------------------
(* A forward pass whose rows work each on a slot of its own.               *)

RowsOn(c, tab, rows, width) ==
  \A i \in DOMAIN rows :
    /\ rows[i].st \in SlotIds(c) /\ rows[i].blocks = tab[rows[i].st]
    /\ rows[i].pos \in Nat /\ rows[i].cells = Cells(tab[rows[i].st], rows[i].pos, width)
    /\ Ceil(rows[i].pos + width, BlockSize) <= Len(tab[rows[i].st])

LEMMA RowCells ==
  ASSUME NEW c, NEW fb, NEW tab, BlocksApart(c, fb, tab), NEW rows, NEW width \in Nat,
         RowsOn(c, tab, rows, width), NEW i \in DOMAIN rows
  PROVE  /\ rows[i].st \in SlotIds(c) /\ rows[i].blocks = tab[rows[i].st] /\ rows[i].pos \in Nat
         /\ DOMAIN rows[i].cells = 1..width
         /\ \A t \in 1..width : /\ rows[i].cells[t] = Flat(tab[rows[i].st], rows[i].pos + t - 1)
                                /\ rows[i].pos + t - 1 \in 0..(rows[i].pos + width) - 1
         /\ \A p \in 0..(rows[i].pos + width) - 1 : HasPlace(tab, rows[i].st, p)
<1> DEFINE s == rows[i].st
           at == rows[i].pos
           cells == rows[i].cells
<1>1. /\ s \in SlotIds(c) /\ rows[i].blocks = tab[s] /\ at \in Nat /\ cells = Cells(tab[s], at, width)
      /\ Ceil(at + width, BlockSize) <= Len(tab[s])
    BY DEF RowsOn
<1> HIDE DEF s, at, cells
<1>2. DOMAIN cells = 1..width /\ \A t \in 1..width : cells[t] = Flat(tab[s], at + t - 1)
    BY <1>1 DEF Cells
<1>3. \A p \in 0..(at + width) - 1 : HasPlace(tab, s, p)
    BY <1>1, Placed
<1>4. \A t \in 1..width : at + t - 1 \in 0..(at + width) - 1
    BY <1>1
<1> QED
    BY <1>1, <1>2, <1>3, <1>4 DEF s, at, cells

\* What row i writes is no place of another slot.
LEMMA RowsApart ==
  ASSUME NEW c, NEW fb, NEW tab, BlocksApart(c, fb, tab), NEW rows, NEW width \in Nat,
         RowsOn(c, tab, rows, width), NEW i \in DOMAIN rows, NEW s \in SlotIds(c), NEW p, HasPlace(tab, s, p),
         Flat(tab[s], p) \in Range(rows[i].cells)
  PROVE  s = rows[i].st /\ p >= rows[i].pos
<1>0. \A x \in Range(rows[i].cells) : \E t \in 1..width : x = rows[i].cells[t]
  <2>1. DOMAIN rows[i].cells = 1..width
      BY RowCells
  <2> QED
      BY <2>1 DEF Range
<1>1. PICK t \in 1..width : Flat(tab[s], p) = rows[i].cells[t]
    BY <1>0
<1> DEFINE u == rows[i].st
           r == rows[i].pos + t - 1
<1>2. Flat(tab[s], p) = Flat(tab[u], r) /\ HasPlace(tab, u, r) /\ u \in SlotIds(c)
      /\ rows[i].pos \in Nat /\ r >= rows[i].pos
    BY <1>1, RowCells
<1> HIDE DEF u, r
<1>3. s = u /\ p = r
    BY <1>2, FlatApart
<1> QED
    BY <1>2, <1>3 DEF u

\* Memory m2 has in slot s what m has.
Spared(tab, m2, m, s) ==
  /\ m2.rec[s] = m.rec[s]
  /\ \A p : HasPlace(tab, s, p) => m2.kv[Flat(tab[s], p)] = m.kv[Flat(tab[s], p)]

\* Slots without a row are left as they are.
LEMMA ForwardKeeps ==
  ASSUME NEW c, NEW fb, NEW tab, BlocksApart(c, fb, tab), NEW rows, NEW width \in Nat,
         RowsOn(c, tab, rows, width), NEW m, MemoryOf(c, m), NEW acc, NEW mx
  PROVE  LET f == Forward(m, rows, acc, mx)
         IN  /\ MemoryOf(c, f)
             /\ \A s \in SlotIds(c) : (\A i \in DOMAIN rows : rows[i].st # s) => Spared(tab, f, m, s)
<1> DEFINE writers(x) == {i \in DOMAIN rows : x \in Range(rows[i].cells)}
           owners(s) == {i \in DOMAIN rows : rows[i].st = s}
           f == Forward(m, rows, acc, mx)
<1>1. m = [kv |-> m.kv, rec |-> m.rec] /\ DOMAIN m.kv = FlatRows(c) /\ DOMAIN m.rec = SlotIds(c)
    BY DEF MemoryOf
<1>2. /\ f = [kv |-> f.kv, rec |-> f.rec] /\ DOMAIN f.kv = DOMAIN m.kv /\ DOMAIN f.rec = DOMAIN m.rec
      /\ \A x \in DOMAIN m.kv : writers(x) = {} => f.kv[x] = m.kv[x]
      /\ \A s \in DOMAIN m.rec : owners(s) = {} => f.rec[s] = m.rec[s]
  <2> DEFINE clean == [m EXCEPT !.kv = [x \in DOMAIN m.kv |-> IF writers(x) = {} THEN m.kv[x] ELSE Junk]]
             lone(i) == \A x \in Range(rows[i].cells) : writers(x) = {i}
             good == {i \in DOMAIN rows : lone(i) /\ Computes(clean, rows[i], acc[i], mx)}
             value(i, x) == LET t == CHOOSE j \in DOMAIN rows[i].cells : rows[i].cells[j] = x
                            IN  IF t <= acc[i] THEN <<rows[i].q, rows[i].pos + t - 1>> ELSE Junk
             kv2 == [x \in DOMAIN m.kv |->
                       IF writers(x) \cap good = {} THEN clean.kv[x] ELSE value(CHOOSE i \in writers(x) : TRUE, x)]
             rec2 == [s \in DOMAIN m.rec |->
                        IF owners(s) = {} THEN m.rec[s]
                        ELSE LET i == CHOOSE j \in owners(s) : TRUE
                             IN  IF owners(s) = {i} /\ i \in good
                                   THEN <<rows[i].q, rows[i].pos + acc[i]>> ELSE Junk]
  <2>1. f = [kv |-> kv2, rec |-> rec2]
      BY DEF Forward
  <2>2. \A x \in DOMAIN m.kv : writers(x) = {} => clean.kv[x] = m.kv[x]
    <3> DEFINE k2 == [x \in DOMAIN m.kv |-> IF writers(x) = {} THEN m.kv[x] ELSE Junk]
    <3>1. clean.kv = k2
      <4> HIDE DEF k2
      <4>1. [m EXCEPT !.kv = k2].kv = k2
          BY <1>1
      <4> QED
          BY <4>1 DEF k2
    <3> QED
        BY <3>1
  <2> HIDE DEF clean, good
  <2>3. \A x \in DOMAIN m.kv : writers(x) = {} => kv2[x] = m.kv[x]
      BY <2>2
  <2>4. \A s \in DOMAIN m.rec : owners(s) = {} => rec2[s] = m.rec[s]
      OBVIOUS
  <2>5. DOMAIN kv2 = DOMAIN m.kv /\ DOMAIN rec2 = DOMAIN m.rec
      OBVIOUS
  <2> HIDE DEF kv2, rec2, f
  <2>6. f.kv = kv2 /\ f.rec = rec2
      BY <2>1
  <2> QED
      BY <2>1, <2>3, <2>4, <2>5, <2>6
<1> HIDE DEF f
<1>3. MemoryOf(c, f)
    BY <1>1, <1>2 DEF MemoryOf
<1>4. ASSUME NEW s \in SlotIds(c), \A i \in DOMAIN rows : rows[i].st # s
      PROVE  /\ f.rec[s] = m.rec[s]
             /\ \A p : HasPlace(tab, s, p) => f.kv[Flat(tab[s], p)] = m.kv[Flat(tab[s], p)]
  <2>1. f.rec[s] = m.rec[s]
      BY <1>1, <1>2, <1>4
  <2>2. ASSUME NEW p, HasPlace(tab, s, p) PROVE f.kv[Flat(tab[s], p)] = m.kv[Flat(tab[s], p)]
    <3> DEFINE x == Flat(tab[s], p)
    <3>1. x \in FlatRows(c)
        BY <2>2, FlatApart
    <3>2. \A i \in DOMAIN rows : x \notin Range(rows[i].cells)
        BY <1>4, <2>2, RowsApart
    <3> HIDE DEF x
    <3> QED
        BY <1>1, <1>2, <3>1, <3>2 DEF x
  <2> QED
      BY <2>1, <2>2
<1>5. \A s \in SlotIds(c) : (\A i \in DOMAIN rows : rows[i].st # s) => Spared(tab, f, m, s)
    BY <1>4 DEF Spared
<1> QED
    BY <1>3, <1>5 DEF f

\* A row that is alone on its slot and stands after its sequence's tokens
\* leaves the slot after those it accepts.
LEMMA ForwardComputes ==
  ASSUME NEW c, NEW fb, NEW tab, BlocksApart(c, fb, tab), NEW rows, NEW width \in Nat,
         RowsOn(c, tab, rows, width), NEW m, MemoryOf(c, m), NEW acc, NEW mx,
         NEW i \in DOMAIN rows, \A j \in DOMAIN rows : j # i => rows[j].st # rows[i].st,
         rows[i].q # NoSeq, rows[i].ctx = rows[i].pos + 1, acc[i] \in 1..width, rows[i].pos + acc[i] <= mx,
         Holds(m, tab, rows[i].st, rows[i].q, rows[i].pos)
  PROVE  Holds(Forward(m, rows, acc, mx), tab, rows[i].st, rows[i].q, rows[i].pos + acc[i])
<1> DEFINE writers(x) == {j \in DOMAIN rows : x \in Range(rows[j].cells)}
           owners(z) == {j \in DOMAIN rows : rows[j].st = z}
           f == Forward(m, rows, acc, mx)
           s == rows[i].st
           q == rows[i].q
           at == rows[i].pos
           cells == rows[i].cells
           a == acc[i]
<1>1. m = [kv |-> m.kv, rec |-> m.rec] /\ DOMAIN m.kv = FlatRows(c) /\ DOMAIN m.rec = SlotIds(c)
    BY DEF MemoryOf
<1>2. /\ s \in SlotIds(c) /\ rows[i].blocks = tab[s] /\ at \in Nat /\ a \in 1..width
      /\ DOMAIN cells = 1..width
      /\ \A t \in 1..width : cells[t] = Flat(tab[s], at + t - 1) /\ at + t - 1 \in 0..(at + width) - 1
      /\ \A p \in 0..(at + width) - 1 : HasPlace(tab, s, p)
      /\ \A x \in Range(cells) : \E t \in 1..width : x = cells[t]
  <2>1. s \in SlotIds(c) /\ rows[i].blocks = tab[s] /\ at \in Nat /\ DOMAIN cells = 1..width
      BY RowCells
  <2>2. \A t \in 1..width : cells[t] = Flat(tab[s], at + t - 1) /\ at + t - 1 \in 0..(at + width) - 1
      BY RowCells
  <2>3. \A p \in 0..(at + width) - 1 : HasPlace(tab, s, p)
      BY RowCells
  <2>4. \A x \in Range(cells) : \E t \in 1..width : x = cells[t]
    <3> HIDE DEF cells
    <3> QED
        BY <2>1 DEF Range
  <2> QED
      BY <2>1, <2>2, <2>3, <2>4
<1>3. /\ \A p \in 0..at - 1 : m.kv[Flat(tab[s], p)] = <<q, p>>
      /\ m.rec[s] = <<q, at>>
    BY DEF Holds
<1>4. \A p \in 0..(at + width) - 1 : Flat(tab[s], p) \in DOMAIN m.kv
    BY <1>1, <1>2, FlatApart
<1>5. \A p \in 0..at - 1 : writers(Flat(tab[s], p)) = {}
  <2>1. ASSUME NEW p \in 0..at - 1, NEW j \in DOMAIN rows, Flat(tab[s], p) \in Range(rows[j].cells)
        PROVE  FALSE
    <3>1. HasPlace(tab, s, p) /\ p < at
        BY <1>2
    <3>2. s = rows[j].st /\ p >= rows[j].pos
        BY <1>2, <2>1, <3>1, RowsApart
    <3>3. j = i
        BY <3>2
    <3> QED
        BY <1>2, <3>1, <3>2, <3>3
  <2> QED
      BY <2>1
<1>6. \A x \in Range(cells) : writers(x) = {i}
  <2>1. ASSUME NEW x \in Range(cells), NEW j \in DOMAIN rows, x \in Range(rows[j].cells) PROVE j = i
    <3>0. PICK t \in 1..width : x = cells[t]
        BY <1>2
    <3>1. x = Flat(tab[s], at + t - 1) /\ HasPlace(tab, s, at + t - 1)
      <4>1. x = Flat(tab[s], at + t - 1) /\ at + t - 1 \in 0..(at + width) - 1
          BY <1>2, <3>0
      <4> QED
          BY <1>2, <4>1
    <3> DEFINE p == at + t - 1
    <3>2. HasPlace(tab, s, p) /\ Flat(tab[s], p) \in Range(rows[j].cells)
        BY <2>1, <3>1
    <3> HIDE DEF p
    <3>3. s = rows[j].st
      <4>1. s \in SlotIds(c) /\ j \in DOMAIN rows
          BY <1>2
      <4> HIDE DEF s
      <4> QED
          BY <3>2, <4>1, RowsApart
    <3> QED
        BY <3>3
  <2> QED
      BY <2>1
<1>7. owners(s) = {i}
    OBVIOUS
<1>12. Ceil(at + width, BlockSize) <= Len(tab[s]) /\ Len(tab[s]) \in Nat
    BY <1>2, SeqFacts DEF RowsOn, BlocksApart
<1> HIDE DEF at, cells, a, q, s, writers, owners
<1>8. \A t, u \in 1..width : cells[t] = cells[u] => t = u
  <2>1. ASSUME NEW t \in 1..width, NEW u \in 1..width, cells[t] = cells[u] PROVE t = u
    <3> DEFINE p == at + t - 1
               r == at + u - 1
    <3>1. Flat(tab[s], p) = Flat(tab[s], r) /\ HasPlace(tab, s, p) /\ HasPlace(tab, s, r)
        BY <1>2, <2>1
    <3> HIDE DEF p, r
    <3>2. p = r
        BY <1>2, <3>1, FlatApart
    <3> QED
        BY <1>2, <2>1, <3>2 DEF p, r
  <2> QED
      BY <2>1
<1>9. /\ \A p \in 0..at - 1 : f.kv[Flat(tab[s], p)] = <<q, p>>
      /\ \A t \in 1..a : f.kv[cells[t]] = <<q, at + t - 1>>
      /\ f.rec[s] = <<q, at + a>>
  <2> DEFINE k2 == [x \in DOMAIN m.kv |-> IF writers(x) = {} THEN m.kv[x] ELSE Junk]
             clean == [m EXCEPT !.kv = k2]
             lone(j) == \A x \in Range(rows[j].cells) : writers(x) = {j}
             good == {j \in DOMAIN rows : lone(j) /\ Computes(clean, rows[j], acc[j], mx)}
             value(j, x) == LET t == CHOOSE u \in DOMAIN rows[j].cells : rows[j].cells[u] = x
                            IN  IF t <= acc[j] THEN <<rows[j].q, rows[j].pos + t - 1>> ELSE Junk
             kv2 == [x \in DOMAIN m.kv |->
                       IF writers(x) \cap good = {} THEN clean.kv[x] ELSE value(CHOOSE j \in writers(x) : TRUE, x)]
             rec2 == [z \in DOMAIN m.rec |->
                        IF owners(z) = {} THEN m.rec[z]
                        ELSE LET j == CHOOSE k \in owners(z) : TRUE
                             IN  IF owners(z) = {j} /\ j \in good
                                   THEN <<rows[j].q, rows[j].pos + acc[j]>> ELSE Junk]
  <2>1. f = [kv |-> kv2, rec |-> rec2]
      BY DEF Forward, writers, owners
  <2>2. clean.kv = k2 /\ clean.rec = m.rec
    <3> HIDE DEF k2
    <3>1. [m EXCEPT !.kv = k2].kv = k2 /\ [m EXCEPT !.kv = k2].rec = m.rec
        BY <1>1
    <3> QED
        BY <3>1
  <2>3. \A p \in 0..at - 1 : k2[Flat(tab[s], p)] = <<q, p>>
    <3> TAKE p \in 0..at - 1
    <3> DEFINE x == Flat(tab[s], p)
    <3>1. x \in DOMAIN m.kv /\ writers(x) = {} /\ m.kv[x] = <<q, p>>
        BY <1>2, <1>3, <1>4, <1>5
    <3> HIDE DEF x
    <3> QED
        BY <3>1 DEF x
  <2> HIDE DEF k2, clean
  <2>4. Computes(clean, rows[i], acc[i], mx)
    <3>1. \A p \in 0..at - 1 : p \div BlockSize < Len(tab[s])
        BY <1>2 DEF HasPlace
    <3>2. \A p \in 0..at - 1 : clean.kv[Flat(rows[i].blocks, p)] = <<rows[i].q, p>>
        BY <1>2, <2>2, <2>3 DEF q
    <3>3. clean.rec[rows[i].st] = <<rows[i].q, rows[i].pos>>
        BY <1>3, <2>2 DEF s, q, at
    <3> QED
        BY <1>2, <3>1, <3>2, <3>3 DEF Computes, s, at, a
  <2>5. i \in good
      BY <1>6, <2>4 DEF cells
  <2> HIDE DEF good
  <2>6. \A p \in 0..at - 1 : kv2[Flat(tab[s], p)] = <<q, p>>
    <3> TAKE p \in 0..at - 1
    <3> DEFINE x == Flat(tab[s], p)
    <3>1. x \in DOMAIN m.kv /\ writers(x) \cap good = {} /\ clean.kv[x] = <<q, p>>
        BY <1>2, <1>4, <1>5, <2>2, <2>3
    <3> HIDE DEF x
    <3> QED
        BY <3>1 DEF x
  <2>7. \A t \in 1..a : kv2[cells[t]] = <<q, at + t - 1>>
    <3> TAKE t \in 1..a
    <3> DEFINE x == cells[t]
    <3>1. t \in 1..width
        BY <1>2
    <3>2. x \in DOMAIN m.kv /\ x \in Range(cells)
        BY <1>2, <1>4, <3>1 DEF Range
    <3>3. writers(x) = {i} /\ writers(x) \cap good # {} /\ (CHOOSE j \in writers(x) : TRUE) = i
        BY <1>6, <2>5, <3>2
    <3>4. (CHOOSE u \in DOMAIN cells : cells[u] = x) = t
        BY <1>2, <1>8, <3>1
    <3>5. value(i, x) = <<q, at + t - 1>>
      <4>1. (CHOOSE u \in DOMAIN rows[i].cells : rows[i].cells[u] = x) = t
          BY <3>4 DEF cells
      <4>2. t <= acc[i]
          BY <1>2 DEF a
      <4> QED
          BY <4>1, <4>2 DEF q, at
    <3>6. kv2[x] = value(i, x)
      <4> HIDE DEF value, x
      <4> QED
          BY <3>2, <3>3
    <3> QED
        BY <3>5, <3>6
  <2>8. rec2[s] = <<q, at + a>>
    <3>1. owners(s) # {} /\ (CHOOSE k \in owners(s) : TRUE) = i /\ s \in DOMAIN m.rec
        BY <1>1, <1>2, <1>7
    <3> QED
        BY <1>7, <2>5, <3>1 DEF q, at, a
  <2> HIDE DEF kv2, rec2, f
  <2>9. f.kv = kv2 /\ f.rec = rec2
      BY <2>1
  <2> QED
      BY <2>6, <2>7, <2>8, <2>9
<1> HIDE DEF f
<1>10. \A p \in 0..(at + a) - 1 : f.kv[Flat(tab[s], p)] = <<q, p>>
  <2> TAKE p \in 0..(at + a) - 1
  <2>1. CASE p \in 0..at - 1
      BY <1>9, <2>1
  <2>2. CASE ~ (p \in 0..at - 1)
    <3> DEFINE t == p - at + 1
    <3>1. t \in 1..a /\ t \in 1..width /\ at + t - 1 = p
        BY <1>2, <2>2
    <3> HIDE DEF t
    <3>2. cells[t] = Flat(tab[s], p) /\ f.kv[cells[t]] = <<q, p>>
        BY <1>2, <1>9, <3>1
    <3> QED
        BY <3>2
  <2> QED
      BY <2>1, <2>2
<1>11. Ceil(at + a, BlockSize) <= Len(tab[s])
  <2> DEFINE n == at + width
             k == at + a
  <2>1. n \in Nat /\ k \in 0..n /\ Ceil(n, BlockSize) <= Len(tab[s]) /\ Len(tab[s]) \in Nat
      BY <1>2, <1>12
  <2> HIDE DEF n, k
  <2>2. Ceil(k, BlockSize) <= Ceil(n, BlockSize) /\ Ceil(k, BlockSize) \in Nat /\ Ceil(n, BlockSize) \in Nat
      BY <2>1, CeilGrows
  <2> QED
      BY <2>1, <2>2 DEF k
<1> QED
    BY <1>9, <1>10, <1>11 DEF Holds, f, s, q, at, a

-----------------------------------------------------------------------------
(* What becomes of a slot's contents                                       *)

LEMMA HoldsSame ==
  ASSUME NEW c, NEW fb, NEW tab, BlocksApart(c, fb, tab), NEW s \in SlotIds(c), NEW m, NEW m2,
         Spared(tab, m2, m, s), NEW q, NEW n \in Nat, Holds(m, tab, s, q, n)
  PROVE  Holds(m2, tab, s, q, n)
<1>1. \A p \in 0..n - 1 : HasPlace(tab, s, p)
    BY Placed DEF Holds
<1> QED
    BY <1>1 DEF Holds, Spared

\* Blocks that are added to a table move nothing.
LEMMA FlatStays ==
  ASSUME NEW c, NEW p, NEW p2, Sound(c, p), Sound(c, p2), Extends(c, p2, p), NEW s \in SlotIds(c),
         NEW r, HasPlace(p.tab, s, r)
  PROVE  HasPlace(p2.tab, s, r) /\ Flat(p2.tab[s], r) = Flat(p.tab[s], r)
<1> DEFINE k == r \div BlockSize
           a == p.tab[s]
           b == p2.tab[s]
<1>1. Len(a) \in Nat /\ Len(b) \in Nat
    BY SoundFields
<1>2. Len(a) <= Len(b) /\ \A i \in 1..Len(a) : b[i] = a[i]
    BY DEF Extends
<1>3. r \in Nat /\ k \in Nat /\ k < Len(a)
    BY DivMod DEF HasPlace
<1> HIDE DEF k, a, b
<1>4. k < Len(b) /\ b[k + 1] = a[k + 1]
    BY <1>1, <1>2, <1>3
<1> QED
    BY <1>3, <1>4 DEF HasPlace, Flat, k, a, b

LEMMA HoldsOn ==
  ASSUME NEW c, NEW p, NEW p2, Sound(c, p), Sound(c, p2), Extends(c, p2, p), NEW s \in SlotIds(c),
         NEW m, NEW q, NEW n \in Nat, Holds(m, p.tab, s, q, n)
  PROVE  Holds(m, p2.tab, s, q, n)
<1>1. BlocksApart(c, p.fb, p.tab)
    BY SoundFields
<1>2. Ceil(n, BlockSize) <= Len(p.tab[s])
    BY DEF Holds
<1>3. \A r \in 0..n - 1 : HasPlace(p.tab, s, r)
    BY <1>1, <1>2, Placed
<1>4. \A r \in 0..n - 1 : Flat(p2.tab[s], r) = Flat(p.tab[s], r)
    BY <1>3, FlatStays
<1>5. Ceil(n, BlockSize) <= Len(p2.tab[s])
  <2> DEFINE a == Len(p.tab[s])
             b == Len(p2.tab[s])
             d == Ceil(n, BlockSize)
  <2>1. a \in Nat /\ b \in Nat /\ a <= b
      BY SoundFields DEF Extends
  <2>2. d \in Nat /\ d <= a
      BY <1>2, CeilGrows
  <2> HIDE DEF a, b, d
  <2>3. d <= b
      BY <2>1, <2>2
  <2> QED
      BY <2>3 DEF b, d
<1> QED
    BY <1>4, <1>5 DEF Holds

\* Blocks lead the first n positions where table "own" has them.
Leads(blocks, own, n) == \A p \in 0..n - 1 : Flat(blocks, p) = Flat(own, p)

\* Contents w are k's once the first n positions of slot s were written for q, the
\* values before position "sound" being good: no other slot lost anything.
Written(c, tab, w, k, s, q, n, sound) ==
  /\ DOMAIN w = FlatRows(c)
  /\ n <= sound => \A p \in 0..n - 1 : w[Flat(tab[s], p)] = <<q, p>>
  /\ \A t \in SlotIds(c) : \A p : t # s /\ HasPlace(tab, t, p) => w[Flat(tab[t], p)] = k[Flat(tab[t], p)]

\* A prompt written through a table puts each position in its place.
LEMMA PromptWritten ==
  ASSUME NEW c, NEW fb, NEW tab, BlocksApart(c, fb, tab), NEW s \in SlotIds(c), NEW n \in Nat,
         Ceil(n, BlockSize) <= Len(tab[s]), NEW k, DOMAIN k = FlatRows(c),
         NEW blocks, Leads(blocks, tab[s], n), NEW q, NEW sound \in Nat
  PROVE  Written(c, tab, WritePrompt(k, blocks, q, n, sound), k, s, q, n, sound)
<1> DEFINE ps(x) == {p \in 0..n - 1 : Flat(blocks, p) = x}
           w == WritePrompt(k, blocks, q, n, sound)
<1>1. w = [x \in DOMAIN k |->
             IF ps(x) = {} THEN k[x]
             ELSE IF Cardinality(ps(x)) = 1 /\ Max(ps(x)) < sound THEN <<q, Max(ps(x))>> ELSE Junk]
    BY DEF WritePrompt
<1>2. \A p \in 0..n - 1 : HasPlace(tab, s, p)
    BY Placed
<1>3. ASSUME NEW p \in 0..n - 1 PROVE ps(Flat(tab[s], p)) = {p} /\ Flat(tab[s], p) \in FlatRows(c)
  <2>1. \A r \in 0..n - 1 : Flat(blocks, r) = Flat(tab[s], p) => r = p
      BY <1>2, FlatApart DEF Leads
  <2>2. Flat(blocks, p) = Flat(tab[s], p)
      BY DEF Leads
  <2>3. Flat(tab[s], p) \in FlatRows(c)
      BY <1>2, FlatApart
  <2> QED
      BY <2>1, <2>2, <2>3
<1>4. ASSUME NEW t \in SlotIds(c), t # s, NEW p, HasPlace(tab, t, p)
      PROVE  ps(Flat(tab[t], p)) = {} /\ Flat(tab[t], p) \in FlatRows(c)
  <2>1. \A r \in 0..n - 1 : Flat(tab[s], r) # Flat(tab[t], p)
      BY <1>2, <1>4, FlatApart
  <2>3. \A r \in 0..n - 1 : Flat(blocks, r) # Flat(tab[t], p)
      BY <2>1 DEF Leads
  <2>2. Flat(tab[t], p) \in FlatRows(c)
      BY <1>4, FlatApart
  <2> QED
      BY <2>2, <2>3
<1> HIDE DEF ps, w
<1>5. DOMAIN w = FlatRows(c)
    BY <1>1
<1>6. ASSUME n <= sound, NEW p \in 0..n - 1 PROVE w[Flat(tab[s], p)] = <<q, p>>
  <2> DEFINE x == Flat(tab[s], p)
  <2>1. ps(x) = {p} /\ x \in DOMAIN k /\ p \in Nat /\ p < sound
      BY <1>3, <1>6
  <2>2. Cardinality({p}) = 1
      BY FS_Singleton
  <2>3. Max({p}) = p
    <3>1. {p} \in SUBSET Nat /\ {p} # {} /\ \A i \in {p} : i <= p
        BY <2>1
    <3>2. Max({p}) \in {p}
        BY <2>1, <3>1, MaxFacts
    <3> QED
        BY <3>2
  <2> HIDE DEF x
  <2>4. w[x] = <<q, p>>
      BY <1>1, <2>1, <2>2, <2>3
  <2> QED
      BY <2>4 DEF x
<1>7. ASSUME NEW t \in SlotIds(c), t # s, NEW p, HasPlace(tab, t, p) PROVE w[Flat(tab[t], p)] = k[Flat(tab[t], p)]
    BY <1>1, <1>4, <1>7
<1> QED
  <2>1. Written(c, tab, w, k, s, q, n, sound)
      BY <1>5, <1>6, <1>7 DEF Written
  <2> QED
      BY <2>1 DEF w

-----------------------------------------------------------------------------
(* A forward over running sequences qs, each with a row of its own, beyond *)
(* them pads on the scratch slot sc.                                       *)

LEMMA LiveRowFacts ==
  ASSUME NEW tab, NEW q, NEW p, NEW width
  PROVE  LET row == LiveRow(tab, q, p, width)
         IN  /\ row.q = q /\ row.pos = p /\ row.cells = Cells(tab[seq[q].slot], p, width)
             /\ row.blocks = tab[seq[q].slot] /\ row.ctx = p + 1 /\ row.st = seq[q].slot
BY DEF LiveRow

LEMMA PadRowFacts ==
  ASSUME NEW tab, NEW sc, NEW width
  PROVE  LET row == PadRow(tab, sc, width)
         IN  /\ row.pos = 0 /\ row.cells = Cells(tab[sc], 0, width) /\ row.blocks = tab[sc] /\ row.st = sc
BY DEF PadRow

LEMMA SlotsOwn ==
  ASSUME RunnerInv, AllFit, NEW q \in Range(running), NEW r \in Range(running), seq[q].slot = seq[r].slot
  PROVE  q = r
<1> DEFINE at == At(seq)
           R == Range(running)
<1>1. SlotsApart(conf, freeSlots, scratch, R, at)
    BY Here DEF SlotsInv
<1>2. at[q] = seq[q].slot /\ at[r] = seq[r].slot
    BY Here DEF At
<1> HIDE DEF at, R
<1>3. at[q] = at[r] => q = r
    BY <1>1 DEF SlotsApart, R
<1> QED
    BY <1>2, <1>3

\* The sequences qs stand after their tokens in memory m and take acc more each.
Batch(p, qs, shift, width, acc, mx, m) ==
  /\ Sound(conf, p) /\ MemoryOf(conf, m) /\ shift \in Nat /\ width \in Nat
  /\ qs \in Seq(Seqs) /\ IsInjective(qs) /\ Range(qs) \subseteq Range(running)
  /\ \A q \in Range(qs) : /\ Covers(p, seq[q].slot, (seq[q].len + shift) + width)
                           /\ acc[q] \in 1..width /\ (seq[q].len + shift) + acc[q] <= mx
                           /\ Holds(m, p.tab, seq[q].slot, q, seq[q].len + shift)

\* N rows for them, pads behind.
Laid(rows, counts, N, p, qs, shift, width, acc, sc) ==
  /\ N \in Nat /\ Len(qs) <= N /\ DOMAIN rows = 1..N
  /\ N # Len(qs) => /\ sc \in SlotIds(conf) /\ Covers(p, sc, width)
                    /\ \A q \in Range(running) : seq[q].slot # sc
  /\ \A i \in 1..N : rows[i] = IF i <= Len(qs) THEN LiveRow(p.tab, qs[i], seq[qs[i]].len + shift, width)
                                                ELSE PadRow(p.tab, sc, width)
  /\ \A i \in 1..Len(qs) : counts[i] = acc[qs[i]]

Taking(f, p, qs, shift, acc, m) ==
  /\ MemoryOf(conf, f)
  /\ \A q \in Range(qs) : Holds(f, p.tab, seq[q].slot, q, (seq[q].len + shift) + acc[q])
  /\ \A q \in Range(running) \ Range(qs) : Spared(p.tab, f, m, seq[q].slot)

LEMMA BatchComputes ==
  ASSUME RunnerInv, AllFit, NEW p, NEW qs, NEW shift, NEW width, NEW acc, NEW mx, NEW m,
         Batch(p, qs, shift, width, acc, mx, m),
         NEW rows, NEW counts, NEW N, NEW sc, Laid(rows, counts, N, p, qs, shift, width, acc, sc)
  PROVE  Taking(Forward(m, rows, counts, mx), p, qs, shift, acc, m)
<1> DEFINE f == Forward(m, rows, counts, mx)
           n == Len(qs)
           tab == p.tab
           fb == p.fb
           slot(q) == seq[q].slot
           at(q) == seq[q].len + shift
<1>0. /\ Sound(conf, p) /\ MemoryOf(conf, m) /\ shift \in Nat /\ width \in Nat
      /\ qs \in Seq(Seqs) /\ IsInjective(qs) /\ Range(qs) \subseteq Range(running)
      /\ N \in Nat /\ DOMAIN rows = 1..N
    BY DEF Batch, Laid
<1>1. /\ n \in Nat /\ DOMAIN qs = 1..n /\ (\A i \in 1..n : qs[i] \in Range(qs) /\ qs[i] \in Seqs)
      /\ (\A q \in Range(qs) : \E i \in 1..n : qs[i] = q)
      /\ \A i, j \in 1..n : qs[i] = qs[j] => i = j
    BY <1>0, SeqFacts DEF IsInjective
<1>10. n <= N /\ (N # n => /\ sc \in SlotIds(conf) /\ Covers(p, sc, width)
                             /\ \A q \in Range(running) : slot(q) # sc)
    BY DEF Laid
<1>11. \A i \in 1..N : rows[i] = IF i <= n THEN LiveRow(tab, qs[i], at(qs[i]), width) ELSE PadRow(tab, sc, width)
    BY DEF Laid
<1>12. \A i \in 1..n : counts[i] = acc[qs[i]]
    BY DEF Laid
<1>13. \A q \in Range(qs) : /\ q \in Seqs /\ q # NoSeq /\ Covers(p, slot(q), at(q) + width)
                            /\ acc[q] \in 1..width /\ at(q) + acc[q] <= mx /\ Holds(m, tab, slot(q), q, at(q))
  <2>1. (\A q \in Range(running) : q \in Seqs) /\ NoSeq \notin Seqs
      BY Here, GraphSizesAssumption
  <2>2. \A q \in Range(qs) : q \in Seqs /\ q # NoSeq
      BY <1>0, <2>1
  <2> QED
      BY <2>2 DEF Batch
<1> HIDE DEF n
<1>2. BlocksApart(conf, fb, tab)
    BY <1>0, SoundFields
<1>3. \A q \in Range(running) : slot(q) \in SlotIds(conf) /\ seq[q].len \in Nat /\ at(q) \in Nat
    BY <1>0, Here
<1>4. ASSUME NEW i \in 1..n
      PROVE  /\ rows[i].q = qs[i] /\ rows[i].pos = at(qs[i]) /\ rows[i].cells = Cells(tab[slot(qs[i])], at(qs[i]), width)
             /\ rows[i].blocks = tab[slot(qs[i])] /\ rows[i].ctx = at(qs[i]) + 1 /\ rows[i].st = slot(qs[i])
             /\ i \in 1..N
  <2>1. i \in 1..N /\ i <= n
      BY <1>0, <1>1, <1>10
  <2> HIDE DEF tab, slot, at
  <2>2. rows[i] = LiveRow(tab, qs[i], at(qs[i]), width)
      BY <1>11, <2>1
  <2> QED
      BY <2>1, <2>2, LiveRowFacts DEF slot
<1>5. ASSUME NEW i \in 1..N, ~ (i \in 1..n)
      PROVE  /\ rows[i].pos = 0 /\ rows[i].cells = Cells(tab[sc], 0, width) /\ rows[i].blocks = tab[sc]
             /\ rows[i].st = sc /\ sc \in SlotIds(conf) /\ Covers(p, sc, width)
             /\ \A q \in Range(running) : slot(q) # sc
  <2>1. ~ (i <= n) /\ N # n
      BY <1>0, <1>1, <1>5, <1>10
  <2> HIDE DEF tab, slot, at
  <2>2. rows[i] = PadRow(tab, sc, width)
      BY <1>11, <2>1
  <2>3. sc \in SlotIds(conf) /\ Covers(p, sc, width) /\ \A q \in Range(running) : slot(q) # sc
      BY <1>10, <2>1
  <2> QED
      BY <2>2, <2>3, PadRowFacts
<1>6. RowsOn(conf, tab, rows, width)
  <2>1. ASSUME NEW i \in 1..N
        PROVE  /\ rows[i].st \in SlotIds(conf) /\ rows[i].blocks = tab[rows[i].st]
               /\ rows[i].pos \in Nat /\ rows[i].cells = Cells(tab[rows[i].st], rows[i].pos, width)
               /\ Ceil(rows[i].pos + width, BlockSize) <= Len(tab[rows[i].st])
    <3>1. CASE i \in 1..n
      <4>1. qs[i] \in Range(qs) /\ qs[i] \in Range(running)
          BY <1>0, <1>1, <3>1
      <4>2. Ceil(at(qs[i]) + width, BlockSize) <= Len(tab[slot(qs[i])])
          BY <1>13, <4>1 DEF Covers
      <4> QED
          BY <1>3, <1>4, <3>1, <4>1, <4>2
    <3>2. CASE ~ (i \in 1..n)
      <4>1. 0 + width = width
          BY <1>0
      <4>2. Ceil(width, BlockSize) <= Len(tab[sc])
          BY <1>5, <3>2 DEF Covers
      <4> QED
          BY <1>0, <1>5, <3>2, <4>1, <4>2
    <3> QED
        BY <3>1, <3>2
  <2> QED
      BY <1>0, <2>1 DEF RowsOn
<1>7. ASSUME NEW q \in Range(qs)
      PROVE  Holds(f, tab, slot(q), q, at(q) + acc[q])
  <2>1. PICK i \in 1..n : qs[i] = q
      BY <1>1
  <2>2. /\ rows[i].q = q /\ rows[i].pos = at(q) /\ rows[i].ctx = at(q) + 1 /\ rows[i].st = slot(q)
        /\ i \in DOMAIN rows
      BY <1>0, <1>4, <2>1
  <2>3. ASSUME NEW j \in DOMAIN rows, j # i PROVE rows[j].st # rows[i].st
    <3>1. CASE j \in 1..n
      <4>1. qs[j] # q /\ qs[j] \in Range(running)
          BY <1>0, <1>1, <2>1, <2>3, <3>1
      <4>2. slot(qs[j]) # slot(q)
          BY <1>0, <4>1, SlotsOwn
      <4> QED
          BY <1>4, <2>2, <3>1, <4>2
    <3>2. CASE ~ (j \in 1..n)
        BY <1>0, <1>5, <2>2, <3>2
    <3> QED
        BY <3>1, <3>2
  <2>4. counts[i] = acc[q] /\ acc[q] \in 1..width /\ at(q) + acc[q] <= mx
      BY <1>12, <1>13, <2>1
  <2>5. Holds(m, tab, slot(q), q, at(q))
      BY <1>13
  <2>6. q # NoSeq
      BY <1>13
  <2> HIDE DEF f, tab, fb, at, slot
  <2>7. /\ rows[i].q # NoSeq /\ rows[i].ctx = rows[i].pos + 1 /\ counts[i] \in 1..width
        /\ rows[i].pos + counts[i] <= mx /\ Holds(m, tab, rows[i].st, rows[i].q, rows[i].pos)
      BY <2>2, <2>4, <2>5, <2>6
  <2>8. Holds(Forward(m, rows, counts, mx), tab, rows[i].st, rows[i].q, rows[i].pos + counts[i])
      BY <1>0, <1>2, <1>6, <2>2, <2>3, <2>7, ForwardComputes
  <2> QED
      BY <2>2, <2>4, <2>8 DEF f
<1>8. ASSUME NEW q \in Range(running) \ Range(qs) PROVE Spared(tab, f, m, slot(q))
  <2>1. ASSUME NEW i \in DOMAIN rows PROVE rows[i].st # slot(q)
    <3>1. CASE i \in 1..n
      <4>1. qs[i] # q /\ qs[i] \in Range(running)
          BY <1>0, <1>1, <3>1
      <4>2. slot(qs[i]) # slot(q)
          BY <4>1, SlotsOwn
      <4> QED
          BY <1>4, <3>1, <4>2
    <3>2. CASE ~ (i \in 1..n)
        BY <1>0, <1>5, <3>2
    <3> QED
        BY <3>1, <3>2
  <2>2. slot(q) \in SlotIds(conf)
      BY <1>3
  <2> HIDE DEF f, tab, fb, slot
  <2> QED
      BY <1>0, <1>2, <1>6, <2>1, <2>2, ForwardKeeps DEF f
<1>9. MemoryOf(conf, f)
  <2> HIDE DEF f, tab, fb
  <2> QED
      BY <1>0, <1>2, <1>6, ForwardKeeps DEF f
<1> QED
    BY <1>7, <1>8, <1>9 DEF Taking
\* An eager forward addresses the rows by the batch's own slots.
LEMMA EagerComputes ==
  ASSUME RunnerInv, AllFit, NEW p, NEW qs, NEW shift, NEW width, NEW acc, NEW m,
         Batch(p, qs, shift, width, acc, Cap, m)
  PROVE  Taking(EagerForward(m, p, qs, shift, width, acc), p, qs, shift, acc, m)
<1> DEFINE tab == p.tab
           N == Len(qs)
           live == LiveRows(tab, qs, shift, width)
           rows == Bound(live, NoKey)
           counts == [i \in DOMAIN qs |-> acc[qs[i]]]
           sc == NoSlot
           mx == Cap
<1>1. N \in Nat /\ DOMAIN qs = 1..N /\ N <= N
  <2>1. qs \in Seq(Seqs)
      BY DEF Batch
  <2> QED
      BY <2>1, SeqFacts
<1>2. rows = [i \in 1..N |-> LiveRow(tab, qs[i], seq[qs[i]].len + shift, width)]
  <2>1. live = [i \in 1..N |-> LiveRow(tab, qs[i], seq[qs[i]].len + shift, width)]
      BY <1>1 DEF LiveRows
  <2> HIDE DEF live, N
  <2> QED
      BY <2>1 DEF Bound
<1>3. counts = [i \in 1..N |-> acc[qs[i]]]
    BY <1>1
<1>4. EagerForward(m, p, qs, shift, width, acc) = Forward(m, rows, counts, mx)
    BY DEF EagerForward, Bind
<1> HIDE DEF rows, counts, sc
<1>5. Laid(rows, counts, N, p, qs, shift, width, acc, sc)
    BY <1>1, <1>2, <1>3 DEF Laid
<1> HIDE DEF N, mx
<1>6. Batch(p, qs, shift, width, acc, mx, m)
    BY DEF mx
<1>7. Taking(Forward(m, rows, counts, mx), p, qs, shift, acc, m)
    BY <1>5, <1>6, BatchComputes
<1> QED
    BY <1>4, <1>7

LEMMA ContextHere ==
  ASSUME ContextInv
  PROVE  /\ RunnerInv /\ MemoryOf(conf, Mem) /\ BufsInv /\ PagesInv
         /\ ~ conf.spec => \A q \in Range(running) : ~ seq[q].carry
         /\ \A q \in Range(running) : Holds(Mem, table, seq[q].slot, q, Committed(q))
BY DEF ContextInv

\* The slots' contents move with no table.
LEMMA AllHoldOn ==
  ASSUME RunnerInv, AllFit, NEW p, NEW p2, Sound(conf, p), Sound(conf, p2), Extends(conf, p2, p), NEW m, NEW n,
         \A q \in Range(running) : n[q] \in Nat /\ Holds(m, p.tab, seq[q].slot, q, n[q])
  PROVE  \A q \in Range(running) : Holds(m, p2.tab, seq[q].slot, q, n[q])
<1> SUFFICES ASSUME NEW q \in Range(running) PROVE Holds(m, p2.tab, seq[q].slot, q, n[q])
    OBVIOUS
<1> DEFINE s == seq[q].slot
           k == n[q]
<1>1. s \in SlotIds(conf) /\ k \in Nat /\ Holds(m, p.tab, s, q, k)
    BY Here
<1> HIDE DEF s, k
<1>2. Holds(m, p2.tab, s, q, k)
    BY <1>1, HoldsOn
<1> QED
    BY <1>2 DEF s, k

\* What a step has to establish.
LEMMA ContextAssembled ==
  ASSUME RunnerInv', conf' = conf, PagesInv', BufsInv',
         NEW m, MemoryOf(conf, m), kv' = m.kv, rec' = m.rec,
         ~ conf.spec => \A q \in Range(running') : ~ seq'[q].carry,
         \A q \in Range(running') : Holds(m, table', seq'[q].slot, q, Committed(q)')
  PROVE  ContextInv'
<1>1. Mem' = m
    BY DEF Mem, MemoryOf
<1>2. MemoryOf(conf, Mem)'
    BY <1>1 DEF MemoryOf, FlatRows, SlotIds, NumBlocks, NumSlots, ExtraSlots
<1>3. \A q \in Range(running') : Holds(Mem', table', seq'[q].slot, q, Committed(q)')
    BY <1>1
<1>4. (~ conf.spec => \A q \in Range(running) : ~ seq[q].carry)'
    OBVIOUS
<1> QED
    BY <1>2, <1>3, <1>4 DEF ContextInv, Holds, Flat, Ceil

\* ... when it admits and ends nobody.
LEMMA ContextGoesOn ==
  ASSUME ContextInv, RunnerInv', conf' = conf, running' = running, pages' = pages, captured' = captured,
         BufsInv', NEW m, MemoryOf(conf, m), kv' = m.kv, rec' = m.rec,
         ~ conf.spec => \A q \in Range(running) : ~ seq'[q].carry,
         \A q \in Range(running) : Holds(m, table', seq'[q].slot, q, Committed(q)')
  PROVE  ContextInv'
<1>1. PagesInv'
    BY DEF ContextInv, PagesInv, Graphs
<1> QED
    BY <1>1, ContextAssembled

\* The running sequences in a pool that has grown.
LEMMA HoldsNow ==
  ASSUME ContextInv, AllFit, NEW p, Sound(conf, p), Extends(conf, p, Pool)
  PROVE  \A q \in Range(running) : /\ Committed(q) \in Nat
                                   /\ Holds(Mem, p.tab, seq[q].slot, q, Committed(q))
<1> DEFINE n == [q \in Range(running) |-> Committed(q)]
           m == Mem
           base == Pool
<1>1. RunnerInv /\ Sound(conf, base) /\ base.tab = table
    BY ContextHere, Here
<1>2. \A q \in Range(running) : Committed(q) \in Nat /\ Holds(m, table, seq[q].slot, q, Committed(q))
  <2>1. \A q \in Range(running) : seq[q].len \in Nat
      BY <1>1, Here, Sizes
  <2>2. \A q \in Range(running) : Committed(q) \in Nat
    <3> SUFFICES ASSUME NEW q \in Range(running) PROVE Committed(q) \in Nat
        OBVIOUS
    <3> DEFINE l == seq[q].len
               c == seq[q].carry
    <3>1. l \in Nat /\ Committed(q) = l + (IF c THEN 1 ELSE 0)
        BY <2>1 DEF Committed
    <3> HIDE DEF l, c
    <3>2. CASE c
        BY <3>1, <3>2
    <3>3. CASE ~ c
        BY <3>1, <3>3
    <3> QED
        BY <3>2, <3>3
  <2> QED
      BY <2>2, ContextHere
<1>3. \A q \in Range(running) : n[q] = Committed(q)
    OBVIOUS
<1> HIDE DEF n, m
<1>4. \A q \in Range(running) : n[q] \in Nat /\ Holds(m, base.tab, seq[q].slot, q, n[q])
    BY <1>1, <1>2, <1>3
<1>5. Extends(conf, p, base)
    OBVIOUS
<1> HIDE DEF base
<1>6. \A q \in Range(running) : Holds(m, p.tab, seq[q].slot, q, n[q])
    BY <1>1, <1>4, <1>5, AllHoldOn
<1> QED
    BY <1>2, <1>3, <1>6 DEF m

LEMMA AdvancedTo ==
  ASSUME RunnerInv, AllFit, NEW by, Advance(by), NEW q \in Range(running)
  PROVE  /\ seq'[q].len = seq[q].len + by[q] /\ seq'[q].carry = seq[q].carry
         /\ seq'[q].slot = seq[q].slot
<1>1. q \in Seqs /\ seq[q] \in Seats(conf)
    BY Here
<1>2. seq'[q] = [seq[q] EXCEPT !.len = @ + by[q]]
    BY <1>1 DEF Advance
<1> DEFINE r == seq[q]
           k == by[q]
<1>3. r \in Seats(conf) /\ seq'[q] = [r EXCEPT !.len = @ + k]
    BY <1>1, <1>2
<1> HIDE DEF r, k
<1>4. seq'[q].len = r.len + k /\ seq'[q].carry = r.carry /\ seq'[q].slot = r.slot
    BY <1>3 DEF Seats
<1> QED
    BY <1>4 DEF r, k

LEMMA LengthenedTo ==
  ASSUME RunnerInv, AllFit, NEW by, NEW b, Lengthen(by, b), NEW q \in Range(running)
  PROVE  /\ seq'[q].len = seq[q].len + by[q] /\ seq'[q].carry = b
         /\ seq'[q].slot = seq[q].slot
<1>1. q \in Seqs /\ seq[q] \in Seats(conf)
    BY Here
<1>2. seq'[q] = [seq[q] EXCEPT !.len = @ + by[q], !.carry = b]
    BY <1>1 DEF Lengthen
<1> DEFINE r == seq[q]
           k == by[q]
<1>3. r \in Seats(conf) /\ seq'[q] = [r EXCEPT !.len = @ + k, !.carry = b]
    BY <1>1, <1>2
<1> HIDE DEF r, k
<1>4. seq'[q].len = r.len + k /\ seq'[q].carry = b /\ seq'[q].slot = r.slot
    BY <1>3 DEF Seats
<1> QED
    BY <1>4 DEF r, k

\* One decode step without speculation moves every sequence by one.
LEMMA OneEach ==
  ASSUME ContextInv, AllFit, ~ conf.spec, Advance(Ones(Seqs))
  PROVE  /\ \A q \in Range(running) : /\ seq[q].len \in Nat /\ Committed(q) = seq[q].len
                                      /\ Ones(Seqs)[q] = 1
                                      /\ seq'[q].slot = seq[q].slot /\ ~ seq'[q].carry
                                      /\ Committed(q)' = seq[q].len + Ones(Seqs)[q]
<1> SUFFICES ASSUME NEW q \in Range(running)
             PROVE  /\ seq[q].len \in Nat /\ Committed(q) = seq[q].len /\ Ones(Seqs)[q] = 1
                    /\ seq'[q].slot = seq[q].slot /\ ~ seq'[q].carry
                    /\ Committed(q)' = seq[q].len + Ones(Seqs)[q]
    OBVIOUS
<1>1. RunnerInv /\ ~ seq[q].carry
    BY ContextHere
<1>2. seq[q].len \in Nat /\ q \in Seqs
    BY <1>1, Here, Sizes
<1>3. Ones(Seqs)[q] = 1
    BY <1>2 DEF Ones
<1> DEFINE ones == Ones(Seqs)
<1>4. Advance(ones)
    OBVIOUS
<1> HIDE DEF ones
<1>5. /\ seq'[q].len = seq[q].len + ones[q] /\ seq'[q].carry = seq[q].carry
      /\ seq'[q].slot = seq[q].slot
    BY <1>1, <1>4, AdvancedTo
<1>6. Committed(q) = seq[q].len
    BY <1>1, <1>2 DEF Committed
<1>7. Committed(q)' = seq[q].len + ones[q]
  <2>1. seq[q].len + ones[q] \in Nat
      BY <1>2, <1>3 DEF ones
  <2> QED
      BY <1>1, <1>5, <2>1 DEF Committed
<1> QED
    BY <1>1, <1>2, <1>3, <1>5, <1>6, <1>7 DEF ones

LEMMA DecodeEagerHolds ==
  ASSUME ContextInv, AllFit, DecodeEager
  PROVE  ContextInv'
<1> DEFINE k == 1
           z == 0
           ones == Ones(Seqs)
           pool == GrowAll(Pool, Needs(k))
           m == EagerForward(Mem, pool, running, z, k, ones)
<1>1. RunnerInv /\ RunnerInv' /\ BufsInv /\ MemoryOf(conf, Mem)
    BY ContextHere, DecodeEagerKeeps
<1>2. /\ conf' = conf /\ running' = running /\ pages' = pages /\ captured' = captured /\ bufs' = bufs
      /\ SetPool(pool) /\ Advance(ones) /\ ~ conf.spec /\ Decodable
      /\ pool.ok => SetMem(m)
    BY DEF DecodeEager
<1>3. /\ \A q \in Range(running) : /\ seq[q].len \in Nat /\ Committed(q) = seq[q].len /\ ones[q] = k
                                   /\ seq'[q].slot = seq[q].slot /\ ~ seq'[q].carry
                                   /\ Committed(q)' = seq[q].len + ones[q]
    BY <1>2, OneEach
<1>4. k \in Nat /\ z \in Nat /\ k \in 1..k /\ \A l \in Nat : l + z = l
    OBVIOUS
<1>5. \A q \in Range(running) : seq[q].len + k <= Cap
    BY <1>1, <1>2, RoomForOne
<1>6. Sound(conf, Pool) /\ running \in Seq(Seqs) /\ IsInjective(running)
    BY <1>1, Here
<1> HIDE DEF k, z, ones
<1>7. /\ Sound(conf, pool) /\ Extends(conf, pool, Pool)
      /\ \A q \in Range(running) : Covers(pool, seq[q].slot, seq[q].len + k)
    BY <1>1, <1>4, <1>5, <1>6, BatchGrown
<1> HIDE DEF pool
<1>8. \A q \in Range(running) : Holds(Mem, pool.tab, seq[q].slot, q, seq[q].len)
    BY <1>3, <1>7, HoldsNow
<1>9. Batch(pool, running, z, k, ones, Cap, Mem)
    BY <1>1, <1>3, <1>4, <1>5, <1>6, <1>7, <1>8 DEF Batch
<1>10. Taking(m, pool, running, z, ones, Mem)
    BY <1>1, <1>9, EagerComputes
<1>11. pool.ok = TRUE /\ table' = pool.tab
    BY <1>2, <1>7, SoundFields DEF SetPool
<1>12. SetMem(m)
    BY <1>2, <1>11
<1> HIDE DEF m
<1>13. /\ MemoryOf(conf, m)
       /\ \A q \in Range(running) : Holds(m, pool.tab, seq[q].slot, q, seq[q].len + ones[q])
    BY <1>3, <1>4, <1>10 DEF Taking
<1>14. \A q \in Range(running) : Holds(m, table', seq'[q].slot, q, Committed(q)')
    BY <1>3, <1>11, <1>13
<1>15. BufsInv'
    BY <1>1, <1>2 DEF BufsInv
<1>16. kv' = m.kv /\ rec' = m.rec /\ (~ conf.spec => \A q \in Range(running) : ~ seq'[q].carry)
    BY <1>3, <1>12 DEF SetMem
<1> QED
    BY <1>1, <1>2, <1>13, <1>14, <1>15, <1>16, ContextGoesOn

\* The step graph only takes blocks before it fails.
LEMMA DecodeStepGraphHolds ==
  ASSUME ContextInv, AllFit, DecodeStepGraph
  PROVE  ContextInv'
<1> DEFINE o == "verify"
           k == 1
           sc == Scratch(Pool, o, k)
           pool == sc.pool
<1>1. RunnerInv /\ RunnerInv' /\ BufsInv /\ MemoryOf(conf, Mem)
    BY ContextHere, DecodeStepGraphKeeps
<1>2. /\ conf' = conf /\ running' = running /\ pages' = pages /\ captured' = captured /\ bufs' = bufs
      /\ seq' = seq /\ kv' = kv /\ rec' = rec /\ table' = pool.tab
      /\ ~ conf.spec /\ Decodable /\ StepGraphTaken
    BY DEF DecodeStepGraph
<1>3. o \in Objects /\ k \in 0..Cap
    BY Sizes DEF Objects
<1>4. conf.layers \/ \A u \in Objects : u # o => scratch[u] = NoSlot
  <2>1. ObjectsInv /\ Fits(conf) /\ raised = No
      BY <1>1, <1>2, Here DEF Decodable
  <2>2. ~ conf.layers => \A n \in conf.prompts : ~ Graphs(conf, n)
      BY <1>2, <2>1 DEF Fits
  <2> QED
      BY <2>1, <2>2 DEF ObjectsInv, Objects
<1>5. Sound(conf, Pool) /\ Pool.fs = freeSlots
    BY <1>1, Here
<1> HIDE DEF o, k
<1>6. Sound(conf, pool) /\ Extends(conf, pool, Pool)
    BY <1>1, <1>3, <1>4, <1>5, ScratchGrown
<1> DEFINE m == Mem
<1> HIDE DEF pool
<1>7. \A q \in Range(running) : Holds(m, pool.tab, seq[q].slot, q, Committed(q))
    BY <1>6, HoldsNow
<1>8. m.kv = kv /\ m.rec = rec /\ MemoryOf(conf, m)
    BY <1>1 DEF Mem
<1> HIDE DEF m
<1>9. \A q \in Range(running) : Holds(m, table', seq'[q].slot, q, Committed(q)')
    BY <1>2, <1>7 DEF Committed
<1>10. BufsInv'
    BY <1>1, <1>2 DEF BufsInv
<1>11. ~ conf.spec => \A q \in Range(running) : ~ seq'[q].carry
    BY <1>2, ContextHere
<1> QED
    BY <1>1, <1>2, <1>8, <1>9, <1>10, <1>11, ContextGoesOn

\* The base tokens' forward gives every sequence its base.
LEMMA BaseComputes ==
  ASSUME ContextInv, AllFit, Decodable
  PROVE  /\ MemoryOf(conf, BaseMem) /\ Sound(conf, BasePool) /\ Extends(conf, BasePool, Pool)
         /\ \A q \in Range(running) : Holds(BaseMem, BasePool.tab, seq[q].slot, q, seq[q].len + 1)
<1> DEFINE k == 1
           z == 0
           ones == Ones(Seqs)
           p == BasePool
           qs == Bases
           f == EagerForward(Mem, p, qs, z, k, ones)
<1>1. RunnerInv /\ MemoryOf(conf, Mem)
    BY ContextHere
<1>2. /\ qs \in Seq(Seqs) /\ IsInjective(qs)
      /\ Range(qs) = {q \in Range(running) : ~ seq[q].carry}
    BY <1>1, BasesFacts
<1>3. /\ Sound(conf, p) /\ Extends(conf, p, Pool)
      /\ \A q \in Range(qs) : Covers(p, seq[q].slot, seq[q].len + k)
    BY <1>1, BaseGrown
<1>4. BaseMem = IF qs = <<>> THEN Mem ELSE f
    BY DEF BaseMem
<1>5. \A q \in Range(running) : seq[q].len \in Nat /\ seq[q].len + k <= Cap
    BY <1>1, RoomForOne
<1>6. \A q \in Range(running) : ones[q] = k
    BY <1>1, Here DEF Ones
<1>7. k \in Nat /\ z \in Nat /\ k \in 1..k /\ \A l \in Nat : l + z = l
    OBVIOUS
<1>8. /\ \A q \in Range(qs) : q \in Range(running) /\ Committed(q) = seq[q].len
      /\ \A q \in Range(running) \ Range(qs) : Committed(q) = seq[q].len + k
    BY <1>2, <1>5 DEF Committed
<1> HIDE DEF k, z, ones, p, qs
<1>9. \A q \in Range(running) : Committed(q) \in Nat /\ Holds(Mem, p.tab, seq[q].slot, q, Committed(q))
    BY <1>3, HoldsNow
<1>10. CASE qs = <<>>
  <2>1. Range(qs) = {}
      BY <1>10 DEF Range
  <2>2. \A q \in Range(running) : Holds(Mem, p.tab, seq[q].slot, q, seq[q].len + k)
      BY <1>8, <1>9, <2>1
  <2>3. BaseMem = Mem
      BY <1>4, <1>10
  <2> QED
      BY <1>1, <1>3, <2>2, <2>3 DEF p, k
<1>11. CASE qs # <<>>
  <2>1. BaseMem = f
      BY <1>4, <1>11
  <2>2. Batch(p, qs, z, k, ones, Cap, Mem)
    <3>1. ASSUME NEW q \in Range(qs)
          PROVE  /\ Covers(p, seq[q].slot, (seq[q].len + z) + k)
                 /\ ones[q] \in 1..k /\ (seq[q].len + z) + ones[q] <= Cap
                 /\ Holds(Mem, p.tab, seq[q].slot, q, seq[q].len + z)
      <4>1. q \in Range(running) /\ seq[q].len \in Nat /\ seq[q].len + z = seq[q].len /\ ones[q] = k
          BY <1>5, <1>6, <1>7, <1>8
      <4> QED
          BY <1>3, <1>5, <1>7, <1>8, <1>9, <4>1
    <3> QED
        BY <1>1, <1>2, <1>3, <1>7, <3>1 DEF Batch
  <2>3. Taking(f, p, qs, z, ones, Mem)
      BY <1>1, <2>2, EagerComputes
  <2> HIDE DEF f
  <2>4. ASSUME NEW q \in Range(running) PROVE Holds(f, p.tab, seq[q].slot, q, seq[q].len + k)
    <3>1. CASE q \in Range(qs)
        BY <1>5, <1>6, <1>7, <2>3, <3>1 DEF Taking
    <3>2. CASE q \notin Range(qs)
      <4> DEFINE s == seq[q].slot
                 n == Committed(q)
                 tab == p.tab
                 m == Mem
      <4>1. /\ Spared(tab, f, m, s) /\ Holds(m, tab, s, q, n) /\ n \in Nat
            /\ s \in SlotIds(conf) /\ BlocksApart(conf, p.fb, tab)
          BY <1>1, <1>3, <1>9, <2>3, <3>2, Here, SoundFields DEF Taking
      <4>2. n = seq[q].len + k
          BY <1>8, <3>2
      <4> HIDE DEF s, n, tab, m
      <4>3. Holds(f, tab, s, q, n)
          BY <4>1, HoldsSame
      <4> QED
          BY <4>2, <4>3 DEF s, tab
    <3> QED
        BY <3>1, <3>2
  <2>5. MemoryOf(conf, f)
      BY <2>3 DEF Taking
  <2> QED
      BY <1>3, <2>1, <2>4, <2>5 DEF p, k
<1> QED
    BY <1>10, <1>11

LEMMA SpecNoProposalHolds ==
  ASSUME ContextInv, AllFit, SpecNoProposal
  PROVE  ContextInv'
<1> DEFINE k == 1
           m == BaseMem
           pool == BasePool
<1>1. RunnerInv /\ RunnerInv' /\ BufsInv
    BY ContextHere, SpecNoProposalKeeps
<1>2. /\ conf' = conf /\ running' = running /\ pages' = pages /\ captured' = captured /\ bufs' = bufs
      /\ SetPool(pool) /\ Decodable
      /\ pool.ok => SetMem(m)
    BY DEF SpecNoProposal
<1>3. /\ MemoryOf(conf, m) /\ Sound(conf, pool)
      /\ \A q \in Range(running) : Holds(m, pool.tab, seq[q].slot, q, seq[q].len + k)
    BY <1>2, BaseComputes
<1> HIDE DEF m, pool
<1>4. pool.ok = TRUE /\ table' = pool.tab
    BY <1>2, <1>3, SoundFields DEF SetPool
<1>5. kv' = m.kv /\ rec' = m.rec
    BY <1>2, <1>4 DEF SetMem
<1>6. ASSUME NEW q \in Range(running)
      PROVE  seq'[q].slot = seq[q].slot /\ ~ seq'[q].carry /\ Committed(q)' = seq[q].len + k
  <2>1. q \in Seqs /\ seq[q] \in Seats(conf) /\ seq[q].len \in Nat
      BY <1>1, Here, Sizes
  <2>2. seq'[q] = [seq[q] EXCEPT !.len = @ + 1, !.carry = FALSE]
      BY <2>1 DEF SpecNoProposal
  <2> DEFINE r == seq[q]
  <2>3. r \in Seats(conf) /\ r.len \in Nat /\ seq'[q] = [r EXCEPT !.len = @ + 1, !.carry = FALSE]
      BY <2>1, <2>2
  <2> HIDE DEF r
  <2>4. seq'[q].len = r.len + k /\ ~ seq'[q].carry /\ seq'[q].slot = r.slot
      BY <2>3 DEF Seats
  <2>5. r.len + k \in Nat
      BY <2>3
  <2> QED
      BY <2>4, <2>5 DEF Committed, r
<1> HIDE DEF k
<1>7. \A q \in Range(running) : Holds(m, table', seq'[q].slot, q, Committed(q)')
    BY <1>3, <1>4, <1>6
<1>8. BufsInv'
    BY <1>1, <1>2 DEF BufsInv
<1> QED
    BY <1>1, <1>2, <1>3, <1>5, <1>6, <1>7, <1>8, ContextGoesOn

-----------------------------------------------------------------------------
(* Replays of the decode and verify graphs *)

LEMMA LiveRowsFacts ==
  ASSUME NEW tab, NEW qs \in Seq(Seqs), NEW shift, NEW width
  PROVE  LET live == LiveRows(tab, qs, shift, width)
         IN  /\ Len(live) = Len(qs)
             /\ \A i \in 1..Len(qs) : live[i] = LiveRow(tab, qs[i], seq[qs[i]].len + shift, width)
<1> DEFINE n == Len(qs)
           F(i) == LiveRow(tab, qs[i], seq[qs[i]].len + shift, width)
           live == LiveRows(tab, qs, shift, width)
           T == {F(i) : i \in 1..n}
<1>1. n \in Nat /\ DOMAIN qs = 1..n
    BY SeqFacts
<1>2. live = [i \in 1..n |-> F(i)]
    BY <1>1 DEF LiveRows
<1>3. \A i \in 1..n : F(i) \in T
    OBVIOUS
<1> HIDE DEF n, F, live, T
<1>4. live \in Seq(T)
    BY <1>1, <1>2, <1>3, IsASeq
<1>5. Len(live) \in Nat /\ DOMAIN live = 1..Len(live)
    BY <1>4, LenProperties
<1>6. live = [i \in 1..n |-> live[i]]
    BY <1>2
<1>7. Len(live) = n
    BY <1>1, <1>5, <1>6
<1>8. \A i \in 1..n : live[i] = F(i)
    BY <1>2
<1> QED
    BY <1>7, <1>8 DEF n, F, live

\* Pads alone leave every other slot as it was.
LEMMA PadsKeep ==
  ASSUME NEW c, NEW p, Sound(c, p), NEW sc \in SlotIds(c), NEW width \in Nat, Covers(p, sc, width),
         NEW old, \A i \in DOMAIN old : old[i] = PadRow(p.tab, sc, width),
         NEW m, MemoryOf(c, m), NEW acc, NEW mx
  PROVE  LET f == Forward(m, old, acc, mx)
         IN  /\ MemoryOf(c, f)
             /\ \A s \in SlotIds(c) : s # sc => Spared(p.tab, f, m, s)
<1> DEFINE tab == p.tab
           fb == p.fb
           z == 0
<1>1. BlocksApart(c, fb, tab)
    BY SoundFields
<1>2. \A i \in DOMAIN old : /\ old[i].st = sc /\ old[i].blocks = tab[sc] /\ old[i].pos = z
                            /\ old[i].cells = Cells(tab[sc], z, width)
    BY PadRowFacts
<1>3. z \in Nat /\ z + width = width
    OBVIOUS
<1>4. Ceil(z + width, BlockSize) <= Len(tab[sc])
    BY <1>3 DEF Covers
<1> HIDE DEF tab, fb, z
<1>5. RowsOn(c, tab, old, width)
    BY <1>2, <1>3, <1>4 DEF RowsOn
<1> DEFINE f == Forward(m, old, acc, mx)
<1>6. /\ MemoryOf(c, f)
      /\ \A s \in SlotIds(c) : (\A i \in DOMAIN old : old[i].st # s) => Spared(tab, f, m, s)
    BY <1>1, <1>5, ForwardKeeps
<1> HIDE DEF f
<1>7. \A s \in SlotIds(c) : s # sc => Spared(tab, f, m, s)
    BY <1>2, <1>6
<1> QED
    BY <1>6, <1>7 DEF f, tab

\* A slot that is free, or an object's, is nobody's.
LEMMA NotLive ==
  ASSUME RunnerInv, AllFit, NEW s, s \in Range(freeSlots) \/ \E o \in Objects : s = scratch[o]
  PROVE  \A q \in Range(running) : seq[q].slot # s
<1> SUFFICES ASSUME NEW q \in Range(running) PROVE seq[q].slot # s
    OBVIOUS
<1> DEFINE at == At(seq)
           R == Range(running)
<1>1. SlotsApart(conf, freeSlots, scratch, R, at)
    BY Here DEF SlotsInv
<1>2. at[q] = seq[q].slot /\ q \in R
    BY Here DEF At
<1> HIDE DEF at, R
<1>3. at[q] \notin Range(freeSlots) /\ \A u \in Objects : at[q] # scratch[u]
    BY <1>1, <1>2 DEF SlotsApart
<1> QED
    BY <1>2, <1>3

\* The last free slot and the one before it.
LEMMA LastFree ==
  ASSUME RunnerInv, AllFit, freeSlots # <<>>
  PROVE  /\ Last(freeSlots) \in Range(freeSlots)
         /\ Front(freeSlots) # <<>> => /\ Last(Front(freeSlots)) \in Range(freeSlots)
                                      /\ Last(Front(freeSlots)) # Last(freeSlots)
<1> DEFINE fs == freeSlots
           f1 == Front(fs)
<1>1. fs \in Seq(SlotIds(conf)) /\ IsInjective(fs) /\ fs # <<>>
    BY Here
<1> HIDE DEF fs
<1>2. /\ f1 \in Seq(SlotIds(conf)) /\ IsInjective(f1) /\ Last(fs) \in Range(fs)
      /\ Last(fs) \notin Range(f1) /\ Range(f1) \subseteq Range(fs)
    BY <1>1, LastFacts
<1> HIDE DEF f1
<1>3. f1 # <<>> => Last(f1) \in Range(f1)
    BY <1>2, LastFacts
<1> QED
    BY <1>2, <1>3 DEF fs, f1

\* A replay's batch.
Replayed(o, key, m, p, shift, width, acc) ==
  /\ Sound(conf, p) /\ p.fs = freeSlots /\ MemoryOf(conf, m)
  /\ shift \in Nat /\ width \in Nat /\ Room(o, width) \in 0..Cap
  /\ key[1] # "prefill" /\ key[2] \in Nat /\ Len(running) <= key[2]
  /\ \A q \in Range(running) : /\ seq[q].len + (shift + width) <= Cap
                               /\ acc[q] \in 1..width /\ (seq[q].len + shift) + acc[q] <= key[3]
                               /\ Holds(m, p.tab, seq[q].slot, q, seq[q].len + shift)

LEMMA ReplayComputes ==
  ASSUME RunnerInv, AllFit, conf.layers, BufsInv, NEW o \in Objects, NEW key, NEW m, NEW p,
         NEW shift, NEW width, NEW acc, Replayed(o, key, m, p, shift, width, acc),
         Replay(o, key, m, p, shift, width, acc)
  PROVE  /\ BufsInv'
         /\ \E f, p2 : /\ Taking(f, p2, running, shift, acc, f) /\ SetMem(f) /\ table' = p2.tab
<1> DEFINE room == Room(o, width)
           sc == Scratch(p, o, room)
           p1 == sc.pool
           slot == sc.slot
           need == shift + width
           pool == GrowAll(p1, Needs(need))
           tab == pool.tab
           N == key[2]
           mx == key[3]
           pad == PadRow(tab, slot, width)
           old == IF key \notin DOMAIN bufs THEN [i \in 1..key[2] |-> pad] ELSE bufs[key]
           ones == [i \in DOMAIN old |-> 1]
           warm == IF key \notin DOMAIN bufs THEN Forward(m, old, ones, mx) ELSE m
           live == LiveRows(tab, running, shift, width)
           rows == FillRows(old, live, pad)
           counts == [i \in DOMAIN rows |-> IF i <= Len(running) THEN acc[running[i]] ELSE 1]
           f == Forward(warm, rows, counts, mx)
<1>1. /\ Sound(conf, p) /\ p.fs = freeSlots /\ MemoryOf(conf, m)
      /\ shift \in Nat /\ width \in Nat /\ room \in 0..Cap
      /\ key[1] # "prefill" /\ N \in Nat /\ Len(running) <= N
      /\ \A q \in Range(running) : /\ seq[q].len + need <= Cap
                                   /\ acc[q] \in 1..width /\ (seq[q].len + shift) + acc[q] <= mx
                                   /\ Holds(m, p.tab, seq[q].slot, q, seq[q].len + shift)
    BY DEF Replayed
<1>2. pool.ok => /\ SetMem(f)
                 /\ bufs' = [x \in DOMAIN bufs \cup {key} |-> IF x = key THEN rows ELSE bufs[x]]
    BY DEF Replay, Room
<1>3. table' = tab
    BY DEF Replay, Room, SetPool
<1>4. need \in Nat /\ width \in 0..room /\ room \in Nat
    BY <1>1, Sizes DEF Room
<1>5. running \in Seq(Seqs) /\ IsInjective(running) /\ Len(running) \in Nat /\ DOMAIN running = 1..Len(running)
    BY Here, SeqFacts
<1>6. \A q \in Range(running) : seq[q].slot \in SlotIds(conf) /\ seq[q].len \in Nat
    BY Here, Sizes
<1> HIDE DEF room, need, N, mx
<1>7. /\ Sound(conf, p1) /\ Extends(conf, p1, p) /\ Covers(p1, slot, room) /\ slot \in SlotIds(conf)
      /\ IF scratch[o] = NoSlot THEN freeSlots # <<>> /\ slot = Last(freeSlots) ELSE slot = scratch[o]
    BY <1>1, ScratchGrown
<1> HIDE DEF sc, p1, slot
<1>8. \A q \in Range(running) : seq[q].slot # slot
  <2>1. slot \in Range(freeSlots) \/ slot = scratch[o]
      BY <1>7, LastFree
  <2> QED
      BY <2>1, NotLive
<1>9. /\ Sound(conf, pool) /\ Extends(conf, pool, p1)
      /\ \A q \in Range(running) : Covers(pool, seq[q].slot, seq[q].len + need)
    BY <1>1, <1>4, <1>7, BatchGrown
<1> HIDE DEF pool
<1>10. Extends(conf, pool, p) /\ Covers(pool, slot, room)
    BY <1>1, <1>7, <1>9, ExtendsFar
<1>11. Covers(pool, slot, width)
  <2> DEFINE l == Len(pool.tab[slot])
             c1 == Ceil(width, BlockSize)
             c2 == Ceil(room, BlockSize)
  <2>1. l \in Nat /\ c1 \in Nat /\ c2 \in Nat /\ c1 <= c2
      BY <1>4, <1>7, <1>9, CeilGrows, SoundFields, LenProperties
  <2>2. c2 <= l
      BY <1>10 DEF Covers
  <2> HIDE DEF l, c1, c2
  <2>3. c1 <= l
      BY <2>1, <2>2
  <2> QED
      BY <2>3 DEF Covers, l, c1
<1>12. pool.ok = TRUE
    BY <1>9, SoundFields
<1>13. DOMAIN old = 1..N
    BY <1>1 DEF BufsInv, N
<1>14. \A q \in Range(running) : Holds(m, tab, seq[q].slot, q, seq[q].len + shift)
  <2> DEFINE n == [q \in Range(running) |-> seq[q].len + shift]
  <2>1. \A q \in Range(running) : n[q] = seq[q].len + shift /\ n[q] \in Nat
      BY <1>1, <1>6
  <2> HIDE DEF n
  <2>2. \A q \in Range(running) : n[q] \in Nat /\ Holds(m, p.tab, seq[q].slot, q, n[q])
      BY <1>1, <2>1
  <2>3. \A q \in Range(running) : Holds(m, pool.tab, seq[q].slot, q, n[q])
      BY <1>1, <1>9, <1>10, <2>2, AllHoldOn
  <2> QED
      BY <2>1, <2>3
<1>15. MemoryOf(conf, warm) /\ \A q \in Range(running) : Holds(warm, tab, seq[q].slot, q, seq[q].len + shift)
  <2>1. CASE key \in DOMAIN bufs
    <3>1. warm = m
        BY <2>1
    <3> HIDE DEF warm, tab
    <3> QED
        BY <1>1, <1>14, <3>1
  <2>2. CASE key \notin DOMAIN bufs
    <3>1. old = [i \in 1..N |-> pad]
        BY <2>2 DEF N
    <3>2. warm = Forward(m, old, ones, mx)
        BY <2>2
    <3>3. \A i \in DOMAIN old : old[i] = PadRow(pool.tab, slot, width)
        BY <3>1
    <3> HIDE DEF old, ones, warm, tab, pad
    <3>4. /\ MemoryOf(conf, warm)
          /\ \A s \in SlotIds(conf) : s # slot => Spared(pool.tab, warm, m, s)
        BY <1>1, <1>7, <1>9, <1>11, <3>2, <3>3, PadsKeep
    <3>5. ASSUME NEW q \in Range(running) PROVE Holds(warm, tab, seq[q].slot, q, seq[q].len + shift)
      <4> DEFINE s == seq[q].slot
                 n == seq[q].len + shift
      <4>1. s \in SlotIds(conf) /\ s # slot /\ n \in Nat /\ Holds(m, tab, s, q, n)
          BY <1>1, <1>6, <1>8, <1>14
      <4>2. Spared(tab, warm, m, s) /\ BlocksApart(conf, pool.fb, tab)
          BY <1>9, <3>4, <4>1, SoundFields DEF tab
      <4> HIDE DEF s, n
      <4>3. Holds(warm, tab, s, q, n)
          BY <4>1, <4>2, HoldsSame
      <4> QED
          BY <4>3 DEF s, n
    <3> QED
        BY <3>4, <3>5
  <2> QED
      BY <2>1, <2>2
<1>16. rows = [i \in 1..N |-> IF i <= Len(live) THEN live[i] ELSE pad]
  <2> HIDE DEF old, live, pad
  <2> QED
      BY <1>13 DEF FillRows
<1> HIDE DEF old, warm
<1>17. /\ Len(live) = Len(running)
       /\ \A i \in 1..Len(running) : live[i] = LiveRow(tab, running[i], seq[running[i]].len + shift, width)
    BY <1>5, LiveRowsFacts
<1>18. counts = [i \in 1..N |-> IF i <= Len(running) THEN acc[running[i]] ELSE 1]
  <2> HIDE DEF rows
  <2>1. DOMAIN rows = 1..N
      BY <1>16
  <2> QED
      BY <2>1
<1> HIDE DEF live, rows, counts
<1>19. Laid(rows, counts, N, pool, running, shift, width, acc, slot)
  <2>1. \A i \in 1..N : rows[i] = IF i <= Len(running)
                                    THEN LiveRow(pool.tab, running[i], seq[running[i]].len + shift, width)
                                    ELSE PadRow(pool.tab, slot, width)
    <3> SUFFICES ASSUME NEW i \in 1..N
                 PROVE  rows[i] = IF i <= Len(running)
                                    THEN LiveRow(pool.tab, running[i], seq[running[i]].len + shift, width)
                                    ELSE PadRow(pool.tab, slot, width)
        OBVIOUS
    <3>1. CASE i <= Len(running)
      <4>1. i \in 1..Len(running)
          BY <1>1, <1>5, <3>1
      <4> QED
          BY <1>16, <1>17, <3>1, <4>1
    <3>2. CASE ~ (i <= Len(running))
        BY <1>16, <1>17, <3>2
    <3> QED
        BY <3>1, <3>2
  <2>2. \A i \in 1..Len(running) : counts[i] = acc[running[i]]
    <3> SUFFICES ASSUME NEW i \in 1..Len(running) PROVE counts[i] = acc[running[i]]
        OBVIOUS
    <3>1. i \in 1..N /\ i <= Len(running)
        BY <1>1, <1>5
    <3> QED
        BY <1>18, <3>1
  <2>3. DOMAIN rows = 1..N
      BY <1>16
  <2> QED
      BY <1>1, <1>7, <1>8, <1>11, <2>1, <2>2, <2>3 DEF Laid
<1>20. Batch(pool, running, shift, width, acc, mx, warm)
  <2>1. \A q \in Range(running) : (seq[q].len + shift) + width = seq[q].len + need
      BY <1>1, <1>6 DEF need
  <2>2. \A q \in Range(running) : Covers(pool, seq[q].slot, (seq[q].len + shift) + width)
      BY <1>9, <2>1
  <2> QED
      BY <1>1, <1>5, <1>9, <1>15, <2>2 DEF Batch
<1>21. Taking(f, pool, running, shift, acc, warm)
    BY <1>19, <1>20, BatchComputes
<1> HIDE DEF f
<1>22. Taking(f, pool, running, shift, acc, f)
    BY <1>21 DEF Taking
<1>23. BufsInv'
  <2>1. DOMAIN rows = 1..N /\ bufs' = [x \in DOMAIN bufs \cup {key} |-> IF x = key THEN rows ELSE bufs[x]]
      BY <1>2, <1>12, <1>16
  <2> QED
      BY <2>1 DEF BufsInv, N
<1> QED
    BY <1>2, <1>3, <1>12, <1>22, <1>23

LEMMA RoundedFacts ==
  ASSUME NEW n \in 0..Cap
  PROVE  Rounded(n) \in Nat /\ n <= Rounded(n)
<1> DEFINE d == ContextBucket
           up == Ceil(n, d) * d
<1>1. d \in Nat \ {0} /\ n \in Nat /\ Cap \in Nat
    BY Sizes, GraphSizesAssumption
<1>2. Rounded(n) = IF up < Cap THEN up ELSE Cap
    BY DEF Rounded
<1> HIDE DEF d
<1>3. up \in Nat /\ n <= up
  <2>1. (n + d - 1) \div d \in Nat /\ n <= ((n + d - 1) \div d) * d
      BY <1>1
  <2>2. ((n + d - 1) \div d) * d \in Nat
      BY <1>1, <2>1
  <2> QED
      BY <2>1, <2>2 DEF Ceil
<1> HIDE DEF up
<1> QED
    BY <1>1, <1>2, <1>3

LEMMA BatchBucket ==
  ASSUME RunnerInv, AllFit, NextBucket(BatchBuckets, Len(running)) > 0
  PROVE  /\ NextBucket(BatchBuckets, Len(running)) \in Nat
         /\ Len(running) <= NextBucket(BatchBuckets, Len(running))
<1> DEFINE n == Len(running)
           b == NextBucket(BatchBuckets, n)
<1>1. n \in Nat /\ BatchBuckets \in SUBSET (Nat \ {0})
    BY Here, SeqFacts, GraphSizesAssumption
<1> HIDE DEF n
<1>2. b \in BatchBuckets \cup {0} /\ (b # 0 => n <= b)
    BY <1>1, BucketFacts
<1> HIDE DEF b
<1>3. b > 0
    BY DEF b, n
<1>4. b \in Nat /\ n <= b
    BY <1>1, <1>2, <1>3
<1> QED
    BY <1>4 DEF b, n

LEMMA DecodeGraphedHolds ==
  ASSUME ContextInv, AllFit, DecodeGraphed
  PROVE  ContextInv'
<1> DEFINE o == "layers"
           key == DecodeKey
           m == Mem
           p == Pool
           shift == 0
           width == 1
           ones == Ones(Seqs)
<1>1. RunnerInv /\ RunnerInv' /\ BufsInv /\ MemoryOf(conf, m)
    BY ContextHere, DecodeGraphedKeeps
<1>2. /\ Decodable /\ conf.layers /\ ~ conf.spec /\ Replay(o, key, m, p, shift, width, ones)
      /\ Advance(ones) /\ conf' = conf /\ running' = running /\ captured' = captured /\ pages' = pages
      /\ key[1] = o /\ key[2] = NextBucket(BatchBuckets, Len(running)) /\ key[2] > 0
      /\ key[3] = Rounded(Longest + width)
    BY DEF DecodeGraphed, LayerGraphServes, DecodeKey
<1>3. Sound(conf, p) /\ p.fs = freeSlots /\ p.tab = table /\ o \in Objects
    BY <1>1, Here DEF Objects
<1>4. /\ raised = No /\ Longest \in Nat /\ Longest + width \in 0..Cap
      /\ \A q \in Range(running) : seq[q].len \in Nat /\ seq[q].len <= Longest /\ seq[q].len + width <= Cap
    BY <1>1, <1>2, RoomForOne, Sizes
<1>5. \A q \in Range(running) : /\ Committed(q) = seq[q].len /\ ones[q] = width
                                /\ seq'[q].slot = seq[q].slot /\ ~ seq'[q].carry
                                /\ Committed(q)' = seq[q].len + ones[q]
    BY <1>2, OneEach
<1>6. /\ shift \in Nat /\ width \in Nat /\ width \in 1..width /\ shift + width = width
      /\ \A l \in Nat : l + shift = l
    OBVIOUS
<1>7. Room(o, width) \in 0..Cap /\ key[1] # "prefill"
    BY <1>2, Sizes DEF Room
<1>8. key[2] \in Nat /\ Len(running) <= key[2]
    BY <1>1, <1>2, BatchBucket
<1> HIDE DEF o, key, m, shift, width, ones
<1>9. key[3] \in Nat /\ Longest + width <= key[3]
    BY <1>2, <1>4, RoundedFacts
<1>10. \A q \in Range(running) : Holds(m, p.tab, seq[q].slot, q, seq[q].len)
    BY <1>1, <1>3, <1>5, ContextHere DEF m
<1> HIDE DEF p
<1>11. Replayed(o, key, m, p, shift, width, ones)
  <2>1. ASSUME NEW q \in Range(running)
        PROVE  /\ seq[q].len + (shift + width) <= Cap
               /\ ones[q] \in 1..width /\ (seq[q].len + shift) + ones[q] <= key[3]
               /\ Holds(m, p.tab, seq[q].slot, q, seq[q].len + shift)
    <3> DEFINE l == seq[q].len
    <3>1. l \in Nat /\ l <= Longest /\ l + width <= Cap /\ ones[q] = width /\ l + shift = l
          /\ Holds(m, p.tab, seq[q].slot, q, l)
        BY <1>4, <1>5, <1>6, <1>10
    <3> HIDE DEF l
    <3>2. l + width <= key[3]
      <4>1. \A a, b, c, d \in Int : a <= b /\ b + c <= d => a + c <= d
          OBVIOUS
      <4>2. l \in Int /\ Longest \in Int /\ width \in Int /\ key[3] \in Int
          BY <1>4, <1>6, <1>9, <3>1
      <4> QED
          BY <1>9, <3>1, <4>1, <4>2
    <3> QED
        BY <1>6, <3>1, <3>2 DEF l
  <2>2. Sound(conf, p) /\ p.fs = freeSlots /\ MemoryOf(conf, m)
      BY <1>1, <1>3
  <2>3. /\ shift \in Nat /\ width \in Nat /\ Room(o, width) \in 0..Cap
        /\ key[1] # "prefill" /\ key[2] \in Nat /\ Len(running) <= key[2]
      BY <1>6, <1>7, <1>8
  <2> QED
      BY <2>1, <2>2, <2>3 DEF Replayed
<1>12. /\ BufsInv'
       /\ \E f, p2 : /\ Taking(f, p2, running, shift, ones, f) /\ SetMem(f) /\ table' = p2.tab
    BY <1>1, <1>2, <1>3, <1>11, ReplayComputes
<1>13. PICK f, p2 : /\ Taking(f, p2, running, shift, ones, f) /\ SetMem(f) /\ table' = p2.tab
    BY <1>12
<1>14. /\ MemoryOf(conf, f) /\ kv' = f.kv /\ rec' = f.rec
       /\ \A q \in Range(running) : Holds(f, table', seq[q].slot, q, seq[q].len + ones[q])
    BY <1>4, <1>6, <1>13 DEF Taking, SetMem
<1>15. \A q \in Range(running) : Holds(f, table', seq'[q].slot, q, Committed(q)')
    BY <1>5, <1>14
<1>16. ~ conf.spec => \A q \in Range(running) : ~ seq'[q].carry
    BY <1>5
<1> QED
    BY <1>1, <1>2, <1>12, <1>14, <1>15, <1>16, ContextGoesOn

LEMMA SpecVerifyHolds ==
  ASSUME ContextInv, AllFit, running # <<>>, NEW drafts \in [Range(running) -> 0..MaxDraft],
         NEW acc \in [Range(running) -> 1..MaxDraft + 1],
         \A q \in Range(running) : acc[q] <= drafts[q] + 1, SpecVerify(drafts, acc)
  PROVE  ContextInv'
<1> DEFINE width == DraftBucket(Max(Range(drafts))) + 1
           p == BasePool
           m == BaseMem
           shift == 1
           b == TRUE
           need == 1 + width
           pool == GrowAll(p, Needs(need))
           e == EagerForward(m, pool, running, shift, width, acc)
<1>1. RunnerInv /\ RunnerInv' /\ BufsInv
    BY ContextHere, SpecVerifyKeeps
<1>2. width \in Nat /\ \A q \in Range(running) : acc[q] \in Nat /\ acc[q] \in 1..width /\ acc[q] <= width
    BY <1>1, WidthCovers
<1>3. /\ Decodable /\ Longest + 1 + width <= Cap /\ conf.spec
      /\ conf' = conf /\ running' = running /\ captured' = captured /\ pages' = pages
    BY DEF SpecVerify
<1>4. seq' = [q \in Seqs |-> IF q \in Range(running)
                              THEN [seq[q] EXCEPT !.len = @ + acc[q], !.carry = TRUE] ELSE seq[q]]
    BY DEF SpecVerify
<1>5. Lengthen(acc, b)
    BY <1>4 DEF Lengthen
<1>6. p.ok =>
       \/ /\ conf.layers /\ VerifyKey(width)[2] > 0 /\ Replay("verify", VerifyKey(width), m, p, 1, width, acc)
       \/ /\ SetPool(pool) /\ bufs' = bufs /\ (pool.ok => SetMem(e))
  <2>1. CASE p.ok /\ VerifyGraphServes(width)
      BY <2>1 DEF SpecVerify, VerifyGraphServes
  <2>2. CASE p.ok /\ ~ VerifyGraphServes(width)
      BY <2>2 DEF SpecVerify
  <2> QED
      BY <2>1, <2>2
<1> HIDE DEF width, b, p, m
<1>7. /\ MemoryOf(conf, m) /\ Sound(conf, p) /\ p.ok = TRUE /\ p.fs = freeSlots
      /\ \A q \in Range(running) : Holds(m, p.tab, seq[q].slot, q, seq[q].len + shift)
    BY <1>1, <1>3, BaseComputes, BaseGrown DEF p, m
<1>8. /\ running \in Seq(Seqs) /\ IsInjective(running) /\ Longest \in Nat
      /\ \A q \in Range(running) : /\ seq[q].len \in Nat /\ seq[q].len <= Longest
                                   /\ seq[q].slot \in SlotIds(conf)
    BY <1>1, <1>3, Here, RoomForOne
<1>9. shift \in Nat /\ need \in Nat /\ need = shift + width
    BY <1>2
<1>10. \A q \in Range(running) : /\ seq[q].len + need <= Cap /\ seq[q].len + shift \in Nat
                                 /\ (seq[q].len + shift) + acc[q] <= Cap
                                 /\ (seq[q].len + shift) + acc[q] <= Longest + 1 + width
  <2>1. \A l, a, top \in Nat : l <= top /\ a <= width /\ top + 1 + width <= Cap =>
          /\ l + need <= Cap /\ l + shift \in Nat /\ (l + shift) + a <= Cap
          /\ (l + shift) + a <= top + 1 + width
      BY <1>2, Sizes
  <2>2. \A q \in Range(running) : seq[q].len \in Nat /\ seq[q].len <= Longest
      BY <1>8
  <2>3. Longest \in Nat /\ Longest + 1 + width <= Cap
      BY <1>3, <1>8
  <2> HIDE DEF need, shift
  <2> QED
      BY <1>2, <2>1, <2>2, <2>3
<1> HIDE DEF need
<1>11. /\ BufsInv'
       /\ \E g, p2 : /\ Taking(g, p2, running, shift, acc, g) /\ SetMem(g) /\ table' = p2.tab
  <2>1. CASE conf.layers /\ VerifyKey(width)[2] > 0 /\ Replay("verify", VerifyKey(width), m, p, 1, width, acc)
    <3> DEFINE o == "verify"
               key == VerifyKey(width)
    <3>1. /\ key[1] = o /\ key[2] = NextBucket(BatchBuckets, Len(running)) /\ key[2] > 0
          /\ key[3] = Rounded(Longest + 1 + width)
        BY <2>1 DEF VerifyKey
    <3>2. o \in Objects /\ key[1] # "prefill" /\ Room(o, width) \in 0..Cap
      <4>1. Cap \in Nat
          BY Sizes
      <4> QED
          BY <1>2, <1>3, <1>8, <3>1, <4>1 DEF Room, Objects
    <3>3. key[2] \in Nat /\ Len(running) <= key[2]
        BY <1>1, <3>1, BatchBucket
    <3>4. Replay(o, key, m, p, shift, width, acc)
        BY <2>1
    <3> HIDE DEF o, key
    <3>5. key[3] \in Nat /\ Longest + 1 + width <= key[3]
      <4>1. Longest + 1 + width \in 0..Cap
          BY <1>2, <1>3, <1>8, Sizes
      <4> QED
          BY <3>1, <4>1, RoundedFacts
    <3>6. \A q \in Range(running) : (seq[q].len + shift) + acc[q] <= key[3]
      <4> SUFFICES ASSUME NEW q \in Range(running) PROVE (seq[q].len + shift) + acc[q] <= key[3]
          OBVIOUS
      <4> DEFINE x == (seq[q].len + shift) + acc[q]
                 y == Longest + 1 + width
                 d == seq[q].len + shift
                 a == acc[q]
      <4>3. d \in Nat /\ a \in Nat /\ x = d + a /\ x <= y /\ y <= key[3]
          BY <1>2, <1>10, <3>5
      <4>4. y \in Nat
          BY <1>2, <1>8
      <4> HIDE DEF d, a, y
      <4>1. x \in Nat /\ y \in Nat /\ x <= y /\ y <= key[3]
          BY <4>3, <4>4
      <4> HIDE DEF x, y
      <4>2. x <= key[3]
          BY <3>5, <4>1
      <4> QED
          BY <4>2 DEF x
    <3> HIDE DEF shift
    <3>7. Replayed(o, key, m, p, shift, width, acc)
        BY <1>2, <1>7, <1>9, <1>10, <3>2, <3>3, <3>6 DEF Replayed
    <3> QED
        BY <1>1, <2>1, <3>2, <3>4, <3>7, ReplayComputes
  <2>2. CASE SetPool(pool) /\ bufs' = bufs /\ (pool.ok => SetMem(e))
    <3>1. /\ Sound(conf, pool) /\ Extends(conf, pool, p)
          /\ \A q \in Range(running) : Covers(pool, seq[q].slot, seq[q].len + need)
        BY <1>1, <1>7, <1>9, <1>10, BatchGrown
    <3> HIDE DEF shift, pool
    <3>2. \A q \in Range(running) : Holds(m, pool.tab, seq[q].slot, q, seq[q].len + shift)
      <4> DEFINE n == [q \in Range(running) |-> seq[q].len + shift]
      <4>1. \A q \in Range(running) : n[q] = seq[q].len + shift
          OBVIOUS
      <4> HIDE DEF n
      <4>2. \A q \in Range(running) : n[q] \in Nat /\ Holds(m, p.tab, seq[q].slot, q, n[q])
          BY <1>7, <1>10, <4>1
      <4>3. \A q \in Range(running) : Holds(m, pool.tab, seq[q].slot, q, n[q])
          BY <1>1, <1>7, <3>1, <4>2, AllHoldOn
      <4> QED
          BY <4>1, <4>3
    <3>3. Batch(pool, running, shift, width, acc, Cap, m)
      <4>1. \A q \in Range(running) : (seq[q].len + shift) + width = seq[q].len + need
          BY <1>2, <1>8, <1>9
      <4>2. \A q \in Range(running) : Covers(pool, seq[q].slot, (seq[q].len + shift) + width)
          BY <3>1, <4>1
      <4> QED
          BY <1>2, <1>7, <1>8, <1>9, <1>10, <3>1, <3>2, <4>2 DEF Batch
    <3>4. Taking(e, pool, running, shift, acc, m)
        BY <1>1, <3>3, EagerComputes
    <3>5. pool.ok = TRUE /\ table' = pool.tab
        BY <2>2, <3>1, SoundFields DEF SetPool
    <3>6. SetMem(e)
        BY <2>2, <3>5 DEF shift
    <3> HIDE DEF e
    <3>7. Taking(e, pool, running, shift, acc, e)
        BY <3>4 DEF Taking
    <3>8. BufsInv'
        BY <1>1, <2>2 DEF BufsInv
    <3> QED
        BY <3>5, <3>6, <3>7, <3>8
  <2> QED
      BY <1>6, <1>7, <2>1, <2>2
<1>12. PICK g, p2 : /\ Taking(g, p2, running, shift, acc, g) /\ SetMem(g) /\ table' = p2.tab
    BY <1>11
<1>13. /\ MemoryOf(conf, g) /\ kv' = g.kv /\ rec' = g.rec
       /\ \A q \in Range(running) : Holds(g, table', seq[q].slot, q, (seq[q].len + shift) + acc[q])
    BY <1>12 DEF Taking, SetMem
<1>14. ASSUME NEW q \in Range(running)
       PROVE  seq'[q].slot = seq[q].slot /\ Committed(q)' = (seq[q].len + shift) + acc[q]
  <2> DEFINE a == acc[q]
             l == seq[q].len
  <2>1. seq'[q].len = l + a /\ seq'[q].carry = b /\ seq'[q].slot = seq[q].slot
      BY <1>1, <1>5, LengthenedTo
  <2>2. a \in Nat /\ l \in Nat
      BY <1>2, <1>8
  <2> HIDE DEF a, l
  <2>3. (l + a) + 1 = (l + shift) + a
      BY <2>2
  <2>4. Committed(q)' = (l + a) + 1
      BY <2>1 DEF Committed, b
  <2> QED
      BY <2>1, <2>3, <2>4 DEF a, l
<1>15. \A q \in Range(running) : Holds(g, table', seq'[q].slot, q, Committed(q)')
    BY <1>13, <1>14
<1>16. ~ conf.spec => \A q \in Range(running) : ~ seq'[q].carry
    BY <1>3
<1> QED
    BY <1>1, <1>3, <1>11, <1>13, <1>15, <1>16, ContextGoesOn

-----------------------------------------------------------------------------
(* Requests that start and end *)

\* Released slots take nothing from the others.
LEMMA FinishHolds ==
  ASSUME ContextInv, AllFit, NEW q \in Seqs, Finish(q)
  PROVE  ContextInv'
<1> DEFINE s == seq[q].slot
           m == Mem
<1>1. RunnerInv /\ RunnerInv' /\ BufsInv /\ PagesInv /\ MemoryOf(conf, m)
    BY ContextHere, FinishKeeps
<1>2. /\ q \in Range(running) /\ running' = RemoveFirst(running, q)
      /\ conf' = conf /\ pages' = pages /\ captured' = captured /\ bufs' = bufs
      /\ kv' = m.kv /\ rec' = m.rec
    BY DEF Finish, Mem
<1>3. seq' = [seq EXCEPT ![q] = [NewSeq EXCEPT !.state = "done"]]
    BY DEF Finish
<1>4. table' = [table EXCEPT ![s] = <<>>]
    BY DEF Finish, SetPool, Released, Pool
<1>5. /\ running \in Seq(Seqs) /\ IsInjective(running) /\ seq \in [Seqs -> Seats(conf)]
      /\ table \in [SlotIds(conf) -> Seq(BlockIds(conf))]
      /\ \A r \in Range(running) : r \in Seqs /\ seq[r].slot \in SlotIds(conf)
    BY <1>1, Here DEF RunnerInv, BlocksApart
<1>6. Range(running') = Range(running) \ {q}
    BY <1>2, <1>5, RemoveFacts
<1>7. ASSUME NEW r \in Range(running')
      PROVE  Holds(m, table', seq'[r].slot, r, Committed(r)') /\ seq'[r].carry = seq[r].carry /\ r \in Range(running)
  <2>1. r \in Range(running) /\ r # q
      BY <1>6
  <2>2. seq'[r] = seq[r]
      BY <1>3, <1>5, <2>1
  <2>3. seq[r].slot # s
      BY <1>1, <1>2, <2>1, SlotsOwn
  <2>4. table'[seq[r].slot] = table[seq[r].slot]
      BY <1>4, <1>5, <2>1, <2>3
  <2>5. Holds(m, table, seq[r].slot, r, Committed(r))
      BY <2>1, ContextHere
  <2>6. Committed(r)' = Committed(r)
      BY <2>2 DEF Committed
  <2> HIDE DEF m
  <2> QED
      BY <2>1, <2>2, <2>4, <2>5, <2>6 DEF Holds
<1>8. ~ conf.spec => \A r \in Range(running') : ~ seq'[r].carry
    BY <1>7, ContextHere
<1>9. BufsInv' /\ PagesInv'
    BY <1>1, <1>2 DEF BufsInv, PagesInv, Graphs
<1> HIDE DEF m
<1> QED
    BY <1>1, <1>2, <1>7, <1>8, <1>9, ContextAssembled

\* Memory m after q's n tokens went in through blocks, on slot s.
Put(m, blocks, s, q, n) ==
  [kv |-> WritePrompt(m.kv, blocks, q, n, n), rec |-> [m.rec EXCEPT ![s] = <<q, n>>]]

LEMMA PutFacts ==
  ASSUME NEW c, NEW p, Sound(c, p), NEW s \in SlotIds(c), NEW n \in Nat, Covers(p, s, n),
         NEW m, MemoryOf(c, m), NEW q, NEW blocks, Leads(blocks, p.tab[s], n)
  PROVE  LET m2 == Put(m, blocks, s, q, n)
         IN  /\ MemoryOf(c, m2) /\ Holds(m2, p.tab, s, q, n)
             /\ \A t \in SlotIds(c) : t # s => Spared(p.tab, m2, m, t)
<1> DEFINE tab == p.tab
           fb == p.fb
           k == m.kv
           w == WritePrompt(k, blocks, q, n, n)
           r == [m.rec EXCEPT ![s] = <<q, n>>]
           m2 == Put(m, blocks, s, q, n)
<1>1. BlocksApart(c, fb, tab)
    BY SoundFields
<1>2. DOMAIN k = FlatRows(c) /\ DOMAIN m.rec = SlotIds(c)
    BY DEF MemoryOf
<1>3. Ceil(n, BlockSize) <= Len(tab[s])
    BY DEF Covers
<1>4. Leads(blocks, tab[s], n)
    OBVIOUS
<1>5. m2 = [kv |-> w, rec |-> r]
    BY DEF Put
<1>6. DOMAIN r = SlotIds(c) /\ r[s] = <<q, n>> /\ \A t \in SlotIds(c) : t # s => r[t] = m.rec[t]
    BY <1>2
<1> HIDE DEF tab, fb, k, r, m2
<1>7. Written(c, tab, w, k, s, q, n, n)
    BY <1>1, <1>2, <1>3, <1>4, PromptWritten
<1> HIDE DEF w
<1>8. /\ DOMAIN w = FlatRows(c)
      /\ \A x \in 0..n - 1 : w[Flat(tab[s], x)] = <<q, x>>
      /\ \A t \in SlotIds(c) : \A x : t # s /\ HasPlace(tab, t, x) => w[Flat(tab[t], x)] = k[Flat(tab[t], x)]
    BY <1>7 DEF Written
<1>9. m2.kv = w /\ m2.rec = r /\ m2 = [kv |-> m2.kv, rec |-> m2.rec]
    BY <1>5
<1>10. MemoryOf(c, m2)
    BY <1>6, <1>8, <1>9 DEF MemoryOf
<1>11. Holds(m2, tab, s, q, n)
    BY <1>3, <1>6, <1>8, <1>9 DEF Holds
<1>12. \A t \in SlotIds(c) : t # s => Spared(tab, m2, m, t)
    BY <1>6, <1>8, <1>9 DEF Spared, k
<1> QED
    BY <1>10, <1>11, <1>12 DEF tab, m2

\* A cleared row takes its sequence's recurrence whatever it held.
LEMMA ClearedScan ==
  ASSUME NEW r, NEW s \in DOMAIN r, NEW q, NEW n
  PROVE  [ClearSlot(r, s) EXCEPT ![s] = Scan(@, q, n)] = [r EXCEPT ![s] = <<q, n>>]
<1>1. ClearSlot(r, s)[s] = Zero
    BY DEF ClearSlot
<1>2. Scan(Zero, q, n) = <<q, n>>
    BY DEF Scan
<1> QED
    BY <1>1, <1>2 DEF ClearSlot

\* The whole of a table is what SubSeq finds of it.
LEMMA WholeTable ==
  ASSUME NEW T, NEW s \in Seq(T)
  PROVE  SubSeq(s, 1, Len(s)) = s
<1> DEFINE n == Len(s)
<1>1. n \in Nat /\ s = [i \in 1..n |-> s[i]]
    BY LenProperties
<1> DEFINE k == 1
           sub == SubSeq(s, k, n)
<1>2. /\ sub \in Seq(T)
      /\ Len(sub) = IF k <= n THEN n - k + 1 ELSE 0
      /\ \A i \in 1..(n - k + 1) : sub[i] = s[k + i - 1]
    BY <1>1, SubSeqProperties
<1>3. Len(sub) = n /\ \A i \in 1..n : sub[i] = s[i]
  <2>1. (n - k + 1 = n /\ k <= n) \/ n = 0
      BY <1>1
  <2> QED
      BY <1>1, <1>2, <2>1
<1> HIDE DEF n, k, sub
<1>4. sub = s
    BY <1>1, <1>2, <1>3, SeqEqual DEF n
<1> QED
    BY <1>4 DEF sub, k, n

\* The rows of an eager forward.
LEMMA BoundAlone ==
  ASSUME NEW s
  PROVE  Bound(<<[st |-> s]>>, Bind)[1].st = s
BY DEF Bound, Bind

\* Sequences that join the running ones, each on its slot.
LEMMA TheyJoin ==
  ASSUME ContextInv, AllFit, NEW qs \in Seq(Seqs), NEW ss, NEW ns, Joined(qs, ss, ns),
         RunnerInv', conf' = conf, PagesInv', BufsInv', NEW m, MemoryOf(conf, m), kv' = m.kv, rec' = m.rec,
         \A i \in 1..Len(qs) : ns[i] \in 0..Cap /\ Holds(m, table', ss[i], qs[i], ns[i]),
         \A r \in Range(running) : Holds(m, table', seq[r].slot, r, Committed(r))
  PROVE  ContextInv'
<1>1. RunnerInv /\ \A r \in Range(running) : r \in Seqs
    BY ContextHere, Here
<1>2. /\ Range(running') = Range(running) \cup Range(qs) /\ Range(running) \cap Range(qs) = {}
      /\ \A r \in Seqs \ Range(qs) : seq'[r] = seq[r]
      /\ \A i \in 1..Len(qs) : seq'[qs[i]] = Seat(ss[i], ns[i])
    BY DEF Joined
<1>3. ASSUME NEW r \in Range(qs)
      PROVE  ~ seq'[r].carry /\ Holds(m, table', seq'[r].slot, r, Committed(r)')
  <2>1. PICK i \in 1..Len(qs) : qs[i] = r
      BY SeqFacts
  <2> DEFINE s == ss[i]
             n == ns[i]
  <2>2. n \in Nat /\ Holds(m, table', s, r, n)
      BY <2>1, Sizes
  <2>3. seq'[r] = Seat(s, n)
      BY <1>2, <2>1
  <2> HIDE DEF s, n
  <2>4. seq'[r].slot = s /\ seq'[r].carry = FALSE /\ seq'[r].len = n
      BY <2>3 DEF Seat
  <2>5. Committed(r)' = n
      BY <2>2, <2>4 DEF Committed
  <2> QED
      BY <2>2, <2>4, <2>5
<1>4. \A r \in Range(running) : seq'[r] = seq[r] /\ Committed(r)' = Committed(r)
    BY <1>1, <1>2 DEF Committed
<1>5. \A r \in Range(running') : Holds(m, table', seq'[r].slot, r, Committed(r)')
    BY <1>2, <1>3, <1>4
<1>6. ~ conf.spec => \A r \in Range(running') : ~ seq'[r].carry
    BY <1>2, <1>3, <1>4, ContextHere
<1> QED
    BY <1>5, <1>6, ContextAssembled

LEMMA OneJoins ==
  ASSUME ContextInv, AllFit, NEW q \in Waiting, NEW s \in SlotIds(conf), NEW n \in 0..Cap,
         Joined(<<q>>, <<s>>, <<n>>), RunnerInv', conf' = conf, PagesInv', BufsInv',
         NEW m, MemoryOf(conf, m), kv' = m.kv, rec' = m.rec,
         Holds(m, table', s, q, n),
         \A r \in Range(running) : Holds(m, table', seq[r].slot, r, Committed(r))
  PROVE  ContextInv'
<1> DEFINE qs == <<q>>
           ss == <<s>>
           ns == <<n>>
<1>1. qs \in Seq(Seqs) /\ Len(qs) = 1 /\ qs[1] = q /\ ss[1] = s /\ ns[1] = n
    BY DEF Waiting
<1>2. \A i \in 1..Len(qs) : i = 1
    BY <1>1
<1>3. Joined(qs, ss, ns)
    OBVIOUS
<1> HIDE DEF qs, ss, ns
<1>4. \A i \in 1..Len(qs) : ns[i] \in 0..Cap /\ Holds(m, table', ss[i], qs[i], ns[i])
    BY <1>1, <1>2
<1> QED
    BY <1>1, <1>3, <1>4, TheyJoin

\* A pool that grew from the one without the last free slot has all its blocks.
LEMMA GrownFromTaken ==
  ASSUME NEW c, NEW p, NEW p2, Extends(c, p2, Taken(p))
  PROVE  Extends(c, p2, p)
<1>1. Taken(p).tab = p.tab
    BY DEF Taken
<1> QED
    BY <1>1 DEF Extends

\* What spares the slots of the running sequences leaves them whole.
LEMMA OthersHold ==
  ASSUME ContextInv, AllFit, NEW p, Sound(conf, p), Extends(conf, p, Pool), NEW m2,
         \A r \in Range(running) : Spared(p.tab, m2, Mem, seq[r].slot)
  PROVE  \A r \in Range(running) : Committed(r) \in Nat /\ Holds(m2, p.tab, seq[r].slot, r, Committed(r))
<1> SUFFICES ASSUME NEW r \in Range(running)
             PROVE  Committed(r) \in Nat /\ Holds(m2, p.tab, seq[r].slot, r, Committed(r))
    OBVIOUS
<1> DEFINE m == Mem
           s == seq[r].slot
           n == Committed(r)
           tab == p.tab
           fb == p.fb
<1>1. n \in Nat /\ Holds(m, tab, s, r, n)
    BY HoldsNow
<1>2. s \in SlotIds(conf)
    BY ContextHere, Here
<1>3. BlocksApart(conf, fb, tab) /\ Spared(tab, m2, m, s)
    BY SoundFields
<1> HIDE DEF m, s, n, tab, fb
<1>4. Holds(m2, tab, s, r, n)
    BY <1>1, <1>2, <1>3, HoldsSame
<1> QED
    BY <1>1, <1>4 DEF n, s, tab

\* Where some prompt is not graphed, or embeddings are asked for, nothing is bound.
LEMMA NothingBound ==
  ASSUME ContextInv, conf.encode \/ \E n \in conf.prompts : ~ Graphs(conf, n)
  PROVE  pages = <<>>
BY DEF ContextInv, PagesInv

\* An eager prefill on a fresh slot.
LEMMA EagerPut ==
  ASSUME ContextInv, pages = <<>>, NEW p, Sound(conf, p), NEW s \in SlotIds(conf), NEW q, NEW n
  PROVE  EagerPrompt(p, ClearSlot(rec, s), q, s, n) = Put(Mem, p.tab[s], s, q, n)
<1> DEFINE own == p.tab[s]
           r0 == ClearSlot(rec, s)
           row == Bound(<<[st |-> s]>>, Bind)[1].st
           sound == IF SubSeq(own, 1, Len(own)) = own THEN n
                    ELSE IF conf.chunk > 0 /\ n > conf.chunk THEN conf.chunk ELSE n
<1>1. own \in Seq(BlockIds(conf))
    BY SoundFields
<1>2. SubSeq(own, 1, Len(own)) = own
  <2> HIDE DEF own
  <2> QED
      BY <1>1, WholeTable
<1>3. row = s
    BY BoundAlone
<1>4. s \in DOMAIN rec /\ Mem.kv = kv /\ Mem.rec = rec
    BY DEF ContextInv, MemoryOf, Mem
<1>5. sound = n
    BY <1>2
<1>6. WriteTable(own) = own
    BY DEF WriteTable
<1>7. EagerPrompt(p, r0, q, s, n) =
        [kv |-> WritePrompt(kv, own, q, n, sound),
         rec |-> [r0 EXCEPT ![row] = IF sound = n THEN Scan(@, q, n) ELSE Junk]]
  <2> HIDE DEF r0
  <2> QED
      BY <1>6 DEF EagerPrompt
<1> HIDE DEF sound, row, own
<1>8. EagerPrompt(p, r0, q, s, n) =
        [kv |-> WritePrompt(kv, own, q, n, n), rec |-> [r0 EXCEPT ![s] = Scan(@, q, n)]]
    BY <1>3, <1>5, <1>7
<1>9. [r0 EXCEPT ![s] = Scan(@, q, n)] = [rec EXCEPT ![s] = <<q, n>>]
    BY <1>4, ClearedScan
<1> HIDE DEF r0
<1>10. EagerPrompt(p, r0, q, s, n) = Put(Mem, own, s, q, n)
    BY <1>4, <1>8, <1>9 DEF Put
<1> QED
    BY <1>10 DEF r0, own

\* A prompt that went in through its own blocks, with a pool that has room for it.
LEMMA PutHolds ==
  ASSUME ContextInv, AllFit, freeSlots # <<>>, NEW n \in 0..Cap, NEW q, NEW p, Sound(conf, p), Extends(conf, p, Pool),
         Covers(p, Last(freeSlots), n)
  PROVE  LET s == Last(freeSlots)
             m2 == Put(Mem, p.tab[s], s, q, n)
         IN  /\ MemoryOf(conf, m2) /\ Holds(m2, p.tab, s, q, n)
             /\ \A r \in Range(running) : /\ seq[r].slot # s /\ Committed(r) \in Nat
                                          /\ Holds(m2, p.tab, seq[r].slot, r, Committed(r))
<1> DEFINE s == Last(freeSlots)
           own == p.tab[s]
           m == Mem
           m2 == Put(m, own, s, q, n)
<1>1. RunnerInv /\ MemoryOf(conf, m)
    BY ContextHere
<1>2. s \in Range(freeSlots) /\ freeSlots \in Seq(SlotIds(conf))
    BY <1>1, LastFree, Here
<1>3. s \in SlotIds(conf)
    BY <1>2, SeqFacts
<1>4. \A r \in Range(running) : seq[r].slot # s /\ seq[r].slot \in SlotIds(conf)
    BY <1>1, <1>2, NotLive, Here
<1>5. n \in Nat /\ Covers(p, s, n)
    BY Sizes
<1>6. Leads(own, p.tab[s], n)
    BY DEF Leads
<1>7. m = Mem
    OBVIOUS
<1> HIDE DEF m, own, s
<1>8. /\ MemoryOf(conf, m2) /\ Holds(m2, p.tab, s, q, n)
      /\ \A t \in SlotIds(conf) : t # s => Spared(p.tab, m2, m, t)
    BY <1>1, <1>3, <1>5, <1>6, PutFacts
<1> HIDE DEF m2
<1>9. \A r \in Range(running) : Spared(p.tab, m2, m, seq[r].slot)
    BY <1>4, <1>8
<1>10. \A r \in Range(running) : Committed(r) \in Nat /\ Holds(m2, p.tab, seq[r].slot, r, Committed(r))
    BY <1>7, <1>9, OthersHold
<1> QED
    BY <1>4, <1>8, <1>10 DEF m2, m, own, s

LEMMA JoinsAlone ==
  ASSUME RunnerInv, AllFit, NEW q \in Waiting, CanAdmit(<<q>>), NEW n \in 0..Cap,
         Start(<<q>>, <<Last(freeSlots)>>, <<n>>)
  PROVE  Joined(<<q>>, <<Last(freeSlots)>>, <<n>>)
<1> DEFINE s == Last(freeSlots)
           qs == <<q>>
           slots == <<s>>
           ns == <<n>>
<1>1. s \in SlotIds(conf) /\ q \in Seqs
    BY OneAdmitted
<1>2. /\ qs \in Seq(Seqs) /\ IsInjective(qs) /\ Range(qs) = {q} /\ Len(qs) = 1
      /\ slots[1] = s /\ ns[1] = n
    BY <1>1 DEF IsInjective, Range
<1>3. \A i \in 1..Len(qs) : i = 1
    BY <1>2
<1>4. Start(qs, slots, ns)
    OBVIOUS
<1> HIDE DEF qs, slots, ns
<1>5. \A i \in 1..Len(qs) : slots[i] \in SlotIds(conf) /\ ns[i] \in 0..Cap
    BY <1>1, <1>2, <1>3
<1>6. Range(qs) \subseteq Waiting
    BY <1>2
<1>7. Joined(qs, slots, ns)
    BY <1>2, <1>4, <1>5, <1>6, Started
<1> QED
    BY <1>7 DEF qs, slots, ns, s

LEMMA PrefillEagerHolds ==
  ASSUME ContextInv, AllFit, NEW q \in Waiting, NEW n \in conf.prompts, PrefillEager(q, n)
  PROVE  ContextInv'
<1> DEFINE s == Last(freeSlots)
           t == Taken(Pool)
           p == Grow(t, s, n)
           m2 == Put(Mem, p.tab[s], s, q, n)
<1>0. RunnerInv /\ RunnerInv' /\ PagesInv /\ BufsInv
    BY ContextHere, PrefillEagerKeeps
<1>1. n \in 0..Cap
    BY <1>0, Here DEF Fits
<1>2. CanAdmit(<<q>>) /\ ~ Graphs(conf, n)
    BY DEF PrefillEager, Graphs, Chunked
<1>3. /\ Alloc(<<q>>)[1] = s /\ AfterAlloc(<<q>>) = t /\ freeSlots # <<>>
      /\ Sound(conf, t) /\ t.fs = Front(freeSlots) /\ s \in SlotIds(conf)
    BY <1>0, <1>2, OneAdmitted
<1>4. /\ SetPool(p) /\ Start(<<q>>, <<s>>, <<n>>) /\ SetMem(EagerPrompt(p, ClearSlot(rec, s), q, s, n))
      /\ conf' = conf /\ pages' = pages /\ captured' = captured /\ bufs' = bufs
    BY <1>3 DEF PrefillEager, Bind
<1>5. pages = <<>>
    BY <1>2, NothingBound
<1>6. Sound(conf, p) /\ Extends(conf, p, t) /\ Covers(p, s, n)
  <2> HIDE DEF s, t
  <2> QED
      BY <1>1, <1>3, GrowSound
<1>7. Extends(conf, p, Pool)
  <2> DEFINE base == Pool
  <2>1. Extends(conf, p, Taken(base))
      BY <1>6
  <2> HIDE DEF p, base
  <2>2. Extends(conf, p, base)
      BY <2>1, GrownFromTaken
  <2> QED
      BY <2>2 DEF base
<1>8. table' = p.tab
    BY <1>4 DEF SetPool
<1>9. EagerPrompt(p, ClearSlot(rec, s), q, s, n) = m2
  <2> HIDE DEF s, p
  <2> QED
      BY <1>3, <1>5, <1>6, EagerPut
<1>10. /\ MemoryOf(conf, m2) /\ Holds(m2, p.tab, s, q, n)
       /\ \A r \in Range(running) : Holds(m2, p.tab, seq[r].slot, r, Committed(r))
  <2> HIDE DEF p
  <2> QED
      BY <1>1, <1>3, <1>6, <1>7, PutHolds
<1>11. kv' = m2.kv /\ rec' = m2.rec
    BY <1>4, <1>9 DEF SetMem
<1>12. PagesInv' /\ BufsInv'
    BY <1>0, <1>4 DEF PagesInv, BufsInv, Graphs
<1>13. Joined(<<q>>, <<s>>, <<n>>)
    BY <1>0, <1>1, <1>2, <1>4, JoinsAlone
<1> HIDE DEF m2, p, s
<1> QED
    BY <1>0, <1>1, <1>3, <1>4, <1>8, <1>10, <1>11, <1>12, <1>13, OneJoins

\* encode writes through a slot that is nobody's, and gives it back.
LEMMA EncodeHolds ==
  ASSUME ContextInv, AllFit, NEW q \in Waiting, NEW n \in conf.prompts, Encode(q, n)
  PROVE  ContextInv'
<1> DEFINE s == Last(freeSlots)
           t == Taken(Pool)
           g == Grow(t, s, n)
           m2 == Put(Mem, g.tab[s], s, q, n)
<1>0. RunnerInv /\ RunnerInv' /\ PagesInv /\ BufsInv /\ MemoryOf(conf, Mem)
    BY ContextHere, EncodeKeeps
<1>1. n \in 0..Cap
    BY <1>0, Here DEF Fits
<1>2. CanAdmit(<<q>>) /\ conf.encode
    BY DEF Encode
<1>3. /\ Alloc(<<q>>)[1] = s /\ AfterAlloc(<<q>>) = t /\ freeSlots # <<>>
      /\ Sound(conf, t) /\ t.fs = Front(freeSlots) /\ s \in SlotIds(conf)
      /\ q \in Seqs /\ q \notin Range(running)
    BY <1>0, <1>2, OneAdmitted
<1>4. /\ SetPool(IF g.ok THEN Released(g, s) ELSE g)
      /\ kv' = WritePrompt(kv, WriteTable(g.tab[s]), q, n, n)
      /\ rec' = LET row == Bound(<<[st |-> s]>>, Bind)[1].st IN [ClearSlot(rec, s) EXCEPT ![row] = Scan(@, q, n)]
      /\ seq' = [seq EXCEPT ![q].state = "done"]
      /\ conf' = conf /\ running' = running /\ pages' = pages /\ captured' = captured /\ bufs' = bufs
    BY <1>3 DEF Encode
<1>5. pages = <<>>
    BY <1>2, NothingBound
<1>6. Sound(conf, g) /\ Extends(conf, g, t) /\ Covers(g, s, n)
  <2> HIDE DEF s, t
  <2> QED
      BY <1>1, <1>3, GrowSound
<1>7. Extends(conf, g, Pool)
  <2> DEFINE base == Pool
  <2>1. Extends(conf, g, Taken(base))
      BY <1>6
  <2> HIDE DEF g, base
  <2>2. Extends(conf, g, base)
      BY <2>1, GrownFromTaken
  <2> QED
      BY <2>2 DEF base
<1>8. table' = [g.tab EXCEPT ![s] = <<>>]
  <2>1. g.ok = TRUE
    <3> HIDE DEF g
    <3> QED
        BY <1>6, SoundFields
  <2>2. SetPool(Released(g, s))
      BY <1>4, <2>1
  <2> HIDE DEF g, s
  <2> QED
      BY <2>2 DEF SetPool, Released
<1>9. kv' = m2.kv /\ rec' = m2.rec
  <2> DEFINE own == g.tab[s]
  <2>1. Mem.kv = kv /\ Mem.rec = rec /\ s \in DOMAIN rec
      BY <1>0, <1>3 DEF Mem, MemoryOf
  <2>2. m2.kv = WritePrompt(kv, own, q, n, n) /\ m2.rec = [rec EXCEPT ![s] = <<q, n>>]
      BY <2>1 DEF Put
  <2>3. kv' = WritePrompt(kv, own, q, n, n)
      BY <1>4, <1>5 DEF WriteTable
  <2>4. rec' = [ClearSlot(rec, s) EXCEPT ![s] = Scan(@, q, n)]
    <3> DEFINE row == Bound(<<[st |-> s]>>, Bind)[1].st
    <3>1. row = s
        BY BoundAlone
    <3>2. rec' = [ClearSlot(rec, s) EXCEPT ![row] = Scan(@, q, n)]
        BY <1>4
    <3> HIDE DEF row, s
    <3> QED
        BY <3>1, <3>2
  <2> HIDE DEF m2, own, s
  <2>5. [ClearSlot(rec, s) EXCEPT ![s] = Scan(@, q, n)] = [rec EXCEPT ![s] = <<q, n>>]
      BY <2>1, ClearedScan
  <2> QED
      BY <2>2, <2>3, <2>4, <2>5
<1>10. /\ MemoryOf(conf, m2)
       /\ \A r \in Range(running) : seq[r].slot # s /\ Holds(m2, g.tab, seq[r].slot, r, Committed(r))
  <2> HIDE DEF g
  <2> QED
      BY <1>1, <1>3, <1>6, <1>7, PutHolds
<1> DEFINE tab == g.tab
<1>11. tab \in [SlotIds(conf) -> Seq(BlockIds(conf))]
  <2> HIDE DEF g
  <2> QED
      BY <1>6, SoundFields
<1>12. table' = [tab EXCEPT ![s] = <<>>] /\ \A r \in Range(running) : Holds(m2, tab, seq[r].slot, r, Committed(r))
    BY <1>8, <1>10
<1> HIDE DEF m2, g, s, tab
<1>13. \A r \in Range(running) : seq'[r] = seq[r] /\ seq[r].slot \in SlotIds(conf)
  <2>1. seq \in [Seqs -> Seats(conf)] /\ \A r \in Range(running) : r \in Seqs /\ seq[r].slot \in SlotIds(conf)
      BY <1>0, Here
  <2> QED
      BY <1>3, <1>4, <2>1
<1>14. ASSUME NEW r \in Range(running) PROVE Holds(m2, table', seq'[r].slot, r, Committed(r)')
  <2>1. table'[seq[r].slot] = tab[seq[r].slot]
      BY <1>10, <1>11, <1>12, <1>13
  <2>2. Holds(m2, tab, seq[r].slot, r, Committed(r)) /\ seq'[r] = seq[r]
      BY <1>12, <1>13
  <2>3. Committed(r)' = Committed(r)
      BY <2>2 DEF Committed
  <2> QED
      BY <2>1, <2>2, <2>3 DEF Holds
<1>15. ~ conf.spec => \A r \in Range(running) : ~ seq'[r].carry
    BY <1>13, ContextHere
<1>16. BufsInv'
    BY <1>0, <1>4 DEF BufsInv
<1> QED
    BY <1>0, <1>4, <1>9, <1>10, <1>14, <1>15, <1>16, ContextGoesOn

\* What packed prompts leave: the memory that PrefillVarlen sets.
Packed(qs, ns, slots, tab) ==
  LET cleared == [s \in DOMAIN rec |-> IF s \in Range(slots) THEN Zero ELSE rec[s]]
      rows == Bound([i \in DOMAIN qs |-> [st |-> slots[i]]], Bind)
      packed[i \in 0..Len(qs)] ==
        IF i = 0 THEN [kv |-> kv, rec |-> cleared]
        ELSE [kv |-> WritePrompt(packed[i - 1].kv, tab[slots[i]], qs[i], ns[i], ns[i]),
              rec |-> [packed[i - 1].rec EXCEPT
                         ![rows[i].st] = Scan(cleared[rows[i].st], qs[i], ns[i])]]
  IN  packed[Len(qs)]

\* Two prompts that are packed are written one after the other.
LEMMA PackedMemory ==
  ASSUME NEW qs, NEW ns, NEW slots, NEW tab, Len(qs) = 2, DOMAIN qs = 1..2, DOMAIN slots = 1..2,
         slots[1] # slots[2], slots[1] \in DOMAIN rec, slots[2] \in DOMAIN rec
  PROVE  Packed(qs, ns, slots, tab)
           = Put(Put(Mem, tab[slots[1]], slots[1], qs[1], ns[1]), tab[slots[2]], slots[2], qs[2], ns[2])
<1> DEFINE s1 == slots[1]
           s2 == slots[2]
           cleared == [s \in DOMAIN rec |-> IF s \in Range(slots) THEN Zero ELSE rec[s]]
           rows == Bound([i \in DOMAIN qs |-> [st |-> slots[i]]], Bind)
           next(i, x) == [kv |-> WritePrompt(x.kv, tab[slots[i]], qs[i], ns[i], ns[i]),
                          rec |-> [x.rec EXCEPT ![rows[i].st] = Scan(cleared[rows[i].st], qs[i], ns[i])]]
           a0 == [kv |-> kv, rec |-> cleared]
           a1 == next(1, a0)
           a2 == next(2, a1)
           body(g) == [i \in 0..Len(qs) |-> IF i = 0 THEN a0 ELSE next(i, g[i - 1])]
           w == [i \in 0..2 |-> IF i = 0 THEN a0 ELSE IF i = 1 THEN a1 ELSE a2]
           run == CHOOSE g : g = body(g)
<1>1. Packed(qs, ns, slots, tab) = run[2]
    BY DEF Packed
<1>2. Range(slots) = {s1, s2}
    BY DEF Range
<1>3. rows[1].st = s1 /\ rows[2].st = s2
    BY DEF Bound, Bind
<1> HIDE DEF rows
<1>4. cleared[s1] = Zero /\ cleared[s2] = Zero
    BY <1>2
<1>5. Scan(Zero, qs[1], ns[1]) = <<qs[1], ns[1]>> /\ Scan(Zero, qs[2], ns[2]) = <<qs[2], ns[2]>>
    BY DEF Scan
<1>6. run[2] = a2
  <2> HIDE DEF a0, next
  <2>1. w = body(w)
    <3>1. w[0] = a0 /\ w[1] = next(1, w[0]) /\ w[2] = next(2, w[1])
        BY DEF a1, a2
    <3> HIDE DEF a1, a2, w
    <3>2. \A i \in 0..2 : w[i] = IF i = 0 THEN a0 ELSE next(i, w[i - 1])
      <4>1. \A i \in 0..2 : i = 0 \/ i = 1 \/ i = 2
          OBVIOUS
      <4>2. 1 - 1 = 0 /\ 2 - 1 = 1
          OBVIOUS
      <4> QED
          BY <3>1, <4>1, <4>2
    <3>3. w = [i \in 0..2 |-> w[i]]
        BY DEF w
    <3> QED
        BY <3>2, <3>3
  <2>2. run = body(run)
    <3> HIDE DEF body, w
    <3> QED
        BY <2>1
  <2> HIDE DEF run
  <2>3. run[0] = a0 /\ run[1] = next(1, run[0]) /\ run[2] = next(2, run[1])
    <3>1. 0 \in 0..Len(qs) /\ 1 \in 0..Len(qs) /\ 2 \in 0..Len(qs) /\ 1 - 1 = 0 /\ 2 - 1 = 1 /\ 1 # 0 /\ 2 # 0
        OBVIOUS
    <3>2. \A i \in 0..Len(qs) : run[i] = IF i = 0 THEN a0 ELSE next(i, run[i - 1])
        BY <2>2
    <3> QED
        BY <3>1, <3>2
  <2> QED
      BY <2>3 DEF a1, a2
<1> DEFINE r1 == [cleared EXCEPT ![s1] = <<qs[1], ns[1]>>]
           r2 == [r1 EXCEPT ![s2] = <<qs[2], ns[2]>>]
           k1 == WritePrompt(kv, tab[s1], qs[1], ns[1], ns[1])
           k2 == WritePrompt(k1, tab[s2], qs[2], ns[2], ns[2])
<1>7. a1 = [kv |-> k1, rec |-> r1]
    BY <1>3, <1>4, <1>5
<1>8. a2 = [kv |-> k2, rec |-> r2]
  <2> HIDE DEF a1, r1, k1, cleared
  <2> QED
      BY <1>3, <1>4, <1>5, <1>7
<1>9. r2 = [[rec EXCEPT ![s1] = <<qs[1], ns[1]>>] EXCEPT ![s2] = <<qs[2], ns[2]>>]
    BY <1>2
<1>10. Put(Put(Mem, tab[s1], s1, qs[1], ns[1]), tab[s2], s2, qs[2], ns[2])
         = [kv |-> k2, rec |-> [[rec EXCEPT ![s1] = <<qs[1], ns[1]>>] EXCEPT ![s2] = <<qs[2], ns[2]>>]]
    BY DEF Put, Mem
<1> HIDE DEF r2, k2, a2, run
<1> QED
    BY <1>1, <1>6, <1>8, <1>9, <1>10

LEMMA PrefillVarlenHolds ==
  ASSUME ContextInv, AllFit, NEW q1 \in Waiting, NEW q2 \in Waiting, q1 # q2,
         NEW n1 \in conf.prompts, NEW n2 \in conf.prompts, PrefillVarlen(<<q1, q2>>, <<n1, n2>>)
  PROVE  ContextInv'
<1> DEFINE qs == <<q1, q2>>
           ns == <<n1, n2>>
           slots == Alloc(qs)
           p == GrowAll(AfterAlloc(qs), [i \in DOMAIN qs |-> <<slots[i], ns[i]>>])
           s1 == slots[1]
           s2 == slots[2]
           m1 == Put(Mem, p.tab[s1], s1, q1, n1)
           m2 == Put(m1, p.tab[s2], s2, q2, n2)
<1>0. RunnerInv /\ RunnerInv' /\ PagesInv /\ BufsInv /\ MemoryOf(conf, Mem)
    BY ContextHere, PrefillVarlenKeeps
<1>1. /\ SetPool(p) /\ SetMem(Packed(qs, ns, slots, p.tab))
      /\ conf' = conf /\ pages' = pages /\ captured' = captured /\ bufs' = bufs
    BY DEF PrefillVarlen, Packed
<1>2. /\ Len(qs) = 2 /\ DOMAIN qs = 1..2 /\ qs[1] = q1 /\ qs[2] = q2 /\ ns[1] = n1 /\ ns[2] = n2
      /\ DOMAIN slots = 1..2 /\ qs \in Seq(Seqs)
    BY DEF Alloc, Waiting
<1>3. /\ n1 \in 0..Cap /\ n2 \in 0..Cap
      /\ s1 = Last(freeSlots) /\ s2 = Last(Front(freeSlots)) /\ freeSlots # <<>> /\ Front(freeSlots) # <<>>
      /\ s1 \in SlotIds(conf) /\ s2 \in SlotIds(conf)
      /\ Sound(conf, p) /\ Extends(conf, p, Pool) /\ Covers(p, s1, n1) /\ Covers(p, s2, n2)
      /\ Joined(qs, slots, ns)
    BY <1>0, PackedPools
<1>4. table' = p.tab /\ kv' = Packed(qs, ns, slots, p.tab).kv /\ rec' = Packed(qs, ns, slots, p.tab).rec
    BY <1>1 DEF SetPool, SetMem
<1> DEFINE tab == p.tab
<1> HIDE DEF p
<1>5. s1 # s2 /\ s2 \in Range(freeSlots)
    BY <1>0, <1>3, LastFree
<1>6. Packed(qs, ns, slots, p.tab) = m2
  <2>1. s1 \in DOMAIN rec /\ s2 \in DOMAIN rec
      BY <1>0, <1>3 DEF MemoryOf, Mem
  <2> HIDE DEF qs, ns, slots
  <2>2. Packed(qs, ns, slots, tab)
          = Put(Put(Mem, tab[slots[1]], slots[1], qs[1], ns[1]), tab[slots[2]], slots[2], qs[2], ns[2])
    <3> HIDE DEF tab
    <3> QED
        BY <1>2, <1>5, <2>1, PackedMemory
  <2> QED
      BY <1>2, <2>2
<1>7. /\ MemoryOf(conf, m1) /\ Holds(m1, tab, s1, q1, n1)
      /\ \A r \in Range(running) : Committed(r) \in Nat /\ Holds(m1, tab, seq[r].slot, r, Committed(r))
  <2> DEFINE s == Last(freeSlots)
             m == Put(Mem, p.tab[s], s, q1, n1)
  <2>1. /\ MemoryOf(conf, m) /\ Holds(m, p.tab, s, q1, n1)
        /\ \A r \in Range(running) : Committed(r) \in Nat /\ Holds(m, p.tab, seq[r].slot, r, Committed(r))
    <3>1. Covers(p, Last(freeSlots), n1)
        BY <1>3
    <3> QED
        BY <1>3, <3>1, PutHolds
  <2>2. s = s1
      BY <1>3
  <2> HIDE DEF s
  <2> QED
      BY <2>1, <2>2
<1>8. /\ MemoryOf(conf, m2) /\ Holds(m2, tab, s2, q2, n2)
      /\ \A t \in SlotIds(conf) : t # s2 => Spared(tab, m2, m1, t)
  <2>1. n2 \in Nat /\ Leads(p.tab[s2], p.tab[s2], n2)
      BY <1>3, Sizes DEF Leads
  <2> HIDE DEF m1, s1, s2
  <2> DEFINE own == p.tab[s2]
  <2>2. Leads(own, p.tab[s2], n2)
      BY <2>1
  <2> HIDE DEF own
  <2>3. LET m == Put(m1, own, s2, q2, n2)
        IN  /\ MemoryOf(conf, m) /\ Holds(m, p.tab, s2, q2, n2)
            /\ \A t \in SlotIds(conf) : t # s2 => Spared(p.tab, m, m1, t)
      BY <1>3, <1>7, <2>1, <2>2, PutFacts
  <2> QED
      BY <2>3 DEF own
<1>9. BlocksApart(conf, p.fb, tab)
    BY <1>3, SoundFields
<1>10. \A r \in Range(running) : seq[r].slot \in SlotIds(conf) /\ seq[r].slot # s2
    BY <1>0, <1>5, NotLive, Here
<1>11. n1 \in Nat
    BY <1>3, Sizes
<1>12. kv' = m2.kv /\ rec' = m2.rec /\ table' = tab
    BY <1>4, <1>6
<1> HIDE DEF m1, m2, s1, s2, tab
<1>13. Holds(m2, tab, s1, q1, n1)
    BY <1>3, <1>5, <1>7, <1>8, <1>9, <1>11, HoldsSame
<1>14. ASSUME NEW r \in Range(running) PROVE Holds(m2, tab, seq[r].slot, r, Committed(r))
  <2> DEFINE s == seq[r].slot
             n == Committed(r)
  <2>1. n \in Nat /\ Holds(m1, tab, s, r, n) /\ s \in SlotIds(conf) /\ Spared(tab, m2, m1, s)
      BY <1>7, <1>8, <1>10
  <2> HIDE DEF s, n
  <2>2. Holds(m2, tab, s, r, n)
      BY <1>9, <2>1, HoldsSame
  <2> QED
      BY <2>2 DEF s, n
<1>15. \A i \in 1..Len(qs) : ns[i] \in 0..Cap /\ Holds(m2, table', slots[i], qs[i], ns[i])
  <2>1. \A i \in 1..Len(qs) : i = 1 \/ i = 2
      BY <1>2
  <2>2. slots[1] = s1 /\ slots[2] = s2
      BY DEF s1, s2
  <2> HIDE DEF qs, ns, slots
  <2> QED
      BY <1>2, <1>3, <1>8, <1>12, <1>13, <2>1, <2>2
<1>16. PagesInv' /\ BufsInv'
    BY <1>0, <1>1 DEF PagesInv, BufsInv, Graphs
<1>17. Joined(qs, slots, ns) /\ qs \in Seq(Seqs)
    BY <1>2, <1>3
<1>18. \A r \in Range(running) : Holds(m2, table', seq[r].slot, r, Committed(r))
    BY <1>12, <1>14
<1> HIDE DEF qs, ns, slots
<1> QED
    BY <1>0, <1>1, <1>8, <1>12, <1>15, <1>16, <1>17, <1>18, TheyJoin

-----------------------------------------------------------------------------
(* A prompt through its graph *)

\* A bucket that a prompt fills is the one it is given.
LEMMA FullBucket ==
  ASSUME NEW buckets \in SUBSET (Nat \ {0}), NEW n \in buckets
  PROVE  NextBucket(buckets, n) = n
<1> DEFINE fit == {b \in buckets : n <= b}
<1>0. n \in Nat /\ \A b \in buckets : b \in Nat
    OBVIOUS
<1>1. fit \in SUBSET Nat /\ n \in fit /\ \A b \in fit : n <= b /\ b \in Nat
  <2>1. \A b \in fit : b \in buckets /\ n <= b
      OBVIOUS
  <2>2. n \in fit
      BY <1>0
  <2> HIDE DEF fit
  <2> QED
      BY <1>0, <2>1, <2>2
<1>2. NextBucket(buckets, n) = Min(fit)
    BY <1>1 DEF NextBucket
<1> HIDE DEF fit
<1>3. fit # {}
    BY <1>1
<1>4. Min(fit) \in fit /\ \A b \in fit : Min(fit) <= b
    BY <1>1, <1>3, MinFacts
<1>5. Min(fit) = n
  <2> DEFINE k == Min(fit)
  <2>1. k \in Nat /\ n <= k /\ k <= n
      BY <1>1, <1>4
  <2> HIDE DEF k
  <2>2. k = n
      BY <1>0, <2>1
  <2> QED
      BY <2>2 DEF k
<1> QED
    BY <1>2, <1>5

\* The static tensor leads a prompt where its slot's table does.
LEMMA PageLeads ==
  ASSUME NEW c, NEW p, Sound(c, p), NEW s \in SlotIds(c), NEW n \in Nat, Covers(p, s, n),
         NEW page, DOMAIN page = 1..NumBlocks(c)
  PROVE  /\ Leads(BindPage(page, p.tab[s]), p.tab[s], n)
         /\ DOMAIN BindPage(page, p.tab[s]) = 1..NumBlocks(c)
<1> DEFINE own == p.tab[s]
           tab == p.tab
           fb == p.fb
           l == Len(own)
           nb == NumBlocks(c)
           bound == BindPage(page, own)
<1>1. l \in 0..BlocksPerSeq /\ BlocksApart(c, fb, tab)
    BY SoundFields
<1>2. nb \in Nat /\ BlocksPerSeq <= nb
  <2> DEFINE k == NumSlots(c)
             d == BlocksPerSeq
  <2>1. k \in Nat \ {0} /\ d \in Nat \ {0} /\ nb = k * d
      BY Sizes
  <2> HIDE DEF k, d, nb
  <2>2. k - 1 \in Nat /\ (k - 1) * d \in Nat /\ k * d = (k - 1) * d + d
      BY <2>1
  <2> QED
      BY <2>1, <2>2 DEF d
<1>3. Ceil(n, BlockSize) <= Len(tab[s])
    BY DEF Covers
<1>4. \A r \in 0..n - 1 : HasPlace(tab, s, r)
  <2> HIDE DEF tab, fb
  <2> QED
      BY <1>1, <1>3, Placed
<1>5. DOMAIN bound = 1..nb /\ \A i \in 1..nb : i <= l => bound[i] = own[i]
    BY DEF BindPage
<1>6. ASSUME NEW r \in 0..n - 1 PROVE Flat(bound, r) = Flat(own, r)
  <2> DEFINE k == r \div BlockSize
  <2>1. r \in Nat /\ k \in Nat /\ k < l
    <3>1. HasPlace(tab, s, r)
        BY <1>4
    <3>2. r \in Nat
        OBVIOUS
    <3> QED
        BY <3>1, <3>2, DivMod DEF HasPlace
  <2> HIDE DEF k, bound, l, nb
  <2>2. k + 1 \in 1..nb /\ k + 1 <= l
      BY <1>1, <1>2, <2>1, Sizes
  <2>3. bound[k + 1] = own[k + 1]
      BY <1>5, <2>2
  <2> QED
      BY <2>3 DEF Flat, k
<1>7. Leads(bound, own, n)
  <2> HIDE DEF bound, own
  <2> QED
      BY <1>6 DEF Leads
<1> QED
    BY <1>5, <1>7 DEF bound, own

\* What a replayed prefill graph leaves: page is the tensor it read.
LEMMA ReplayPut ==
  ASSUME NEW m, NEW page, NEW s \in DOMAIN m.rec, NEW q, NEW n, NEW m2 \in ReplayPrefill(m.kv, page, ClearSlot(m.rec, s), q, s, n, n)
  PROVE  m2 = Put(m, page, s, q, n)
<1> DEFINE w == WritePrompt(m.kv, page, q, n, n)
           r == ClearSlot(m.rec, s)
<1>1. m2 = [kv |-> w, rec |-> [r EXCEPT ![s] = Scan(@, q, n)]]
  <2> HIDE DEF w, r
  <2>1. m2 \in ReplayPrefill(m.kv, page, r, q, s, n, n)
      BY DEF r
  <2>2. \A padLast \in {FALSE} : ~ padLast
      OBVIOUS
  <2> QED
      BY <2>1, <2>2 DEF ReplayPrefill, w
<1>2. [r EXCEPT ![s] = Scan(@, q, n)] = [m.rec EXCEPT ![s] = <<q, n>>]
    BY ClearedScan
<1> QED
    BY <1>1, <1>2 DEF Put

\* A prompt of n tokens went in on slot s through the tensor "page", which pool p's
\* blocks of s were bound to; m is the memory the replay started from.
ThroughPage(p, m, page, q, s, n) ==
  /\ Sound(conf, p) /\ Extends(conf, p, Pool) /\ Covers(p, s, n)
  /\ MemoryOf(conf, m) /\ \A r \in Range(running) : Spared(p.tab, m, Mem, seq[r].slot)
  /\ DOMAIN page = 1..NumBlocks(conf)
  /\ pages' = <<BindPage(page, p.tab[s])>> /\ DOMAIN captured' = {n} /\ captured'[n] = 1
  /\ SetMem(Put(m, BindPage(page, p.tab[s]), s, q, n))
  /\ table' = p.tab

\* The second prompt and all that follow: the bucket is captured.
LEMMA GraphedAgain ==
  ASSUME ContextInv, AllFit, NEW q \in Waiting, NEW n \in conf.prompts, PrefillGraphed(q, n),
         NextBucket(PrefillBuckets, n) = n, n \in DOMAIN captured
  PROVE  \E p, m, page : ThroughPage(p, m, page, q, Last(freeSlots), n)
<1> DEFINE s == Last(freeSlots)
           t == Taken(Pool)
           p == Grow(t, s, n)
           m == Mem
           page == pages[1]
<1>0. RunnerInv /\ MemoryOf(conf, m)
    BY ContextHere
<1>1. CanAdmit(<<q>>)
    BY DEF PrefillGraphed
<1>2. /\ Alloc(<<q>>)[1] = s /\ AfterAlloc(<<q>>) = t /\ s \in SlotIds(conf)
    BY <1>0, <1>1, OneAdmitted
<1>3. captured[n] = 1 /\ pages = <<page>> /\ DOMAIN page = 1..NumBlocks(conf) /\ DOMAIN captured = {n}
    BY DEF ContextInv, PagesInv
<1>4. /\ Sound(conf, p) /\ Extends(conf, p, t) /\ Covers(p, s, n)
    BY <1>0, GraphedPools
<1>5. p.ok = TRUE
  <2> HIDE DEF p
  <2> QED
      BY <1>4, SoundFields
<1> DEFINE bound == [pages EXCEPT ![Len(pages)] = BindPage(@, p.tab[s])]
<1>6. /\ SetPool(p) /\ pages' = bound /\ captured' = captured
      /\ \E m2 \in ReplayPrefill(kv, bound[captured[n]], ClearSlot(rec, s), q, s, n, n) : SetMem(m2)
    BY <1>2, <1>5 DEF PrefillGraphed
<1> HIDE DEF t, p
<1>7. bound = <<BindPage(page, p.tab[s])>>
  <2>1. Len(pages) = 1 /\ pages[1] = page
      BY <1>3
  <2> HIDE DEF page
  <2> QED
      BY <1>3, <2>1
<1>8. Extends(conf, p, Pool)
  <2> DEFINE base == Pool
  <2>1. Extends(conf, p, Taken(base))
      BY <1>4 DEF t
  <2> HIDE DEF base
  <2>2. Extends(conf, p, base)
      BY <2>1, GrownFromTaken
  <2> QED
      BY <2>2 DEF base
<1>9. m.kv = kv /\ m.rec = rec /\ s \in DOMAIN m.rec
    BY <1>0, <1>2 DEF Mem, MemoryOf
<1>10. \A r \in Range(running) : Spared(p.tab, m, m, seq[r].slot)
    BY DEF Spared
<1>11. table' = p.tab
    BY <1>6 DEF SetPool
<1> DEFINE to == BindPage(page, p.tab[s])
<1>12. bound[captured[n]] = to
    BY <1>3, <1>7
<1>13. pages' = <<to>>
    BY <1>6, <1>7
<1> HIDE DEF bound, to, page
<1>14. SetMem(Put(m, to, s, q, n))
  <2>1. PICK m2 \in ReplayPrefill(m.kv, to, ClearSlot(m.rec, s), q, s, n, n) : SetMem(m2)
      BY <1>6, <1>9, <1>12
  <2> HIDE DEF m, s
  <2>2. m2 = Put(m, to, s, q, n)
      BY <1>9, <2>1, ReplayPut
  <2> QED
      BY <2>1, <2>2
<1>15. ThroughPage(p, m, page, q, s, n)
  <2> HIDE DEF s
  <2> QED
      BY <1>0, <1>3, <1>4, <1>6, <1>8, <1>10, <1>11, <1>13, <1>14 DEF ThroughPage, to, m
<1> QED
    BY <1>15

\* The first prompt: the tensor is new, and the capture warms up on the scratch slot.
LEMMA GraphedFirst ==
  ASSUME ContextInv, AllFit, NEW q \in Waiting, NEW n \in conf.prompts, PrefillGraphed(q, n),
         NextBucket(PrefillBuckets, n) = n, DOMAIN captured = {}, pages = <<>>
  PROVE  \E p, m, page : ThroughPage(p, m, page, q, Last(freeSlots), n)
<1> DEFINE s == Last(freeSlots)
           t == Taken(Pool)
           grown == Grow(t, s, n)
           o == "prefill"
           sc == Scratch(grown, o, n)
           p == sc.pool
           scr == sc.slot
           base == Mem
           blank == [i \in 1..NumBlocks(conf) |-> 0]
           page == BindPage(blank, p.tab[scr])
           w == WritePrompt(kv, page, NoSeq, n, 0)
           m == [kv |-> w, rec |-> [rec EXCEPT ![scr] = Junk]]
           to == BindPage(page, p.tab[s])
<1>0. RunnerInv /\ MemoryOf(conf, base)
    BY ContextHere
<1>1. CanAdmit(<<q>>)
    BY DEF PrefillGraphed
<1>2. /\ Alloc(<<q>>)[1] = s /\ AfterAlloc(<<q>>) = t /\ s \in SlotIds(conf) /\ freeSlots # <<>>
    BY <1>0, <1>1, OneAdmitted
<1>3. n \in Nat /\ n \in 0..Cap /\ n \notin DOMAIN captured
    BY <1>0, Here, Sizes DEF Fits
<1>4. /\ Sound(conf, grown) /\ grown.fs = Front(freeSlots) /\ Extends(conf, grown, t) /\ Covers(grown, s, n)
      /\ Sound(conf, p) /\ scr \in SlotIds(conf) /\ Extends(conf, p, grown) /\ Covers(p, scr, n)
      /\ scratch[o] = NoSlot => grown.fs # <<>>
      /\ IF scratch[o] = NoSlot THEN scr = Last(grown.fs) ELSE scr = scratch[o]
    BY <1>0, GraphedPools
<1>5. p.ok = TRUE
  <2> HIDE DEF sc
  <2> QED
      BY <1>4, SoundFields
<1> DEFINE cap == CapturePrefill(n, scr, p)
           bound == [cap.pages EXCEPT ![Len(cap.pages)] = BindPage(@, p.tab[s])]
<1>6. /\ SetPool(p) /\ pages' = bound /\ captured' = cap.captured
      /\ \E m2 \in ReplayPrefill(cap.kv, bound[cap.captured[n]], ClearSlot(cap.rec, s), q, s, n, n) : SetMem(m2)
    BY <1>2, <1>3, <1>5 DEF PrefillGraphed
<1> HIDE DEF sc, grown
<1>7. /\ cap.pages = <<page>> /\ cap.captured = [x \in {n} |-> 1] /\ cap.kv = m.kv /\ cap.rec = m.rec
  <2> HIDE DEF page, w
  <2>1. cap = [pages |-> Append(pages, page),
               captured |-> [x \in DOMAIN captured \cup {n} |-> IF x = n THEN Len(pages) + 1 ELSE captured[x]],
               kv |-> w, rec |-> [rec EXCEPT ![scr] = Junk]]
      BY DEF CapturePrefill, page, w, blank
  <2> HIDE DEF cap, scr, p
  <2>2. Append(pages, page) = <<page>> /\ Len(pages) + 1 = 1
      OBVIOUS
  <2> QED
      BY <2>1, <2>2
<1> HIDE DEF cap
<1>8. bound = <<to>>
  <2>1. Len(cap.pages) = 1 /\ cap.pages[1] = page
      BY <1>7
  <2> HIDE DEF page
  <2> QED
      BY <1>7, <2>1
<1>9. cap.captured[n] = 1 /\ DOMAIN captured' = {n} /\ captured'[n] = 1
    BY <1>6, <1>7
<1>10. /\ DOMAIN blank = 1..NumBlocks(conf)
       /\ Leads(page, p.tab[scr], n) /\ DOMAIN page = 1..NumBlocks(conf)
  <2> HIDE DEF p, scr
  <2>1. DOMAIN blank = 1..NumBlocks(conf)
      OBVIOUS
  <2> HIDE DEF blank
  <2> QED
      BY <1>3, <1>4, <2>1, PageLeads DEF page
<1>11. Extends(conf, p, Pool) /\ Covers(p, s, n)
  <2> DEFINE b0 == Pool
  <2>1. Extends(conf, grown, Taken(b0)) /\ Sound(conf, b0)
      BY <1>0, <1>4, Here
  <2> HIDE DEF p, b0, s, t
  <2>2. Extends(conf, grown, b0)
      BY <2>1, GrownFromTaken
  <2>3. Extends(conf, p, b0) /\ \A x \in SlotIds(conf), y \in 0..Cap : Covers(grown, x, y) => Covers(p, x, y)
      BY <1>4, <2>1, <2>2, ExtendsFar
  <2>4. Covers(p, s, n)
      BY <1>2, <1>3, <1>4, <2>3
  <2> QED
      BY <2>3, <2>4 DEF b0
<1>12. scr # s /\ \A r \in Range(running) : seq[r].slot # scr /\ seq[r].slot \in SlotIds(conf)
  <2> HIDE DEF scr
  <2>1. o \in Objects /\ s \in Range(freeSlots)
      BY <1>0, <1>2, LastFree DEF Objects
  <2> HIDE DEF s, o
  <2>2. CASE scratch[o] = NoSlot
    <3>1. Front(freeSlots) # <<>> /\ scr = Last(Front(freeSlots))
        BY <1>4, <2>2
    <3>2. scr \in Range(freeSlots) /\ scr # s
        BY <1>0, <1>2, <3>1, LastFree DEF s
    <3> QED
        BY <1>0, <3>2, NotLive, Here
  <2>3. CASE scratch[o] # NoSlot
    <3>1. scr = scratch[o]
        BY <1>4, <2>3
    <3>2. scratch[o] \notin Range(freeSlots)
        BY <1>0, <2>1, Here DEF SlotsInv, SlotsApart
    <3> QED
        BY <1>0, <2>1, <3>1, <3>2, NotLive, Here
  <2> QED
      BY <2>2, <2>3
<1>13. /\ base.kv = kv /\ base.rec = rec /\ DOMAIN kv = FlatRows(conf) /\ DOMAIN rec = SlotIds(conf)
    BY <1>0 DEF Mem, MemoryOf
<1> HIDE DEF base
<1>14. /\ MemoryOf(conf, m) /\ DOMAIN m.rec = SlotIds(conf)
       /\ \A x \in SlotIds(conf) : x # scr => Spared(p.tab, m, base, x)
  <2> DEFINE tab == p.tab
             fb == p.fb
             z == 0
             r == [rec EXCEPT ![scr] = Junk]
  <2>1. BlocksApart(conf, fb, tab) /\ Ceil(n, BlockSize) <= Len(tab[scr])
      BY <1>4, SoundFields DEF Covers
  <2>2. Leads(page, tab[scr], n) /\ z \in Nat /\ w = WritePrompt(kv, page, NoSeq, n, z)
      BY <1>10
  <2>3. DOMAIN r = SlotIds(conf) /\ \A x \in SlotIds(conf) : x # scr => r[x] = rec[x]
      BY <1>13
  <2>4. m.kv = w /\ m.rec = r /\ m = [kv |-> m.kv, rec |-> m.rec]
      OBVIOUS
  <2> HIDE DEF page, tab, fb, z, w, r, m, scr
  <2>5. Written(conf, tab, w, kv, scr, NoSeq, n, z)
      BY <1>3, <1>4, <1>13, <2>1, <2>2, PromptWritten
  <2>6. DOMAIN w = FlatRows(conf)
        /\ \A x \in SlotIds(conf) : \A y : x # scr /\ HasPlace(tab, x, y) => w[Flat(tab[x], y)] = kv[Flat(tab[x], y)]
      BY <2>5 DEF Written
  <2>7. MemoryOf(conf, m)
      BY <2>3, <2>4, <2>6 DEF MemoryOf
  <2>8. \A x \in SlotIds(conf) : x # scr => Spared(tab, m, base, x)
      BY <1>13, <2>3, <2>4, <2>6 DEF Spared
  <2> QED
      BY <2>3, <2>4, <2>7, <2>8 DEF tab
<1> HIDE DEF m, page, bound, to
<1>15. \A r \in Range(running) : Spared(p.tab, m, base, seq[r].slot)
    BY <1>12, <1>14
<1>16. table' = p.tab
    BY <1>6 DEF SetPool
<1> HIDE DEF p, scr
<1>17. SetMem(Put(m, to, s, q, n))
  <2>1. PICK m2 \in ReplayPrefill(m.kv, to, ClearSlot(m.rec, s), q, s, n, n) : SetMem(m2)
    <3>1. bound[cap.captured[n]] = to
        BY <1>8, <1>9
    <3> QED
        BY <1>6, <1>7, <3>1
  <2>2. s \in DOMAIN m.rec
      BY <1>2, <1>14
  <2> HIDE DEF s
  <2>3. m2 = Put(m, to, s, q, n)
      BY <2>1, <2>2, ReplayPut
  <2> QED
      BY <2>1, <2>3
<1>18. pages' = <<to>>
    BY <1>6, <1>8
<1>19. ThroughPage(p, m, page, q, s, n)
  <2> HIDE DEF s
  <2> QED
      BY <1>4, <1>9, <1>10, <1>11, <1>14, <1>15, <1>16, <1>17, <1>18 DEF ThroughPage, to, base
<1> QED
    BY <1>19

LEMMA PrefillGraphedHolds ==
  ASSUME ContextInv, AllFit, OneWay(conf), NEW q \in Waiting, NEW n \in conf.prompts, PrefillGraphed(q, n)
  PROVE  ContextInv'
<1> DEFINE s == Last(freeSlots)
           base == Mem
<1>0. RunnerInv /\ RunnerInv' /\ PagesInv /\ BufsInv
    BY ContextHere, PrefillGraphedKeeps
<1>1. CanAdmit(<<q>>) /\ conf' = conf
    BY DEF PrefillGraphed
<1>2. /\ Alloc(<<q>>)[1] = s /\ s \in SlotIds(conf) /\ freeSlots # <<>>
    BY <1>0, <1>1, OneAdmitted
<1>3. n \in 0..Cap /\ n \in Nat
    BY <1>0, Here, Sizes DEF Fits
<1>4. Graphs(conf, n)
    BY <1>0, GraphedPools
<1>5. ~ conf.encode /\ n \in PrefillBuckets /\ \A k \in conf.prompts : k = n /\ Graphs(conf, k)
    BY <1>4 DEF OneWay
<1>6. NextBucket(PrefillBuckets, n) = n
  <2>1. PrefillBuckets \in SUBSET (Nat \ {0})
      BY GraphSizesAssumption
  <2> QED
      BY <1>5, <2>1, FullBucket
<1>7. \E p, m, page : ThroughPage(p, m, page, q, s, n)
  <2>1. CASE n \in DOMAIN captured
      BY <1>6, <2>1, GraphedAgain
  <2>2. CASE n \notin DOMAIN captured
    <3>1. DOMAIN captured = {} /\ pages = <<>>
        BY <1>0, <2>2 DEF PagesInv
    <3> QED
        BY <1>6, <3>1, GraphedFirst
  <2> QED
      BY <2>1, <2>2
<1>8. PICK p, m, page : ThroughPage(p, m, page, q, s, n)
    BY <1>7
<1> DEFINE to == BindPage(page, p.tab[s])
           m2 == Put(m, to, s, q, n)
<1>9. /\ Sound(conf, p) /\ Extends(conf, p, Pool) /\ Covers(p, s, n)
      /\ MemoryOf(conf, m) /\ \A r \in Range(running) : Spared(p.tab, m, base, seq[r].slot)
      /\ DOMAIN page = 1..NumBlocks(conf)
      /\ pages' = <<to>> /\ DOMAIN captured' = {n} /\ captured'[n] = 1
      /\ SetMem(m2) /\ table' = p.tab
    BY <1>8 DEF ThroughPage
<1>10. s \in Range(freeSlots)
    BY <1>0, <1>2, LastFree
<1>11. \A r \in Range(running) : seq[r].slot \in SlotIds(conf) /\ seq[r].slot # s
    BY <1>0, <1>10, NotLive, Here
<1>12. Start(<<q>>, <<s>>, <<n>>)
    BY <1>2 DEF PrefillGraphed
<1>13. Joined(<<q>>, <<s>>, <<n>>)
    BY <1>0, <1>1, <1>3, <1>12, JoinsAlone
<1>14. BufsInv'
  <2> DEFINE key == <<"prefill", NextBucket(PrefillBuckets, n), 1>>
  <2>1. \/ bufs' = [x \in DOMAIN bufs \cup {key} |-> IF x = key THEN <<[st |-> s]>> ELSE bufs[x]]
        \/ bufs' = bufs
      BY <1>2 DEF PrefillGraphed
  <2>2. key[1] = "prefill"
      OBVIOUS
  <2> HIDE DEF key
  <2> QED
      BY <1>0, <2>1, <2>2 DEF BufsInv
<1> HIDE DEF s
<1>15. Leads(to, p.tab[s], n) /\ DOMAIN to = 1..NumBlocks(conf)
    BY <1>2, <1>3, <1>9, PageLeads
<1>16. PagesInv'
  <2>1. DOMAIN pages'[1] = 1..NumBlocks(conf) /\ pages' = <<pages'[1]>>
      BY <1>9, <1>15
  <2>2. DOMAIN captured' # {}
      BY <1>9
  <2>3. \A k \in conf'.prompts : k = n /\ Graphs(conf', k)
      BY <1>1, <1>5 DEF Graphs
  <2> HIDE DEF to
  <2> QED
      BY <1>1, <1>5, <1>9, <2>1, <2>2, <2>3 DEF PagesInv, Graphs, NumBlocks, NumSlots, ExtraSlots
<1> HIDE DEF to, base
<1>17. /\ MemoryOf(conf, m2) /\ Holds(m2, p.tab, s, q, n)
       /\ \A x \in SlotIds(conf) : x # s => Spared(p.tab, m2, m, x)
    BY <1>2, <1>3, <1>9, <1>15, PutFacts
<1> HIDE DEF m2
<1>18. \A r \in Range(running) : Spared(p.tab, m2, base, seq[r].slot)
  <2>1. \A r \in Range(running) : Spared(p.tab, m2, m, seq[r].slot)
      BY <1>11, <1>17
  <2> QED
      BY <1>9, <2>1 DEF Spared
<1>19. \A r \in Range(running) : Holds(m2, p.tab, seq[r].slot, r, Committed(r))
    BY <1>9, <1>18, OthersHold DEF base
<1>20. kv' = m2.kv /\ rec' = m2.rec /\ table' = p.tab
    BY <1>9 DEF SetMem
<1> QED
    BY <1>0, <1>1, <1>2, <1>3, <1>13, <1>14, <1>16, <1>17, <1>19, <1>20, OneJoins

-----------------------------------------------------------------------------
(* The whole of it *)

LEMMA ContextInit ==
  ASSUME AllFit, GraphInit
  PROVE  ContextInv
<1>1. RunnerInv
    BY RunnerInit
<1>2. /\ kv = [x \in FlatRows(conf) |-> Zero] /\ rec = [s \in SlotIds(conf) |-> Zero]
      /\ running = <<>> /\ bufs = <<>> /\ pages = <<>> /\ captured = <<>>
    BY DEF GraphInit, FlatRows, SlotIds
<1>3. Range(<<>>) = {} /\ DOMAIN <<>> = {}
    BY DEF Range
<1>4. MemoryOf(conf, Mem)
    BY <1>2 DEF MemoryOf, Mem
<1>5. BufsInv /\ PagesInv
    BY <1>2, <1>3 DEF BufsInv, PagesInv
<1> QED
    BY <1>1, <1>2, <1>3, <1>4, <1>5 DEF ContextInv

LEMMA ContextNext ==
  ASSUME ContextInv, AllFit, AllOneWay, [GraphNext]_vars
  PROVE  ContextInv'
<1>0. RunnerInv /\ OneWay(conf)
  <2>1. RunnerInv
      BY ContextHere
  <2> QED
      BY <2>1, Here DEF AllOneWay
<1>1. CASE UNCHANGED vars
  <2>1. RunnerInv'
      BY <1>0, <1>1, RunnerNext
  <2>2. /\ conf' = conf /\ seq' = seq /\ running' = running /\ table' = table /\ kv' = kv /\ rec' = rec
        /\ captured' = captured /\ bufs' = bufs /\ pages' = pages
      BY <1>1 DEF vars
  <2> DEFINE m == Mem
  <2>3. BufsInv' /\ MemoryOf(conf, m) /\ kv' = m.kv /\ rec' = m.rec
      BY <2>2, ContextHere DEF BufsInv, Mem
  <2>4. \A q \in Range(running) : Holds(m, table', seq'[q].slot, q, Committed(q)')
      BY <2>2, ContextHere DEF Committed
  <2>5. ~ conf.spec => \A q \in Range(running) : ~ seq'[q].carry
      BY <2>2, ContextHere
  <2> HIDE DEF m
  <2> QED
      BY <2>1, <2>2, <2>3, <2>4, <2>5, ContextGoesOn
<1>2. CASE \E q \in Waiting, n \in Prompts : PrefillEager(q, n)
    BY <1>2, PrefillEagerHolds DEF Prompts
<1>3. CASE \E q \in Waiting, n \in Prompts : PrefillGraphed(q, n)
    BY <1>0, <1>3, PrefillGraphedHolds DEF Prompts
<1>4. CASE \E q \in Waiting, n \in Prompts : Encode(q, n)
    BY <1>4, EncodeHolds DEF Prompts
<1>5. CASE \E q1, q2 \in Waiting, n1, n2 \in Prompts : q1 # q2 /\ PrefillVarlen(<<q1, q2>>, <<n1, n2>>)
    BY <1>5, PrefillVarlenHolds DEF Prompts
<1>6. CASE DecodeGraphed
    BY <1>6, DecodeGraphedHolds
<1>7. CASE DecodeStepGraph
    BY <1>7, DecodeStepGraphHolds
<1>8. CASE DecodeEager
    BY <1>8, DecodeEagerHolds
<1>9. CASE SpecNoProposal
    BY <1>9, SpecNoProposalHolds
<1>10. CASE running # <<>> /\ SpecNext
    BY <1>10, SpecVerifyHolds DEF SpecNext
<1>11. CASE \E q \in Seqs : Finish(q)
    BY <1>11, FinishHolds
<1> QED
    BY <1>1, <1>2, <1>3, <1>4, <1>5, <1>6, <1>7, <1>8, <1>9, <1>10, <1>11 DEF GraphNext

LEMMA ContextShows ==
  ASSUME ContextInv
  PROVE  ContextsIntact
<1>1. Mem.kv = kv /\ Mem.rec = rec
    BY DEF Mem
<1>2. \A q \in Range(running) : Holds(Mem, table, seq[q].slot, q, Committed(q))
    BY ContextHere
<1> QED
    BY <1>1, <1>2 DEF ContextsIntact, KVIntact, StateIntact, Holds

\* Where prompts are prefilled one way, no mixture of eager, packed, chunked and
\* graphed steps, and no request that comes or goes, lets a running sequence find
\* other K/V than its own, or a recurrent row that is not after its last committed
\* token (EngineRunner.prefill and decode, GraphedDecodeLayers, GraphedVerify).
THEOREM ContextsKept == AllFit /\ AllOneWay => (GraphSpec => []ContextsIntact)
<1> SUFFICES ASSUME AllFit, AllOneWay PROVE GraphSpec => []ContextsIntact
    OBVIOUS
<1>1. GraphInit => ContextInv
    BY ContextInit
<1>2. ContextInv /\ [GraphNext]_vars => ContextInv'
    BY ContextNext
<1>3. ContextInv => ContextsIntact
    BY ContextShows
<1> QED
    BY <1>1, <1>2, <1>3, PTL DEF GraphSpec

-----------------------------------------------------------------------------
(* The streams of the per-layer graphs (LayerStreams), for any number of    *)
(* layers and steps.  Layer 1, 3, ... of a step are on one side stream, 2,   *)
(* 4, ... on the other, so the one that is ahead is at most one layer ahead: *)
(* whichever has ended as many layers as its next one has before it in the   *)
(* other is the only one that may run.                                       *)

Sides == {"side0", "side1"}

\* Side stream s has layers 2k - Lag(s), k = 1, 2, ...
Lag(s) == IF s = "side0" THEN 1 ELSE 0
LayerAt(s, k) == 2 * k - Lag(s)
Share(s) == (layers + Lag(s)) \div 2

\* How many layers of the step side stream s has ended.
Past(s) == Share(s) - Len(queue[s])

\* The k-th of the layers it still has: it waits for all the layers before it
\* that the other stream has.
LayerOp(s, k) ==
  [kind  |-> "layer", layer |-> LayerAt(s, Past(s) + k), step |-> step,
   after |-> {[stream |-> Other(s),
               count |-> ended[Other(s)] - Past(Other(s)) + Past(s) + k - Lag(s)]}]

\* A step's operations are not all done.
InFlight == queue["current"] # <<>>
FillOp == [kind |-> "fill", layer |-> 0, step |-> step, after |-> {}]
NormIs(op) == op.kind = "norm" /\ op.layer = layers /\ op.step = step

\* The stream of the last layer; the norm is the next to end or to start.
LastSide == StreamOf(layers)
AtNorm == InFlight /\ Head(queue["current"]).kind = "norm"

\* A side stream has the rest of its layers in order; it runs one only when the
\* other stream is done with the layer before, on what that layer made.
SideInv(s) ==
  /\ Len(queue[s]) <= Share(s)
  /\ \A k \in 1..Len(queue[s]) : queue[s][k] = LayerOp(s, k)
  /\ started[s] => queue[s] # <<>> /\ Past("side0") = Past("side1") + 1 - Lag(s)
  /\ started[s] /\ Head(queue[s]).layer > 1 => saw[s] = step
  /\ ~ InFlight => queue[s] = <<>>

\* The current stream has the norm, behind the last layer, and maybe the fill.
MainInv ==
  LET c == queue["current"] IN
  /\ NormIs(c[Len(c)])
  /\ c[Len(c)].after = {[stream |-> LastSide, count |-> ended[LastSide] + Len(queue[LastSide])]}
  /\ Len(c) \in 1..2
  /\ Len(c) = 2 => c[1] = FillOp

\* The layers done have written the step's activations.
MadeSoFar == \A i \in 1..(Past("side0") + Past("side1")) : buffers[i] = step

\* From two layers on.
TwoStreams ==
  /\ \A s \in Sides : SideInv(s)
  /\ Past("side0") \in {Past("side1"), Past("side1") + 1}
  /\ InFlight => MainInv /\ MadeSoFar
  /\ started["current"] /\ AtNorm => queue[LastSide] = <<>>

\* With one layer, everything is in the current stream.
OneStream ==
  /\ \A s \in Sides : queue[s] = <<>> /\ ~ started[s]
  /\ Len(queue["current"]) <= 3
  /\ InFlight => NormIs(queue["current"][Len(queue["current"])])
  /\ Len(queue["current"]) >= 2 =>
       LET op == queue["current"][Len(queue["current"]) - 1]
       IN  op.kind = "layer" /\ op.layer = 1 /\ op.step = step
  /\ Len(queue["current"]) = 3 => queue["current"][1] = FillOp
  /\ Len(queue["current"]) = 1 => buffers[1] = step

\* The inductive invariant of the streams, types apart.
StreamsInv ==
  /\ layers = 0 => /\ step = 0 /\ result = <<>>
                   /\ \A s \in Streams : queue[s] = <<>> /\ ~ started[s]
  /\ layers = 1 => OneStream
  /\ layers > 1 => TwoStreams
  /\ started["current"] => InFlight
  /\ started["current"] /\ AtNorm => saw["current"] = step
  /\ Len(result) = (IF InFlight THEN step - 1 ELSE step)
  /\ \A n \in DOMAIN result : result[n] \in {n, NoLogits}

Ops == [kind : {"fill", "layer", "norm"}, layer : Nat, step : Nat,
        after : SUBSET [stream : Streams, count : Int]]
Queues == [Streams -> Seq(Ops)]

StreamsTypeOK ==
  /\ layers \in Nat /\ step \in Nat
  /\ queue \in Queues
  /\ started \in [Streams -> BOOLEAN]
  /\ saw \in [Streams -> Int]
  /\ ended \in [Streams -> Nat]
  /\ layers > 0 => buffers \in [0..layers -> Int]
  /\ result \in Seq(Int)

LayerEnqueued(q, i) == Enqueued(q, StreamOf(i), Op("layer", i, WaitsOf(q, i)))

\* An operation enqueued on one stream stands at its end and leaves the other
\* streams alone.
LEMMA EnqueuedFacts ==
  ASSUME NEW q \in Queues, NEW s \in Streams, NEW op \in Ops
  PROVE  /\ Enqueued(q, s, op) \in Queues
         /\ Enqueued(q, s, op)[s] = Append(q[s], op)
         /\ \A t \in Streams : t # s => Enqueued(q, s, op)[t] = q[t]
<1>1. Append(q[s], op) \in Seq(Ops)
    BY AppendFacts DEF Queues
<1> QED
    BY <1>1 DEF Enqueued, Queues

\* What the host enqueues for a layer is an operation of one of the streams.
LEMMA LayerEnqueuedIn ==
  ASSUME StreamsTypeOK, NEW q \in Queues, NEW i \in 1..layers
  PROVE  /\ StreamOf(i) \in Streams
         /\ Op("layer", i, WaitsOf(q, i)) \in Ops
         /\ LayerEnqueued(q, i) \in Queues
<1>1. StreamOf(i) \in Streams /\ (Overlapped => Other(StreamOf(i)) \in Streams)
    BY DEF StreamOf, Streams, Other
<1>2. \A s \in Streams : Len(q[s]) \in Nat /\ ended[s] \in Nat
    BY LenProperties DEF Queues, StreamsTypeOK
<1>3. WaitsOf(q, i) \in SUBSET [stream : Streams, count : Int]
    BY <1>1, <1>2 DEF WaitsOf, AllOf
<1>4. Op("layer", i, WaitsOf(q, i)) \in Ops
    BY <1>3 DEF Op, Ops, StreamsTypeOK
<1> QED
    BY <1>1, <1>4, EnqueuedFacts DEF LayerEnqueued

\* The queues the host leaves come about layer by layer.
LEMMA LayersOnTop ==
  ASSUME StreamsTypeOK, layers > 0, NEW q0 \in Queues
  PROVE  \E w \in [0..layers -> Queues] :
           /\ w[0] = q0
           /\ \A i \in 1..layers : w[i] = LayerEnqueued(w[i - 1], i)
           /\ WithLayers(q0) = w[layers]
<1> DEFINE Eqn(w) == w = [i \in 0..layers |-> IF i = 0 THEN q0
                            ELSE Enqueued(w[i - 1], StreamOf(i), Op("layer", i, WaitsOf(w[i - 1], i)))]
           f == [i \in 1..layers |-> [q \in Queues |-> LayerEnqueued(q, i)]]
           c == CHOOSE w : Eqn(w)
<1>0. layers \in Nat
    BY DEF StreamsTypeOK
<1>1. f \in [1..layers -> [Queues -> Queues]]
    BY LayerEnqueuedIn
<1>2. PICK v : Iterated(v, layers, Queues, q0, f)
  <2> HIDE DEF f
  <2> QED
      BY <1>0, <1>1, Iterates
<1>3. Eqn(v)
  <2>1. v \in [0..layers -> Queues] /\ v[0] = q0 /\ \A i \in 1..layers : v[i] = f[i][v[i - 1]]
      BY <1>2 DEF Iterated
  <2>2. ASSUME NEW i \in 1..layers PROVE v[i] = LayerEnqueued(v[i - 1], i)
    <3>1. v[i - 1] \in Queues
        BY <1>0, <2>1
    <3> QED
        BY <2>1, <3>1
  <2> HIDE DEF f
  <2> QED
      BY <1>0, <2>1, <2>2 DEF LayerEnqueued
<1>4. Eqn(c)
  <2> HIDE DEF Eqn
  <2> QED
      BY <1>3
<1>5. WithLayers(q0) = c[layers]
    BY DEF WithLayers
<1> HIDE DEF c
<1>6. c[0] = q0 /\ \A i \in 1..layers : c[i] = LayerEnqueued(c[i - 1], i)
    BY <1>0, <1>4 DEF LayerEnqueued
<1>7. DOMAIN c = 0..layers /\ c = [i \in 0..layers |-> c[i]]
    BY <1>4
<1> HIDE DEF Eqn, f
<1> DEFINE good == {i \in 0..layers : c[i] \in Queues}
<1>8. good = 0..layers
  <2>1. good \in SUBSET (0..layers) /\ 0 \in good
      BY <1>0, <1>6
  <2>2. ASSUME NEW i \in 1..layers, i - 1 \in good PROVE i \in good
      BY <1>0, <1>6, <2>2, LayerEnqueuedIn
  <2> HIDE DEF good
  <2> QED
      BY <1>0, <2>1, <2>2, StepwiseAll
<1>9. \A i \in 0..layers : c[i] \in Queues
    BY <1>8
<1>10. c \in [0..layers -> Queues]
    BY <1>7, <1>9
<1> QED
    BY <1>5, <1>6, <1>10

\* Half of the layers, rounded either way.
LEMMA HalfFacts ==
  ASSUME NEW n \in Nat
  PROVE  /\ n \div 2 \in Nat /\ (n + 1) \div 2 \in Nat
         /\ (n + 1) \div 2 + n \div 2 = n
         /\ n % 2 = 1 => (n + 1) \div 2 = n \div 2 + 1
         /\ n % 2 # 1 => (n + 1) \div 2 = n \div 2
         /\ n > 1 => n \div 2 > 0 /\ (n + 1) \div 2 > 0
    OBVIOUS

\* The two side streams.
LEMMA SideFacts ==
  /\ Sides = {"side0", "side1"} /\ Sides \subseteq Streams
  /\ "current" \in Streams /\ "current" \notin Sides
  /\ Other("side0") = "side1" /\ Other("side1") = "side0" /\ "side0" # "side1"
  /\ Lag("side0") = 1 /\ Lag("side1") = 0
    BY DEF Sides, Streams, Other, Lag

\* The layers are dealt out evenly, and the last one goes to the stream that has
\* had as many as the other, or one more.
LEMMA ShareFacts ==
  ASSUME layers \in Nat
  PROVE  /\ Share("side0") \in Nat /\ Share("side1") \in Nat
         /\ Share("side0") + Share("side1") = layers
         /\ layers > 1 => \/ LastSide = "side0" /\ Share("side0") = Share("side1") + 1
                          \/ LastSide = "side1" /\ Share("side0") = Share("side1")
         /\ layers > 1 => Share("side0") > 0 /\ Share("side1") > 0
<1>1. Share("side0") = (layers + 1) \div 2 /\ Share("side1") = (layers + 0) \div 2
    BY SideFacts DEF Share
<1>2. layers > 1 => LastSide = IF layers % 2 = 1 THEN "side0" ELSE "side1"
    BY DEF LastSide, StreamOf, Overlapped
<1> QED
    BY <1>1, <1>2, HalfFacts

\* What the first i layers leave in the queues.
Stacked(q0, q, i) ==
  /\ q["current"] = q0["current"]
  /\ \A s \in Sides :
       /\ Len(q[s]) = (i + Lag(s)) \div 2
       /\ \A k \in 1..Len(q[s]) :
            q[s][k] = Op("layer", LayerAt(s, k),
                         {[stream |-> Other(s), count |-> ended[Other(s)] + k - Lag(s)]})

\* Layer i goes behind the layers of its stream and waits for all the other one
\* has by then.
LEMMA NextStacked ==
  ASSUME StreamsTypeOK, layers > 1, NEW q0 \in Queues, NEW q \in Queues, NEW i \in 1..layers,
         Stacked(q0, q, i - 1)
  PROVE  Stacked(q0, LayerEnqueued(q, i), i)
<1> DEFINE a == StreamOf(i)
           b == Other(a)
           op == Op("layer", i, WaitsOf(q, i))
           r == LayerEnqueued(q, i)
<1>0. layers \in Nat /\ i \in Nat /\ i > 0
    BY DEF StreamsTypeOK
<1>1. /\ a \in Sides /\ b \in Sides /\ a # b /\ Sides = {a, b} /\ Sides \subseteq Streams
      /\ b # "current" /\ a # "current"
      /\ (i % 2 = 1 /\ Lag(a) = 1 /\ Lag(b) = 0) \/ (i % 2 = 0 /\ Lag(a) = 0 /\ Lag(b) = 1)
    BY <1>0 DEF StreamOf, Overlapped, Other, Sides, Streams, Lag
<1>2. /\ (i + Lag(a)) \div 2 = ((i - 1) + Lag(a)) \div 2 + 1
      /\ (i + Lag(b)) \div 2 = ((i - 1) + Lag(b)) \div 2
      /\ i = 2 * ((i + Lag(a)) \div 2) - Lag(a)
      /\ ((i - 1) + Lag(b)) \div 2 = (i + Lag(a)) \div 2 - Lag(a)
  <2>1. CASE i % 2 = 1
    <3>1. Lag(a) = 1 /\ Lag(b) = 0
        BY <1>1, <2>1
    <3>2. PICK m \in Nat : i = 2 * m + 1
        BY <1>0, <2>1
    <3> HIDE DEF a, b
    <3> QED
        BY <3>1, <3>2
  <2>2. CASE i % 2 = 0
    <3>1. Lag(a) = 0 /\ Lag(b) = 1
        BY <1>1, <2>2
    <3>2. PICK m \in Nat : i = 2 * m
        BY <1>0, <2>2
    <3> HIDE DEF a, b
    <3> QED
        BY <3>1, <3>2
  <2> QED
      BY <1>1, <2>1, <2>2
<1>3. /\ op \in Ops /\ a \in Streams
      /\ r["current"] = q["current"] /\ r[b] = q[b] /\ r[a] = Append(q[a], op)
  <2>1. op \in Ops /\ a \in Streams
      BY LayerEnqueuedIn
  <2>2. r = Enqueued(q, a, op)
      BY DEF LayerEnqueued
  <2>3. b \in Streams /\ b # a /\ "current" \in Streams /\ "current" # a
      BY <1>1 DEF Streams
  <2> HIDE DEF op, r, a, b
  <2> QED
      BY <2>1, <2>2, <2>3, EnqueuedFacts
<1>4. q[a] \in Seq(Ops) /\ Len(q[a]) \in Nat
    BY <1>1, LenProperties DEF Queues
<1>5. op = Op("layer", i, {[stream |-> b, count |-> ended[b] + Len(q[b])]})
    BY DEF WaitsOf, AllOf, Overlapped
<1> HIDE DEF op, r, a, b
<1>6. /\ Len(r[a]) = Len(q[a]) + 1 /\ r[a][Len(q[a]) + 1] = op
      /\ \A k \in 1..Len(q[a]) : r[a][k] = q[a][k]
    BY <1>3, <1>4, AppendFacts
<1>7. /\ Len(q[a]) = ((i - 1) + Lag(a)) \div 2 /\ Len(q[b]) = ((i - 1) + Lag(b)) \div 2
      /\ q["current"] = q0["current"]
    BY <1>1 DEF Stacked
<1>8. op = Op("layer", LayerAt(a, Len(q[a]) + 1),
              {[stream |-> b, count |-> ended[b] + (Len(q[a]) + 1) - Lag(a)]})
  <2>1. LayerAt(a, Len(q[a]) + 1) = i
      BY <1>2, <1>7 DEF LayerAt
  <2>2. Len(q[b]) = (Len(q[a]) + 1) - Lag(a)
      BY <1>2, <1>7
  <2>3. ended[b] + Len(q[b]) = ended[b] + (Len(q[a]) + 1) - Lag(a)
      BY <1>1, <1>4, <2>2 DEF StreamsTypeOK
  <2> QED
      BY <1>5, <2>1, <2>3
<1>9. b = Other(a) /\ a = Other(b)
  <2>1. b = Other(a)
      BY DEF b
  <2>2. a \in {"side0", "side1"}
      BY <1>1 DEF Sides
  <2>3. Other("side0") = "side1" /\ Other("side1") = "side0"
      BY DEF Other
  <2> QED
      BY <2>1, <2>2, <2>3
<1>10. ASSUME NEW k \in 1..Len(r[a])
       PROVE  r[a][k] = Op("layer", LayerAt(a, k), {[stream |-> b, count |-> ended[b] + k - Lag(a)]})
  <2>1. CASE k = Len(q[a]) + 1
      BY <1>6, <1>8, <2>1
  <2>2. CASE k \in 1..Len(q[a])
      BY <1>1, <1>6, <1>9, <2>2 DEF Stacked
  <2> QED
      BY <1>4, <1>6, <2>1, <2>2
<1>11. \A k \in 1..Len(r[b]) :
         r[b][k] = Op("layer", LayerAt(b, k), {[stream |-> a, count |-> ended[a] + k - Lag(b)]})
    BY <1>1, <1>3, <1>9 DEF Stacked
<1>12. /\ Len(r[a]) = (i + Lag(a)) \div 2 /\ Len(r[b]) = (i + Lag(b)) \div 2
    BY <1>2, <1>3, <1>6, <1>7
<1>13. r["current"] = q0["current"]
    BY <1>3, <1>7
<1>14. ASSUME NEW t \in Sides
       PROVE  /\ Len(r[t]) = (i + Lag(t)) \div 2
              /\ \A k \in 1..Len(r[t]) :
                   r[t][k] = Op("layer", LayerAt(t, k),
                                {[stream |-> Other(t), count |-> ended[Other(t)] + k - Lag(t)]})
  <2>1. CASE t = a
      BY <1>9, <1>10, <1>12, <2>1
  <2>2. CASE t = b
      BY <1>9, <1>11, <1>12, <2>2
  <2> QED
      BY <1>1, <2>1, <2>2
<1> QED
    BY <1>13, <1>14 DEF Stacked, r

\* What a whole step leaves in the queues of the side streams.
LEMMA LayersStacked ==
  ASSUME StreamsTypeOK, layers > 1, NEW q0 \in Queues, \A s \in Sides : q0[s] = <<>>
  PROVE  WithLayers(q0) \in Queues /\ Stacked(q0, WithLayers(q0), layers)
<1>0. layers \in Nat /\ layers > 0
    BY DEF StreamsTypeOK
<1>1. PICK w \in [0..layers -> Queues] :
        /\ w[0] = q0
        /\ \A i \in 1..layers : w[i] = LayerEnqueued(w[i - 1], i)
        /\ WithLayers(q0) = w[layers]
    BY <1>0, LayersOnTop
<1> DEFINE good == {i \in 0..layers : Stacked(q0, w[i], i)}
<1>2. 0 \in good
  <2>1. 0 \div 2 = 0 /\ 1 \div 2 = 0
      OBVIOUS
  <2>2. \A s \in Sides : (0 + Lag(s)) \div 2 = 0
      BY <2>1 DEF Lag
  <2>3. \A s \in Sides : Len(q0[s]) = 0
      OBVIOUS
  <2>4. \A s \in Sides : 1..Len(q0[s]) = {}
      BY <2>3
  <2>5. Stacked(q0, q0, 0)
      BY <2>2, <2>3, <2>4 DEF Stacked
  <2> QED
      BY <1>0, <1>1, <2>5
<1>3. ASSUME NEW i \in 1..layers, i - 1 \in good PROVE i \in good
  <2>1. w[i - 1] \in Queues /\ i \in 0..layers
      BY <1>0, <1>1
  <2>2. w[i] = LayerEnqueued(w[i - 1], i) /\ Stacked(q0, w[i - 1], i - 1)
      BY <1>1, <1>3
  <2> QED
      BY <2>1, <2>2, NextStacked
<1>4. good = 0..layers
  <2>1. good \in SUBSET (0..layers)
      OBVIOUS
  <2> HIDE DEF good
  <2> QED
      BY <1>0, <1>2, <1>3, <2>1, StepwiseAll
<1>5. Stacked(q0, w[layers], layers)
    BY <1>0, <1>4
<1>6. w[layers] \in Queues
    BY <1>0, <1>1
<1> QED
    BY <1>1, <1>5, <1>6

StreamsSafe == StreamsTypeOK /\ StreamsInv

\* Nothing is captured and nothing enqueued at first.
LEMMA StreamsStart == StreamsInit => StreamsSafe
<1> SUFFICES ASSUME StreamsInit PROVE StreamsSafe
    OBVIOUS
<1>1. <<>> \in Seq(Ops) /\ <<>> \in Seq(Int) /\ Len(<<>>) = 0 /\ DOMAIN <<>> = {}
    OBVIOUS
<1>2. StreamsTypeOK
    BY <1>1 DEF StreamsInit, StreamsTypeOK, Queues, Mixed
<1>3. \A s \in Streams : queue[s] = <<>> /\ ~ started[s]
    BY DEF StreamsInit
<1>4. "current" \in Streams
    BY DEF Streams
<1>5. StreamsInv
    BY <1>1, <1>3, <1>4 DEF StreamsInit, StreamsInv, InFlight
<1> QED
    BY <1>2, <1>5 DEF StreamsSafe

\* The capture enqueues nothing.
LEMMA CaptureLayersKeeps ==
  ASSUME StreamsSafe, NEW n \in LayerCounts, CaptureLayers(n)
  PROVE  StreamsSafe'
<1>1. n \in Nat /\ n > 0 /\ layers' = n /\ layers = 0
    BY StreamsAssumption DEF CaptureLayers
<1>2. StreamsTypeOK'
    BY <1>1 DEF StreamsSafe, StreamsTypeOK, CaptureLayers, Queues, Mixed
<1>3. /\ \A s \in Streams : queue'[s] = <<>> /\ ~ started'[s]
      /\ Sides \subseteq Streams /\ "current" \in Streams
    BY <1>1 DEF StreamsSafe, StreamsInv, CaptureLayers, Streams, Sides
<1>4. ~ InFlight' /\ \A s \in Sides : Len(queue'[s]) = 0
    BY <1>3 DEF InFlight
<1>5. n = 1 => OneStream'
    BY <1>3, <1>4 DEF OneStream, InFlight
<1>6. ASSUME n > 1 PROVE TwoStreams'
  <2>1. Past("side0")' = (n + 1) \div 2 /\ Past("side1")' = (n + 0) \div 2
    <3>1. \A s \in Sides : Past(s)' = (n + Lag(s)) \div 2 - Len(queue'[s])
        BY <1>1 DEF Past, Share, Lag
    <3> QED
        BY <1>1, <1>4, <3>1, SideFacts, HalfFacts
  <2>2. \A s \in Sides : Share(s)' \in Nat /\ Len(queue'[s]) <= Share(s)'
    <3>1. \A s \in Sides : Share(s)' = (n + Lag(s)) \div 2
        BY <1>1 DEF Share, Lag
    <3> QED
        BY <1>1, <1>4, <3>1, SideFacts, HalfFacts
  <2>3. Past("side0")' \in {Past("side1")', Past("side1")' + 1}
      BY <1>1, <2>1, HalfFacts
  <2>4. \A s \in Sides : 1..Len(queue'[s]) = {}
      BY <1>4
  <2> QED
      BY <1>3, <1>4, <2>2, <2>3, <2>4, SideFacts DEF TwoStreams, SideInv, AtNorm, InFlight
<1>7. ~ started'["current"] /\ step' = step /\ result' = result /\ step = 0 /\ result = <<>>
    BY <1>1, <1>3 DEF StreamsSafe, StreamsInv, CaptureLayers
<1>8. Len(<<>>) = 0 /\ DOMAIN <<>> = {}
    OBVIOUS
<1>9. StreamsInv'
    BY <1>1, <1>4, <1>5, <1>6, <1>7, <1>8 DEF StreamsInv
<1> QED
    BY <1>2, <1>9 DEF StreamsSafe

\* The layers a side stream still has, and where its next one stands when it
\* may run.
LEMMA SideHead ==
  ASSUME StreamsTypeOK, TwoStreams, layers > 1, NEW s \in Sides
  PROVE  /\ queue[s] \in Seq(Ops) /\ Len(queue[s]) \in Nat
         /\ Past("side0") \in 0..Share("side0") /\ Past("side1") \in 0..Share("side1")
         /\ Past(s) + Len(queue[s]) = Share(s)
         /\ queue[s] # <<>> => /\ InFlight /\ Past(s) < Share(s)
                               /\ Head(queue[s]) = LayerOp(s, 1)
                               /\ Head(queue[s]) \in Ops
<1>0. layers \in Nat
    BY DEF StreamsTypeOK
<1>1. \A t \in Sides : queue[t] \in Seq(Ops) /\ Len(queue[t]) \in Nat /\ Len(queue[t]) <= Share(t)
    BY SideFacts, LenProperties DEF StreamsTypeOK, Queues, TwoStreams, SideInv
<1>2. \A t \in Sides : Past(t) \in 0..Share(t) /\ Past(t) + Len(queue[t]) = Share(t)
  <2> SUFFICES ASSUME NEW t \in Sides PROVE Past(t) \in 0..Share(t) /\ Past(t) + Len(queue[t]) = Share(t)
      OBVIOUS
  <2>1. Share(t) \in Nat
      BY <1>0, SideFacts, ShareFacts
  <2>2. Len(queue[t]) \in Nat /\ Len(queue[t]) <= Share(t)
      BY <1>1
  <2> QED
      BY <2>1, <2>2 DEF Past
<1>3. ASSUME queue[s] # <<>>
      PROVE  InFlight /\ Past(s) < Share(s) /\ Head(queue[s]) = LayerOp(s, 1) /\ Head(queue[s]) \in Ops
  <2>1. Len(queue[s]) > 0 /\ Head(queue[s]) = queue[s][1] /\ 1 \in 1..Len(queue[s])
      BY <1>1, <1>3
  <2>2. queue[s][1] = LayerOp(s, 1) /\ InFlight
      BY <1>3, <2>1 DEF TwoStreams, SideInv
  <2>3. queue[s][1] \in Ops
      BY <1>1, <2>1
  <2>4. Past(s) < Share(s)
    <3>1. Share(s) \in Nat /\ Past(s) \in 0..Share(s) /\ Past(s) + Len(queue[s]) = Share(s)
        BY <1>0, <1>2, SideFacts, ShareFacts
    <3> QED
        BY <1>1, <2>1, <3>1
  <2> QED
      BY <2>1, <2>2, <2>3, <2>4
<1> QED
    BY <1>1, <1>2, <1>3, SideFacts

\* When the stream of the last layer is done, so is the other one.
LEMMA AllPast ==
  ASSUME StreamsTypeOK, TwoStreams, layers > 1, queue[LastSide] = <<>>
  PROVE  /\ Past("side0") + Past("side1") = layers
         /\ \A s \in Sides : queue[s] = <<>>
<1>0. layers \in Nat
    BY DEF StreamsTypeOK
<1>1. \A s \in Sides : /\ Len(queue[s]) \in Nat /\ Past(s) + Len(queue[s]) = Share(s)
                       /\ Past(s) \in 0..Share(s)
                       /\ (Len(queue[s]) = 0 => queue[s] = <<>>)
  <2> SUFFICES ASSUME NEW s \in Sides PROVE
        /\ Len(queue[s]) \in Nat /\ Past(s) + Len(queue[s]) = Share(s)
        /\ Past(s) \in 0..Share(s) /\ (Len(queue[s]) = 0 => queue[s] = <<>>)
      OBVIOUS
  <2>1. queue[s] \in Seq(Ops) /\ Len(queue[s]) \in Nat /\ Past(s) + Len(queue[s]) = Share(s)
        /\ Past("side0") \in 0..Share("side0") /\ Past("side1") \in 0..Share("side1")
      BY SideHead
  <2>2. Past(s) \in 0..Share(s)
      BY <2>1, SideFacts
  <2>3. Len(queue[s]) = 0 => queue[s] = <<>>
      BY <2>1
  <2> QED
      BY <2>1, <2>2, <2>3
<1>2. Len(queue[LastSide]) = 0
    OBVIOUS
<1>3. Past("side0") \in {Past("side1"), Past("side1") + 1}
    BY DEF TwoStreams
<1>4. Past("side0") = Share("side0") /\ Past("side1") = Share("side1")
  <2>1. /\ Past("side0") \in 0..Share("side0") /\ Past("side1") \in 0..Share("side1")
        /\ Share("side0") \in Nat /\ Share("side1") \in Nat
      BY <1>0, <1>1, SideFacts, ShareFacts
  <2>2. CASE LastSide = "side0" /\ Share("side0") = Share("side1") + 1
    <3>1. Past("side0") = Share("side0")
        BY <1>1, <1>2, <2>1, <2>2, SideFacts
    <3> QED
        BY <1>3, <2>1, <2>2, <3>1
  <2>3. CASE LastSide = "side1" /\ Share("side0") = Share("side1")
    <3>1. Past("side1") = Share("side1")
        BY <1>1, <1>2, <2>1, <2>3, SideFacts
    <3> QED
        BY <1>3, <2>1, <2>3, <3>1
  <2> QED
      BY <1>0, <2>2, <2>3, ShareFacts
<1>5. ASSUME NEW s \in Sides PROVE Len(queue[s]) = 0
  <2>1. Past(s) = Share(s) /\ Share(s) \in Nat
      BY <1>0, <1>4, ShareFacts, SideFacts
  <2>2. Len(queue[s]) \in Nat /\ Past(s) + Len(queue[s]) = Share(s)
      BY <1>1
  <2> QED
      BY <2>1, <2>2
<1> QED
    BY <1>0, <1>1, <1>4, <1>5, ShareFacts

\* A step's result is the last one.
LEMMA ResultGrows ==
  ASSUME StreamsTypeOK, NEW v \in Int,
         \A n \in DOMAIN result : result[n] \in {n, NoLogits},
         v \in {Len(result) + 1, NoLogits}
  PROVE  /\ Append(result, v) \in Seq(Int) /\ Len(Append(result, v)) = Len(result) + 1
         /\ \A n \in DOMAIN Append(result, v) : Append(result, v)[n] \in {n, NoLogits}
<1>1. result \in Seq(Int) /\ Len(result) \in Nat /\ DOMAIN result = 1..Len(result)
    BY LenProperties DEF StreamsTypeOK
<1>2. /\ Append(result, v) \in Seq(Int) /\ Len(Append(result, v)) = Len(result) + 1
      /\ DOMAIN Append(result, v) = 1..(Len(result) + 1)
      /\ \A i \in 1..Len(result) : Append(result, v)[i] = result[i]
      /\ Append(result, v)[Len(result) + 1] = v
    BY <1>1, AppendFacts
<1> QED
    BY <1>1, <1>2

\* Between two steps nothing is enqueued and nothing runs.
LEMMA Quiet ==
  ASSUME StreamsSafe, Synchronized
  PROVE  /\ \A s \in Streams : queue[s] = <<>> /\ ~ started[s]
         /\ Len(result) = step
<1>1. ~ InFlight /\ ~ started["current"]
    BY DEF Synchronized, InFlight, StreamsSafe, StreamsInv
<1>2. \A s \in Sides : queue[s] = <<>> /\ ~ started[s]
  <2>1. CASE layers = 0
      BY <2>1, SideFacts DEF StreamsSafe, StreamsInv
  <2>2. CASE layers = 1
      BY <2>2 DEF StreamsSafe, StreamsInv, OneStream
  <2>3. CASE layers > 1
      BY <1>1, <2>3 DEF StreamsSafe, StreamsInv, TwoStreams, SideInv
  <2> QED
      BY <2>1, <2>2, <2>3 DEF StreamsSafe, StreamsTypeOK
<1>3. \A s \in Streams : s = "current" \/ s \in Sides
    BY DEF Streams, Sides
<1> QED
    BY <1>1, <1>2, <1>3 DEF StreamsSafe, StreamsInv, Synchronized, InFlight

\* A step at an empty boundary has a result and enqueues nothing.
LEMMA SkipKeeps ==
  ASSUME StreamsSafe, SkipEmptyStep
  PROVE  StreamsSafe'
<1>0. /\ layers \in Nat /\ step \in Nat /\ StreamsTypeOK /\ layers > 0
      /\ layers' = layers /\ queue' = queue /\ started' = started /\ saw' = saw
      /\ ended' = ended /\ buffers' = buffers /\ step' = step + 1
      /\ result' = Append(result, NoLogits)
    BY DEF StreamsSafe, StreamsTypeOK, SkipEmptyStep
<1>1. /\ \A s \in Streams : queue[s] = <<>> /\ ~ started[s]
      /\ Len(result) = step
    BY Quiet DEF SkipEmptyStep
<1>2. ~ InFlight /\ ~ InFlight'
    BY <1>0, <1>1, SideFacts DEF InFlight
<1>3. /\ result' \in Seq(Int) /\ Len(result') = step + 1
      /\ \A n \in DOMAIN result' : result'[n] \in {n, NoLogits}
    BY <1>0, <1>1, ResultGrows DEF StreamsSafe, StreamsInv, NoLogits
<1>4. StreamsTypeOK'
    BY <1>0, <1>3 DEF StreamsTypeOK
<1>5. layers = 1 => OneStream'
    BY <1>0, <1>1, <1>2, SideFacts DEF StreamsSafe, StreamsInv, OneStream, InFlight
<1>6. ASSUME layers > 1 PROVE TwoStreams'
  <2>1. \A s \in Sides : Share(s)' = Share(s) /\ Past(s)' = Past(s)
      BY <1>0 DEF Share, Past
  <2>2. /\ \A s \in Sides : Len(queue[s]) <= Share(s) /\ 1..Len(queue[s]) = {}
        /\ Past("side0") \in {Past("side1"), Past("side1") + 1}
      BY <1>1, <1>6, SideFacts DEF StreamsSafe, StreamsInv, TwoStreams, SideInv
  <2> QED
      BY <1>0, <1>1, <1>2, <2>1, <2>2, SideFacts DEF TwoStreams, SideInv, AtNorm
<1> QED
    BY <1>0, <1>1, <1>2, <1>3, <1>4, <1>5, <1>6, SideFacts DEF StreamsSafe, StreamsInv

\* The head of the only stream that is used.
LEMMA OneHead ==
  ASSUME StreamsTypeOK, OneStream, layers = 1, queue["current"] # <<>>
  PROVE  /\ queue["current"] \in Seq(Ops) /\ Len(queue["current"]) \in 1..3
         /\ Head(queue["current"]) = queue["current"][1] /\ Head(queue["current"]) \in Ops
         /\ Len(queue["current"]) = 3 => Head(queue["current"]) = FillOp
         /\ Len(queue["current"]) = 2 => /\ Head(queue["current"]).kind = "layer"
                                         /\ Head(queue["current"]).layer = 1
                                         /\ Head(queue["current"]).step = step
         /\ Len(queue["current"]) = 1 => NormIs(Head(queue["current"]))
<1> DEFINE c == queue["current"]
<1>1. c \in Seq(Ops) /\ c # <<>>
    BY SideFacts DEF StreamsTypeOK, Queues
<1>2. Len(c) <= 3 /\ NormIs(c[Len(c)])
    BY <1>1 DEF OneStream, InFlight
<1>3. Len(c) = 3 => c[1] = FillOp
    BY DEF OneStream
<1>4. Len(c) >= 2 => LET op == c[Len(c) - 1] IN op.kind = "layer" /\ op.layer = 1 /\ op.step = step
    BY DEF OneStream
<1> HIDE DEF c
<1>5. Len(c) \in Nat /\ Len(c) > 0 /\ Head(c) = c[1] /\ c[1] \in Ops
    BY <1>1
<1>6. Len(c) = 2 => c[1].kind = "layer" /\ c[1].layer = 1 /\ c[1].step = step
    BY <1>4
<1>7. Len(c) = 1 => NormIs(c[1])
    BY <1>2
<1>8. Len(c) \in 1..3
  <2>1. Len(c) \in Nat /\ Len(c) > 0 /\ Len(c) <= 3
      BY <1>2, <1>5
  <2>2. \A n \in Nat : n > 0 /\ n <= 3 => n \in 1..3
      OBVIOUS
  <2> QED
      BY <2>1, <2>2
<1> QED
    BY <1>1, <1>3, <1>5, <1>6, <1>7, <1>8 DEF c

\* The head of the current stream when the layers have others.
LEMMA MainHead ==
  ASSUME StreamsTypeOK, TwoStreams, layers > 1, queue["current"] # <<>>
  PROVE  /\ queue["current"] \in Seq(Ops) /\ Len(queue["current"]) \in 1..2
         /\ Head(queue["current"]) = queue["current"][1] /\ Head(queue["current"]) \in Ops
         /\ Len(queue["current"]) = 2 => Head(queue["current"]) = FillOp
         /\ Len(queue["current"]) = 1 =>
              /\ NormIs(Head(queue["current"]))
              /\ Head(queue["current"]).after =
                   {[stream |-> LastSide, count |-> ended[LastSide] + Len(queue[LastSide])]}
<1> DEFINE c == queue["current"]
<1>1. c \in Seq(Ops) /\ c # <<>>
    BY SideFacts DEF StreamsTypeOK, Queues
<1>2. /\ Len(c) \in 1..2
      /\ NormIs(c[Len(c)])
      /\ c[Len(c)].after = {[stream |-> LastSide, count |-> ended[LastSide] + Len(queue[LastSide])]}
      /\ Len(c) = 2 => c[1] = FillOp
    BY <1>1 DEF TwoStreams, MainInv, InFlight
<1> HIDE DEF c
<1>3. Len(c) \in Nat /\ Len(c) > 0 /\ Head(c) = c[1] /\ c[1] \in Ops
    BY <1>1
<1> QED
    BY <1>1, <1>2, <1>3 DEF c

\* What starts when there is one layer.
LEMMA LaunchedOne ==
  ASSUME StreamsSafe, layers = 1, NEW s \in Streams, Launch(s)
  PROVE  /\ s = "current" /\ Read(Head(queue[s])) \in Int
         /\ Head(queue[s]).kind = "norm" => Read(Head(queue[s])) = step
<1>0. StreamsTypeOK /\ OneStream /\ queue[s] # <<>>
    BY DEF StreamsSafe, StreamsInv, Launch
<1>1. s = "current" /\ queue["current"] # <<>>
    BY <1>0 DEF OneStream, Streams, Sides
<1>2. buffers[0] \in Int /\ buffers[1] \in Int
    BY <1>0 DEF StreamsTypeOK
<1>3. CASE Len(queue["current"]) = 3
  <2>1. Head(queue[s]) = FillOp /\ step \in Nat
      BY <1>0, <1>1, <1>3, OneHead DEF StreamsTypeOK
  <2> QED
      BY <1>1, <2>1 DEF FillOp, Read
<1>4. CASE Len(queue["current"]) = 2
  <2>1. Head(queue[s]).kind = "layer" /\ Head(queue[s]).layer = 1
      BY <1>0, <1>1, <1>4, OneHead
  <2>2. Read(Head(queue[s])) = buffers[0]
      BY <1>1, <2>1 DEF Read
  <2> QED
      BY <1>1, <1>2, <2>1, <2>2
<1>5. CASE Len(queue["current"]) = 1
  <2>1. NormIs(Head(queue["current"]))
      BY <1>0, <1>1, <1>5, OneHead
  <2>2. buffers[layers] = step
      BY <1>0, <1>5 DEF OneStream
  <2>3. Head(queue["current"]).kind = "norm"
      BY <2>1 DEF NormIs
  <2> QED
      BY <1>1, <1>2, <2>2, <2>3 DEF Read
<1> QED
    BY <1>0, <1>1, <1>3, <1>4, <1>5, OneHead

\* A layer that starts finds the other stream done with the layers before it,
\* and reads what they made.
LEMMA LaunchedSide ==
  ASSUME StreamsSafe, layers > 1, NEW s \in Sides, Launch(s)
  PROVE  /\ Past("side0") = Past("side1") + 1 - Lag(s)
         /\ Read(Head(queue[s])) \in Int
         /\ Head(queue[s]).layer > 1 => Read(Head(queue[s])) = step
<1> DEFINE op == Head(queue[s])
           o == Other(s)
<1>0. /\ StreamsTypeOK /\ TwoStreams /\ queue[s] # <<>> /\ layers \in Nat /\ step \in Nat
      /\ \A event \in op.after : Passed(event)
    BY DEF StreamsSafe, StreamsInv, Launch, StreamsTypeOK
<1>1. /\ op = LayerOp(s, 1) /\ InFlight /\ Past(s) < Share(s)
      /\ Past("side0") \in 0..Share("side0") /\ Past("side1") \in 0..Share("side1")
    BY <1>0, SideHead
<1>2. /\ op.kind = "layer" /\ op.layer = 2 * (Past(s) + 1) - Lag(s)
      /\ op.after = {[stream |-> o, count |-> ended[o] - Past(o) + Past(s) + 1 - Lag(s)]}
    BY <1>1 DEF LayerOp, LayerAt
<1>3. ended[o] >= ended[o] - Past(o) + Past(s) + 1 - Lag(s)
  <2>1. Passed([stream |-> o, count |-> ended[o] - Past(o) + Past(s) + 1 - Lag(s)])
      BY <1>0, <1>2
  <2> QED
      BY <2>1 DEF Passed
<1>4. ended[o] \in Nat
    BY <1>0, SideFacts DEF StreamsTypeOK
<1>5. Share("side0") \in Nat /\ Share("side1") \in Nat /\ Share("side0") + Share("side1") = layers
    BY <1>0, ShareFacts
<1>6. Past("side0") \in {Past("side1"), Past("side1") + 1}
    BY <1>0 DEF TwoStreams
<1> HIDE DEF op
<1>7. /\ Past("side0") = Past("side1") + 1 - Lag(s)
      /\ op.layer = Past("side0") + Past("side1") + 1
      /\ op.layer - 1 \in 0..layers
  <2>1. CASE s = "side0"
    <3>1. o = "side1" /\ Lag(s) = 1
        BY <2>1, SideFacts
    <3> HIDE DEF o
    <3> QED
        BY <1>1, <1>2, <1>3, <1>4, <1>5, <1>6, <2>1, <3>1
  <2>2. CASE s = "side1"
    <3>1. o = "side0" /\ Lag(s) = 0
        BY <2>2, SideFacts
    <3> HIDE DEF o
    <3> QED
        BY <1>1, <1>2, <1>3, <1>4, <1>5, <1>6, <2>2, <3>1
  <2> QED
      BY <2>1, <2>2, SideFacts
<1>8. Read(op) = buffers[op.layer - 1]
    BY <1>2 DEF Read
<1>9. buffers[op.layer - 1] \in Int
    BY <1>0, <1>7 DEF StreamsTypeOK
<1>10. op.layer > 1 => buffers[op.layer - 1] = step
  <2>1. \A i \in 1..(Past("side0") + Past("side1")) : buffers[i] = step
      BY <1>0, <1>1 DEF TwoStreams, MadeSoFar
  <2>2. Past("side0") \in Nat /\ Past("side1") \in Nat
      BY <1>1, <1>5
  <2> QED
      BY <1>7, <2>1, <2>2
<1> QED
    BY <1>7, <1>8, <1>9, <1>10 DEF op

\* The norm starts when the last layer has ended, and reads what it made.
LEMMA LaunchedMain ==
  ASSUME StreamsSafe, layers > 1, Launch("current")
  PROVE  /\ Read(Head(queue["current"])) \in Int
         /\ AtNorm => Read(Head(queue["current"])) = step /\ queue[LastSide] = <<>>
<1> DEFINE op == Head(queue["current"])
<1>0. /\ StreamsTypeOK /\ TwoStreams /\ queue["current"] # <<>> /\ layers \in Nat /\ step \in Nat
      /\ \A event \in op.after : Passed(event)
    BY DEF StreamsSafe, StreamsInv, Launch, StreamsTypeOK
<1>1. CASE Len(queue["current"]) = 2
  <2>1. op = FillOp
      BY <1>0, <1>1, MainHead
  <2> QED
      BY <1>0, <2>1 DEF Read, FillOp, AtNorm
<1>2. CASE Len(queue["current"]) = 1
  <2>1. /\ op.kind = "norm"
        /\ op.after = {[stream |-> LastSide, count |-> ended[LastSide] + Len(queue[LastSide])]}
      BY <1>0, <1>2, MainHead DEF NormIs
  <2>2. LastSide \in Sides
      BY <1>0, ShareFacts, SideFacts
  <2>3. ended[LastSide] >= ended[LastSide] + Len(queue[LastSide])
    <3>1. Passed([stream |-> LastSide, count |-> ended[LastSide] + Len(queue[LastSide])])
        BY <1>0, <2>1
    <3> QED
        BY <3>1 DEF Passed
  <2>4. queue[LastSide] = <<>>
    <3>1. ended[LastSide] \in Nat /\ queue[LastSide] \in Seq(Ops) /\ Len(queue[LastSide]) \in Nat
        BY <1>0, <2>2, SideFacts, LenProperties DEF StreamsTypeOK, Queues
    <3>2. Len(queue[LastSide]) = 0
        BY <2>3, <3>1
    <3> QED
        BY <3>1, <3>2
  <2>5. Past("side0") + Past("side1") = layers
      BY <1>0, <2>4, AllPast
  <2>6. buffers[layers] = step
      BY <1>0, <2>5 DEF TwoStreams, MadeSoFar, InFlight
  <2> QED
      BY <1>0, <2>1, <2>4, <2>6 DEF Read
<1> QED
    BY <1>0, <1>1, <1>2, MainHead

\* An operation starts.
LEMMA LaunchKeeps ==
  ASSUME StreamsSafe, NEW s \in Streams, Launch(s)
  PROVE  StreamsSafe'
<1> DEFINE v == Read(Head(queue[s]))
<1>0. /\ StreamsTypeOK /\ StreamsInv /\ queue[s] # <<>> /\ layers \in Nat
      /\ started' = [started EXCEPT ![s] = TRUE] /\ saw' = [saw EXCEPT ![s] = v]
      /\ layers' = layers /\ queue' = queue /\ ended' = ended /\ buffers' = buffers
      /\ step' = step /\ result' = result
    BY DEF StreamsSafe, StreamsTypeOK, Launch
<1> HIDE DEF v
<1>1. layers > 0
    BY <1>0 DEF StreamsInv
<1>2. s = "current" \/ s \in Sides
    BY DEF Streams, Sides
<1>3. /\ started \in [Streams -> BOOLEAN] /\ saw \in [Streams -> Int]
      /\ started'[s] /\ saw'[s] = v
      /\ \A t \in Streams : t # s => started'[t] = started[t] /\ saw'[t] = saw[t]
    BY <1>0 DEF StreamsTypeOK
<1>4. (InFlight <=> InFlight') /\ (AtNorm <=> AtNorm') /\ LastSide' = LastSide
      /\ Past("side0")' = Past("side0") /\ Past("side1")' = Past("side1")
    BY <1>0 DEF InFlight, AtNorm, LastSide, StreamOf, Overlapped, Past, Share, Lag
<1>5. v \in Int => StreamsTypeOK'
    BY <1>0 DEF StreamsTypeOK
<1>6. (s = "current" /\ AtNorm => v = step) => \/ ~ started'["current"]
                                              \/ /\ InFlight'
                                                 /\ AtNorm' => saw'["current"] = step'
  <2>1. CASE s = "current"
      BY <1>0, <1>3, <1>4, <2>1 DEF InFlight
  <2>2. CASE s # "current"
      BY <1>0, <1>3, <1>4, <2>2, SideFacts DEF StreamsInv
  <2> QED
      BY <2>1, <2>2
<1>9. /\ Len(result') = (IF InFlight' THEN step' - 1 ELSE step')
      /\ \A n \in DOMAIN result' : result'[n] \in {n, NoLogits}
    BY <1>0, <1>4 DEF StreamsInv
<1>7. CASE layers = 1
  <2>1. s = "current" /\ v \in Int /\ (AtNorm => v = step)
      BY <1>7, LaunchedOne DEF v, AtNorm
  <2>2. OneStream'
      BY <1>0, <1>3, <1>7, <2>1, SideFacts DEF StreamsInv, OneStream, InFlight, NormIs, FillOp
  <2> QED
      BY <1>0, <1>5, <1>6, <1>7, <1>9, <2>1, <2>2 DEF StreamsSafe, StreamsInv
<1>8. CASE layers > 1
  <2>1. TwoStreams /\ step' = step
      BY <1>0, <1>8 DEF StreamsInv
  <2>2. /\ v \in Int /\ (s = "current" /\ AtNorm => v = step /\ queue[LastSide] = <<>>)
        /\ s \in Sides => /\ Past("side0") = Past("side1") + 1 - Lag(s)
                          /\ Head(queue[s]).layer > 1 => v = step
    <3>1. CASE s = "current"
        BY <1>8, <3>1, LaunchedMain, SideFacts DEF v
    <3>2. CASE s \in Sides
        BY <1>8, <3>2, LaunchedSide, SideFacts DEF v
    <3> QED
        BY <1>2, <3>1, <3>2
  <2>3. ASSUME NEW t \in Sides
        PROVE  /\ started'[t] => queue'[t] # <<>> /\ Past("side0")' = Past("side1")' + 1 - Lag(t)
               /\ started'[t] /\ Head(queue'[t]).layer > 1 => saw'[t] = step'
    <3>1. t \in Streams
        BY SideFacts
    <3>2. CASE t = s
        BY <1>0, <1>3, <1>4, <2>2, <3>2
    <3>3. CASE t # s
        BY <1>0, <1>3, <1>4, <2>1, <3>1, <3>3 DEF TwoStreams, SideInv
    <3> QED
        BY <3>2, <3>3
  <2>4. ASSUME NEW t \in Sides PROVE SideInv(t)'
    <3>1. Share(t)' = Share(t) /\ \A k \in 1..Len(queue[t]) : LayerOp(t, k)' = LayerOp(t, k)
        BY <1>0 DEF LayerOp, Share, Past
    <3>2. SideInv(t)
        BY <2>1 DEF TwoStreams
    <3> QED
        BY <1>0, <1>4, <2>3, <3>1, <3>2 DEF SideInv
  <2>5. started'["current"] /\ AtNorm' => (queue[LastSide] = <<>>)'
    <3>1. CASE s = "current"
        BY <1>0, <1>4, <2>2, <3>1
    <3>2. CASE s # "current"
        BY <1>0, <1>3, <1>4, <2>1, <3>2, SideFacts DEF TwoStreams
    <3> QED
        BY <3>1, <3>2
  <2>6. (InFlight => MainInv /\ MadeSoFar)'
    <3>1. InFlight => MainInv /\ MadeSoFar
        BY <2>1 DEF TwoStreams
    <3>2. MainInv => MainInv'
        BY <1>0, <1>4 DEF MainInv, NormIs, FillOp
    <3>3. MadeSoFar => MadeSoFar'
        BY <1>0, <1>4 DEF MadeSoFar
    <3> QED
        BY <1>4, <3>1, <3>2, <3>3
  <2>7. TwoStreams'
      BY <1>4, <2>1, <2>4, <2>5, <2>6 DEF TwoStreams
  <2>8. (s = "current" /\ AtNorm => v = step) /\ v \in Int
      BY <2>2
  <2>9. /\ started'["current"] => InFlight'
        /\ started'["current"] /\ AtNorm' => saw'["current"] = step'
      BY <1>6, <2>8
  <2>10. layers' > 1 /\ ~ (layers' = 0) /\ ~ (layers' = 1)
      BY <1>0, <1>8
  <2>11. StreamsInv'
      BY <1>9, <2>7, <2>9, <2>10 DEF StreamsInv
  <2> QED
      BY <1>5, <2>8, <2>11 DEF StreamsSafe
<1> QED
    BY <1>0, <1>1, <1>7, <1>8

\* What ends leaves the head of its queue.
LEMMA EndFacts ==
  ASSUME StreamsSafe, NEW s \in Streams, End(s)
  PROVE  /\ layers > 0 /\ queue[s] # <<>> /\ started[s]
         /\ queue[s] \in Seq(Ops) /\ Head(queue[s]) \in Ops
         /\ queue'[s] = Tail(queue[s]) /\ queue' \in Queues
         /\ Len(queue[s]) \in Nat /\ Len(queue'[s]) = Len(queue[s]) - 1
         /\ \A k \in 1..Len(queue'[s]) : queue'[s][k] = queue[s][k + 1]
         /\ ended[s] \in Nat /\ ended'[s] = ended[s] + 1 /\ ended' \in [Streams -> Nat]
         /\ ~ started'[s] /\ started' \in [Streams -> BOOLEAN]
         /\ \A t \in Streams : t # s => /\ queue'[t] = queue[t] /\ started'[t] = started[t]
                                        /\ ended'[t] = ended[t]
<1>0. /\ StreamsTypeOK /\ StreamsInv /\ started[s]
      /\ queue' = [queue EXCEPT ![s] = Tail(@)] /\ started' = [started EXCEPT ![s] = FALSE]
      /\ ended' = [ended EXCEPT ![s] = @ + 1]
    BY DEF StreamsSafe, End
<1>1. layers > 0
    BY <1>0 DEF StreamsInv, StreamsTypeOK
<1>2. queue[s] # <<>>
  <2>1. CASE s = "current"
      BY <1>0, <2>1 DEF StreamsInv, InFlight
  <2>2. CASE s \in Sides
    <3>1. CASE layers = 1
        BY <1>0, <2>2, <3>1 DEF StreamsInv, OneStream
    <3>2. CASE layers > 1
        BY <1>0, <2>2, <3>2 DEF StreamsInv, TwoStreams, SideInv
    <3> QED
        BY <1>0, <1>1, <3>1, <3>2 DEF StreamsTypeOK
  <2> QED
      BY <2>1, <2>2 DEF Streams, Sides
<1>3. queue[s] \in Seq(Ops) /\ queue \in Queues
    BY <1>0 DEF StreamsTypeOK, Queues
<1>4. /\ Tail(queue[s]) \in Seq(Ops) /\ Len(queue[s]) \in Nat /\ Head(queue[s]) \in Ops
      /\ Len(Tail(queue[s])) = Len(queue[s]) - 1
      /\ \A k \in 1..Len(Tail(queue[s])) : Tail(queue[s])[k] = queue[s][k + 1]
    BY <1>2, <1>3
<1>5. queue'[s] = Tail(queue[s]) /\ queue' \in Queues
      /\ \A t \in Streams : t # s => queue'[t] = queue[t]
    BY <1>0, <1>3, <1>4 DEF Queues
<1>6. /\ ended[s] \in Nat /\ ended'[s] = ended[s] + 1 /\ ended' \in [Streams -> Nat]
      /\ ~ started'[s] /\ started' \in [Streams -> BOOLEAN]
      /\ \A t \in Streams : t # s => started'[t] = started[t] /\ ended'[t] = ended[t]
    BY <1>0 DEF StreamsTypeOK
<1>7. /\ Len(queue'[s]) = Len(queue[s]) - 1
      /\ \A k \in 1..Len(queue'[s]) : queue'[s][k] = queue[s][k + 1]
    BY <1>4, <1>5
<1>8. \A t \in Streams : t # s => /\ queue'[t] = queue[t] /\ started'[t] = started[t]
                                  /\ ended'[t] = ended[t]
    BY <1>5, <1>6
<1> QED
    BY <1>0, <1>1, <1>2, <1>3, <1>4, <1>5, <1>6, <1>7, <1>8

\* An operation ends when there is one layer.
LEMMA EndOneKeeps ==
  ASSUME StreamsSafe, layers = 1, NEW s \in Streams, End(s)
  PROVE  StreamsSafe'
<1> DEFINE c == queue["current"]
           op == Head(queue["current"])
<1>0. /\ StreamsTypeOK /\ StreamsInv /\ OneStream /\ layers \in Nat /\ step \in Nat
      /\ layers' = layers /\ step' = step /\ saw' = saw
      /\ saw \in [Streams -> Int] /\ buffers \in [0..layers -> Int]
    BY DEF StreamsSafe, StreamsInv, End, StreamsTypeOK
<1>1. s = "current"
    BY <1>0, EndFacts DEF OneStream, Streams, Sides
<1>2. /\ started["current"] /\ ~ started'["current"] /\ queue' \in Queues
      /\ ended' \in [Streams -> Nat] /\ started' \in [Streams -> BOOLEAN]
      /\ \A t \in Sides : queue'[t] = <<>> /\ ~ started'[t]
  <2>1. /\ started["current"] /\ ~ started'["current"] /\ queue' \in Queues
        /\ ended' \in [Streams -> Nat] /\ started' \in [Streams -> BOOLEAN]
        /\ \A t \in Streams : t # "current" => queue'[t] = queue[t] /\ started'[t] = started[t]
      BY <1>1, EndFacts
  <2>2. \A t \in Sides : t \in Streams /\ t # "current" /\ queue[t] = <<>> /\ ~ started[t]
      BY <1>0, SideFacts DEF OneStream
  <2> QED
      BY <2>1, <2>2
<1>3. /\ c # <<>> /\ c \in Seq(Ops) /\ Len(c) \in Nat
      /\ Len(queue'["current"]) = Len(c) - 1
      /\ \A k \in 1..Len(queue'["current"]) : queue'["current"][k] = c[k + 1]
    BY <1>1, EndFacts
<1>4. queue'["current"] \in Seq(Ops)
    BY <1>2, SideFacts DEF Queues
<1>5. /\ buffers' = CASE op.kind = "fill"  -> [buffers EXCEPT ![0] = op.step]
                      [] op.kind = "layer" -> [buffers EXCEPT ![op.layer] = Made(op, saw["current"])]
                      [] op.kind = "norm"  -> buffers
      /\ result' = IF op.kind = "norm" THEN Append(result, saw["current"]) ELSE result
    BY <1>1 DEF End
<1>6. Len(result) = step - 1 /\ (op.kind = "norm" => saw["current"] = step)
    BY <1>0, <1>2, <1>3 DEF StreamsInv, InFlight, AtNorm
<1>7. layers' > 0 /\ layers' = 1
    BY <1>0
<1>8. CASE Len(c) = 3
  <2>0. op = FillOp
      BY <1>0, <1>3, <1>8, OneHead
  <2>1. op.kind = "fill" /\ op.step = step
      BY <2>0 DEF FillOp
  <2>2. buffers' = [buffers EXCEPT ![0] = step] /\ result' = result
      BY <1>5, <2>1
  <2>3. /\ Len(queue'["current"]) = 2 /\ queue'["current"][1] = c[2] /\ queue'["current"][2] = c[3]
        /\ queue'["current"] # <<>>
      BY <1>3, <1>4, <1>8
  <2>4. NormIs(c[3]) /\ c[2].kind = "layer" /\ c[2].layer = 1 /\ c[2].step = step
      BY <1>0, <1>3, <1>8 DEF OneStream, InFlight
  <2>5. OneStream'
      BY <1>0, <1>2, <2>3, <2>4 DEF OneStream, InFlight, NormIs
  <2>6. StreamsTypeOK'
      BY <1>0, <1>2, <2>2 DEF StreamsTypeOK
  <2>7. InFlight'
      BY <2>3 DEF InFlight
  <2>8. StreamsInv'
      BY <1>0, <1>2, <1>6, <1>7, <2>2, <2>5, <2>7 DEF StreamsInv
  <2> QED
      BY <2>6, <2>8 DEF StreamsSafe
<1>9. CASE Len(c) = 2
  <2>1. op.kind = "layer" /\ op.layer = 1 /\ op.step = step
      BY <1>0, <1>3, <1>9, OneHead
  <2>2. buffers' = [buffers EXCEPT ![1] = step] /\ result' = result
      BY <1>5, <2>1 DEF Made
  <2>3. /\ Len(queue'["current"]) = 1 /\ queue'["current"][1] = c[2] /\ queue'["current"] # <<>>
      BY <1>3, <1>4, <1>9
  <2>4. NormIs(c[2])
      BY <1>0, <1>3, <1>9 DEF OneStream, InFlight
  <2>5. buffers'[1] = step
      BY <1>0, <2>2
  <2>6. OneStream'
      BY <1>0, <1>2, <2>3, <2>4, <2>5 DEF OneStream, InFlight, NormIs
  <2>7. StreamsTypeOK'
      BY <1>0, <1>2, <2>2 DEF StreamsTypeOK
  <2>8. InFlight'
      BY <2>3 DEF InFlight
  <2>9. StreamsInv'
      BY <1>0, <1>2, <1>6, <1>7, <2>2, <2>6, <2>8 DEF StreamsInv
  <2> QED
      BY <2>7, <2>9 DEF StreamsSafe
<1>10. CASE Len(c) = 1
  <2>1. op.kind = "norm"
      BY <1>0, <1>3, <1>10, OneHead DEF NormIs
  <2>2. buffers' = buffers /\ result' = Append(result, step) /\ step \in Int
      BY <1>0, <1>5, <1>6, <2>1
  <2>3. Len(queue'["current"]) = 0 /\ queue'["current"] = <<>>
      BY <1>3, <1>4, <1>10
  <2>4. /\ result' \in Seq(Int) /\ Len(result') = step
        /\ \A n \in DOMAIN result' : result'[n] \in {n, NoLogits}
    <3>1. \A n \in DOMAIN result : result[n] \in {n, NoLogits}
        BY <1>0 DEF StreamsInv
    <3>2. step \in {Len(result) + 1, NoLogits} /\ Len(result) + 1 = step
        BY <1>0, <1>6
    <3> QED
        BY <1>0, <2>2, <3>1, <3>2, ResultGrows
  <2>5. OneStream'
      BY <1>0, <1>2, <2>3 DEF OneStream, InFlight
  <2>6. StreamsTypeOK'
      BY <1>0, <1>2, <2>2, <2>4 DEF StreamsTypeOK
  <2>7. ~ InFlight'
      BY <2>3 DEF InFlight
  <2>8. StreamsInv'
      BY <1>0, <1>2, <1>7, <2>4, <2>5, <2>7 DEF StreamsInv
  <2> QED
      BY <2>6, <2>8 DEF StreamsSafe
<1>11. Len(c) = 3 \/ Len(c) = 2 \/ Len(c) = 1
  <2>1. Len(c) \in 1..3
      BY <1>0, <1>3, OneHead
  <2>2. \A n \in 1..3 : n = 3 \/ n = 2 \/ n = 1
      OBVIOUS
  <2> QED
      BY <2>1, <2>2
<1> QED
    BY <1>8, <1>9, <1>10, <1>11

\* A layer ends on its side stream.
LEMMA EndSideKeeps ==
  ASSUME StreamsSafe, layers > 1, NEW s \in Sides, End(s)
  PROVE  StreamsSafe'
<1> DEFINE o == Other(s)
           op == Head(queue[s])
           m == Past("side0") + Past("side1") + 1
<1>0. /\ StreamsTypeOK /\ StreamsInv /\ TwoStreams /\ layers \in Nat /\ step \in Nat
      /\ layers' = layers /\ step' = step /\ saw' = saw
      /\ saw \in [Streams -> Int] /\ buffers \in [0..layers -> Int]
    BY DEF StreamsSafe, StreamsInv, End, StreamsTypeOK
<1>1. /\ s \in Streams /\ o \in Sides /\ o # s /\ o \in Streams /\ Other(o) = s
      /\ Sides = {s, o} /\ s # "current" /\ "current" \in Streams
      /\ Lag(s) + Lag(o) = 1 /\ Lag(s) \in {0, 1} /\ Lag(o) \in {0, 1}
    BY SideFacts
<1>2. /\ queue[s] # <<>> /\ started[s] /\ Len(queue[s]) \in Nat
      /\ queue' \in Queues /\ Len(queue'[s]) = Len(queue[s]) - 1
      /\ \A k \in 1..Len(queue'[s]) : queue'[s][k] = queue[s][k + 1]
      /\ ended[s] \in Nat /\ ended'[s] = ended[s] + 1 /\ ended' \in [Streams -> Nat]
      /\ ~ started'[s] /\ started' \in [Streams -> BOOLEAN]
      /\ \A t \in Streams : t # s => /\ queue'[t] = queue[t] /\ started'[t] = started[t]
                                     /\ ended'[t] = ended[t]
    BY <1>1, EndFacts
<1>3. /\ queue'[o] = queue[o] /\ started'[o] = started[o] /\ ended'[o] = ended[o]
      /\ queue'["current"] = queue["current"] /\ started'["current"] = started["current"]
      /\ ended[o] \in Nat
    BY <1>0, <1>1, <1>2 DEF StreamsTypeOK
<1>4. /\ InFlight /\ Past(s) < Share(s) /\ op = LayerOp(s, 1)
      /\ Past("side0") \in 0..Share("side0") /\ Past("side1") \in 0..Share("side1")
      /\ Past(s) + Len(queue[s]) = Share(s)
    BY <1>0, <1>2, SideHead
<1>5. /\ SideInv(s) /\ SideInv(o) /\ MainInv /\ MadeSoFar
      /\ Past("side0") \in {Past("side1"), Past("side1") + 1}
      /\ Past("side0") = Past("side1") + 1 - Lag(s)
      /\ op.layer > 1 => saw[s] = step
    BY <1>0, <1>1, <1>2, <1>4 DEF TwoStreams, SideInv
<1>6. /\ Share("side0") \in Nat /\ Share("side1") \in Nat /\ Share("side0") + Share("side1") = layers
      /\ Past("side0") \in Nat /\ Past("side1") \in Nat /\ Past(s) \in Nat /\ Past(o) \in Nat
      /\ Share(s) \in Nat
  <2>1. Share("side0") \in Nat /\ Share("side1") \in Nat /\ Share("side0") + Share("side1") = layers
      BY <1>0, ShareFacts
  <2>2. Past("side0") \in Nat /\ Past("side1") \in Nat
      BY <1>4, <2>1
  <2>3. \A t \in Sides : Past(t) \in Nat /\ Share(t) \in Nat
      BY <2>1, <2>2, SideFacts
  <2> QED
      BY <1>1, <2>1, <2>2, <2>3
<1>7. op.kind = "layer" /\ op.step = step /\ op.layer = LayerAt(s, Past(s) + 1)
    BY <1>4 DEF LayerOp
<1> HIDE DEF op
<1>8. op.layer = m /\ m \in 1..layers
  <2>1. CASE s = "side0"
    <3>1. op.layer = 2 * (Past("side0") + 1) - 1
        BY <1>7, <2>1, SideFacts DEF LayerAt
    <3>2. Past("side0") = Past("side1") /\ Past("side0") < Share("side0") /\ Past("side1") <= Share("side1")
        BY <1>4, <1>5, <1>6, <2>1, SideFacts
    <3> QED
        BY <1>6, <3>1, <3>2
  <2>2. CASE s = "side1"
    <3>1. op.layer = 2 * (Past("side1") + 1)
        BY <1>6, <1>7, <2>2, SideFacts DEF LayerAt
    <3>2. Past("side0") = Past("side1") + 1 /\ Past("side1") < Share("side1") /\ Past("side0") <= Share("side0")
        BY <1>4, <1>5, <1>6, <2>2, SideFacts
    <3> QED
        BY <1>6, <3>1, <3>2
  <2> QED
      BY <2>1, <2>2, SideFacts
<1>9. Made(op, saw[s]) = step
  <2>1. CASE op.layer = 1
      BY <1>7, <2>1 DEF Made
  <2>2. CASE op.layer # 1
      BY <1>0, <1>5, <1>7, <1>8, <2>2 DEF Made
  <2> QED
      BY <2>1, <2>2
<1>10. buffers' = [buffers EXCEPT ![m] = step] /\ result' = result
    BY <1>7, <1>8, <1>9 DEF End, op
<1> HIDE DEF m, o
<1>11. /\ Share(s)' = Share(s) /\ Share(o)' = Share(o) /\ LastSide' = LastSide
       /\ (InFlight <=> InFlight') /\ InFlight' /\ (AtNorm <=> AtNorm')
    BY <1>0, <1>3, <1>4 DEF Share, Lag, InFlight, AtNorm, LastSide, StreamOf, Overlapped
<1>12. Past(s)' = Past(s) + 1 /\ Past(o)' = Past(o)
    BY <1>2, <1>3, <1>6, <1>11 DEF Past
<1>13. /\ Past("side0")' \in {Past("side1")', Past("side1")' + 1}
       /\ Past("side0")' + Past("side1")' = m
  <2>1. CASE s = "side0"
    <3>1. o = "side1"
        BY <1>1, <2>1, SideFacts
    <3> QED
        BY <1>5, <1>6, <1>12, <2>1, <3>1, SideFacts DEF m
  <2>2. CASE s = "side1"
    <3>1. o = "side0"
        BY <1>1, <2>2, SideFacts
    <3> QED
        BY <1>5, <1>6, <1>12, <2>2, <3>1, SideFacts DEF m
  <2> QED
      BY <2>1, <2>2, SideFacts
<1>14. SideInv(s)'
  <2>1. Len(queue'[s]) <= Share(s)'
      BY <1>2, <1>4, <1>6, <1>11
  <2>2. ASSUME NEW k \in 1..Len(queue'[s]) PROVE queue'[s][k] = LayerOp(s, k)'
    <3>1. queue'[s][k] = LayerOp(s, k + 1)
      <4>1. k + 1 \in 1..Len(queue[s])
          BY <1>2
      <4>2. \A i \in 1..Len(queue[s]) : queue[s][i] = LayerOp(s, i)
          BY <1>5 DEF SideInv
      <4>3. queue'[s][k] = queue[s][k + 1]
          BY <1>2
      <4> QED
          BY <4>1, <4>2, <4>3
    <3>2. /\ Past(s)' + k = Past(s) + (k + 1)
          /\ ended'[o] - Past(o)' + Past(s)' + k - Lag(s) = ended[o] - Past(o) + Past(s) + (k + 1) - Lag(s)
      <4> DEFINE a == ended[o]
                 b == Past(o)
                 c == Past(s)
                 l == Lag(s)
                 a2 == ended'[o]
                 b2 == Past(o)'
                 c2 == Past(s)'
      <4>1. k \in Int /\ l \in Int
          BY <1>1, <1>2
      <4>2. a2 = a /\ b2 = b /\ c2 = c + 1
          BY <1>3, <1>12
      <4>3. a \in Int /\ b \in Int /\ c \in Int
          BY <1>3, <1>6
      <4> HIDE DEF a, b, c, l, a2, b2, c2
      <4>4. c2 + k = c + (k + 1) /\ a2 - b2 + c2 + k - l = a - b + c + (k + 1) - l
          BY <4>1, <4>2, <4>3
      <4> QED
          BY <4>4 DEF a, b, c, l, a2, b2, c2
    <3>3. LayerOp(s, k)' =
            [kind |-> "layer", layer |-> LayerAt(s, Past(s)' + k), step |-> step',
             after |-> {[stream |-> o, count |-> ended'[o] - Past(o)' + Past(s)' + k - Lag(s)]}]
        BY DEF LayerOp, LayerAt, Lag, Other, o
    <3>4. LayerOp(s, k + 1) =
            [kind |-> "layer", layer |-> LayerAt(s, Past(s) + (k + 1)), step |-> step,
             after |-> {[stream |-> o, count |-> ended[o] - Past(o) + Past(s) + (k + 1) - Lag(s)]}]
        BY DEF LayerOp, o
    <3> QED
        BY <1>0, <3>1, <3>2, <3>3, <3>4
  <2> QED
      BY <1>2, <1>11, <2>1, <2>2 DEF SideInv
<1>15. SideInv(o)'
  <2>1. ~ started[o]
      BY <1>1, <1>5, <1>6, SideFacts DEF SideInv
  <2>2. ASSUME NEW k \in 1..Len(queue[o]) PROVE queue'[o][k] = LayerOp(o, k)'
    <3>1. queue'[o][k] = LayerOp(o, k)
        BY <1>3, <1>5 DEF SideInv
    <3>2. ended'[s] - Past(s)' + Past(o)' + k - Lag(o) = ended[s] - Past(s) + Past(o) + k - Lag(o)
      <4> DEFINE a == ended[s]
                 b == Past(s)
                 c == Past(o)
                 l == Lag(o)
                 a2 == ended'[s]
                 b2 == Past(s)'
                 c2 == Past(o)'
      <4>1. k \in Int /\ l \in Int
        <5>1. Len(queue[o]) \in Nat
            BY <1>0, <1>1, LenProperties DEF StreamsTypeOK, Queues
        <5> QED
            BY <1>1, <5>1
      <4>2. a2 = a + 1 /\ b2 = b + 1 /\ c2 = c
          BY <1>2, <1>12
      <4>3. a \in Int /\ b \in Int /\ c \in Int
        <5>1. ended[s] \in Int
            BY <1>2
        <5> QED
            BY <1>6, <5>1
      <4> HIDE DEF a, b, c, l, a2, b2, c2
      <4>4. a2 - b2 + c2 + k - l = a - b + c + k - l
          BY <4>1, <4>2, <4>3
      <4> QED
          BY <4>4 DEF a, b, c, l, a2, b2, c2
    <3>3. LayerOp(o, k)' =
            [kind |-> "layer", layer |-> LayerAt(o, Past(o)' + k), step |-> step',
             after |-> {[stream |-> s, count |-> ended'[s] - Past(s)' + Past(o)' + k - Lag(o)]}]
        BY <1>1 DEF LayerOp, LayerAt, Lag, Other
    <3>4. LayerOp(o, k) =
            [kind |-> "layer", layer |-> LayerAt(o, Past(o) + k), step |-> step,
             after |-> {[stream |-> s, count |-> ended[s] - Past(s) + Past(o) + k - Lag(o)]}]
        BY <1>1 DEF LayerOp
    <3> QED
        BY <1>0, <1>12, <3>1, <3>2, <3>3, <3>4
  <2> QED
      BY <1>3, <1>5, <1>11, <2>1, <2>2 DEF SideInv
<1>16. MainInv'
  <2>1. LastSide \in {s, o}
      BY <1>0, <1>1, ShareFacts, SideFacts
  <2>2. ended'[LastSide] + Len(queue'[LastSide]) = ended[LastSide] + Len(queue[LastSide])
    <3>1. CASE LastSide = s
      <4>1. ended[s] \in Nat /\ Len(queue[s]) \in Nat /\ ended'[s] = ended[s] + 1
            /\ Len(queue'[s]) = Len(queue[s]) - 1
          BY <1>2
      <4>2. \A a, b \in Nat : (a + 1) + (b - 1) = a + b
          OBVIOUS
      <4> QED
          BY <3>1, <4>1, <4>2
    <3>2. CASE LastSide = o
        BY <1>3, <3>2
    <3> QED
        BY <2>1, <3>1, <3>2
  <2> QED
      BY <1>0, <1>3, <1>5, <1>11, <2>2 DEF MainInv, NormIs, FillOp
<1>17. MadeSoFar'
  <2> SUFFICES ASSUME NEW i \in 1..m PROVE buffers'[i] = step
      BY <1>0, <1>13 DEF MadeSoFar
  <2>1. i \in 0..layers /\ (i = m \/ i \in 1..(Past("side0") + Past("side1")))
    <3>1. Past("side0") + Past("side1") \in Nat /\ m = Past("side0") + Past("side1") + 1
        BY <1>6 DEF m
    <3>2. m \in 1..layers
        BY <1>8
    <3> QED
        BY <1>0, <3>1, <3>2
  <2> QED
      BY <1>0, <1>5, <1>10, <2>1 DEF MadeSoFar
<1>18. ~ (started'["current"] /\ AtNorm')
  <2>1. started["current"] /\ AtNorm => queue[LastSide] = <<>>
      BY <1>0 DEF TwoStreams
  <2>2. queue[LastSide] = <<>> => queue[s] = <<>>
      BY <1>0, AllPast
  <2> QED
      BY <1>2, <1>3, <1>11, <2>1, <2>2
<1>19. StreamsTypeOK'
    BY <1>0, <1>2, <1>8, <1>10 DEF StreamsTypeOK
<1>20. TwoStreams'
    BY <1>1, <1>13, <1>14, <1>15, <1>16, <1>17, <1>18 DEF TwoStreams
<1>21. /\ started'["current"] => InFlight'
       /\ Len(result') = (IF InFlight' THEN step' - 1 ELSE step')
       /\ \A n \in DOMAIN result' : result'[n] \in {n, NoLogits}
    BY <1>0, <1>10, <1>11 DEF StreamsInv
<1>22. ~ (layers' = 0) /\ ~ (layers' = 1)
    BY <1>0
<1>23. StreamsInv'
    BY <1>18, <1>20, <1>21, <1>22 DEF StreamsInv
<1> QED
    BY <1>19, <1>23 DEF StreamsSafe

\* The fill or the norm of a step ends on the current stream.
LEMMA EndMainKeeps ==
  ASSUME StreamsSafe, layers > 1, End("current")
  PROVE  StreamsSafe'
<1> DEFINE c == queue["current"]
           op == Head(queue["current"])
<1>0. /\ StreamsTypeOK /\ StreamsInv /\ TwoStreams /\ layers \in Nat /\ step \in Nat
      /\ layers' = layers /\ step' = step /\ saw' = saw
      /\ saw \in [Streams -> Int] /\ buffers \in [0..layers -> Int]
    BY DEF StreamsSafe, StreamsInv, End, StreamsTypeOK
<1>1. /\ c # <<>> /\ c \in Seq(Ops) /\ Len(c) \in Nat /\ started["current"]
      /\ queue' \in Queues /\ Len(queue'["current"]) = Len(c) - 1
      /\ \A k \in 1..Len(queue'["current"]) : queue'["current"][k] = c[k + 1]
      /\ ended' \in [Streams -> Nat] /\ ~ started'["current"] /\ started' \in [Streams -> BOOLEAN]
    BY SideFacts, EndFacts
<1>2. \A t \in Sides : queue'[t] = queue[t] /\ started'[t] = started[t] /\ ended'[t] = ended[t]
    BY SideFacts, EndFacts
<1>3. queue'["current"] \in Seq(Ops)
    BY <1>1, SideFacts DEF Queues
<1>4. /\ buffers' = CASE op.kind = "fill"  -> [buffers EXCEPT ![0] = op.step]
                      [] op.kind = "layer" -> [buffers EXCEPT ![op.layer] = Made(op, saw["current"])]
                      [] op.kind = "norm"  -> buffers
      /\ result' = IF op.kind = "norm" THEN Append(result, saw["current"]) ELSE result
    BY DEF End
<1>5. Len(result) = step - 1 /\ \A n \in DOMAIN result : result[n] \in {n, NoLogits}
    BY <1>0, <1>1 DEF StreamsInv, InFlight
<1>6. /\ \A t \in Sides : Share(t)' = Share(t) /\ Past(t)' = Past(t)
      /\ LastSide' = LastSide /\ LastSide \in Sides
    BY <1>0, <1>2, ShareFacts, SideFacts DEF Share, Past, Lag, LastSide, StreamOf, Overlapped
<1>7. ASSUME NEW t \in Sides, InFlight' \/ queue[t] = <<>> PROVE SideInv(t)'
  <2>1. SideInv(t)
      BY <1>0 DEF TwoStreams
  <2>2. Other(t) \in Sides /\ Past("side0")' = Past("side0") /\ Past("side1")' = Past("side1")
      BY <1>6, SideFacts
  <2>3. ASSUME NEW k \in 1..Len(queue[t]) PROVE LayerOp(t, k)' = LayerOp(t, k)
      BY <1>0, <1>2, <1>6, <2>2 DEF LayerOp, LayerAt, Lag, Other
  <2> QED
      BY <1>0, <1>2, <1>6, <1>7, <2>1, <2>2, <2>3 DEF SideInv, Lag
<1>8. /\ Past("side0")' = Past("side0") /\ Past("side1")' = Past("side1")
      /\ Past("side0")' \in {Past("side1")', Past("side1")' + 1}
    BY <1>0, <1>6, SideFacts DEF TwoStreams
<1>9. ~ (layers' = 0) /\ ~ (layers' = 1)
    BY <1>0
<1>10. CASE Len(c) = 2
  <2>1. op = FillOp
      BY <1>0, <1>1, <1>10, MainHead
  <2>2. op.kind = "fill" /\ op.step = step
      BY <2>1 DEF FillOp
  <2>3. buffers' = [buffers EXCEPT ![0] = step] /\ result' = result
      BY <1>4, <2>2
  <2>4. Len(queue'["current"]) = 1 /\ queue'["current"][1] = c[2] /\ queue'["current"] # <<>>
      BY <1>1, <1>3, <1>10
  <2>5. MainInv /\ MadeSoFar
      BY <1>0, <1>1 DEF TwoStreams, InFlight
  <2>6. InFlight'
      BY <2>4 DEF InFlight
  <2>7. MainInv'
    <3>1. /\ NormIs(c[2])
          /\ c[2].after = {[stream |-> LastSide, count |-> ended[LastSide] + Len(queue[LastSide])]}
        BY <1>10, <2>5 DEF MainInv
    <3>2. ended'[LastSide] = ended[LastSide] /\ queue'[LastSide] = queue[LastSide]
        BY <1>2, <1>6
    <3> QED
        BY <1>0, <1>6, <2>4, <3>1, <3>2 DEF MainInv, NormIs
  <2>8. MadeSoFar'
    <3>1. \A i \in 1..(Past("side0") + Past("side1")) : i \in Int /\ i > 0
      <4>1. Past("side0") \in Int /\ Past("side1") \in Int
        <5>1. \A t \in Sides : Past(t) \in 0..Share(t)
            BY <1>0, SideHead, SideFacts
        <5> QED
            BY <1>0, <5>1, ShareFacts, SideFacts
      <4> QED
          BY <4>1
    <3>2. \A i \in Int : i > 0 => buffers'[i] = buffers[i]
        BY <1>0, <2>3
    <3> QED
        BY <1>0, <1>8, <2>5, <3>1, <3>2 DEF MadeSoFar
  <2>9. TwoStreams'
      BY <1>1, <1>7, <1>8, <2>6, <2>7, <2>8 DEF TwoStreams
  <2>10. StreamsTypeOK'
      BY <1>0, <1>1, <2>3 DEF StreamsTypeOK
  <2>11. StreamsInv'
      BY <1>0, <1>1, <1>5, <1>9, <2>3, <2>6, <2>9 DEF StreamsInv
  <2> QED
      BY <2>10, <2>11 DEF StreamsSafe
<1>11. CASE Len(c) = 1
  <2>1. op.kind = "norm"
      BY <1>0, <1>1, <1>11, MainHead DEF NormIs
  <2>2. AtNorm
      BY <1>1, <2>1 DEF AtNorm, InFlight
  <2>3. saw["current"] = step /\ queue[LastSide] = <<>>
      BY <1>0, <1>1, <2>2 DEF StreamsInv, TwoStreams
  <2>4. buffers' = buffers /\ result' = Append(result, step) /\ step \in Int
      BY <1>0, <1>4, <2>1, <2>3
  <2>5. Len(queue'["current"]) = 0 /\ queue'["current"] = <<>>
      BY <1>1, <1>3, <1>11
  <2>6. ~ InFlight'
      BY <2>5 DEF InFlight
  <2>7. \A t \in Sides : queue[t] = <<>>
      BY <1>0, <2>3, AllPast
  <2>8. /\ result' \in Seq(Int) /\ Len(result') = step
        /\ \A n \in DOMAIN result' : result'[n] \in {n, NoLogits}
    <3>1. step \in {Len(result) + 1, NoLogits} /\ Len(result) + 1 = step
        BY <1>0, <1>5
    <3> QED
        BY <1>0, <1>5, <2>4, <3>1, ResultGrows
  <2>9. TwoStreams'
      BY <1>1, <1>7, <1>8, <2>6, <2>7 DEF TwoStreams
  <2>10. StreamsTypeOK'
      BY <1>0, <1>1, <2>4, <2>8 DEF StreamsTypeOK
  <2>11. StreamsInv'
      BY <1>0, <1>1, <1>9, <2>6, <2>8, <2>9 DEF StreamsInv
  <2> QED
      BY <2>10, <2>11 DEF StreamsSafe
<1>12. Len(c) = 2 \/ Len(c) = 1
  <2>1. Len(c) \in 1..2
      BY <1>0, <1>1, MainHead
  <2>2. \A n \in 1..2 : n = 2 \/ n = 1
      OBVIOUS
  <2> QED
      BY <2>1, <2>2
<1> QED
    BY <1>10, <1>11, <1>12

\* An operation ends.
LEMMA EndKeeps ==
  ASSUME StreamsSafe, NEW s \in Streams, End(s)
  PROVE  StreamsSafe'
<1>1. layers \in Nat /\ layers > 0
    BY EndFacts DEF StreamsSafe, StreamsTypeOK
<1>2. layers = 1 \/ layers > 1
    BY <1>1
<1>3. s = "current" \/ s \in Sides
    BY DEF Streams, Sides
<1> QED
    BY <1>2, <1>3, EndOneKeeps, EndSideKeeps, EndMainKeeps

\* The host enqueues a step.
LEMMA EnqueueKeeps ==
  ASSUME StreamsSafe, EnqueueStep
  PROVE  StreamsSafe'
<1> DEFINE fill == Op("fill", 0, {})
           q0 == Enqueued(queue, "current", fill)
           q == WithLayers(q0)
           last == StreamOf(layers)
           norm == Op("norm", layers, {AllOf(q, last)})
<1>0. /\ StreamsTypeOK /\ StreamsInv /\ layers \in Nat /\ layers > 0 /\ step \in Nat /\ Synchronized
      /\ layers' = layers /\ step' = step + 1 /\ saw' = saw /\ started' = started
      /\ ended' = ended /\ buffers' = buffers /\ result' = result
      /\ queue \in Queues /\ ended \in [Streams -> Nat]
    BY DEF StreamsSafe, StreamsTypeOK, EnqueueStep
<1>1. queue' = Enqueued(q, "current", norm)
    BY DEF EnqueueStep, WithNorm
<1>2. /\ \A s \in Streams : queue[s] = <<>> /\ ~ started[s]
      /\ Len(result) = step
    BY <1>0, Quiet
<1>3. fill \in Ops
    BY <1>0 DEF Op, Ops
<1>4. /\ q0 \in Queues /\ q0["current"] = Append(queue["current"], fill)
      /\ \A s \in Sides : q0[s] = <<>>
  <2> HIDE DEF fill
  <2>1. \A s \in Sides : s \in Streams /\ s # "current"
      BY SideFacts
  <2>2. queue \in Queues /\ fill \in Ops /\ "current" \in Streams
      BY <1>0, <1>3, SideFacts
  <2>3. /\ q0 \in Queues /\ q0["current"] = Append(queue["current"], fill)
        /\ \A t \in Streams : t # "current" => q0[t] = queue[t]
      BY <2>2, EnqueuedFacts
  <2> QED
      BY <1>2, <2>1, <2>3
<1>5. q0["current"] = <<fill>>
    BY <1>2, <1>4, SideFacts
<1>6. fill = FillOp'
    BY <1>0 DEF Op, FillOp
<1>7. last \in Streams
    BY DEF StreamOf, Streams
<1>8. ASSUME q \in Queues
      PROVE  /\ norm \in Ops /\ queue' \in Queues /\ queue'["current"] = Append(q["current"], norm)
             /\ \A s \in Sides : queue'[s] = q[s]
             /\ norm.kind = "norm" /\ norm.layer = layers' /\ norm.step = step'
             /\ norm.after = {[stream |-> last, count |-> ended[last] + Len(q[last])]}
  <2> HIDE DEF q, last
  <2>1. AllOf(q, last) \in [stream : Streams, count : Int]
    <3>1. ended[last] \in Nat /\ Len(q[last]) \in Nat
        BY <1>0, <1>7, <1>8, LenProperties DEF Queues
    <3> QED
        BY <1>7, <3>1 DEF AllOf
  <2>2. norm \in Ops
      BY <1>0, <2>1 DEF Op, Ops
  <2>3. /\ norm.kind = "norm" /\ norm.layer = layers' /\ norm.step = step'
        /\ norm.after = {[stream |-> last, count |-> ended[last] + Len(q[last])]}
      BY <1>0 DEF Op, AllOf
  <2> HIDE DEF norm
  <2>4. \A s \in Sides : s \in Streams /\ s # "current"
      BY SideFacts
  <2> QED
      BY <1>1, <1>8, <2>2, <2>3, <2>4, SideFacts, EnqueuedFacts
<1>9. Len(result') = step' - 1 /\ \A n \in DOMAIN result' : result'[n] \in {n, NoLogits}
    BY <1>0, <1>2 DEF StreamsInv
<1>10. ~ started'["current"] /\ ~ (layers' = 0)
    BY <1>0, <1>2, SideFacts
<1>11. queue' \in Queues => StreamsTypeOK'
    BY <1>0 DEF StreamsTypeOK
<1> HIDE DEF fill, q0, q, last, norm
<1>12. CASE layers = 1
  <2> DEFINE one == Op("layer", 1, WaitsOf(q0, 1))
  <2>1. PICK w \in [0..layers -> Queues] :
          /\ w[0] = q0
          /\ \A i \in 1..layers : w[i] = LayerEnqueued(w[i - 1], i)
          /\ q = w[layers]
      BY <1>0, <1>4, LayersOnTop DEF q
  <2>2. q = LayerEnqueued(q0, 1) /\ q \in Queues
      BY <1>12, <2>1
  <2>3. StreamOf(1) = "current"
      BY <1>12 DEF StreamOf, Overlapped
  <2>4. one \in Ops
      BY <1>0, <1>4, <1>12, LayerEnqueuedIn
  <2>5. one.kind = "layer" /\ one.layer = 1 /\ one.step = step'
      BY <1>0 DEF Op
  <2> HIDE DEF one
  <2>6. q = Enqueued(q0, "current", one)
      BY <2>2, <2>3 DEF LayerEnqueued, one
  <2>7. q["current"] = Append(<<fill>>, one) /\ \A s \in Sides : q[s] = <<>>
    <3>1. \A s \in Sides : s \in Streams /\ s # "current"
        BY SideFacts
    <3>2. q["current"] = Append(q0["current"], one)
        BY <1>4, <2>4, <2>6, SideFacts, EnqueuedFacts
    <3>3. \A s \in Sides : q[s] = q0[s]
        BY <1>4, <2>4, <2>6, <3>1, SideFacts, EnqueuedFacts
    <3> QED
        BY <1>4, <1>5, <3>2, <3>3
  <2>8. /\ queue'["current"] = Append(q["current"], norm) /\ \A s \in Sides : queue'[s] = <<>>
        /\ norm.kind = "norm" /\ norm.layer = layers' /\ norm.step = step' /\ queue' \in Queues
        /\ norm \in Ops
      BY <1>8, <2>2, <2>7
  <2>9. /\ Len(queue'["current"]) = 3 /\ queue'["current"][1] = fill /\ queue'["current"][2] = one
        /\ queue'["current"][3] = norm /\ queue'["current"] # <<>>
    <3>1. <<fill>> \in Seq(Ops) /\ Len(<<fill>>) = 1 /\ <<fill>>[1] = fill
        BY <1>3
    <3>2. /\ q["current"] \in Seq(Ops) /\ Len(q["current"]) = 2
          /\ q["current"][1] = fill /\ q["current"][2] = one
        BY <2>4, <2>7, <3>1, AppendFacts
    <3> QED
        BY <2>8, <3>2, AppendFacts
  <2>10. \A s \in Sides : ~ started'[s]
      BY <1>0, <1>2, SideFacts
  <2>11. NormIs(queue["current"][Len(queue["current"])])'
      BY <2>8, <2>9 DEF NormIs
  <2>12. OneStream'
      BY <1>6, <2>5, <2>8, <2>9, <2>10, <2>11 DEF OneStream, InFlight
  <2>13. InFlight'
      BY <2>9 DEF InFlight
  <2>14. StreamsInv'
      BY <1>0, <1>9, <1>10, <1>12, <2>12, <2>13 DEF StreamsInv
  <2> QED
      BY <1>11, <2>8, <2>14 DEF StreamsSafe
<1>13. CASE layers > 1
  <2>1. q \in Queues /\ Stacked(q0, q, layers)
      BY <1>0, <1>4, <1>13, LayersStacked DEF q
  <2>2. q["current"] = <<fill>>
      BY <1>5, <2>1 DEF Stacked
  <2>3. /\ queue'["current"] = <<fill, norm>> /\ queue' \in Queues
        /\ norm.kind = "norm" /\ norm.layer = layers' /\ norm.step = step'
        /\ norm.after = {[stream |-> last, count |-> ended[last] + Len(q[last])]}
        /\ \A s \in Sides : queue'[s] = q[s]
      BY <1>8, <2>1, <2>2
  <2>4. /\ Len(queue'["current"]) = 2 /\ queue'["current"][1] = fill /\ queue'["current"][2] = norm
        /\ queue'["current"] # <<>>
      BY <2>3
  <2>5. last = LastSide' /\ last \in Sides
      BY <1>0, <1>13, ShareFacts, SideFacts DEF last, LastSide, StreamOf, Overlapped
  <2>6. MainInv'
    <3>1. NormIs(queue["current"][Len(queue["current"])])'
        BY <2>3, <2>4 DEF NormIs
    <3>2. norm.after = {[stream |-> LastSide', count |-> ended'[LastSide'] + Len(queue'[LastSide'])]}
        BY <1>0, <2>3, <2>5
    <3> QED
        BY <1>6, <2>4, <3>1, <3>2 DEF MainInv
  <2>7. ASSUME NEW s \in Sides PROVE Len(queue'[s]) = Share(s)' /\ Past(s)' = 0 /\ Share(s)' \in Nat
    <3>1. Share(s)' = (layers + Lag(s)) \div 2 /\ Share(s) = (layers + Lag(s)) \div 2
        BY <1>0 DEF Share, Lag
    <3>2. Len(queue'[s]) = (layers + Lag(s)) \div 2
        BY <2>1, <2>3 DEF Stacked
    <3>3. Share(s) \in Nat
        BY <1>0, ShareFacts, SideFacts
    <3> QED
        BY <3>1, <3>2, <3>3 DEF Past
  <2>8. InFlight'
      BY <2>4 DEF InFlight
  <2>9. ASSUME NEW s \in Sides PROVE SideInv(s)'
    <3>1. ASSUME NEW k \in 1..Len(queue'[s]) PROVE queue'[s][k] = LayerOp(s, k)'
      <4>1. queue'[s][k] = Op("layer", LayerAt(s, k),
                              {[stream |-> Other(s), count |-> ended[Other(s)] + k - Lag(s)]})
          BY <2>1, <2>3 DEF Stacked
      <4>2. LayerOp(s, k)' =
              [kind |-> "layer", layer |-> LayerAt(s, Past(s)' + k), step |-> step',
               after |-> {[stream |-> Other(s),
                           count |-> ended'[Other(s)] - Past(Other(s))' + Past(s)' + k - Lag(s)]}]
          BY DEF LayerOp, LayerAt, Lag, Other
      <4>3. Past(s)' = 0 /\ Past(Other(s))' = 0
          BY <2>7, SideFacts
      <4>4. Len(queue'[s]) \in Nat /\ k \in Nat
          BY <2>7
      <4>5. ended[Other(s)] \in Nat /\ Lag(s) \in Int
          BY <1>0, SideFacts
      <4>6. /\ Past(s)' + k = k
            /\ ended'[Other(s)] - Past(Other(s))' + Past(s)' + k - Lag(s) = ended[Other(s)] + k - Lag(s)
        <5>1. \A a, l \in Int : a - 0 + 0 + k - l = a + k - l
            BY <4>4
        <5> QED
            BY <1>0, <4>3, <4>4, <4>5, <5>1
      <4> QED
          BY <1>0, <4>1, <4>2, <4>6 DEF Op
    <3>2. ~ started'[s] /\ Len(queue'[s]) <= Share(s)'
        BY <1>0, <1>2, <2>7, SideFacts
    <3> QED
        BY <2>8, <3>1, <3>2 DEF SideInv
  <2>10. Past("side0")' = 0 /\ Past("side1")' = 0
      BY <2>7, SideFacts
  <2>11. MadeSoFar'
      BY <2>10 DEF MadeSoFar
  <2>12. TwoStreams'
      BY <1>10, <2>6, <2>8, <2>9, <2>10, <2>11 DEF TwoStreams
  <2>13. ~ (layers' = 1)
      BY <1>0, <1>13
  <2>14. StreamsInv'
      BY <1>9, <1>10, <2>8, <2>12, <2>13 DEF StreamsInv
  <2> QED
      BY <1>11, <2>3, <2>14 DEF StreamsSafe
<1>14. layers = 1 \/ layers > 1
    BY <1>0
<1> QED
    BY <1>12, <1>13, <1>14

\* Whatever a step of host or device does, the invariant stays.
LEMMA StreamsStep == StreamsSafe /\ [StreamsNext]_streamVars => StreamsSafe'
<1> SUFFICES ASSUME StreamsSafe, [StreamsNext]_streamVars PROVE StreamsSafe'
    OBVIOUS
<1>1. ASSUME NEW n \in LayerCounts, CaptureLayers(n) PROVE StreamsSafe'
    BY <1>1, CaptureLayersKeeps
<1>2. CASE EnqueueStep
    BY <1>2, EnqueueKeeps
<1>3. CASE SkipEmptyStep
    BY <1>3, SkipKeeps
<1>4. ASSUME NEW s \in Streams, Launch(s) PROVE StreamsSafe'
    BY <1>4, LaunchKeeps
<1>5. ASSUME NEW s \in Streams, End(s) PROVE StreamsSafe'
    BY <1>5, EndKeeps
<1>6. CASE UNCHANGED streamVars
  <2>0. /\ layers' = layers /\ step' = step /\ queue' = queue /\ started' = started /\ saw' = saw
        /\ ended' = ended /\ buffers' = buffers /\ result' = result
        /\ StreamsTypeOK /\ StreamsInv
      BY <1>6 DEF streamVars, StreamsSafe
  <2>1. StreamsTypeOK'
      BY <2>0 DEF StreamsTypeOK
  <2>2. /\ (InFlight <=> InFlight') /\ (AtNorm <=> AtNorm') /\ LastSide' = LastSide
        /\ Past("side0")' = Past("side0") /\ Past("side1")' = Past("side1")
      BY <2>0 DEF InFlight, AtNorm, LastSide, StreamOf, Overlapped, Past, Share, Lag
  <2>3. OneStream => OneStream'
      BY <2>0, <2>2 DEF OneStream, NormIs, FillOp
  <2>4. ASSUME TwoStreams PROVE TwoStreams'
    <3>1. ASSUME NEW t \in Sides PROVE SideInv(t)'
      <4>1. Share(t)' = Share(t) /\ \A k \in 1..Len(queue[t]) : LayerOp(t, k)' = LayerOp(t, k)
          BY <2>0 DEF LayerOp, Share, Past
      <4>2. SideInv(t)
          BY <2>4 DEF TwoStreams
      <4> QED
          BY <2>0, <2>2, <4>1, <4>2 DEF SideInv
    <3>2. MainInv => MainInv'
        BY <2>0, <2>2 DEF MainInv, NormIs, FillOp
    <3>3. MadeSoFar => MadeSoFar'
        BY <2>0, <2>2 DEF MadeSoFar
    <3> QED
        BY <2>0, <2>2, <2>4, <3>1, <3>2, <3>3 DEF TwoStreams
  <2>5. StreamsInv'
      BY <2>0, <2>2, <2>3, <2>4 DEF StreamsInv
  <2> QED
      BY <2>1, <2>5 DEF StreamsSafe
<1> QED
    BY <1>1, <1>2, <1>3, <1>4, <1>5, <1>6 DEF StreamsNext

\* The invariant says what the property says.
LEMMA SafeInOrder == StreamsSafe => LayersInOrder
<1> SUFFICES ASSUME StreamsSafe PROVE LayersInOrder
    OBVIOUS
<1>0. StreamsTypeOK /\ StreamsInv /\ layers \in Nat
    BY DEF StreamsSafe, StreamsTypeOK
<1>1. \A n \in DOMAIN result : result[n] \in {n, NoLogits}
    BY <1>0 DEF StreamsInv
<1>2. CASE layers = 0
  <2>1. Running = {}
      BY <1>0, <1>2 DEF StreamsInv, Running
  <2> QED
      BY <1>1, <2>1, FS_EmptySet DEF LayersInOrder
<1>3. CASE layers = 1
  <2>1. OneStream
      BY <1>0, <1>3 DEF StreamsInv
  <2>2. Running \subseteq {"current"}
      BY <2>1 DEF Running, OneStream, Streams, Sides
  <2>3. Cardinality(Running) <= 1
    <3>1. Running = {} \/ Running = {"current"}
        BY <2>2
    <3> QED
        BY <3>1, FS_EmptySet, FS_Singleton
  <2>4. ASSUME NEW s \in Running PROVE ~ (Head(queue[s]).layer > 1)
    <3>1. s = "current" /\ started["current"] /\ Head(queue["current"]).kind = "layer"
        BY <2>2 DEF Running
    <3>2. queue["current"] # <<>>
        BY <1>0, <3>1 DEF StreamsInv, InFlight
    <3>3. Len(queue["current"]) \in 1..3
        BY <1>0, <1>3, <2>1, <3>2, OneHead
    <3>4. Len(queue["current"]) = 1 => Head(queue["current"]).kind = "norm"
        BY <1>0, <1>3, <2>1, <3>2, OneHead DEF NormIs
    <3>5. Len(queue["current"]) = 3 => Head(queue["current"]) = FillOp
        BY <1>0, <1>3, <2>1, <3>2, OneHead
    <3>6. Len(queue["current"]) = 2 => Head(queue["current"]).layer = 1
        BY <1>0, <1>3, <2>1, <3>2, OneHead
    <3>7. FillOp.kind = "fill"
        BY DEF FillOp
    <3>8. \A n \in 1..3 : n = 1 \/ n = 2 \/ n = 3
        OBVIOUS
    <3>9. Head(queue["current"]).layer = 1
        BY <3>1, <3>3, <3>4, <3>5, <3>6, <3>7, <3>8
    <3> QED
        BY <3>1, <3>9
  <2> QED
      BY <1>1, <2>3, <2>4 DEF LayersInOrder
<1>4. CASE layers > 1
  <2>1. TwoStreams
      BY <1>0, <1>4 DEF StreamsInv
  <2>2. "current" \notin Running
    <3> SUFFICES ASSUME "current" \in Running PROVE FALSE
        OBVIOUS
    <3>1. started["current"] /\ Head(queue["current"]).kind = "layer" /\ queue["current"] # <<>>
        BY <1>0 DEF Running, StreamsInv, InFlight
    <3>2. Len(queue["current"]) \in 1..2
        BY <1>0, <1>4, <2>1, <3>1, MainHead
    <3>3. Len(queue["current"]) = 1 => Head(queue["current"]).kind = "norm"
        BY <1>0, <1>4, <2>1, <3>1, MainHead DEF NormIs
    <3>4. Len(queue["current"]) = 2 => Head(queue["current"]) = FillOp
        BY <1>0, <1>4, <2>1, <3>1, MainHead
    <3>5. FillOp.kind = "fill"
        BY DEF FillOp
    <3>6. \A n \in 1..2 : n = 1 \/ n = 2
        OBVIOUS
    <3> QED
        BY <3>1, <3>2, <3>3, <3>4, <3>5, <3>6
  <2>3. Running \subseteq Sides
      BY <2>2 DEF Running, Streams, Sides
  <2>4. \A s \in Running : started[s] /\ SideInv(s)
      BY <2>1, <2>3 DEF Running, TwoStreams
  <2>5. ~ ("side0" \in Running /\ "side1" \in Running)
    <3>1. "side0" \in Running => Past("side0") = Past("side1") + 1 - 1
        BY <2>4, SideFacts DEF SideInv
    <3>2. "side1" \in Running => Past("side0") = Past("side1") + 1 - 0
        BY <2>4, SideFacts DEF SideInv
    <3>3. Past("side1") \in Nat
      <4>1. Past("side1") \in 0..Share("side1")
          BY <1>0, <1>4, <2>1, SideHead, SideFacts
      <4> QED
          BY <1>0, <4>1, ShareFacts
    <3> QED
        BY <3>1, <3>2, <3>3
  <2>6. Running = {} \/ Running = {"side0"} \/ Running = {"side1"}
      BY <2>3, <2>5, SideFacts
  <2>7. Cardinality(Running) <= 1
    <3>1. Cardinality({}) = 0 /\ Cardinality({"side0"}) = 1 /\ Cardinality({"side1"}) = 1
        BY FS_EmptySet, FS_Singleton
    <3> QED
        BY <2>6, <3>1
  <2>8. ASSUME NEW s \in Running, Head(queue[s]).layer > 1
        PROVE  saw[s] = Head(queue[s]).step
    <3>1. saw[s] = step /\ queue[s] # <<>>
        BY <2>4, <2>8 DEF SideInv
    <3>2. Head(queue[s]) = LayerOp(s, 1)
        BY <1>0, <1>4, <2>1, <2>3, <3>1, SideHead
    <3> QED
        BY <3>1, <3>2 DEF LayerOp
  <2> QED
      BY <1>1, <2>7, <2>8 DEF LayersInOrder
<1> QED
    BY <1>0, <1>2, <1>3, <1>4

\* (LayersInOrder)  However the streams interleave, the layers of a step run
\* one after another and in order, for any number of layers.
THEOREM ReplayInOrder == StreamsSpec => []LayersInOrder
<1>1. StreamsInit => StreamsSafe
    BY StreamsStart
<1>2. StreamsSafe /\ [StreamsNext]_streamVars => StreamsSafe'
    BY StreamsStep
<1>3. StreamsSafe => LayersInOrder
    BY SafeInOrder
<1> QED
    BY <1>1, <1>2, <1>3, PTL DEF StreamsSpec
=============================================================================
