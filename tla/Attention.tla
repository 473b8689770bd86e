----------------------------- MODULE Attention -----------------------------
(***************************************************************************)
(* What a softmax layer attends to (layers/gqa_attention.py, and            *)
(* layers/gated_gqa_attention.py, which differs by an output gate).  The     *)
(* same query can be computed by six paths: a dense, chunked or packed       *)
(* prefill, a decode step, a verify step, each on a full or on a             *)
(* sliding-window layer, some from the tensors in hand and some from the     *)
(* paged store through three computations of a cell's address.               *)
(*                                                                           *)
(* The K/V of a position depends on the tokens up to it, so it is modelled   *)
(* by them: a query of a text is right when it attends the text's own        *)
(* prefixes, in order, up to itself.                                         *)
(***************************************************************************)
EXTENDS Integers, Sequences, SequencesExt, FiniteSets, FiniteSetsExt

CONSTANTS
  Lanes,       \* slots, 1..n
  NumPages,    \* num_blocks; block 0 is a block like the others
  PageSize,    \* block_size
  Asked,       \* the prompts
  Words,       \* the tokens
  Says,        \* the model: its next token after n tokens of text
  ChunkTokens, \* _chunk_size
  DraftWidths, \* drafts of a verify step
  LayerKinds,  \* [window, bf16, packs]: window_left (0: a full layer), whether
               \* the stream is bf16, whether packed prefill is safe
  MaxText2,    \* bound on a text's tokens
  MaxAsked     \* bound on the requests

ASSUME AttentionAssumption ==
  /\ Lanes = 1..Cardinality(Lanes) /\ NumPages \in Nat \ {0} /\ PageSize \in Nat \ {0}
  /\ Asked \subseteq Seq(Words) \ {<<>>} /\ ChunkTokens \in Nat \ {0}
  /\ DraftWidths \subseteq Nat \ {0} /\ MaxText2 \in Nat /\ MaxAsked \in Nat
  /\ Says \in [1..MaxText2 -> Words]

VARIABLES
  layer,   \* the layer's kind
  text,    \* slot -> its tokens, the last of them not yet fed; <<>> when idle
  filled,  \* slot -> positions whose K/V the cache holds
  waiting, \* slots admitted and not yet prefilled
  skip,    \* slot -> prefix_matched_len
  tables,  \* _slot_blocks
  free,    \* _free_blocks
  store2,  \* [page, offset] -> the K/V last written there, <<>> at first
  seen,    \* the last pass: what each query is, and the K/V it attended
  askedSoFar \* requests admitted

attnVars == <<layer, text, filled, waiting, skip, tables, free, store2, seen,
             askedSoFar>>

Cells == (0..NumPages - 1) \X (0..PageSize - 1)

NoLayer == [window |-> 0, bf16 |-> FALSE, packs |-> FALSE]

AttnInit ==
  /\ layer = NoLayer
  /\ text = [s \in Lanes |-> <<>>] /\ filled = [s \in Lanes |-> 0] /\ waiting = {}
  /\ skip = [s \in Lanes |-> 0] /\ tables = [s \in Lanes |-> <<>>]
  /\ free = [i \in 1..NumPages |-> i - 1]
  /\ store2 = [c \in Cells |-> <<>>] /\ seen = {} /\ askedSoFar = 0

Served == {s \in Lanes : text[s] # <<>>} \ waiting

\* The text and the model's next token.
Said(t) == Append(t, Says[Len(t)])

\* The K/V of position p (from 0) of a text, and of its first n positions.
KV(t, p) == SubSeq(t, 1, p + 1)
Past(t, n) == [i \in 1..n |-> KV(t, i - 1)]

-----------------------------------------------------------------------------
(* The paged store *)

PagesFor(n) == (n + PageSize - 1) \div PageSize

\* ensure_capacity: pages popped from the end of the free list, slot by slot.
\* len gives the positions each slot needs.
Missing(len, s) == Max({0, PagesFor(len[s]) - Len(tables[s])})
Taken(len, S) == MapThenSumSet(LAMBDA s : Missing(len, s), S)
Fits2(len) == Taken(len, DOMAIN len) <= Len(free)
Extended(len) ==
  [s \in Lanes |->
     IF s \notin DOMAIN len THEN tables[s]
     ELSE LET used == Taken(len, {r \in DOMAIN len : r < s})
          IN  tables[s] \o [i \in 1..Missing(len, s) |-> free[Len(free) - used - i + 1]]]
Shrunk(len) == SubSeq(free, 1, Len(free) - Taken(len, DOMAIN len))

\* slot_mapping and write_prefill's own: the cell of a position.
CellOf(table, p) == <<table[p \div PageSize + 1], p % PageSize>>

\* quantize_kv_write_paged: writes is a set of [cell, kv], no cell twice.
Written(cells, writes) ==
  [c \in Cells |-> IF \E w \in writes : w.cell = c
                   THEN (CHOOSE w \in writes : w.cell = c).kv ELSE cells[c]]
WritesOf(table, own, ps) == {[cell |-> CellOf(table, p), kv |-> KV(own, p)] : p \in ps}

\* attn_paged_decode_cached: a row of the block table, padded with page 0, read
\* as far as context_lens.
BlockTable(table) ==
  [i \in 1..NumPages |-> IF i <= Len(table) THEN table[i] ELSE 0]
ReadPaged(cells, table, n) == [i \in 1..n |-> cells[CellOf(BlockTable(table), i - 1)]]

\* read_dense: the last window positions, or all of them (window 0).
ReadDense(cells, table, n, window) ==
  LET start == IF window = 0 THEN 0 ELSE Max({0, n - window})
  IN  [i \in 1..n - start |-> cells[CellOf(table, start + i - 1)]]

-----------------------------------------------------------------------------
(* The dense kernel *)

\* attn_int8_fwd, causal: the last n keys are the queries' own (a rectangular
\* mask is aligned bottom-right), query q of them sees the keys up to its own,
\* window_left of them besides it.
Fwd(keys, n, q, window) ==
  LET own == Len(keys) - n + q
  IN  SubSeq(keys, IF window = 0 THEN 1 ELSE Max({1, own - window}), own)

\* The query of position p of a text attended these keys.
Query(own, p, keys) == [own |-> SubSeq(own, 1, p + 1), keys |-> keys]

-----------------------------------------------------------------------------
(* Admission *)

\* The model is built.
Build(kind) ==
  /\ layer = NoLayer /\ askedSoFar = 0 /\ layer' = kind
  /\ UNCHANGED <<text, filled, waiting, skip, tables, free, store2, seen, askedSoFar>>

\* A prompt's leading blocks may be those of a slot that holds the same tokens.
Shareable(prompt, d) ==
  {m \in 1..Len(prompt) : /\ m % PageSize = 0 /\ m <= filled[d]
                          /\ SubSeq(text[d], 1, m) = SubSeq(prompt, 1, m)}

AdmitPrompt(s, prompt) ==
  /\ text[s] = <<>>
  /\ askedSoFar < MaxAsked /\ askedSoFar' = askedSoFar + 1
  /\ \A r \in waiting : filled[r] = 0
  /\ \E d \in Served \cup {s}, m \in 0..Len(prompt) :
       /\ IF d = s THEN m = 0 ELSE m \in Shareable(prompt, d)
       /\ skip' = [skip EXCEPT ![s] = m]
       /\ tables' = [tables EXCEPT ![s] = SubSeq(tables[d], 1, m \div PageSize)]
  /\ text' = [text EXCEPT ![s] = prompt]
  /\ waiting' = waiting \cup {s}
  /\ seen' = {}
  /\ UNCHANGED <<layer, filled, free, store2>>

-----------------------------------------------------------------------------
(* Prefill *)

\* The prompt is in the cache and the first token sampled.
Prefilled(S) ==
  /\ text' = [s \in Lanes |-> IF s \in S THEN Said(text[s]) ELSE text[s]]
  /\ filled' = [s \in Lanes |-> IF s \in S THEN Len(text[s]) ELSE filled[s]]
  /\ waiting' = waiting \ S

\* One prompt in one pass: what is shared is computed again and not written.
PrefillDense(s) ==
  LET own == text[s]  n == Len(own)  len == [r \in {s} |-> n]
  IN  /\ s \in waiting /\ n <= ChunkTokens
      /\ layer.packs => waiting = {s}
      /\ Fits2(len) /\ tables' = Extended(len) /\ free' = Shrunk(len)
      /\ store2' = Written(store2, WritesOf(tables'[s], own, skip[s]..n - 1))
      /\ seen' = {Query(own, q - 1, Fwd(Past(own, n), n, q, layer.window)) : q \in 1..n}
      /\ Prefilled({s})
      /\ UNCHANGED <<layer, skip, askedSoFar>>

\* A chunk: its queries attend the whole of what the cache now holds.
PrefillChunk(s) ==
  LET own == text[s]  from == filled[s]  to == Min({from + ChunkTokens, Len(own)})
      len == [r \in {s} |-> Len(own)]
  IN  /\ s \in waiting /\ Len(own) > ChunkTokens
      /\ layer.packs => waiting = {s}
      /\ \A r \in waiting \ {s} : filled[r] = 0
      /\ Fits2(len) /\ tables' = Extended(len) /\ free' = Shrunk(len)
      /\ store2' = Written(store2, WritesOf(tables'[s], own,
                                            Max({from, skip[s]})..to - 1))
      /\ LET n == to - from
             keys == IF to > n THEN ReadDense(store2', tables'[s], to, 0)
                               ELSE Past(own, n)
         IN  seen' = {Query(own, from + q - 1, Fwd(keys, n, q, layer.window)) : q \in 1..n}
      /\ IF to = Len(own) THEN Prefilled({s})
         ELSE filled' = [filled EXCEPT ![s] = to] /\ UNCHANGED <<text, waiting>>
      /\ UNCHANGED <<layer, skip, askedSoFar>>

\* Several prompts in one pass, their tokens end to end; the kernel masks by
\* cu_seqlens.  It is given no window, but a bf16 stream is run prompt by prompt
\* by the dense kernel, which is.
PackedWindow == IF layer.bf16 THEN layer.window ELSE 0

PrefillPacked ==
  LET order == SetToSortSeq(waiting, <)
      cu == [i \in 0..Len(order) |->
               MapThenSumSet(LAMBDA j : Len(text[order[j]]), 1..i)]
      packed == FlattenSeq([i \in 1..Len(order) |-> Past(text[order[i]], Len(text[order[i]]))])
      len == [s \in waiting |-> Len(text[s])]
  IN  /\ Cardinality(waiting) > 1 /\ layer.packs
      /\ Fits2(len) /\ tables' = Extended(len) /\ free' = Shrunk(len)
      /\ store2' = Written(store2, UNION {WritesOf(tables'[s], text[s], 0..Len(text[s]) - 1)
                                          : s \in waiting})
      /\ seen' = UNION {LET n == cu[i] - cu[i - 1]
                        IN  {Query(text[order[i]], q - 1,
                                   Fwd(SubSeq(packed, cu[i - 1] + 1, cu[i]), n, q, PackedWindow))
                               : q \in 1..n} : i \in 1..Len(order)}
      /\ Prefilled(waiting)
      /\ UNCHANGED <<layer, skip, askedSoFar>>

-----------------------------------------------------------------------------
(* Decode and verify *)

\* The running rows' newest tokens, each at its row's length.
DecodePass ==
  LET len == [s \in Served |-> filled[s] + 1]
  IN  /\ waiting = {} /\ Served # {}
      /\ \A s \in Served : Len(text[s]) < MaxText2
      /\ Fits2(len) /\ tables' = Extended(len) /\ free' = Shrunk(len)
      /\ store2' = Written(store2, UNION {WritesOf(tables'[s], text[s], {filled[s]})
                                          : s \in Served})
      /\ seen' = {Query(text[s], filled[s],
                        IF layer.window = 0 THEN ReadPaged(store2', tables'[s], len[s])
                        ELSE ReadDense(store2', tables'[s], len[s], layer.window))
                    : s \in Served}
      /\ text' = [s \in Lanes |-> IF s \in Served THEN Said(text[s]) ELSE text[s]]
      /\ filled' = [s \in Lanes |-> IF s \in Served THEN len[s] ELSE filled[s]]
      /\ UNCHANGED <<layer, waiting, skip, askedSoFar>>

\* Mutant: the context stops before the verified token.
VerifyContextShort(n, i) == n + i

\* The context of verified token i (from 0) over n cached positions.
VerifyContext(n, i) == n + i + 1

\* Every row's newest token and its k drafts in one pass, written and attended
\* one after the other on a full layer; on a sliding one the window cached
\* before, and all of the step's own K/V under a causal mask.  Then the drafts
\* up to the first wrong one are kept and the model's own token follows.
VerifyPass(k, drafts) ==
  LET own == [s \in Served |-> text[s] \o drafts[s]]
      len == [s \in Served |-> filled[s] + 1 + k]
      written(i) == Written(store2, UNION {WritesOf(tables'[s], own[s], filled[s]..filled[s] + i)
                                           : s \in Served})
      keys(s, i) ==
        IF layer.window = 0
        THEN ReadPaged(written(i), tables'[s], VerifyContext(filled[s], i))
        ELSE LET fresh == SubSeq(Past(own[s], len[s]), filled[s] + 1, len[s])
             IN  Fwd(ReadDense(store2', tables'[s], filled[s], layer.window) \o fresh,
                     1 + k, i + 1, 0)
      kept == [s \in Served |->
                 Max({n \in 0..k : \A j \in 1..n : drafts[s][j] = Says[Len(text[s]) + j - 1]})]
  IN  /\ waiting = {} /\ Served # {}
      /\ \A s \in Served : Len(own[s]) < MaxText2
      /\ Fits2(len) /\ tables' = Extended(len) /\ free' = Shrunk(len)
      /\ store2' = written(k)
      /\ seen' = {Query(own[s], filled[s] + i, keys(s, i)) : s \in Served, i \in 0..k}
      /\ text' = [s \in Lanes |-> IF s \in Served
                                  THEN Said(text[s] \o SubSeq(drafts[s], 1, kept[s]))
                                  ELSE text[s]]
      /\ filled' = [s \in Lanes |-> IF s \in Served THEN filled[s] + 1 + kept[s]
                                    ELSE filled[s]]
      /\ UNCHANGED <<layer, waiting, skip, askedSoFar>>

-----------------------------------------------------------------------------
(* The end of a request *)

\* free_slot: pages no other slot holds go back.
ReleaseSlot(s) ==
  /\ s \in Served
  /\ LET held == UNION {ToSet(tables[r]) : r \in Lanes \ {s}}
     IN  free' = free \o SelectSeq(tables[s], LAMBDA b : b \notin held)
  /\ tables' = [tables EXCEPT ![s] = <<>>]
  /\ text' = [text EXCEPT ![s] = <<>>] /\ filled' = [filled EXCEPT ![s] = 0]
  /\ skip' = [skip EXCEPT ![s] = 0] /\ seen' = {}
  /\ UNCHANGED <<layer, waiting, store2, askedSoFar>>

AttnNext ==
  \/ \E kind \in LayerKinds : Build(kind)
  \/ \E s \in Lanes, prompt \in Asked : AdmitPrompt(s, prompt)
  \/ \E s \in Lanes : PrefillDense(s) \/ PrefillChunk(s)
  \/ PrefillPacked
  \/ DecodePass
  \/ \E k \in DraftWidths : \E drafts \in [Served -> [1..k -> Words]] : VerifyPass(k, drafts)
  \/ \E s \in Lanes : ReleaseSlot(s)

AttnSpec == AttnInit /\ [][AttnNext]_attnVars

-----------------------------------------------------------------------------
(* Properties *)

\* Whatever the path, a query attends its own text only: on a full layer all of
\* it up to itself, on a sliding layer an unbroken run of it that ends with
\* itself and is at least as long as the window.  (A page is reused with what a
\* former request or a rejected draft left in it, a padded table reads page 0,
\* and six computations have to stop at the same place.)
AttendsOwnPast ==
  \A q \in seen :
    LET n == Len(q.own)
    IN  IF layer.window = 0 THEN q.keys = Past(q.own, n)
        ELSE /\ IsSuffix(q.keys, Past(q.own, n))
             /\ Len(q.keys) >= Min({layer.window, n})

\* On a sliding layer no query attends more than window_left positions besides
\* its own.
WindowHolds ==
  layer.window # 0 => \A q \in seen : Len(q.keys) <= layer.window + 1
=============================================================================
