--------------------------- MODULE RecurrentLayers ---------------------------
(***************************************************************************)
(* The recurrent mixers of layers/linear_attn.py and models/minimax.py over *)
(* the per-slot cache of models/cache.py: the gated delta net ("delta": a   *)
(* causal convolution, then a recurrence), LFM2's short convolution         *)
(* ("short") and MiniMax's lightning attention ("lightning": a recurrence   *)
(* alone).  A convolution's output stands for the window of inputs it saw,  *)
(* a recurrent state for the sequence of values it absorbed: two results    *)
(* are the same exactly when they were made from the same inputs.           *)
(***************************************************************************)
EXTENDS Integers, Sequences, SequencesExt, FiniteSets

CONSTANTS
  Kernel,       \* conv_kernel, the width of a window
  CacheSlots,   \* slots of the recurrent cache
  Chunks,       \* chunked_prefill_size of the prefills
  MaxText,      \* bound on the tokens of a sequence
  MaxVerify     \* bound on the tokens of a verify forward

ASSUME RecurrentAssumption ==
  /\ Kernel \in Nat \ {0} /\ MaxText \in Nat /\ MaxVerify \in Nat
  /\ Chunks \subseteq Nat \ {0}

VARIABLES
  mixer,    \* the kind of layer
  held,     \* slots that sequences hold
  tenant,   \* which of two holders a slot has or had
  length,   \* tokens of the holder that went through the layer
  tail,     \* _conv_tail: the last inputs; zeros stand for an absent row
  memory,   \* _state: what the recurrence absorbed
  shown     \* the last forward: what each row was and what it returned

recurrentVars == <<mixer, held, tenant, length, tail, memory, shown>>

-----------------------------------------------------------------------------
(* One layer over one row *)

Zeros(n) == [i \in 1..n |-> <<0, 0, 0>>]
Width(kind) == IF kind = "lightning" THEN 1 ELSE Kernel
Ending(s, n) == SubSeq(s, Len(s) - n + 1, Len(s))

\* _conv: the window of every input, after the tail of the call before.
Windows(kind, before, x) ==
  LET xt == before \o x IN [t \in DOMAIN x |-> SubSeq(xt, t, t + Width(kind) - 1)]

NewTail(kind, before, x) == Ending(before \o x, Width(kind) - 1)

\* Mutant: the window that ends before the token.
TailAfterEarly(kind, before, x, t) == SubSeq(before \o x, t, t + Width(kind) - 2)

\* tail_traj: the tail after token t alone.
TailAfter(kind, before, x, t) == SubSeq(before \o x, t + 1, t + Width(kind) - 1)

\* What the recurrence absorbs and reads out; the short convolution has none.
Absorbed(kind, s, windows) == IF kind = "short" THEN s ELSE s \o windows

Readout(kind, s, windows) ==
  [t \in DOMAIN windows |->
     IF kind = "short" THEN windows[t] ELSE s \o SubSeq(windows, 1, t)]

\* _run, ShortConv.forward and LightningAttention.forward over one row's record.
Forwarded(kind, row, x) ==
  LET windows == Windows(kind, row.tail, x)
  IN  [tail   |-> NewTail(kind, row.tail, x),
       memory |-> Absorbed(kind, row.memory, windows),
       out    |-> row.out \o Readout(kind, row.memory, windows)]

\* The verify forward.  The delta net takes its tokens one by one and copies the
\* row after each; the short convolution takes them at once and cuts the tails.
Trajectory(kind, row, x) ==
  IF kind = "delta"
    THEN [t \in DOMAIN x |->
            FoldLeft(LAMBDA r, token : Forwarded(kind, r, <<token>>), row, SubSeq(x, 1, t))]
    ELSE LET whole == Forwarded(kind, row, x)
         IN  [t \in DOMAIN x |-> [whole EXCEPT !.tail = TailAfter(kind, row.tail, x, t)]]

-----------------------------------------------------------------------------
(* _short_conv_segmented: one convolution over several prompts *)

\* cu_seqlens: where the i-th prompt begins, from 0.
Cu(prompts, i) == FoldLeft(LAMBDA n, p : n + Len(p), 0, SubSeq(prompts, 1, i - 1))

\* dst: the place in the stream of token j of prompt i, both from 1.
Placed(prompts, i, j) == Cu(prompts, i) + j + i * (Kernel - 1)

\* The prompts with Kernel - 1 zeros before each and after the last.
Stream(prompts) ==
  FoldLeft(LAMBDA s, p : s \o p \o Zeros(Kernel - 1), Zeros(Kernel - 1), prompts)

PackedOut(prompts, i) ==
  [j \in DOMAIN prompts[i] |->
     SubSeq(Stream(prompts), Placed(prompts, i, j) - Kernel + 1, Placed(prompts, i, j))]

\* tails: the Kernel - 1 places up to the prompt's last token.
PackedTail(prompts, i) ==
  LET end == Placed(prompts, i, Len(prompts[i]))
  IN  SubSeq(Stream(prompts), end - Kernel + 2, end)

-----------------------------------------------------------------------------
(* The slots *)

\* The tokens of a slot's holder; a rejected draft is its negative.
Tok(s, p) == <<s, tenant[s], p>>
Text(s, n) == [p \in 1..n |-> Tok(s, p)]
Drafted(s, n, good) ==
  [i \in 1..n |-> Tok(s, IF i <= good THEN length[s] + i ELSE - (length[s] + i))]

Row(s) == [tail |-> tail[s], memory |-> memory[s], out |-> <<>>]

\* clear_slot
Cleared(s) == [tail |-> Zeros(Width(mixer) - 1), memory |-> <<>>, out |-> <<>>]

\* The rows of some slots are written back and what they returned is shown.
Scatter(rows, inputs) ==
  /\ tail' = [s \in CacheSlots |-> IF s \in DOMAIN rows THEN rows[s].tail ELSE tail[s]]
  /\ memory' = [s \in CacheSlots |-> IF s \in DOMAIN rows THEN rows[s].memory ELSE memory[s]]
  /\ shown' = [s \in DOMAIN rows |-> [text |-> inputs[s], out |-> rows[s].out]]

RecurrentInit ==
  /\ mixer = "none" /\ held = {}
  /\ tenant = [s \in CacheSlots |-> 0] /\ length = [s \in CacheSlots |-> 0]
  /\ tail = [s \in CacheSlots |-> <<>>] /\ memory = [s \in CacheSlots |-> <<>>]
  /\ shown = <<>>

ChooseMixer(kind) ==
  /\ mixer = "none"
  /\ mixer' = kind
  /\ tail' = [s \in CacheSlots |-> Zeros(Width(kind) - 1)]
  /\ UNCHANGED <<held, tenant, length, memory, shown>>

\* The slot's next holder has other tokens.
Admit(slots, n) ==
  /\ slots \cap held = {}
  /\ held' = held \cup slots
  /\ tenant' = [s \in CacheSlots |-> IF s \in slots THEN 1 - tenant[s] ELSE tenant[s]]
  /\ length' = [s \in CacheSlots |-> IF s \in slots THEN n[s] ELSE length[s]]

\* prefill of one sequence: its row is cleared, then the prompt runs through in
\* chunks; a chunk size of at least n stands for the unchunked path.
Prefill(s, n, chunk) ==
  /\ mixer # "none"
  /\ Admit({s}, [t \in {s} |-> n])
  /\ LET prompt == [p \in 1..n |-> <<s, tenant'[s], p>>]
         starts == [i \in 1..((n + chunk - 1) \div chunk) |-> (i - 1) * chunk]
         piece(a) == SubSeq(prompt, a + 1, IF a + chunk < n THEN a + chunk ELSE n)
         row == FoldLeft(LAMBDA r, a : Forwarded(mixer, r, piece(a)), Cleared(s), starts)
     IN  Scatter([t \in {s} |-> row], [t \in {s} |-> prompt])
  /\ UNCHANGED mixer

\* _prefill_varlen: only when every recurrent layer is varlen_prefill_safe.
PackedPrefill(order, n) ==
  /\ mixer = "short"
  /\ Admit(ToSet(order), n)
  /\ LET prompts == [i \in DOMAIN order |-> [p \in 1..n[order[i]] |-> <<order[i], tenant'[order[i]], p>>]]
         at(s) == CHOOSE i \in DOMAIN order : order[i] = s
     IN  Scatter([s \in ToSet(order) |->
                    [tail |-> PackedTail(prompts, at(s)), memory |-> memory[s],
                     out |-> PackedOut(prompts, at(s))]],
                 [s \in ToSet(order) |-> prompts[at(s)]])
  /\ UNCHANGED mixer

\* decode: one token for every row bound.
DecodeRows(slots) ==
  /\ slots # {} /\ slots \subseteq held
  /\ \A s \in slots : length[s] < MaxText
  /\ length' = [s \in CacheSlots |-> length[s] + (IF s \in slots THEN 1 ELSE 0)]
  /\ Scatter([s \in slots |-> Forwarded(mixer, Row(s), <<Tok(s, length[s] + 1)>>)],
             [s \in slots |-> Text(s, length[s] + 1)])
  /\ UNCHANGED <<mixer, held, tenant>>

\* begin_verify_capture, the forward over n tokens and commit_verify; of each
\* row the first good tokens are accepted.
Verify(slots, n, good) ==
  /\ mixer \in {"delta", "short"}
  /\ slots # {} /\ slots \subseteq held
  /\ \A s \in slots : good[s] \in 1..n /\ length[s] + n <= MaxText
  /\ LET drafts == [s \in slots |-> Drafted(s, n, good[s])]
         ran(s) == Trajectory(mixer, Row(s), drafts[s])
     IN  Scatter([s \in slots |-> [ran(s)[good[s]] EXCEPT !.out = ran(s)[n].out]],
                 [s \in slots |-> Text(s, length[s]) \o drafts[s]])
  /\ length' = [s \in CacheSlots |-> length[s] + (IF s \in slots THEN good[s] ELSE 0)]
  /\ UNCHANGED <<mixer, held, tenant>>

\* The slot goes back to the scheduler; its rows stay as they are.
Release(s) ==
  /\ s \in held
  /\ held' = held \ {s}
  /\ UNCHANGED <<mixer, tenant, length, tail, memory, shown>>

RecurrentNext ==
  \/ \E kind \in {"delta", "short", "lightning"} : ChooseMixer(kind)
  \/ \E s \in CacheSlots :
       \/ \E n \in 1..MaxText, chunk \in Chunks : Prefill(s, n, chunk)
       \/ Release(s)
  \/ \E order \in SetToSeqs(CacheSlots) : \E n \in [CacheSlots -> 1..MaxText] :
       PackedPrefill(order, n)
  \/ \E slots \in SUBSET CacheSlots :
       \/ DecodeRows(slots)
       \/ \E n \in 1..MaxVerify : \E good \in [slots -> 1..n] : Verify(slots, n, good)

-----------------------------------------------------------------------------
(* Property *)

\* One pass over the whole text from an empty row.
Uncut(kind, x) ==
  Forwarded(kind, [tail |-> Zeros(Width(kind) - 1), memory |-> <<>>, out |-> <<>>], x)

\* However a text was cut into a packed or chunked prefill, decode steps and
\* verify forwards with rejected drafts, next to whatever other slots and in
\* whoever's former slot: a slot's tail and state, and everything the last
\* forward returned, are those of one pass over the text.
CutsDoNotShow ==
  mixer # "none" =>
    /\ \A s \in held :
         LET ref == Uncut(mixer, Text(s, length[s]))
         IN  tail[s] = ref.tail /\ memory[s] = ref.memory
    /\ \A s \in DOMAIN shown :
         shown[s].out = Ending(Uncut(mixer, shown[s].text).out, Len(shown[s].out))
=============================================================================
