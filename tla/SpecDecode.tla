------------------------------ MODULE SpecDecode ------------------------------
(***************************************************************************)
(* Speculative decoding as EngineRunner drives it                          *)
(* (engine/model_runner.py, decode and _spec_decode_eager), with the state *)
(* it keeps on a Sequence (the pipelined base token), in the KV cache, in  *)
(* the recurrent cache, in the draft head's cache and in the grammar       *)
(* matcher of a structured request (structured.py).                        *)
(*                                                                         *)
(* Positions are counted from the end of the original prompt: position i   *)
(* is the i-th generated token, and the prompt itself is never named.  The *)
(* main model is the function "greedy continuation of a context": given    *)
(* the right context it answers the next token of Greedy[r]; from a wrong  *)
(* context (a stale K/V position, a recurrent state or a matcher that is   *)
(* elsewhere) it may answer anything.  Drafts are arbitrary lists of at    *)
(* most SpecK tokens: whatever a drafter proposes, verification decides.   *)
(***************************************************************************)
EXTENDS Naturals, Sequences, SequencesExt, FiniteSets

CONSTANTS
    Seqs,           \* the requests; all of them greedy (temperature 0)
    Slots,          \* the KV slots
    Tokens,         \* the vocabulary
    Eos,            \* the end-of-sequence token
    NoToken,        \* None: no base token is carried, no slot is held
    Greedy,         \* Greedy[r]: what plain greedy decoding of r goes on to say
    MaxTokens,      \* MaxTokens[r]: the request's budget
    Window,         \* positions of the context window after the prompt
    TableLen,       \* positions a block table can name after the prompt
    SpecK,          \* _spec_k, the longest draft
    Recurrent,      \* whether the model has recurrent layers
    Constrained,    \* the requests that carry a grammar
    Language,       \* the token strings the grammar's matcher accepts
    CloseWithCarry, \* whether the gate may close while a base token is carried
    Unprimed,       \* whether a prefill may run the chunked or graphed path
    Preemptible     \* the requests block pressure may preempt (once each)

ASSUME SpecAssumption ==
    /\ Eos \in Tokens /\ NoToken \notin Tokens \cup Slots \cup Nat
    /\ Greedy \in [Seqs -> Seq(Tokens)]
    /\ MaxTokens \in [Seqs -> Nat \ {0}]
    /\ \A r \in Seqs : MaxTokens[r] <= Len(Greedy[r])
    /\ Window \in Nat \ {0} /\ TableLen \in Nat /\ Window <= TableLen
    /\ SpecK \in Nat \ {0}
    /\ {Recurrent, CloseWithCarry, Unprimed} \subseteq BOOLEAN
    /\ Constrained \subseteq Seqs /\ Preemptible \subseteq Seqs

\* What the masked model says of a structured request is legal until it ends.
ASSUME GrammarAssumption ==
    \A r \in Constrained : \A k \in 0..MaxTokens[r] :
        LET said == SubSeq(Greedy[r], 1, k)
        IN  Eos \notin Range(said) => said \in Language

VARIABLES
    status,     \* "waiting", "running" or "finished"
    slot,       \* the slot a running request holds
    out,        \* output_ids
    pre,        \* how many outputs a preemption folded into prompt_ids
    len,        \* Sequence.length: committed positions
    kv,         \* the token whose K/V each position of the request holds
    rec,        \* the tokens folded into the request's recurrent state
    carry,      \* spec_base_tok
    acc,        \* the tokens the request's grammar matcher has accepted
    seen,       \* the matcher's watermark _seen
    mtp,        \* the draft head's prefix per slot: whose it is, which tokens
    drafts,     \* the lists the drafters proposed in this step
    todo,       \* the rows of the batch this step has still to process
    phase       \* where the step stands

rowVars  == <<status, slot, pre>>
walkVars == <<acc, seen>>
vars == <<status, slot, out, pre, len, kv, rec, carry, acc, seen, mtp, drafts,
          todo, phase>>

Running == {r \in Seqs : status[r] = "running"}
Row     == CHOOSE r \in todo : TRUE

NoPrefix == [owner |-> NoToken, toks |-> <<>>]

(***************************************************************************)
(* all_token_ids without the original prompt: after a preemption prompt_ids*)
(* already holds the outputs generated before it.                          *)
(***************************************************************************)
AllIds(r, o) == SubSeq(out[r], 1, pre[r]) \o o

(* The watermark the matcher keeps once it has seen outputs o.             *)
WatermarkEarly(r, o) == pre[r] + Len(o) - 1
Watermark(r, o) == Len(AllIds(r, o))

(* Sequence.is_finished for outputs o.                                     *)
IsFinished(r, o) ==
    \/ Len(o) >= MaxTokens[r]
    \/ pre[r] + Len(o) >= Window
    \/ o # <<>> /\ Last(o) = Eos

(***************************************************************************)
(* K/V written from position i on, over whatever was there.                *)
(***************************************************************************)
Overwrite(s, i, ids) ==
    SubSeq(s, 1, i - 1) \o ids
        \o SubSeq(s, i + Len(ids), Len(s))

(***************************************************************************)
(* GrammarMatcher.accept_token, and a walk of it along a list of tokens:   *)
(* an illegal token leaves the matcher where it is.                        *)
(***************************************************************************)
Accept(m, x) == IF Append(m, x) \in Language THEN Append(m, x) ELSE m
Walk(m, toks) ==
    LET w[i \in 0..Len(toks)] == IF i = 0 THEN m ELSE Accept(w[i - 1], toks[i])
    IN  w[Len(toks)]

(***************************************************************************)
(* What the model, masked by the grammar, answers after the context ctx    *)
(* read from the KV cache, with recurrent state h and matcher at m.        *)
(***************************************************************************)
Pick(r, ctx, h, m) ==
    IF /\ IsStrictPrefix(ctx, Greedy[r])
       /\ Recurrent => h = ctx
       /\ r \in Constrained => m = ctx
    THEN {Greedy[r][Len(ctx) + 1]}
    ELSE Tokens

(***************************************************************************)
(* GrammarLogitsProcessor.__call__ and sync: the first call anchors the    *)
(* watermark, a later one accepts every token past it.                     *)
(***************************************************************************)
Synced(r, o) ==
    IF seen[r] = NoToken THEN acc[r]
    ELSE Walk(acc[r], SubSeq(AllIds(r, o), seen[r] + 1, Len(AllIds(r, o))))

-----------------------------------------------------------------------------
Init ==
    /\ status = [r \in Seqs |-> "waiting"]
    /\ slot   = [r \in Seqs |-> NoToken]
    /\ out    = [r \in Seqs |-> <<>>]
    /\ pre    = [r \in Seqs |-> 0]
    /\ len    = [r \in Seqs |-> 0]
    /\ kv     = [r \in Seqs |-> <<>>]
    /\ rec    = [r \in Seqs |-> <<>>]
    /\ carry  = [r \in Seqs |-> NoToken]
    /\ acc    = [r \in Seqs |-> <<>>]
    /\ seen   = [r \in Seqs |-> NoToken]
    /\ mtp    = [s \in Slots |-> NoPrefix]
    /\ drafts = [r \in Seqs |-> <<>>]
    /\ todo   = {}
    /\ phase  = "idle"

(***************************************************************************)
(* EngineRunner.prefill of a waiting request: the recurrent row is cleared *)
(* and rebuilt, every prompt position gets its K/V, one token is sampled,  *)
(* and the draft head's prefix is primed -- unless the prompt went through *)
(* the chunked or the graphed path, which leave the slot's prefix alone.   *)
(***************************************************************************)
Prefill(r) ==
    /\ phase = "idle" /\ status[r] = "waiting"
    /\ \E s \in Slots \ {slot[q] : q \in Running},
          primed \in {TRUE, ~Unprimed},
          x \in Pick(r, out[r], out[r], Synced(r, out[r])) :
        /\ slot' = [slot EXCEPT ![r] = s]
        /\ out'  = [out EXCEPT ![r] = Append(@, x)]
        /\ mtp'  = IF primed
                   THEN [mtp EXCEPT ![s] = [owner |-> r, toks |-> Append(out[r], x)]]
                   ELSE mtp
    /\ status' = [status EXCEPT ![r] = "running"]
    /\ len'    = [len EXCEPT ![r] = pre[r]]
    /\ kv'     = [kv EXCEPT ![r] = out[r]]
    /\ rec'    = [rec EXCEPT ![r] = out[r]]
    /\ acc'    = [acc EXCEPT ![r] = Synced(r, out[r])]
    /\ seen'   = [seen EXCEPT ![r] = Watermark(r, out[r])]
    /\ phase'  = "post"
    /\ UNCHANGED <<pre, carry, drafts, todo>>

(***************************************************************************)
(* The gate of decode (_spec_decode_allowed).  Its answer depends on the   *)
(* other rows of the batch (a sampled, penalised or image request), on the *)
(* n-gram table and on free memory, so each step it may go either way.     *)
(***************************************************************************)
BeginPlain ==
    /\ phase = "idle" /\ Running # {}
    /\ CloseWithCarry \/ \A r \in Running : carry[r] = NoToken
    /\ todo'  = Running
    /\ phase' = "plain"
    /\ UNCHANGED <<rowVars, walkVars, out, len, kv, rec, carry, mtp, drafts>>

(* Mutant: rows that are not in the batch are bootstrapped as well.        *)
BeginSpecAll ==
    /\ phase = "idle" /\ Running # {}
    /\ todo'  = {r \in Seqs : carry[r] = NoToken}
    /\ phase' = "base"
    /\ UNCHANGED <<rowVars, walkVars, out, len, kv, rec, carry, mtp, drafts>>

(* The gate is open: every grammar view is synced to its history first.    *)
BeginSpec ==
    /\ phase = "idle" /\ Running # {}
    /\ acc'   = [r \in Seqs |-> IF r \in Running THEN Synced(r, out[r]) ELSE acc[r]]
    /\ seen'  = [r \in Seqs |-> IF r \in Running THEN Watermark(r, out[r])
                                                 ELSE seen[r]]
    /\ todo'  = {r \in Running : carry[r] = NoToken}
    /\ phase' = "base"
    /\ UNCHANGED <<rowVars, out, len, kv, rec, carry, mtp, drafts>>

(***************************************************************************)
(* One row of _decode_eager and _sample: the last token is written at      *)
(* position length, folded into the recurrent state, and the answer is     *)
(* appended.  The carried base token is not looked at.                     *)
(***************************************************************************)
PlainRow(r) ==
    LET k == Overwrite(kv[r], len[r] + 1, <<Last(out[r])>>)
        h == Append(rec[r], Last(out[r]))
    IN
    /\ phase = "plain" /\ todo # {} /\ r = Row
    /\ kv'   = [kv EXCEPT ![r] = k]
    /\ rec'  = [rec EXCEPT ![r] = h]
    /\ len'  = [len EXCEPT ![r] = @ + 1]
    /\ acc'  = [acc EXCEPT ![r] = Synced(r, out[r])]
    /\ seen' = [seen EXCEPT ![r] = Watermark(r, out[r])]
    /\ \E x \in Pick(r, SubSeq(k, 1, len[r] + 1), h, Synced(r, out[r])) :
          out' = [out EXCEPT ![r] = Append(@, x)]
    /\ todo' = todo \ {r}
    /\ phase' = IF todo' = {} THEN "post" ELSE "plain"
    /\ UNCHANGED <<rowVars, carry, mtp, drafts>>

(***************************************************************************)
(* The base forward of a row that carries nothing: writes its last token   *)
(* and produces the base token, without advancing length.                  *)
(***************************************************************************)
Bootstrap(r) ==
    LET k == Overwrite(kv[r], len[r] + 1, <<Last(out[r])>>)
        h == Append(rec[r], Last(out[r]))
    IN
    /\ phase = "base" /\ todo # {} /\ r = Row
    /\ kv'   = [kv EXCEPT ![r] = k]
    /\ rec'  = [rec EXCEPT ![r] = h]
    /\ \E x \in Pick(r, SubSeq(k, 1, len[r] + 1), h, acc[r]) :
          carry' = [carry EXCEPT ![r] = x]
    /\ todo' = todo \ {r}
    /\ UNCHANGED <<rowVars, walkVars, out, len, mtp, drafts, phase>>

DraftLists == UNION {[1..k -> Tokens] : k \in 0..SpecK}

(* _compute_drafts: the cascade proposes one list per row.                 *)
Propose ==
    /\ phase = "base" /\ todo = {}
    /\ \E d \in [Running -> DraftLists] :
          drafts' = [r \in Seqs |-> IF r \in Running THEN d[r] ELSE <<>>]
    /\ todo'  = Running
    /\ phase' = "verify"
    /\ UNCHANGED <<rowVars, walkVars, out, len, kv, rec, carry, mtp>>

AnyDraft == \E r \in Running : drafts[r] # <<>>

(***************************************************************************)
(* Every drafter missed: each row emits its base token as plain decoding   *)
(* would, the carry is dropped and the matcher follows.                    *)
(***************************************************************************)
NoProposalRow(r) ==
    /\ phase = "verify" /\ ~AnyDraft /\ todo # {} /\ r = Row
    /\ out'   = [out EXCEPT ![r] = Append(@, carry[r])]
    /\ len'   = [len EXCEPT ![r] = @ + 1]
    /\ carry' = [carry EXCEPT ![r] = NoToken]
    /\ acc'   = [acc EXCEPT ![r] = Walk(@, <<carry[r]>>)]
    /\ seen'  = [seen EXCEPT ![r] = Watermark(r, out[r]) + 1]
    /\ todo'  = todo \ {r}
    /\ phase' = IF todo' = {} THEN "post" ELSE "verify"
    /\ UNCHANGED <<rowVars, kv, rec, mtp, drafts>>

(* The width of the verify tensor: the base token and the longest draft.   *)
VerifyWidthFixed == SpecK + 2
VerifyWidth == 1 + CHOOSE k \in 1..SpecK :
                      /\ \E r \in Running : Len(drafts[r]) = k
                      /\ \A r \in Running : Len(drafts[r]) <= k

(* A block table the verify forward cannot lay out: the step raises.       *)
PastTable == \E r \in Running : len[r] + 1 + VerifyWidth > TableLen

VerifyRaises ==
    /\ phase = "verify" /\ AnyDraft /\ todo = Running /\ PastTable
    /\ phase' = "raised"
    /\ UNCHANGED <<rowVars, walkVars, out, len, kv, rec, carry, mtp, drafts, todo>>

(* Mutant: the budget only.                                                *)
TruncateBudget(r, emit) ==
    LET left == IF MaxTokens[r] > Len(out[r]) THEN MaxTokens[r] - Len(out[r]) ELSE 1
    IN SubSeq(emit, 1, IF left < Len(emit) THEN left ELSE Len(emit))

(* _truncate_emit: the budget, then the first end-of-sequence token.       *)
TruncateEmit(r, emit) ==
    LET left == IF MaxTokens[r] > Len(out[r]) THEN MaxTokens[r] - Len(out[r]) ELSE 1
        kept == SubSeq(emit, 1, IF left < Len(emit) THEN left ELSE Len(emit))
        ends == {i \in 1..Len(kept) : kept[i] = Eos}
    IN IF ends = {} THEN kept
       ELSE SubSeq(kept, 1, CHOOSE i \in ends : \A j \in ends : i <= j)

(* commit_verify: the recurrent state after the first k verified tokens.   *)
CommitWhole(h, ids, k) == h \o ids
CommitVerify(h, ids, k) == h \o SubSeq(ids, 1, k)

(***************************************************************************)
(* The draft head's prefix p of a row at length n grows by the emitted     *)
(* tokens when it covers every position before them; otherwise it is       *)
(* cleared.                                                                *)
(***************************************************************************)
ExtendAnyPrefix(p, n, emit) ==
    IF p # NoPrefix THEN [p EXCEPT !.toks = @ \o emit] ELSE NoPrefix
ExtendPrefix(p, n, emit) ==
    IF p # NoPrefix /\ Len(p.toks) = n + 1
    THEN [p EXCEPT !.toks = @ \o emit] ELSE NoPrefix

(* The true token at verify slot t: after the base and the first t drafts. *)
TruthAt(r, t) ==
    LET fed == <<carry[r]>> \o SubSeq(drafts[r], 1, t)
    IN Pick(r, SubSeq(kv[r], 1, len[r] + 1) \o fed, rec[r] \o fed, Walk(acc[r], fed))

(***************************************************************************)
(* The accept loop for one row: the longest draft prefix that matches the  *)
(* truth is emitted after the base token, the truth at the last accepted   *)
(* slot is carried to the next step, and KV, recurrent state, matcher and  *)
(* draft prefix advance by what was emitted.                               *)
(***************************************************************************)
AcceptRow(r) ==
    /\ phase = "verify" /\ AnyDraft /\ todo # {} /\ r = Row
    /\ todo = Running => ~PastTable
    /\ \E n \in 0..Len(drafts[r]) : \E nb \in TruthAt(r, n) :
        LET d        == drafts[r]
            accepted == <<carry[r]>> \o SubSeq(d, 1, n)
            emit     == TruncateEmit(r, accepted)
            o        == out[r] \o emit
            ends     == Len(emit) < Len(accepted) \/ IsFinished(r, o)
            pads     == [i \in 1..(VerifyWidth - 1 - Len(d)) |-> CHOOSE x \in Tokens : TRUE]
        IN
        /\ \A t \in 1..n : d[t] \in TruthAt(r, t - 1)
        /\ n < Len(d) => nb # d[n + 1]
        /\ out'   = [out EXCEPT ![r] = o]
        /\ len'   = [len EXCEPT ![r] = @ + Len(emit)]
        /\ kv'    = [kv EXCEPT ![r] = Overwrite(@, len[r] + 2, <<carry[r]>> \o d \o pads)]
        /\ rec'   = [rec EXCEPT ![r] = CommitVerify(@, <<carry[r]>> \o d \o pads, Len(emit))]
        /\ carry' = [carry EXCEPT ![r] = IF ends THEN NoToken ELSE nb]
        /\ IF ends THEN UNCHANGED walkVars
           ELSE /\ acc'  = [acc EXCEPT ![r] = Walk(@, emit)]
                /\ seen' = [seen EXCEPT ![r] = Watermark(r, o)]
        /\ mtp'   = [mtp EXCEPT ![slot[r]] = ExtendPrefix(@, len[r], emit)]
    /\ todo'  = todo \ {r}
    /\ phase' = IF todo' = {} THEN "post" ELSE "verify"
    /\ UNCHANGED <<rowVars, drafts>>

(***************************************************************************)
(* Scheduler.postprocess: finished requests give their slot back.  Neither *)
(* the recurrent row nor the draft prefix of the slot is touched.          *)
(***************************************************************************)
Postprocess ==
    /\ phase = "post"
    /\ status' = [r \in Seqs |->
                    IF r \in Running /\ IsFinished(r, out[r]) THEN "finished"
                    ELSE status[r]]
    /\ slot'   = [r \in Seqs |-> IF status'[r] = "running" THEN slot[r] ELSE NoToken]
    /\ drafts' = [r \in Seqs |-> <<>>]
    /\ phase'  = "idle"
    /\ UNCHANGED <<walkVars, out, pre, len, kv, rec, carry, mtp, todo>>

(***************************************************************************)
(* Scheduler._preempt_one between two steps: the outputs join the prompt,  *)
(* the carry is dropped, the positions are given up.                       *)
(***************************************************************************)
Preempt(r) ==
    /\ phase = "idle" /\ r \in Running \cap Preemptible /\ pre[r] = 0
    /\ status' = [status EXCEPT ![r] = "waiting"]
    /\ slot'   = [slot EXCEPT ![r] = NoToken]
    /\ pre'    = [pre EXCEPT ![r] = Len(out[r])]
    /\ len'    = [len EXCEPT ![r] = 0]
    /\ kv'     = [kv EXCEPT ![r] = <<>>]
    /\ carry'  = [carry EXCEPT ![r] = NoToken]
    /\ UNCHANGED <<walkVars, out, rec, mtp, drafts, todo, phase>>

(* LLMEngine.cancel of a running request clears its slot's draft prefix.   *)
Cancel(r) ==
    /\ phase = "idle" /\ r \in Running
    /\ status' = [status EXCEPT ![r] = "finished"]
    /\ slot'   = [slot EXCEPT ![r] = NoToken]
    /\ carry'  = [carry EXCEPT ![r] = NoToken]
    /\ mtp'    = [mtp EXCEPT ![slot[r]] = NoPrefix]
    /\ UNCHANGED <<walkVars, out, pre, len, kv, rec, drafts, todo, phase>>

Done ==
    /\ phase = "raised" \/ (phase = "idle" /\ \A r \in Seqs : status[r] = "finished")
    /\ UNCHANGED vars

Next ==
    \/ BeginPlain \/ BeginSpec \/ Propose \/ VerifyRaises \/ Postprocess \/ Done
    \/ \E r \in Seqs : \/ Prefill(r) \/ PlainRow(r) \/ Bootstrap(r)
                       \/ NoProposalRow(r) \/ AcceptRow(r)
                       \/ Preempt(r) \/ Cancel(r)

Spec == Init /\ [][Next]_vars

-----------------------------------------------------------------------------
(* Type invariant: the variables range over what the code keeps in them.   *)
SpecTypeOK ==
    /\ status \in [Seqs -> {"waiting", "running", "finished"}]
    /\ slot \in [Seqs -> Slots \cup {NoToken}]
    /\ out \in [Seqs -> Seq(Tokens)] /\ kv \in [Seqs -> Seq(Tokens)]
    /\ rec \in [Seqs -> Seq(Tokens)] /\ acc \in [Seqs -> Seq(Tokens)]
    /\ pre \in [Seqs -> Nat] /\ len \in [Seqs -> Nat]
    /\ seen \in [Seqs -> Nat \cup {NoToken}]
    /\ carry \in [Seqs -> Tokens \cup {NoToken}]
    /\ \A s \in Slots : /\ mtp[s].owner \in Seqs \cup {NoToken}
                        /\ mtp[s].toks \in Seq(Tokens)
    /\ drafts \in [Seqs -> DraftLists]
    /\ todo \subseteq Running
    /\ phase \in {"idle", "plain", "base", "verify", "post", "raised"}

(***************************************************************************)
(* What plain greedy decoding emits for r: Greedy[r] up to the budget, the *)
(* window, and the first end-of-sequence token.                            *)
(***************************************************************************)
PlainOutput(r) ==
    LET cap  == IF MaxTokens[r] < Window THEN MaxTokens[r] ELSE Window
        kept == SubSeq(Greedy[r], 1, cap)
    IN SubSeq(kept, 1, CHOOSE i \in 1..cap :
                          /\ i = cap \/ kept[i] = Eos
                          /\ \A j \in 1..(i - 1) : kept[j] # Eos)

(***************************************************************************)
(* Speculation is invisible: whatever is drafted, accepted, truncated or   *)
(* preempted, a request's outputs are a prefix of what plain greedy        *)
(* decoding of it would emit (_spec_decode_eager's bit-identity).          *)
(***************************************************************************)
OutputIsGreedy == \A r \in Seqs : IsPrefix(out[r], PlainOutput(r))

(***************************************************************************)
(* Between two steps the K/V and the recurrent state of a running request  *)
(* stand for exactly the tokens committed so far: through position length, *)
(* and one further (the last output) while a base token is carried.  A     *)
(* rejected draft that stayed in either would break it.                    *)
(***************************************************************************)
StateCommitted ==
    phase = "idle" =>
        \A r \in Running :
            LET k == len[r] + (IF carry[r] = NoToken THEN 0 ELSE 1)
            IN /\ len[r] + 1 = Len(out[r])
               /\ SubSeq(kv[r], 1, k) = SubSeq(out[r], 1, k)
               /\ rec[r] = SubSeq(out[r], 1, k)

(***************************************************************************)
(* A grammar's matcher has accepted exactly the tokens its watermark       *)
(* counts, however steps of plain and speculative decoding alternate: the  *)
(* watermark less the prompt is the number of tokens accepted              *)
(* (structured.py, the comment above sync).                                *)
(***************************************************************************)
MatcherInSync ==
    phase = "idle" =>
        \A r \in Constrained \cap Running : Len(acc[r]) = seen[r] - pre[r]

(***************************************************************************)
(* The draft head's prefix of a held slot, when it is not empty, is the    *)
(* holder's own committed tokens (MTPKVCache: "ALWAYS authoritative").     *)
(***************************************************************************)
MtpAuthoritative ==
    phase = "idle" =>
        \A r \in Running :
            LET p == mtp[slot[r]]
            IN p # NoPrefix => p.owner = r /\ IsPrefix(p.toks, out[r])

(***************************************************************************)
(* What a row carries from one step to the next, the K/V, the recurrent    *)
(* state, the matcher's watermark and the draft prefix, are in step with   *)
(* the committed tokens.                                                   *)
(***************************************************************************)
SpecInv == SpecTypeOK /\ StateCommitted /\ MatcherInSync /\ MtpAuthoritative

(* No verify forward asks for positions a block table cannot name.         *)
NeverRaises == phase # "raised"

(***************************************************************************)
(* The verify forward outgrows the block table only when some request is   *)
(* within the longest draft of the end of it: the margin of SpecK          *)
(* positions is all an operator has to leave.                              *)
(***************************************************************************)
RaisesOnlyNearEnd ==
    phase = "raised" => \E r \in Running : Len(out[r]) + SpecK >= TableLen
=============================================================================
