----------------------------- MODULE Checkpoints -----------------------------
(***************************************************************************)
(* From a checkpoint to the parameters of a model.  A Hugging Face           *)
(* checkpoint is converted shard by shard to a .superl8 file (convert.py), a  *)
(* GGUF file is imported into one (gguf_import.py) or loaded as it is         *)
(* (gguf_native.py); the builders then take their weights out of the state   *)
(* dict, merged where one matmul serves several (models/weights.py).         *)
(*                                                                         *)
(* A tensor is a sequence of rows.  A row knows which row of the model it is  *)
(* (`of`, `at`), what was done to its value (`as`), and the scheme its bytes  *)
(* are in (`coded`); the tensor's own scheme is the one a reader decodes it   *)
(* by.  The model has one full-attention layer with experts and, in the       *)
(* hybrid family, one linear-attention layer.                                *)
(***************************************************************************)
EXTENDS Integers, Sequences, SequencesExt, FiniteSets, Functions

CONSTANTS
  NumLocal,       \* experts of the layer
  KeyRows,        \* linear_num_key_heads * linear_key_head_dim
  ValueRows,      \* linear_num_value_heads * linear_value_head_dim
  ValueHeads,     \* linear_num_value_heads
  Widths,         \* in-features: "odd", "four" (divisible by 4) or "group" (and by the group)
  GGMLTypes,      \* tensor types of a GGUF file
  NativeSets      \* the k-quants with a fused kernel: _native_kquant_types()

ASSUME CheckpointAssumption ==
  /\ {NumLocal, KeyRows, ValueRows, ValueHeads} \subseteq Nat \ {0}
  /\ Widths \subseteq {"odd", "four", "group"}

VARIABLES
  job,      \* what is converted or loaded, and how; "none" at the start
  way,      \* where it stands
  left,     \* shards still to convert
  onDisk,   \* shards of the source that still exist
  sd,       \* the .superl8 file being written, then the state dict in memory
  qkNorm,   \* cfg.qk_norm
  built     \* the parameters the builder has made, in order

ckptVars == <<job, way, left, onDisk, sd, qkNorm, built>>

-----------------------------------------------------------------------------
(* Names and rows *)

KQuant == {"Q4_K", "Q6_K"}
Floats == {"F16"}
Scales == {"weight_scale_inv", "scale"}
GateUp == {"gate_proj", "up_proj"}

N(root, part) == [root |-> root, expert |-> 0, part |-> part, leaf |-> "weight"]
ExpertN(e, part) == [N("model", part) EXCEPT !.expert = e]

\* The rows of one piece of the model as its trainer left them.
Height(piece) ==
  CASE piece \in {"qkv", "conv"} -> 2 * KeyRows + ValueRows
    [] piece = "z" -> ValueRows
    [] piece \in {"b", "a"} -> ValueHeads
    [] piece \in GateUp -> 2
    [] OTHER -> 1
Piece(piece, e) ==
  [i \in 1..Height(piece) |-> [of |-> piece, expert |-> e, at |-> i, as |-> "value", coded |-> "plain"]]
As(rows, how) == [i \in DOMAIN rows |-> [rows[i] EXCEPT !.as = how]]
Coded(rows, scheme) == [i \in DOMAIN rows |-> [rows[i] EXCEPT !.coded = scheme]]
\* quantize_weight_i8, _i4 and _w3a8, and their like: rows put under a scheme.
Tensor(scheme, rows) == [scheme |-> scheme, rows |-> Coded(rows, scheme)]
\* What a reader of t makes of its rows: LinearW8A8 goes by the scheme alone.
Reads(t) ==
  [i \in DOMAIN t.rows |->
     IF t.rows[i].coded = t.scheme THEN [t.rows[i] EXCEPT !.coded = "plain"] ELSE [t.rows[i] EXCEPT !.as = "garbled"]]

Joined(a, b) == [k \in DOMAIN a \cup DOMAIN b |-> IF k \in DOMAIN b THEN b[k] ELSE a[k]]

\* is_quantizable_linear: every name but these.
Denied == {"q_norm", "input_norm", "lin_norm", "embed_tokens", "gate", "conv_weight", "visual.norm"}
IsQuantizableLinear(n) == n.part \notin Denied

-----------------------------------------------------------------------------
(* convert.py *)

\* fp8_scale_name: the names a weight's scale may have.
ScaleNames(n) == {[n EXCEPT !.leaf = leaf] : leaf \in Scales}
\* dequantize_fp8, dequantize_mxfp8: codes times their scale; without one they stay codes.
Multiplied(rows, scaled) == As(rows, IF scaled THEN "value" ELSE "codes")
\* The scale is looked for under the name the weight has now and read from those
\* collected up front.
Dequantized(n, t, collected) ==
  IF t.kind = "fp8" THEN Multiplied(t.rows, ScaleNames(n) \cap collected # {}) ELSE t.rows

\* quantize_state_dict on one weight
SchemeFor(how) == IF how.bits = 4 /\ how.width = "group" THEN "per_group_i4" ELSE "per_row_i8"
Raw(rows) == Tensor("raw", rows)
Quantized(n, t, collected, how) ==
  LET rows == Dequantized(n, t, collected)
  IN  IF IsQuantizableLinear(n) /\ t.rank = 2 /\ how.width # "odd" THEN Tensor(SchemeFor(how), rows) ELSE Raw(rows)

\* ... and on a shard.  A bare ".scale" counts as a scale in every FP8
\* checkpoint: fp8_scale_fmt is a string there, if an empty one.
IsScale(n, how) == n.leaf = "weight_scale_inv" \/ (n.leaf = "scale" /\ how.fp8 # "no")
QuantizedShard(shard, collected, how) ==
  [n \in {m \in DOMAIN shard : ~IsScale(m, how)} |-> Quantized(n, shard[n], collected, how)]

\* _remap_qwen3_next, first half: a VLM's text and vision names.
Unwrapped(shard) ==
  IF \E n \in DOMAIN shard : n.root = "model.language_model"
  THEN LET bare(n) == CASE n.root = "model.language_model" -> [n EXCEPT !.root = "model"]
                        [] n.root = "model.visual" -> [n EXCEPT !.root = "visual"]
                        [] OTHER -> n
       IN  [m \in {bare(n) : n \in DOMAIN shard} |-> shard[CHOOSE n \in DOMAIN shard : bare(n) = m]]
  ELSE shard

\* Mutant: q and k are taken for one block.
QKVRowsShared == KeyRows + ValueRows
\* The rows of in_proj_qkvz that are Q, K and V.
QKVRows == 2 * KeyRows + ValueRows

\* ... second half: fused projections are split, separate ones renamed.
Alias(part) ==
  CASE part = "in_proj_qkv" -> "qkv_proj" [] part = "in_proj_z" -> "z_proj"
    [] part = "in_proj_b" -> "beta_proj"  [] part = "in_proj_a" -> "dt_proj"
    [] part = "conv1d" -> "conv_weight"   [] OTHER -> part
SplitAt(t, k) == <<[t EXCEPT !.rows = SubSeq(@, 1, k)], [t EXCEPT !.rows = SubSeq(@, k + 1, Len(@))]>>
Fused == {"in_proj_qkvz", "in_proj_ba"}
Halved(part) == IF part = "in_proj_qkvz" THEN <<"qkv_proj", "z_proj">> ELSE <<"beta_proj", "dt_proj">>
CutAt(part, t) == IF part = "in_proj_qkvz" THEN QKVRows ELSE ValueHeads

RemapQwen3Next(dict, hybrid) ==
  IF ~hybrid THEN dict
  ELSE LET fused == {n \in DOMAIN dict : n.part \in Fused}
           named(n) == [n EXCEPT !.part = Alias(@)]
           plain == [m \in {named(n) : n \in DOMAIN dict \ fused} |->
                       LET n == CHOOSE n \in DOMAIN dict \ fused : named(n) = m
                       IN  IF n.part = "conv1d" THEN SplitAt(dict[n], QKVRows)[1] ELSE dict[n]]
           half(n, i) == [n EXCEPT !.part = Halved(@)[i]]
           halves == [m \in {half(n, i) : n \in fused, i \in {1, 2}} |->
                        LET n == CHOOSE n \in fused : \E i \in {1, 2} : half(n, i) = m
                            i == CHOOSE i \in {1, 2} : half(n, i) = m
                        IN  SplitAt(dict[n], CutAt(n.part, dict[n]))[i]]
       IN  Joined(plain, halves)

\* The checkpoint as its trainer published it: the tensors of a VLM's text under
\* model.language_model, FP8 weights with a scale next to each, and a scale that
\* is a parameter of the router's own.
Weight(n, rows, rank) == [name |-> n, rows |-> rows, rank |-> rank]
Locals(how) == IF how.moe THEN 1..NumLocal ELSE {0}
LayerWeights(how, root) ==
  {Weight(N(root, "q_proj"), Piece("q", 0) \o (IF how.hybrid THEN Piece("g", 0) ELSE <<>>), 2),
   Weight(N(root, "k_proj"), Piece("k", 0), 2), Weight(N(root, "v_proj"), Piece("v", 0), 2),
   Weight(N(root, "q_norm"), Piece("q_norm", 0), 1), Weight(N(root, "gate"), Piece("gate", 0), 2),
   Weight(N(root, "embed_tokens"), Piece("embed", 0), 2)}
  \cup {Weight([N(root, p) EXCEPT !.expert = e], Piece(p, e), 2) : p \in GateUp, e \in Locals(how)}
HybridWeights(how, root) ==
  {Weight(N(root, "conv1d"), Piece("conv", 0), 3), Weight(N(root, "A_log"), Piece("decay", 0), 1),
   Weight(N(root, "lin_norm"), Piece("lin_norm", 0), 1)}
  \cup (IF how.fused
        THEN {Weight(N(root, "in_proj_qkvz"), Piece("qkv", 0) \o Piece("z", 0), 2),
              Weight(N(root, "in_proj_ba"), Piece("b", 0) \o Piece("a", 0), 2)}
        ELSE {Weight(N(root, "in_proj_" \o p), Piece(p, 0), 2) : p \in {"qkv", "z", "b", "a"}})
VisionWeights ==
  {Weight(N("model.visual", "visual.norm"), Piece("eye_norm", 0), 1),
   Weight(N("model.visual", "visual.qkv"), Piece("eye", 0), 2)}

Published(how) ==
  LET root == IF how.wrapped THEN "model.language_model" ELSE "model"
      all == LayerWeights(how, root) \cup (IF how.hybrid THEN HybridWeights(how, root) ELSE {})
             \cup (IF how.wrapped THEN VisionWeights ELSE {})
      low == {w \in all : how.fp8 # "no" /\ w.rank = 2 /\ IsQuantizableLinear(w.name)}
      leaf == IF how.fp8 = "block" THEN "weight_scale_inv" ELSE "scale"
      scales == {[name |-> [w.name EXCEPT !.leaf = leaf], rows |-> <<>>, rank |-> 2] : w \in low}
      own == Weight([N(root, "gate") EXCEPT !.leaf = "scale"], Piece("gate_scale", 0), 1)
      entries == all \cup scales \cup {own}
  IN  [n \in {w.name : w \in entries} |->
         LET w == CHOOSE w \in entries : w.name = n
         IN  [rows |-> w.rows, rank |-> w.rank, kind |-> IF w \in low THEN "fp8" ELSE "f16"]]

\* Which of its shards a tensor is in: the second holds the kinds in how.second.
KindOf(n, how) == IF IsScale(n, how) THEN "scales" ELSE IF n.part \in Denied THEN "norms" ELSE "matmuls"
Shard(k, how) ==
  LET all == Published(how) IN Restrict(all, {n \in DOMAIN all : (KindOf(n, how) \in how.second) = (k = 2)})

-----------------------------------------------------------------------------
(* convert_hf_to_superl8 *)

HFSources ==
  {h \in [from : {"hf"}, moe : BOOLEAN, hybrid : BOOLEAN, wrapped : BOOLEAN, fused : BOOLEAN,
          fp8 : {"no", "block", "ue8m0"}, width : Widths, bits : {4, 8}, delete : BOOLEAN,
          second : SUBSET {"scales", "norms"}, consume : BOOLEAN] :
     /\ h.moe = ~h.hybrid
     /\ h.fused => h.hybrid
     /\ h.bits = 8 => h.width = "group"
     /\ h.fp8 = "no" => "scales" \notin h.second
     /\ h.fp8 # "no" => ~h.fused}

HasQKNorm(names) == \E n \in names : n.part = "q_norm"
\* The scales of all shards, collected before the first is converted.
Collected(how) == {n \in DOMAIN Published(how) : how.fp8 # "no" /\ n.leaf \in Scales}

BeginConvert(h) ==
  /\ way = "none"
  /\ job' = h /\ way' = "converting"
  /\ left' = <<1, 2>> /\ onDisk' = {1, 2}
  /\ UNCHANGED <<sd, qkNorm, built>>

\* One shard: loaded, renamed, quantized and written, then deleted if asked.
ConvertShard ==
  /\ way = "converting" /\ left # <<>>
  /\ LET shard == RemapQwen3Next(Unwrapped(Shard(Head(left), job)), job.hybrid)
     IN  /\ sd' = Joined(sd, QuantizedShard(shard, Collected(job), job))
         /\ qkNorm' = (qkNorm \/ HasQKNorm(DOMAIN shard))
  /\ left' = Tail(left)
  /\ onDisk' = IF job.delete THEN onDisk \ {Head(left)} ELSE onDisk
  /\ UNCHANGED <<job, way, built>>

\* Reading or converting a shard raises: the `finally` deletes it all the same.
ShardRaises ==
  /\ way = "converting" /\ left # <<>>
  /\ way' = "failed"
  /\ onDisk' = IF job.delete THEN onDisk \ {Head(left)} ELSE onDisk
  /\ UNCHANGED <<job, left, sd, qkNorm, built>>

\* The metadata goes in last.
Finalize ==
  /\ way = "converting" /\ left = <<>>
  /\ way' = "written"
  /\ UNCHANGED <<job, left, onDisk, sd, qkNorm, built>>

\* load_superl8_state_dict: raw tensors are unwrapped; the embedding may be made int8.
LoadSuperl8(embedInt8) ==
  /\ way = "written"
  /\ LET loaded(n) == IF sd[n].scheme # "raw" THEN sd[n]
                      ELSE Tensor(IF embedInt8 /\ n = N("model", "embed_tokens") THEN "per_row_i8" ELSE "plain", Reads(sd[n]))
     IN  sd' = [n \in DOMAIN sd |-> loaded(n)]
  /\ qkNorm' = (qkNorm \/ HasQKNorm(DOMAIN sd))
  /\ way' = "building"
  /\ UNCHANGED <<job, left, onDisk, built>>

-----------------------------------------------------------------------------
(* GGUF *)

\* gguf_name_to_hf.  A name with a dot is the part in that kind of layer.
PartName(g) ==
  CASE g = "token_embd" -> "embed_tokens" [] g = "attn_q" -> "q_proj"
    [] g = "attn_k" -> "k_proj"           [] g = "attn_v" -> "v_proj"
    [] g = "attn_q_norm" -> "q_norm"      [] g = "ffn_gate_inp" -> "gate"
    [] g = "attn_qkv" -> "in_proj_qkv"    [] g = "ssm_alpha" -> "in_proj_a"
    [] g = "ssm_beta" -> "in_proj_b"      [] g = "ssm_conv1d" -> "conv1d"
    [] g = "ssm_a" -> "A_log"             [] g = "ssm_norm" -> "lin_norm"
    [] g \in {"ffn_gate", "ffn_gate_exps"} -> "gate_proj"
    [] g \in {"ffn_up", "ffn_up_exps"} -> "up_proj"
    [] OTHER -> g
HfName(g) == N("model", PartName(g))

\* What llama.cpp stores: gains of a hybrid model with one added, the decay as
\* -exp(A_log), the experts of a layer in one tensor, one after the other.
\* Matmuls and the embedding are in the types of the menu, the rest are floats.
GGUFTensors(how) ==
  LET gain == IF how.hybrid THEN "plus1" ELSE "value"
      stacked(p) == FlattenSeq([e \in 1..NumLocal |-> Piece(p, e)])
      float == "F16"
      full == {<<"attn_q", how.menu[1], Piece("q", 0) \o IF how.hybrid /\ ~how.apart THEN Piece("g", 0) ELSE <<>>>>,
               <<"attn_k", how.menu[1], Piece("k", 0)>>, <<"attn_v", how.menu[2], Piece("v", 0)>>,
               <<"attn_q_norm", float, As(Piece("q_norm", 0), gain)>>,
               <<"ffn_gate_inp", float, Piece("gate", 0)>>, <<"token_embd", how.menu[2], Piece("embed", 0)>>}
      mlp == IF how.moe THEN {<<"ffn_gate_exps", how.menu[1], stacked("gate_proj")>>,
                              <<"ffn_up_exps", how.menu[2], stacked("up_proj")>>}
             ELSE {<<"ffn_gate", how.menu[1], Piece("gate_proj", 0)>>, <<"ffn_up", how.menu[2], Piece("up_proj", 0)>>}
      linear == {<<"attn_qkv", how.menu[1], Piece("qkv", 0)>>, <<"attn_gate.linear", how.menu[1], Piece("z", 0)>>,
                 <<"ssm_alpha", how.menu[1], Piece("a", 0)>>, <<"ssm_beta", how.menu[2], Piece("b", 0)>>,
                 <<"ssm_conv1d", float, Piece("conv", 0)>>, <<"ssm_a", float, As(Piece("decay", 0), "negexp")>>,
                 <<"ssm_norm", float, Piece("lin_norm", 0)>>}
      apart == {<<"attn_gate.full", how.menu[1], Piece("g", 0)>>}
  IN  full \cup mlp \cup (IF how.hybrid THEN linear ELSE {}) \cup (IF how.apart THEN apart ELSE {})

\* gguf_state_dict on one tensor
Resident(n, type, rows, native) ==
  CASE IsQuantizableLinear(n) /\ type \in KQuant -> Tensor(IF type \in native THEN type ELSE "per_row_i8", rows)
    [] IsQuantizableLinear(n) /\ type = "Q8_0" -> Tensor("per_row_i8", rows)
    [] n.part = "embed_tokens" /\ type \in KQuant -> Tensor("per_row_i8", rows)
    [] OTHER -> Tensor("plain", rows)

\* ... and on the file: fused experts get a name each.
FusedExpert(t) == t[1] \in {"ffn_gate_exps", "ffn_up_exps"}
\* t.data[e]: the e-th of NumLocal equal parts.
ExpertRows(rows, e) ==
  LET each == Len(rows) \div NumLocal IN SubSeq(rows, (e - 1) * each + 1, e * each)
StateDict(how) ==
  LET stacked == {t \in GGUFTensors(how) : FusedExpert(t)}
      slices == {<<[HfName(t[1]) EXCEPT !.expert = e], t[2], ExpertRows(t[3], e)>> :
                   t \in stacked, e \in 1..NumLocal}
      single == {<<HfName(t[1]), t[2], t[3]>> : t \in GGUFTensors(how) \ stacked}
  IN  [n \in {t[1] : t \in slices \cup single} |->
         LET t == CHOOSE t \in slices \cup single : t[1] = n IN Resident(n, t[2], t[3], how.native)]

\* _remap_hybrid_qwen35: the gate of a linear layer is its z projection, that of a
\* full layer joins the queries, which torch.cat can do for plain tensors alone.
Refused == [scheme |-> "refused", rows |-> <<>>]
Cat(a, b) == IF {a.scheme, b.scheme} = {"plain"} THEN Tensor("plain", a.rows \o b.rows) ELSE Refused
RemapHybrid(dict) ==
  LET gates == {N("model", "attn_gate.full"), N("model", "attn_gate.linear")} \cap DOMAIN dict
      z == N("model", "in_proj_z") q == N("model", "q_proj")
      kept == Restrict(dict, DOMAIN dict \ gates)
  IN  Joined(kept, [n \in {z} \cup (IF N("model", "attn_gate.full") \in gates THEN {q} ELSE {}) |->
                      IF n = z THEN dict[N("model", "attn_gate.linear")]
                      ELSE Cat(dict[q], dict[N("model", "attn_gate.full")])])

\* _restore_hf_qwen35_weights
Minus1(as) == IF as = "plus1" THEN "value" ELSE "minus1"
Log(as) == IF as = "negexp" THEN "value" ELSE "log"
Restored(dict) ==
  [n \in DOMAIN dict |->
     LET rows == dict[n].rows
     IN  [dict[n] EXCEPT !.rows =
            CASE n.part = "q_norm" -> [i \in DOMAIN rows |-> [rows[i] EXCEPT !.as = Minus1(@)]]
              [] n.part = "A_log" -> [i \in DOMAIN rows |-> [rows[i] EXCEPT !.as = Log(@)]]
              [] OTHER -> rows]]

\* load_gguf_engine, up to the engine.
GGUFSources ==
  {h \in [from : {"gguf"}, moe : BOOLEAN, hybrid : BOOLEAN, apart : BOOLEAN, menu : GGMLTypes \X GGMLTypes,
          native : NativeSets, consume : {TRUE}] :
     /\ h.moe = ~h.hybrid
     /\ h.apart => h.hybrid}
LoadGGUF(h) ==
  /\ way = "none"
  /\ job' = h
  /\ LET read == StateDict(h)
         weights == IF h.hybrid THEN Restored(RemapQwen3Next(RemapHybrid(read), TRUE)) ELSE read
     IN  /\ sd' = weights
         /\ qkNorm' = HasQKNorm(DOMAIN weights)
         /\ way' = IF Refused \in Range(weights) THEN "refused" ELSE "building"
  /\ UNCHANGED <<left, onDisk, built>>

\* convert_gguf_to_superl8: the source's menu decides the precision.  A tensor is
\* renamed as above, but experts stay in one tensor, no matrix and so raw as
\* a vector is, and what llama.cpp changed in a hybrid model is not undone.
TargetScheme(type) == CASE type = "Q4_K" -> "per_group_i4" [] type = "Q2_K" -> "per_group_w3a8" [] OTHER -> "per_row_i8"
ImportSources ==
  {h \in [from : {"import"}, moe : BOOLEAN, hybrid : BOOLEAN, apart : BOOLEAN, menu : GGMLTypes \X GGMLTypes,
          native : {{}}, mlp3 : BOOLEAN, consume : BOOLEAN] :
     /\ ~ (h.moe /\ h.hybrid)
     /\ h.apart => h.hybrid}
ImportScheme(n, t, how) ==
  CASE ~IsQuantizableLinear(n) \/ FusedExpert(t) \/ n.part = "A_log" -> "raw"
    [] n.part \in GateUp /\ how.mlp3 -> "per_group_w3a8"
    [] OTHER -> TargetScheme(t[2])
ImportGGUF(h) ==
  /\ way = "none"
  /\ job' = h /\ way' = "written"
  /\ sd' = [n \in {HfName(t[1]) : t \in GGUFTensors(h)} |->
              LET t == CHOOSE t \in GGUFTensors(h) : HfName(t[1]) = n IN Tensor(ImportScheme(n, t, h), t[3])]
  /\ UNCHANGED <<left, onDisk, qkNorm, built>>

-----------------------------------------------------------------------------
(* The builder *)

\* to_qtensor, _row_to_fp16, merge_qtensor
ToQTensor(t) == IF t.scheme = "plain" THEN Tensor("per_row_i8", Reads(t)) ELSE t
RowToFp16(t) == Reads(t)
Merge(ts) ==
  LET schemes == {t.scheme : t \in Range(ts)}
      rows == FlattenSeq([i \in DOMAIN ts |-> ts[i].rows])
      values == FlattenSeq([i \in DOMAIN ts |-> RowToFp16(ts[i])])
  IN  IF schemes = {"plain"} THEN Tensor("per_row_i8", values)
      ELSE IF Cardinality(schemes) = 1 THEN [scheme |-> ts[1].scheme, rows |-> rows]
      ELSE IF schemes \cap KQuant # {} /\ schemes \subseteq KQuant \cup {"per_row_i8"}
      THEN Tensor("per_row_i8", values)
      ELSE Refused

\* What is made of which weights, each under its names in the order they are tried:
\* "merged" takes its rows out of a state dict that is consumed, "int8" and "plain"
\* leave them, "eye" unwraps whatever it finds to its data.
Use(how, keys, want) == [how |-> how, keys |-> keys, want |-> want]
One(part) == <<N("model", part)>>
Either(native, alias) == <<N("model", native), N("model", alias)>>
AttentionNeeds(how, normed) ==
  LET queries == Piece("q", 0) \o (IF how.hybrid THEN Piece("g", 0) ELSE <<>>)
  IN  <<Use("merged", <<One("q_proj"), One("k_proj"), One("v_proj")>>, queries \o Piece("k", 0) \o Piece("v", 0))>>
      \o IF normed THEN <<Use("plain", <<One("q_norm")>>, Piece("q_norm", 0))>> ELSE <<>>
MLPNeeds(how) ==
  LET gateUp(e) == Use("merged", <<<<ExpertN(e, "gate_proj")>>, <<ExpertN(e, "up_proj")>>>>,
                       Piece("gate_proj", e) \o Piece("up_proj", e))
  IN  IF how.moe THEN <<Use("plain", <<One("gate")>>, Piece("gate", 0))>> \o [e \in 1..NumLocal |-> gateUp(e)]
      ELSE <<gateUp(0)>>
LinearNeeds ==
  <<Use("int8", <<Either("qkv_proj", "in_proj_qkv")>>, Piece("qkv", 0)),
    Use("plain", <<Either("conv_weight", "conv1d")>>, Piece("conv", 0)),
    Use("plain", <<One("A_log")>>, Piece("decay", 0)),
    Use("joined", <<Either("dt_proj", "in_proj_a"), Either("beta_proj", "in_proj_b")>>, Piece("a", 0) \o Piece("b", 0)),
    Use("int8", <<Either("z_proj", "in_proj_z")>>, Piece("z", 0)),
    Use("plain", <<One("lin_norm")>>, Piece("lin_norm", 0))>>
VisionNeeds ==
  LET eye(part, piece) == Use("eye", <<<<N("model.visual", part), N("visual", part)>>>>, Piece(piece, 0))
  IN  <<eye("visual.norm", "eye_norm"), eye("visual.qkv", "eye")>>
HeadNeeds == <<Use("int8", <<One("embed_tokens")>>, Piece("embed", 0))>>
Needs(how, normed) ==
  AttentionNeeds(how, normed) \o MLPNeeds(how) \o (IF how.hybrid THEN LinearNeeds ELSE <<>>) \o HeadNeeds
  \o (IF how.from = "hf" /\ how.wrapped THEN VisionNeeds ELSE <<>>)

Found(key) == SelectSeq(key, LAMBDA n : n \in DOMAIN sd)
Parameter(use, ts) ==
  CASE use.how = "merged" -> Merge(ts)
    [] use.how = "joined" -> Merge([i \in DOMAIN ts |-> ToQTensor(ts[i])])
    [] use.how = "int8" -> ToQTensor(ts[1])
    [] use.how = "plain" -> IF ts[1].scheme = "plain" THEN ts[1] ELSE Refused
    [] use.how = "eye" -> [ts[1] EXCEPT !.scheme = "plain"]

\* _take_rows
TakeRows(names) == Restrict(sd, DOMAIN sd \ names)

\* The next parameter; job.consume is whether consume_on_merge() is on.
BuildNext ==
  /\ way = "building"
  /\ LET use == Needs(job, qkNorm)[Len(built) + 1]
         names == [i \in DOMAIN use.keys |-> Found(use.keys[i])]
         missing == \E i \in DOMAIN names : names[i] = <<>>
         p == Parameter(use, [i \in DOMAIN names |-> sd[names[i][1]]])
     IN  IF missing \/ p = Refused THEN way' = "refused" /\ UNCHANGED <<sd, built>>
         ELSE /\ built' = Append(built, p)
              /\ sd' = IF job.consume /\ use.how = "merged"
                       THEN TakeRows({names[i][1] : i \in DOMAIN names}) ELSE sd
              /\ way' = IF Len(built) + 1 = Len(Needs(job, qkNorm)) THEN "serving" ELSE way
  /\ UNCHANGED <<job, left, onDisk, qkNorm>>

CkptInit ==
  /\ job = "none" /\ way = "none"
  /\ left = <<>> /\ onDisk = {}
  /\ sd = <<>> /\ qkNorm = FALSE /\ built = <<>>

CkptNext ==
  \/ \E h \in HFSources : BeginConvert(h)
  \/ ConvertShard \/ ShardRaises \/ Finalize
  \/ \E embedInt8 \in BOOLEAN : LoadSuperl8(embedInt8)
  \/ \E h \in GGUFSources : LoadGGUF(h)
  \/ \E h \in ImportSources : ImportGGUF(h)
  \/ BuildNext

CkptSpec == CkptInit /\ [][CkptNext]_ckptVars

-----------------------------------------------------------------------------
(* Properties *)

\* The sources no model can be built from, all of them refused while it is built:
\* a GGUF or its import whose menu mixes in one matmul what merge_qtensor does not
\* merge, a hybrid GGUF with quantized gates of its own, and the import of a model
\* with experts or of a hybrid one.
Unbuildable(how) ==
  \/ /\ how.from = "gguf"
     /\ \/ ~ (how.menu[1] \in Floats <=> how.menu[2] \in Floats)
        \/ how.apart /\ how.menu[1] \notin Floats
  \/ /\ how.from = "import"
     /\ how.moe \/ how.hybrid \/ TargetScheme(how.menu[1]) # TargetScheme(how.menu[2])

\* The rows that do not keep their value: FP8 weights the converter has renamed
\* before it looks for their scale, and the vision tower's matmuls.
Misread(how, r) ==
  /\ how.from = "hf"
  /\ \/ r.of = "eye"
     \/ how.fp8 # "no" /\ (how.wrapped \/ (how.hybrid /\ r.of \in {"qkv", "z", "b", "a"}))

\* Each row the one it should be, and with its value unless it is misread.
SameRows(rows, want, how) ==
  /\ Len(rows) = Len(want)
  /\ \A i \in DOMAIN want :
       IF Misread(how, want[i]) THEN rows[i].of = want[i].of /\ rows[i].at = want[i].at ELSE rows[i] = want[i]

\* Rows of the source a shard's deletion may take: those of the shard that raised,
\* and a bare scale of a module's own in an FP8 checkpoint.
MayGo(k, r) ==
  \/ way = "failed" /\ k = Head(left)
  \/ r.of = "gate_scale" /\ job.fp8 # "no"

\* Whether some tensor of the output has all of these rows.
WrittenOut(rows) ==
  \E m \in DOMAIN sd :
    \A r \in Range(rows) : \E x \in Range(sd[m].rows) : x.of = r.of /\ x.expert = r.expert /\ x.at = r.at

\* Of the shards that are gone the output has every row; a conversion that raises
\* loses one shard at the most.
NothingIsLost ==
  way \in {"converting", "written", "failed"} /\ job.from = "hf" =>
    LET all == Published(job)
        pieces(rows) == {SelectSeq(rows, LAMBDA r : r.of = o) : o \in {r.of : r \in Range(rows)}}
    IN  \A k \in {1, 2} \ onDisk : \A n \in DOMAIN Shard(k, job) : \A piece \in pieces(all[n].rows) :
          WrittenOut(piece) \/ \A r \in Range(piece) : MayGo(k, r)

\* Whatever the shards, the precisions and the path a weight took, every parameter
\* a builder makes decodes to its own rows, each once, in order and with its own
\* value (Misread apart); no builder misses a weight, and of a source it cannot
\* build (Unbuildable) nothing is served; a norm of queries and keys in the
\* checkpoint is used although no configuration names it; and a converter that
\* deletes its source has written all of what it deleted, the shard that raised
\* and an FP8 checkpoint's bare scales apart.
CheckpointIntact ==
  /\ NothingIsLost
  /\ way = "serving" => qkNorm
  /\ way # "none" =>
       IF Unbuildable(job) THEN way # "serving"
       ELSE /\ way # "refused"
            /\ \A i \in DOMAIN built : SameRows(Reads(built[i]), Needs(job, qkNorm)[i].want, job)

\* Statements the code does not keep, for the README: every row with its value,
\* a model from every source, no shard deleted before its rows are written, and no
\* scale dropped that is a parameter of its own.
ValuesKept ==
  way # "none" /\ ~Unbuildable(job) => \A i \in DOMAIN built : Reads(built[i]) = Needs(job, qkNorm)[i].want
EverySourceBuilt == way # "refused"
ShardsOutliveErrors == way = "failed" => Head(left) \in onDisk
OwnScalesKept ==
  way = "written" /\ job.from = "hf" => \E m \in DOMAIN sd : \E x \in Range(sd[m].rows) : x.of = "gate_scale"
=============================================================================
