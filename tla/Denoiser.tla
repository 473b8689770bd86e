------------------------------ MODULE Denoiser ------------------------------
(***************************************************************************)
(* DiffusionDecodeStrategy.generate (engine/decode_strategy.py) and the     *)
(* branch of LLMEngine.step that runs it: a masked span, a forward, the     *)
(* most confident part unmasked, the next forward.  The logits are known by *)
(* the number of the forward that made them; which masked positions are     *)
(* most confident is arbitrary.                                             *)
(***************************************************************************)
EXTENDS Integers, FiniteSets, FiniteSetsExt

CONSTANTS
  PromptSizes,  \* lengths of the prompts
  OutputSizes,  \* max_tokens of the requests
  StepCounts    \* num_steps of the engine

ASSUME DenoiserAssumption == PromptSizes \cup OutputSizes \cup StepCounts \subseteq Nat

VARIABLES
  canvas,    \* full_ids: position -> Given, Mask or the forward it is from
  masked,    \* positions still to be decided
  request,   \* the prompt's length, max_tokens and num_steps
  turn,      \* denoise steps taken
  forwards,  \* forwards run
  phase,     \* "idle", "loop" or "done"
  chance     \* positions filled by the final multinomial

denoiseVars == <<canvas, masked, request, turn, forwards, phase, chance>>

Given == 0
Mask == -1

DenoiseInit ==
  /\ canvas = <<>> /\ masked = {} /\ request = [prompt |-> 0, tokens |-> 0, steps |-> 0]
  /\ turn = 0 /\ forwards = 0 /\ phase = "idle" /\ chance = {}

\* A fresh span of mask ids behind the prompt, and the first forward.
Begin(prompt, tokens, steps) ==
  /\ phase = "idle"
  /\ request' = [prompt |-> prompt, tokens |-> tokens, steps |-> steps]
  /\ canvas' = [p \in 1..(prompt + tokens) |-> IF p <= prompt THEN Given ELSE Mask]
  /\ masked' = (prompt + 1)..(prompt + tokens)
  /\ forwards' = 1 /\ turn' = 0 /\ phase' = "loop" /\ chance' = {}

\* Mutant: the current step is taken for spent.
UnmaskedLate == Min({Max({1, Cardinality(masked) \div (request.steps - turn + 1)}), Cardinality(masked)})

\* n_unmask: the rest is spread over the steps left, at least one a step.
Unmasked == Min({Max({1, Cardinality(masked) \div (request.steps - turn)}), Cardinality(masked)})

\* No forward follows the step that decides the last position.
Unmask ==
  /\ phase = "loop" /\ turn < request.steps /\ masked # {}
  /\ \E chosen \in kSubset(Unmasked, masked) :
       /\ canvas' = [p \in DOMAIN canvas |-> IF p \in chosen THEN forwards ELSE canvas[p]]
       /\ masked' = masked \ chosen
  /\ turn' = turn + 1
  /\ forwards' = IF masked' = {} THEN forwards ELSE forwards + 1
  /\ UNCHANGED <<request, phase, chance>>

\* What is left is sampled from the last forward; the engine appends the span
\* to the output and the sequence is over in the same step.
Discretize ==
  /\ phase = "loop" /\ (turn = request.steps \/ masked = {})
  /\ canvas' = [p \in DOMAIN canvas |-> IF p \in masked THEN forwards ELSE canvas[p]]
  /\ chance' = masked /\ masked' = {} /\ phase' = "done"
  /\ UNCHANGED <<request, turn, forwards>>

DenoiseNext ==
  \/ \E p \in PromptSizes, t \in OutputSizes, s \in StepCounts : Begin(p, t, s)
  \/ Unmask \/ Discretize

DenoiseSpec == DenoiseInit /\ [][DenoiseNext]_denoiseVars

-----------------------------------------------------------------------------
(* Property *)

Share(f) == Cardinality({p \in DOMAIN canvas : canvas[p] = f})
Drawn == {f \in 1..forwards : Share(f) > 0}

\* A finished request is max_tokens long with its prompt as it was and no mask
\* left; no forward was run in vain and there were no more of them than steps
\* (one where there are none); the divisions spread the span so that no forward
\* decides two positions more than another; and no token is left to chance
\* unless the engine has no denoise steps, whatever num_steps and max_tokens are.
DenoisedOnce ==
  phase = "done" =>
    /\ DOMAIN canvas = 1..(request.prompt + request.tokens)
    /\ \A p \in DOMAIN canvas : (canvas[p] = Given) <=> (p <= request.prompt)
    /\ \A p \in DOMAIN canvas : canvas[p] # Mask
    /\ forwards <= Max({request.steps, 1})
    /\ request.tokens > 0 => Drawn = 1..forwards
    /\ \A f, g \in Drawn : Share(f) <= Share(g) + 1
    /\ request.steps > 0 => chance = {}
=============================================================================
