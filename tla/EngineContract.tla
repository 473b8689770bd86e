---------------------------- MODULE EngineContract ----------------------------
(***************************************************************************)
(* What LLMEngine promises its caller about a generation request: it comes *)
(* alive when it is added, then gains tokens one at a time, at most        *)
(* max_tokens of them, until it is finished after at least one token or is *)
(* cancelled; once done it gains nothing more.  LLMEngine implements this; *)
(* EngineWorker is built on it.                                            *)
(***************************************************************************)
EXTENDS Naturals

CONSTANTS
  Requests,   \* generation requests
  MaxTokens   \* params.max_tokens of each

ASSUME ContractAssumption == MaxTokens \in [Requests -> Nat \ {0}]

VARIABLES
  life,       \* "new", "live" (WAITING or RUNNING) or "done" (FINISHED)
  tokens      \* len(output_ids)

contractVars == <<life, tokens>>

ContractInit ==
  /\ life = [r \in Requests |-> "new"]
  /\ tokens = [r \in Requests |-> 0]

\* add_request
Begin(r) ==
  /\ life[r] = "new"
  /\ life' = [life EXCEPT ![r] = "live"]
  /\ UNCHANGED tokens

\* step() appends a token to output_ids.
Emit(r) ==
  /\ life[r] = "live"
  /\ tokens[r] < MaxTokens[r]
  /\ tokens' = [tokens EXCEPT ![r] = @ + 1]
  /\ UNCHANGED life

\* step() finds the request finished.
Finish(r) ==
  /\ life[r] = "live"
  /\ tokens[r] > 0
  /\ life' = [life EXCEPT ![r] = "done"]
  /\ UNCHANGED tokens

\* cancel
Drop(r) ==
  /\ life[r] = "live"
  /\ life' = [life EXCEPT ![r] = "done"]
  /\ UNCHANGED tokens

ContractNext == \E r \in Requests : Begin(r) \/ Emit(r) \/ Finish(r) \/ Drop(r)

ContractSpec == ContractInit /\ [][ContractNext]_contractVars

ContractTypeOK ==
  /\ life \in [Requests -> {"new", "live", "done"}]
  /\ tokens \in [Requests -> Nat]
=============================================================================
