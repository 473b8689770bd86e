---------------------------- MODULE MCEngineWorker ----------------------------
(* Model-checking instances of EngineWorker. *)
EXTENDS EngineWorker, TLC

CONSTANTS
  r1, r2,   \* generation requests
  e1,       \* a caller of encode()
  Most      \* max_tokens of every request

MCRequests == {r1, r2}
MCEncoders == {e1}
MCNoEncoders == {}
MCMaxTokens == [r \in Requests |-> Most]
MCSymmetry == Permutations(MCRequests)
=============================================================================
