---------------------------- MODULE StreamContract ----------------------------
(***************************************************************************)
(* What EngineWorker promises an HTTP handler (api/runtime.py, submit): a  *)
(* request's queue carries its tokens in order, then a single Done, then   *)
(* nothing; and Done does arrive.                                          *)
(***************************************************************************)
EXTENDS Naturals, Sequences

CONSTANTS
  Requests,   \* generation requests
  Limit       \* the most tokens a request is given

VARIABLES
  open,       \* requests that were submitted
  log         \* everything ever put into each request's queue

streamVars == <<open, log>>

Done == 0     \* a token is the number of its place in the output, from 1

Ended(r) == \E i \in DOMAIN log[r] : log[r][i] = Done

StreamInit ==
  /\ open = {}
  /\ log = [r \in Requests |-> <<>>]

Open(r) ==
  /\ r \notin open
  /\ open' = open \cup {r}
  /\ UNCHANGED log

Put(r) ==
  /\ r \in open
  /\ ~ Ended(r)
  /\ Len(log[r]) < Limit[r]
  /\ log' = [log EXCEPT ![r] = Append(@, Len(@) + 1)]
  /\ UNCHANGED open

End(r) ==
  /\ r \in open
  /\ ~ Ended(r)
  /\ log' = [log EXCEPT ![r] = Append(@, Done)]
  /\ UNCHANGED open

StreamNext == \E r \in Requests : Open(r) \/ Put(r) \/ End(r)

\* The safety half of the promise.
StreamSafeSpec == StreamInit /\ [][StreamNext]_streamVars

\* With the promise that Done arrives.
StreamSpec == StreamSafeSpec /\ \A r \in Requests : WF_streamVars(End(r))
=============================================================================
