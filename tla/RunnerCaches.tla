---------------------------- MODULE RunnerCaches ----------------------------
(***************************************************************************)
(* The contiguous caches of models/cache.py, KVCache and MLALatentCache,    *)
(* which keep ONE length for all rows, and their two clients: ModelRunner   *)
(* (models/runner.py), a fixed batch in lock step, and the engine, which    *)
(* gives each sequence a slot of the latent cache.  The layers do the same, *)
(* so one is kept; a cached value is the row's request and position.        *)
(***************************************************************************)
EXTENDS Integers, Sequences, SequencesExt, FiniteSets, FiniteSetsExt

CONSTANTS
  Rows2,       \* rows of the store
  StoreLen,    \* max_len
  PromptRange, \* prompt lengths
  MaxJobs,     \* bound on the requests made
  UsedBy       \* {"runner"} or {"engine"}: who drives the cache

ASSUME CachesAssumption ==
  /\ IsFiniteSet(Rows2) /\ StoreLen \in Nat \ {0}
  /\ PromptRange \subseteq 1..StoreLen /\ MaxJobs \in Nat
  /\ UsedBy \subseteq {"runner", "engine"}

VARIABLES
  client,   \* who drives it, "nobody" before the first call
  kind,     \* "kv" or "latent"
  store,    \* row -> position -> what was last written there
  length2,  \* the cache's one length
  spare,    \* _free_slots
  jobs,     \* row -> the request it serves and its tokens so far
  attended, \* row -> what its last decode attended to
  made      \* requests made

cacheVars == <<client, kind, store, length2, spare, jobs, attended, made>>

NoJob == [id |-> 0, tokens |-> 0]
Unwritten == <<0, 0>>

CachesInit ==
  /\ client = "nobody" /\ kind = "latent"
  /\ store = [r \in Rows2 |-> [p \in 1..StoreLen |-> Unwritten]]
  /\ length2 = 0 /\ spare = SetToSeq(Rows2)
  /\ jobs = [r \in Rows2 |-> NoJob]
  /\ attended = [r \in Rows2 |-> <<>>] /\ made = 0

\* What the row's request has written to its cache by rights.
History(r) == [p \in 1..jobs[r].tokens |-> <<jobs[r].id, p>>]

\* write_prefill: positions 1..n.
Filled(row, id, n) == [p \in 1..StoreLen |-> IF p <= n THEN <<id, p>> ELSE row[p]]

\* A write at position p; past the store the slice is empty and nothing is kept.
Put(row, p, v) == IF p <= StoreLen THEN [row EXCEPT ![p] = v] ELSE row
UpTo(row, p) == SubSeq(row, 1, Min({p, StoreLen}))

-----------------------------------------------------------------------------
(* ModelRunner *)

\* Mutant: the length goes on from the batch before.
ResetLengthKept(n) == length2 + n

\* reset, then advance(S)
ResetLength(n) == n

\* prefill: the whole batch at positions [0, S), each row a request of its own.
RunnerPrefill(n) ==
  /\ client \in {"nobody", "runner"} /\ "runner" \in UsedBy
  /\ client' = "runner" /\ made + Cardinality(Rows2) <= MaxJobs
  /\ kind' \in IF client = "nobody" THEN {"kv", "latent"} ELSE {kind}
  /\ \E ids \in [Rows2 -> (made + 1)..(made + Cardinality(Rows2))] :
       /\ \A r, q \in Rows2 : ids[r] = ids[q] => r = q
       /\ store' = [r \in Rows2 |-> Filled(store[r], ids[r], n)]
       /\ jobs' = [r \in Rows2 |-> [id |-> ids[r], tokens |-> n]]
  /\ made' = made + Cardinality(Rows2)
  /\ length2' = ResetLength(n)
  /\ attended' = [r \in Rows2 |-> <<>>]
  /\ UNCHANGED spare

\* decode: append_decode at the length in every layer, then advance(1).
RunnerDecode ==
  /\ client = "runner"
  /\ \A r \in Rows2 : jobs[r].tokens <= StoreLen
  /\ LET p == length2 + 1
     IN  /\ store' = [r \in Rows2 |-> Put(store[r], p, <<jobs[r].id, jobs[r].tokens + 1>>)]
         /\ attended' = [r \in Rows2 |-> UpTo(store'[r], p)]
  /\ jobs' = [r \in Rows2 |-> [jobs[r] EXCEPT !.tokens = @ + 1]]
  /\ length2' = length2 + 1
  /\ UNCHANGED <<client, kind, spare, made>>

-----------------------------------------------------------------------------
(* The engine over the latent cache *)

Tenants == {r \in Rows2 : jobs[r] # NoJob}

\* alloc pops the last free slot; prefill writes that row only.
EnginePrefill(n) ==
  /\ client \in {"nobody", "engine"} /\ "engine" \in UsedBy
  /\ client' = "engine" /\ spare # <<>> /\ made < MaxJobs
  /\ LET r == Last(spare)
     IN  /\ store' = [store EXCEPT ![r] = Filled(@, made + 1, n)]
         /\ jobs' = [jobs EXCEPT ![r] = [id |-> made + 1, tokens |-> n]]
         /\ attended' = [attended EXCEPT ![r] = <<>>]
  /\ spare' = Front(spare) /\ made' = made + 1
  /\ UNCHANGED <<kind, length2>>

\* append_decode(slots = ...): at the cache's length, which no engine path moves.
EngineDecode ==
  /\ client = "engine" /\ Tenants # {}
  /\ \A r \in Tenants : jobs[r].tokens < StoreLen
  /\ LET p == length2 + 1
     IN  /\ store' = [r \in Rows2 |->
              IF r \in Tenants THEN Put(store[r], p, <<jobs[r].id, jobs[r].tokens + 1>>) ELSE store[r]]
         /\ attended' = [r \in Rows2 |-> IF r \in Tenants THEN UpTo(store'[r], p) ELSE attended[r]]
  /\ jobs' = [r \in Rows2 |-> IF r \in Tenants THEN [jobs[r] EXCEPT !.tokens = @ + 1] ELSE jobs[r]]
  /\ UNCHANGED <<client, kind, length2, spare, made>>

\* free
EngineFinish(r) ==
  /\ client = "engine" /\ r \in Tenants
  /\ spare' = IF \E i \in DOMAIN spare : spare[i] = r THEN spare ELSE Append(spare, r)
  /\ jobs' = [jobs EXCEPT ![r] = NoJob] /\ attended' = [attended EXCEPT ![r] = <<>>]
  /\ UNCHANGED <<client, kind, store, length2, made>>

CachesNext ==
  \/ \E n \in PromptRange : RunnerPrefill(n) \/ EnginePrefill(n)
  \/ RunnerDecode \/ EngineDecode
  \/ \E r \in Rows2 : EngineFinish(r)

CachesSpec == CachesInit /\ [][CachesNext]_cacheVars

-----------------------------------------------------------------------------
(* Properties *)

\* As long as the text fits the store, a decode of ModelRunner attends to the
\* row's whole history in order and to nothing else, whatever the batches before
\* it left behind the length.
RowsSeeHistory ==
  client = "runner" => \A r \in Rows2 :
    attended[r] # <<>> /\ jobs[r].tokens <= StoreLen => attended[r] = History(r)

\* "slots (list[int], engine decode): write each batch row to its slot and
\* return the per-slot cached history" (models/cache.py).  Not kept: the engine
\* never moves the length, so every decode writes at position 0 and attends to
\* its newest token alone.
EngineSeesHistory ==
  client = "engine" => \A r \in Tenants : attended[r] # <<>> => attended[r] = History(r)

\* A decode past max_len attends to its own token.  Not kept: the write to the
\* empty slice is dropped without an error.
NewestIsSeen == \A r \in Rows2 : attended[r] # <<>> => Last(attended[r])[2] = jobs[r].tokens
=============================================================================
