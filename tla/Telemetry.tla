----------------------------- MODULE Telemetry -----------------------------
(***************************************************************************)
(* The telemetry of metrics.py (StatsCollector) and the calls the worker     *)
(* and the engine make on it.  The worker thread records; /metrics takes a   *)
(* snapshot on another thread between any two records, each of which is one  *)
(* critical section.  What a request asks the engine for is the number of    *)
(* its tokens.                                                               *)
(***************************************************************************)
EXTENDS Integers, Sequences, SequencesExt, FiniteSets, FiniteSetsExt

CONSTANTS
  Clients,       \* the requests
  Lengths2,      \* tokens a request may ask for
  MaxRunning,    \* max_num_seqs
  RateWindow,    \* window_s, in ticks
  LatencyWindow, \* latency_window
  MaxTime        \* bound on the clock

ASSUME TelemetryAssumption ==
  /\ IsFiniteSet(Clients) /\ Lengths2 \subseteq Nat \ {0} /\ MaxRunning \in Nat \ {0}
  /\ RateWindow \in Nat /\ LatencyWindow \in Nat \ {0} /\ MaxTime \in Nat

VARIABLES
  wanted,   \* request -> max_tokens
  stage,    \* request -> "new", "waiting", "running", "over" (left the scheduler)
  made2,    \* request -> output tokens
  visit,    \* the requests _dispatch has still to visit
  told,     \* the requests whose handler was sent Done
  clock2,
  gauges,   \* running, waiting
  counters, \* total_requests, finished_requests, finish_reasons
  inflight, \* _inflight: request -> whether its first token was seen
  ttft, e2e, \* samples in the two bounded deques
  windows,  \* kind of step -> _samples: when, tokens
  steps     \* the steps made: kind, when, tokens

telemetryVars ==
  <<wanted, stage, made2, visit, told, clock2, gauges, counters, inflight, ttft, e2e, windows,
    steps>>

TelemetryInit ==
  /\ wanted = [r \in Clients |-> 0]
  /\ stage = [r \in Clients |-> "new"] /\ made2 = [r \in Clients |-> 0]
  /\ visit = {} /\ told = {} /\ clock2 = 0
  /\ gauges = [running |-> 0, waiting |-> 0]
  /\ counters = [total |-> 0, finished |-> 0, length |-> 0, cancelled |-> 0]
  /\ inflight = [r \in {} |-> FALSE] /\ ttft = 0 /\ e2e = 0
  /\ windows = [k \in {"prefill", "decode"} |-> <<>>] /\ steps = <<>>

InStage(st, s) == {r \in Clients : st[r] = s}
Depth(st) == [running |-> Cardinality(InStage(st, "running")), waiting |-> Cardinality(InStage(st, "waiting"))]

\* What the worker has in _pending: registered and not yet ended.
Pending2 == {r \in Clients : stage[r] # "new"} \ told

-----------------------------------------------------------------------------
(* The records *)

\* _evict
Recent(samples, now) ==
  LET old == {i \in 1..Len(samples) : samples[i].at < now - RateWindow}
      first == Max({0} \cup {i \in old : \A j \in 1..i : j \in old})
  IN  SubSeq(samples, first + 1, Len(samples))

\* record_step
RecordStep(kind, tokens, st) ==
  /\ gauges' = Depth(st)
  /\ windows' = [windows EXCEPT
       ![kind] = Recent(Append(@, [at |-> clock2, tokens |-> tokens]), clock2)]
  /\ steps' = Append(steps, [kind |-> kind, at |-> clock2, tokens |-> tokens])

\* record_request_start
RecordStart(r) ==
  /\ counters' = [counters EXCEPT !.total = @ + 1]
  /\ inflight' = [q \in DOMAIN inflight \cup {r} |-> IF q = r THEN FALSE ELSE inflight[q]]

\* A deque with maxlen drops its oldest sample.
OneMore(samples) == Min({LatencyWindow, samples + 1})

\* record_request_finish
RecordFinish(r, reason) ==
  /\ inflight' = [q \in DOMAIN inflight \ {r} |-> inflight[q]]
  /\ counters' = [counters EXCEPT !.finished = @ + 1, ![reason] = @ + 1]
  /\ e2e' = IF r \in DOMAIN inflight THEN OneMore(e2e) ELSE e2e

-----------------------------------------------------------------------------
(* The worker *)

\* _register
Begin2(r) ==
  /\ visit = {} /\ stage[r] = "new"
  /\ stage' = [stage EXCEPT ![r] = "waiting"]
  /\ \E n \in Lengths2 : wanted' = [wanted EXCEPT ![r] = n]
  /\ RecordStart(r)
  /\ UNCHANGED <<made2, visit, told, clock2, gauges, ttft, e2e, windows, steps>>

\* Mutant: a cancellation leaves the gauges as the last step set them.
RefreshKept(st) == gauges' = gauges

\* record_queue_depth: no step follows a cancellation.
Refresh(st) == gauges' = Depth(st)

\* _cancel
CancelClient(r) ==
  /\ visit = {} /\ r \in Pending2 /\ stage[r] \in {"waiting", "running"}
  /\ stage' = [stage EXCEPT ![r] = "over"]
  /\ Refresh(stage')
  /\ RecordFinish(r, "cancelled")
  /\ told' = told \cup {r}
  /\ UNCHANGED <<wanted, made2, visit, clock2, ttft, windows, steps>>

\* step(): a prefill of waiting requests, or a decode of all that run; each of
\* the batch gets a token (extra: those an accepted draft adds), and those that
\* have all they asked for leave.
EngineStep(batch, kind, extra) ==
  LET made(r) == IF r \in batch THEN Min({wanted[r], made2[r] + 1 + extra}) ELSE made2[r]
      tokens == Cardinality(batch)
  IN  /\ visit = {} /\ batch # {}
      /\ made2' = [r \in Clients |-> made(r)]
      /\ stage' = [r \in Clients |-> IF r \notin batch THEN stage[r]
                                     ELSE IF made(r) = wanted[r] THEN "over" ELSE "running"]
      /\ RecordStep(kind, tokens, stage')
      /\ visit' = Pending2
      /\ UNCHANGED <<wanted, told, clock2, counters, inflight, ttft, e2e>>

PrefillStep(batch) ==
  /\ batch \subseteq InStage(stage, "waiting")
  /\ Cardinality(batch) + Cardinality(InStage(stage, "running")) <= MaxRunning
  /\ EngineStep(batch, "prefill", 0)

DecodeStep(extra) ==
  /\ InStage(stage, "waiting") = {} \/ Cardinality(InStage(stage, "running")) = MaxRunning
  /\ EngineStep(InStage(stage, "running"), "decode", extra)

\* _dispatch, one request: record_first_token, then the finish, then Done.
DispatchFirst(r) ==
  /\ r \in visit /\ r \in DOMAIN inflight /\ ~inflight[r] /\ made2[r] > 0
  /\ inflight' = [inflight EXCEPT ![r] = TRUE]
  /\ ttft' = OneMore(ttft)
  /\ UNCHANGED <<wanted, stage, made2, visit, told, clock2, gauges, counters, e2e, windows,
                 steps>>

DispatchFinish(r) ==
  /\ r \in visit /\ stage[r] = "over" /\ r \in DOMAIN inflight /\ inflight[r]
  /\ RecordFinish(r, "length")
  /\ UNCHANGED <<wanted, stage, made2, visit, told, clock2, gauges, ttft, windows, steps>>

DispatchDone(r) ==
  /\ r \in visit /\ visit' = visit \ {r}
  /\ IF stage[r] = "over"
       THEN r \notin DOMAIN inflight /\ told' = told \cup {r}
       ELSE (made2[r] > 0 => inflight[r]) /\ told' = told
  /\ UNCHANGED <<wanted, stage, made2, clock2, gauges, counters, inflight, ttft, e2e, windows,
                 steps>>

TokensOf(s) == FoldSeq(LAMBDA x, sum : x.tokens + sum, 0, s)

\* snapshot: what /metrics shows; each rate forgets what the window no longer holds.
Snapshot ==
  [gauges    |-> gauges,
   counters  |-> counters,
   inflight  |-> Cardinality(DOMAIN inflight),
   latencies |-> [ttft |-> ttft, e2e |-> e2e],
   tokens    |-> [k \in DOMAIN windows |-> TokensOf(Recent(windows[k], clock2))]]

Tick2 ==
  /\ clock2 < MaxTime /\ clock2' = clock2 + 1
  /\ UNCHANGED <<wanted, stage, made2, visit, told, gauges, counters, inflight, ttft, e2e,
                 windows, steps>>

TelemetryNext ==
  \/ \E r \in Clients :
       Begin2(r) \/ CancelClient(r) \/ DispatchFirst(r) \/ DispatchFinish(r) \/ DispatchDone(r)
  \/ \E batch \in SUBSET Clients : PrefillStep(batch)
  \/ \E extra \in {0, 1} : DecodeStep(extra)
  \/ Tick2

-----------------------------------------------------------------------------
(* Properties *)

\* Whenever a snapshot is taken: every request started is in flight or finished,
\* for one reason; the finish of a request whose handler has its Done is
\* counted; with nothing pending the gauges are back at zero, whatever ended the
\* last request; each latency has one sample a request, as far as the deque
\* goes; and the rates are those of the last window_s.
ReportIsTrue ==
  LET shown == Snapshot
  IN  /\ shown.counters.total = shown.counters.finished + shown.inflight
      /\ shown.counters.finished = shown.counters.length + shown.counters.cancelled
      /\ told \cap DOMAIN inflight = {}
      /\ Pending2 = {} => shown.gauges = [running |-> 0, waiting |-> 0]
      /\ shown.latencies.e2e = Min({LatencyWindow, shown.counters.finished})
      /\ shown.latencies.ttft <= shown.latencies.e2e
                                   + Cardinality({r \in DOMAIN inflight : inflight[r]})
      /\ \A k \in DOMAIN windows :
           shown.tokens[k] =
             TokensOf(SelectSeq(steps, LAMBDA s : s.kind = k /\ s.at >= clock2 - RateWindow))

\* The tokens counted as output are those the requests got.
CountsOutput ==
  visit = {} =>
    TokensOf(SelectSeq(steps, LAMBDA s : s.kind = "decode")) = MapThenSumSet(LAMBDA r : made2[r], Clients)
=============================================================================
