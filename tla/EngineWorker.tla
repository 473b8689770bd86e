----------------------------- MODULE EngineWorker -----------------------------
(***************************************************************************)
(* The worker of api/runtime.py (EngineWorker): one thread owns the engine *)
(* and drains a FIFO inbox that the HTTP handlers fill.  Each handler      *)
(* reads its own unbounded queue until Done, or abandons the stream and    *)
(* posts a cancellation; an embedding caller blocks for its answer; close  *)
(* posts a stop sentinel.                                                  *)
(*                                                                         *)
(* The threads interleave at every access to state they share: the closed  *)
(* flag, the inbox, the terminal flag and the queues.  The engine is that  *)
(* of EngineContract: one call of step() is a run of its Emit and Finish.  *)
(***************************************************************************)
EXTENDS EngineContract, FiniteSets, SequencesExt

CONSTANTS
  Encoders,       \* callers of encode()
  CanClose,       \* whether close() may be called
  CoalesceTarget, \* idle_coalesce_target; 0 stands for idle_coalesce_ms = 0
  StepMayRaise    \* whether engine.step() may raise

ASSUME WorkerAssumption ==
  /\ IsFiniteSet(Requests) /\ IsFiniteSet(Encoders)
  /\ CanClose \in BOOLEAN
  /\ CoalesceTarget \in Nat
  /\ StepMayRaise \in BOOLEAN

VARIABLES
  wpc,         \* where the worker thread is in _run
  wasIdle,     \* _run's local was_idle
  inbox,       \* _inbox
  pending,     \* the requests in _pending, in the order of the dict
  todo,        \* those _dispatch has still to visit
  ending,      \* _dispatch's local done_ids
  emitted,     \* requests that gained a token in this call of step()
  sent,        \* _PendingRequest.sent
  terminal,    \* _PendingRequest.terminal
  queue,       \* _PendingRequest.out_queue: token numbers, then Done
  hpc,         \* where each HTTP handler is
  got,         \* what stream() has yielded to its consumer
  epc,         \* where each encode() caller is
  lost,        \* requests a failed encode() left in no list of the scheduler
  closer       \* where close() is

runVars == <<wpc, wasIdle, pending, todo, ending, emitted, sent>>
handleVars == <<terminal, queue, hpc, got>>
encVars == <<epc, lost>>
vars == <<contractVars, runVars, inbox, handleVars, encVars, closer>>

Done == 0      \* a token is the number of its place in the output, from 1

Stop == [kind |-> "stop"]
Item(kind, who) == [kind |-> kind, who |-> who]

\* _closed
Closed == closer # "open"

Live == {r \in Requests : life[r] = "live"}

\* Those in the scheduler's waiting or running list: step() and cancel() find them.
Listed == Live \ lost

\* A call of engine.encode() raised.
Failed == \E e \in Encoders : epc[e] = "failed"

\* A call of encode() ended.  Its own request goes on in the engine as a generation,
\* to its default max_tokens, and a step may be spent on it alone.
Encoded == \E e \in Encoders : epc[e] \in {"answered", "failed"}

Enqueue(item) == inbox' = Append(inbox, item)

\* del _pending[...]
Without(s, r) == RemoveFirst(s, r)

Init ==
  /\ ContractInit
  /\ wpc = "top"
  /\ wasIdle = FALSE
  /\ inbox = <<>>
  /\ pending = <<>>
  /\ todo = <<>>
  /\ ending = {}
  /\ emitted = {}
  /\ sent = [r \in Requests |-> 0]
  /\ terminal = [r \in Requests |-> FALSE]
  /\ queue = [r \in Requests |-> <<>>]
  /\ hpc = [r \in Requests |-> "start"]
  /\ got = [r \in Requests |-> <<>>]
  /\ epc = [e \in Encoders |-> "start"]
  /\ lost = {}
  /\ closer = "open"

-----------------------------------------------------------------------------
(* The HTTP handlers: submit() and stream() *)

\* submit() tests _closed, and raises when it is set.
CheckOpen(r) ==
  /\ hpc[r] = "start"
  /\ hpc' = [hpc EXCEPT ![r] = IF Closed THEN "refused" ELSE "checked"]
  /\ UNCHANGED <<contractVars, runVars, inbox, terminal, queue, got, encVars, closer>>

\* It puts the request into the inbox.
Submit(r) ==
  /\ hpc[r] = "checked"
  /\ Enqueue(Item("generate", r))
  /\ hpc' = [hpc EXCEPT ![r] = "reading"]
  /\ UNCHANGED <<contractVars, runVars, terminal, queue, got, encVars, closer>>

\* stream() takes the next item off the queue and yields it.
Read(r) ==
  /\ hpc[r] = "reading"
  /\ queue[r] # <<>>
  /\ queue' = [queue EXCEPT ![r] = Tail(@)]
  /\ got' = [got EXCEPT ![r] = Append(@, Head(queue[r]))]
  /\ IF Head(queue[r]) = Done
       THEN /\ hpc' = [hpc EXCEPT ![r] = "finished"]
            /\ terminal' = [terminal EXCEPT ![r] = TRUE]
       ELSE UNCHANGED <<hpc, terminal>>
  /\ UNCHANGED <<contractVars, runVars, inbox, encVars, closer>>

\* The consumer abandons the stream; "finally" tests the terminal flag.
Abandon(r) ==
  /\ hpc[r] = "reading"
  /\ hpc' = [hpc EXCEPT ![r] = IF terminal[r] THEN "gone" ELSE "aborting"]
  /\ UNCHANGED <<contractVars, runVars, inbox, terminal, queue, got, encVars, closer>>

\* It posts the cancellation, possibly after the worker finished the request.
PostCancel(r) ==
  /\ hpc[r] = "aborting"
  /\ Enqueue(Item("cancel", r))
  /\ hpc' = [hpc EXCEPT ![r] = "gone"]
  /\ UNCHANGED <<contractVars, runVars, terminal, queue, got, encVars, closer>>

-----------------------------------------------------------------------------
(* The callers of encode(), and close() *)

CheckOpenEncode(e) ==
  /\ epc[e] = "start"
  /\ epc' = [epc EXCEPT ![e] = IF Closed THEN "refused" ELSE "checked"]
  /\ UNCHANGED <<contractVars, runVars, inbox, handleVars, lost, closer>>

SubmitEncode(e) ==
  /\ epc[e] = "checked"
  /\ Enqueue(Item("encode", e))
  /\ epc' = [epc EXCEPT ![e] = "blocked"]
  /\ UNCHANGED <<contractVars, runVars, handleVars, lost, closer>>

\* close() sets _closed, then posts _STOP.
SetClosed ==
  /\ CanClose
  /\ closer = "open"
  /\ closer' = "closing"
  /\ UNCHANGED <<contractVars, runVars, inbox, handleVars, encVars>>

PostStop ==
  /\ closer = "closing"
  /\ Enqueue(Stop)
  /\ closer' = "joining"
  /\ UNCHANGED <<contractVars, runVars, handleVars, encVars>>

-----------------------------------------------------------------------------
(* The worker thread: _run up to the call of step() *)

\* _register
Register(r) ==
  /\ Begin(r)
  /\ pending' = Append(pending, r)
  /\ UNCHANGED <<sent, terminal, queue, encVars>>

\* engine.encode() may take waiting or running requests into its batch and marks
\* those finished, too; then the caller is answered.
EncodeReturns(e) ==
  /\ \E S \in SUBSET Listed : life' = [r \in Requests |-> IF r \in S THEN "done" ELSE life[r]]
  /\ epc' = [epc EXCEPT ![e] = "answered"]
  /\ UNCHANGED lost

\* Or it raises after schedule(): the waiting requests it had admitted stay RUNNING
\* in no list, and the caller is given the error.
EncodeRaises(e) ==
  /\ \E S \in SUBSET Listed : lost' = lost \cup S
  /\ epc' = [epc EXCEPT ![e] = "failed"]
  /\ UNCHANGED life

AnswerEncode(e) ==
  /\ EncodeReturns(e) \/ EncodeRaises(e)
  /\ UNCHANGED <<tokens, pending, sent, terminal, queue>>

\* Mutant: without the test of the terminal flag and of _pending.
CancelTwice(r) ==
  /\ life' = [life EXCEPT ![r] = "done"]
  /\ terminal' = [terminal EXCEPT ![r] = TRUE]
  /\ pending' = Without(pending, r)
  /\ queue' = [queue EXCEPT ![r] = Append(@, Done)]
  /\ UNCHANGED <<tokens, sent, encVars>>

\* Mutant: the engine is not told.
CancelHandleOnly(r) ==
  IF terminal[r] \/ ~ Contains(pending, r)
    THEN UNCHANGED <<contractVars, pending, sent, terminal, queue, encVars>>
    ELSE /\ terminal' = [terminal EXCEPT ![r] = TRUE]
         /\ pending' = Without(pending, r)
         /\ queue' = [queue EXCEPT ![r] = Append(@, Done)]
         /\ UNCHANGED <<contractVars, sent, encVars>>

\* _cancel: a no-op for a request that is over.  scheduler.cancel returns False for
\* one in no list, whose slot stays taken.
CancelPending(r) ==
  IF terminal[r] \/ ~ Contains(pending, r)
    THEN UNCHANGED <<contractVars, pending, sent, terminal, queue, encVars>>
    ELSE /\ life' = IF r \in lost THEN life ELSE [life EXCEPT ![r] = "done"]
         /\ terminal' = [terminal EXCEPT ![r] = TRUE]
         /\ pending' = Without(pending, r)
         /\ queue' = [queue EXCEPT ![r] = Append(@, Done)]
         /\ UNCHANGED <<tokens, sent, encVars>>

\* _intake
Intake(item) ==
  CASE item.kind = "generate" -> Register(item.who)
    [] item.kind = "encode"   -> AnswerEncode(item.who)
    [] item.kind = "cancel"   -> CancelPending(item.who)

\* Takes the head of the inbox, which is not the sentinel.
TakeItem ==
  /\ inbox # <<>>
  /\ Head(inbox) # Stop
  /\ Intake(Head(inbox))
  /\ inbox' = Tail(inbox)

\* Mutant: the sentinel is dropped.
StopDropped == inbox' = Tail(inbox)

\* The sentinel goes back to the end of the inbox.
StopKept == inbox' = Append(Tail(inbox), Stop)

\* The head of the loop while generations are in flight.
TopBusy ==
  /\ wpc = "top"
  /\ pending # <<>>
  /\ wasIdle' = FALSE
  /\ wpc' = "drain"
  /\ UNCHANGED <<contractVars, inbox, pending, todo, ending, emitted, sent, handleVars, encVars,
                 closer>>

\* The blocking get of an idle worker.
TopIdle ==
  /\ wpc = "top"
  /\ pending = <<>>
  /\ wasIdle' = TRUE
  /\ TakeItem
  /\ wpc' = "drain"
  /\ UNCHANGED <<todo, ending, emitted, hpc, got, closer>>

\* Mutant: stops with generations in flight.
TopStopEager ==
  /\ wpc = "top"
  /\ inbox # <<>>
  /\ Head(inbox) = Stop
  /\ wasIdle' = TRUE
  /\ inbox' = Tail(inbox)
  /\ wpc' = "stopped"
  /\ UNCHANGED <<contractVars, pending, todo, ending, emitted, sent, handleVars, encVars, closer>>

TopStop ==
  /\ wpc = "top"
  /\ pending = <<>>
  /\ inbox # <<>>
  /\ Head(inbox) = Stop
  /\ wasIdle' = TRUE
  /\ inbox' = Tail(inbox)
  /\ wpc' = "stopped"
  /\ UNCHANGED <<contractVars, pending, todo, ending, emitted, sent, handleVars, encVars, closer>>

\* One turn of the get_nowait loop.
Drain ==
  /\ wpc = "drain"
  /\ TakeItem
  /\ UNCHANGED <<wpc, wasIdle, todo, ending, emitted, hpc, got, closer>>

\* Where _run goes from the end of that loop, and of _coalesce_idle_start.
AfterDrain ==
  IF pending = <<>> THEN "top"
  ELSE IF wasIdle /\ CoalesceTarget > 0 THEN "coalesce"
  ELSE "step"

AfterCoalesce == IF pending = <<>> THEN "top" ELSE "step"

\* The inbox is empty, or gives the sentinel.
DrainEnd ==
  /\ wpc = "drain"
  /\ \/ inbox = <<>> /\ UNCHANGED inbox
     \/ inbox # <<>> /\ Head(inbox) = Stop /\ StopKept
  /\ wpc' = AfterDrain
  /\ emitted' = {}
  /\ UNCHANGED <<contractVars, wasIdle, pending, todo, ending, sent, handleVars, encVars, closer>>

\* _coalesce_idle_start takes an item,
Coalesce ==
  /\ wpc = "coalesce"
  /\ Len(pending) < CoalesceTarget
  /\ TakeItem
  /\ UNCHANGED <<wpc, wasIdle, todo, ending, emitted, hpc, got, closer>>

\* or ends: at its target, at the deadline, or with the sentinel.
CoalesceEnd ==
  /\ wpc = "coalesce"
  /\ \/ UNCHANGED inbox
     \/ /\ Len(pending) < CoalesceTarget
        /\ inbox # <<>>
        /\ Head(inbox) = Stop
        /\ StopKept
  /\ wpc' = AfterCoalesce
  /\ UNCHANGED <<contractVars, wasIdle, pending, todo, ending, emitted, sent, handleVars, encVars,
                 closer>>

-----------------------------------------------------------------------------
(* The worker thread: engine.step() and _dispatch *)

\* step() gives a request its next token.
StepEmit(r) ==
  /\ wpc = "step"
  /\ r \in Listed \ emitted
  /\ Emit(r)
  /\ emitted' = emitted \cup {r}
  /\ UNCHANGED <<wpc, wasIdle, inbox, pending, todo, ending, sent, handleVars, encVars, closer>>

\* step() finishes a request, on its last token or on an eos.
StepFinish(r) ==
  /\ wpc = "step"
  /\ r \in Listed \cap emitted
  /\ Finish(r)
  /\ UNCHANGED <<runVars, inbox, handleVars, encVars, closer>>

\* step() returns: it has given a token to some request if the scheduler lists any
\* and no call of encode() left it others, and those with max_tokens are finished.
StepReturn ==
  /\ wpc = "step"
  /\ emitted # {} \/ Listed = {} \/ Encoded
  /\ \A r \in Listed : tokens[r] < MaxTokens[r]
  /\ wpc' = "dispatch"
  /\ todo' = pending
  /\ ending' = {}
  /\ UNCHANGED <<contractVars, wasIdle, inbox, pending, emitted, sent, handleVars, encVars, closer>>

\* step() raises: nothing in _run catches it, and the thread ends.
StepRaise ==
  /\ StepMayRaise
  /\ wpc = "step"
  /\ wpc' = "dead"
  /\ UNCHANGED <<contractVars, wasIdle, inbox, pending, todo, ending, emitted, sent,
                 handleVars, encVars, closer>>

Visiting(r) == wpc = "dispatch" /\ todo # <<>> /\ Head(todo) = r

\* Mutant: puts a token whether or not there is a new one.
PutTokenAlways(r) ==
  /\ Visiting(r)
  /\ sent' = [sent EXCEPT ![r] = @ + 1]
  /\ queue' = [queue EXCEPT ![r] = Append(@, sent[r] + 1)]
  /\ UNCHANGED <<contractVars, wpc, wasIdle, pending, todo, ending, emitted, inbox, terminal,
                 hpc, got, encVars, closer>>

\* _dispatch puts a token into the queue of the request it visits.
PutToken(r) ==
  /\ Visiting(r)
  /\ sent[r] < tokens[r]
  /\ sent' = [sent EXCEPT ![r] = @ + 1]
  /\ queue' = [queue EXCEPT ![r] = Append(@, sent[r] + 1)]
  /\ UNCHANGED <<contractVars, wpc, wasIdle, pending, todo, ending, emitted, inbox, terminal,
                 hpc, got, encVars, closer>>

\* Mutant: looks only at the status.
MarkTerminalEarly(r) ==
  /\ Visiting(r)
  /\ life[r] = "done"
  /\ ~ terminal[r]
  /\ terminal' = [terminal EXCEPT ![r] = TRUE]
  /\ UNCHANGED <<contractVars, runVars, inbox, queue, hpc, got, encVars, closer>>

\* It marks a finished request terminal
MarkTerminal(r) ==
  /\ Visiting(r)
  /\ sent[r] = tokens[r]
  /\ life[r] = "done"
  /\ ~ terminal[r]
  /\ terminal' = [terminal EXCEPT ![r] = TRUE]
  /\ UNCHANGED <<contractVars, runVars, inbox, queue, hpc, got, encVars, closer>>

\* before it puts Done,
PutDone(r) ==
  /\ Visiting(r)
  /\ terminal[r]
  /\ queue' = [queue EXCEPT ![r] = Append(@, Done)]
  /\ ending' = ending \cup {r}
  /\ todo' = Tail(todo)
  /\ UNCHANGED <<contractVars, wpc, wasIdle, pending, emitted, sent, inbox, terminal, hpc, got,
                 encVars, closer>>

\* passes over a request still alive,
PassOver(r) ==
  /\ Visiting(r)
  /\ sent[r] = tokens[r]
  /\ life[r] = "live"
  /\ todo' = Tail(todo)
  /\ UNCHANGED <<contractVars, wpc, wasIdle, pending, ending, emitted, sent, inbox, handleVars,
                 encVars, closer>>

\* Mutant: forgets the live ones, too.
DispatchEndForgets ==
  /\ wpc = "dispatch"
  /\ todo = <<>>
  /\ ending = {}
  /\ pending' = <<>>
  /\ wpc' = "top"
  /\ UNCHANGED <<contractVars, wasIdle, todo, ending, emitted, sent, inbox, handleVars, encVars,
                 closer>>

\* and at last deletes the finished ones,
Forget(r) ==
  /\ wpc = "dispatch"
  /\ todo = <<>>
  /\ r \in ending
  /\ pending' = Without(pending, r)
  /\ ending' = ending \ {r}
  /\ UNCHANGED <<contractVars, wpc, wasIdle, todo, emitted, sent, inbox, handleVars, encVars, closer>>

\* and returns.
DispatchEnd ==
  /\ wpc = "dispatch"
  /\ todo = <<>>
  /\ ending = {}
  /\ wpc' = "top"
  /\ UNCHANGED <<contractVars, wasIdle, pending, todo, ending, emitted, sent, inbox, handleVars,
                 encVars, closer>>

-----------------------------------------------------------------------------
\* What the worker thread does on its own and what the engine gives it.
WorkerThread ==
  \/ TopBusy \/ TopIdle \/ TopStop
  \/ Drain \/ DrainEnd \/ Coalesce \/ CoalesceEnd
  \/ StepReturn \/ StepRaise
  \/ DispatchEnd
  \/ \E r \in Requests : \/ StepEmit(r) \/ StepFinish(r)
                         \/ PutToken(r) \/ MarkTerminal(r) \/ PutDone(r) \/ PassOver(r)
                         \/ Forget(r)

Handlers ==
  \/ \E r \in Requests : CheckOpen(r) \/ Submit(r) \/ Read(r) \/ Abandon(r) \/ PostCancel(r)
  \/ \E e \in Encoders : CheckOpenEncode(e) \/ SubmitEncode(e)
  \/ SetClosed \/ PostStop

Next == WorkerThread \/ Handlers

SafeSpec == Init /\ [][Next]_vars

\* The threads run, and unless an encode() failed the engine gives every request it
\* has its next token in some later step (LLMEngine!EveryRequestServed, checked with
\* an encode() among the generations).  A consumer may abandon its stream or not, an HTTP request
\* may come or not, and an eos may end a request early or not.
Fairness ==
  /\ WF_vars(WorkerThread)
  /\ WF_vars(PostStop)
  /\ \A r \in Requests :
       /\ WF_vars(Read(r))
       /\ WF_vars(PostCancel(r))
       /\ SF_vars(~ Failed /\ StepEmit(r))
  /\ \A e \in Encoders : WF_vars(SubmitEncode(e))

Spec == SafeSpec /\ Fairness

-----------------------------------------------------------------------------
(* Properties *)

WorkerTypeOK ==
  /\ ContractTypeOK
  /\ wpc \in {"top", "drain", "coalesce", "step", "dispatch", "stopped", "dead"}
  /\ wasIdle \in BOOLEAN
  /\ inbox \in Seq({Stop} \cup [kind : {"generate", "cancel"}, who : Requests]
                          \cup [kind : {"encode"}, who : Encoders])
  /\ pending \in Seq(Requests)
  /\ todo \in Seq(Requests)
  /\ ending \subseteq Requests
  /\ emitted \subseteq Requests
  /\ DOMAIN sent = Requests /\ \A r \in Requests : sent[r] \in 0..tokens[r]
  /\ terminal \in [Requests -> BOOLEAN]
  /\ queue \in [Requests -> Seq(Nat)]
  /\ hpc \in [Requests -> {"start", "refused", "checked", "reading", "aborting", "gone",
                           "finished"}]
  /\ got \in [Requests -> Seq(Nat)]
  /\ epc \in [Encoders -> {"start", "refused", "checked", "blocked", "answered", "failed"}]
  /\ lost \subseteq Requests
  /\ closer \in {"open", "closing", "joining"}

\* No request runs on in the engine with nobody to take its tokens: what is alive in
\* a list of the scheduler is in _pending, whatever was cancelled, finished or lost
\* to a failed encode() meanwhile.
NoOrphans == Listed \subseteq Range(pending)

\* A handler that read Done without leaving early has read every token the
\* engine made for its request, whichever thread was ahead of the other.
NothingLost ==
  \A r \in Requests :
    hpc[r] = "finished" =>
      got[r] = [i \in 1..(tokens[r] + 1) |-> IF i <= tokens[r] THEN i ELSE Done]

\* close() never abandons live work: a worker that stopped left nothing in the
\* scheduler's lists and no request it had accepted without its Done.
StoppedDrained ==
  wpc = "stopped" =>
    /\ Listed = {}
    /\ \A r \in Requests : life[r] # "new" => terminal[r]

\* Nothing is left without the one who takes care of it, by whatever order the
\* handlers, the worker and close() touch the queues.
WorkerInv == WorkerTypeOK /\ NoOrphans /\ NothingLost /\ StoppedDrained

\* A handler that leaves early frees its request's place in the engine, unless a
\* failed encode() put it where cancel() does not find it.
AbandonedIsCancelled ==
  \A r \in Requests :
    hpc[r] = "aborting" ~> (life[r] = "done" \/ r \in lost \/ wpc = "stopped")

\* Until somebody calls close() or an encode() fails, every stream comes to its
\* Done, in whatever order the handlers and the worker run.
StreamEnds ==
  \A r \in Requests : hpc[r] = "reading" ~> (hpc[r] # "reading" \/ Closed \/ Failed)

\* Until somebody calls close(), no caller of encode() blocks for ever: it is given
\* its vector or the error.
EncodeEnds ==
  \A e \in Encoders : epc[e] = "blocked" ~> (epc[e] \in {"answered", "failed"} \/ Closed)

\* Whoever waits on the worker is answered, while it is open.
CallersServed == StreamEnds /\ EncodeEnds

\* The worker thread ends after close(), even with requests in flight, unless a
\* failed encode() left one that is never finished.
CloseStops == closer = "joining" ~> (wpc = "stopped" \/ Failed)

\* The worker seen through StreamContract.
Streams == INSTANCE StreamContract WITH
  Limit <- MaxTokens,
  open <- {r \in Requests : hpc[r] \notin {"start", "refused", "checked"}},
  log <- [r \in Requests |-> got[r] \o queue[r]]

\* A queue carries its request's tokens in order, then one Done, then nothing.
StreamsIntact == Streams!StreamSafeSpec

-----------------------------------------------------------------------------
(* Statements of the repository that the worker does not keep *)

\* runtime.py says the handle submit() returns streams token ids "terminated by
\* a single Done".
StreamsServed == Streams!StreamSpec

\* It says encode() blocks its caller "until the worker thread produces the
\* embedding".
EncodeAnswered ==
  \A e \in Encoders : epc[e] = "blocked" ~> epc[e] \in {"answered", "failed"}

\* LLMEngine.cancel says that it releases the request's resources.
AbandonedIsFreed ==
  \A r \in Requests : hpc[r] = "aborting" ~> (life[r] = "done" \/ wpc = "stopped")

\* close() says that it stops the worker and joins its thread.
ThreadStops == closer = "joining" ~> wpc = "stopped"
=============================================================================
