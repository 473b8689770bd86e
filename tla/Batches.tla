-------------------------------- MODULE Batches --------------------------------
(***************************************************************************)
(* /v1/files and /v1/batches (api/batches.py).  A call of create_batch     *)
(* reads an uploaded file, submits every line to the worker at once, and   *)
(* then waits for the lines in order, one executor thread at a time, while *)
(* other calls and the live streams wait for theirs on the same executor.  *)
(* When every line has answered it stores the output file and the batch.   *)
(*                                                                         *)
(* The handlers are coroutines of one event loop: they interleave only     *)
(* where they await.  A line is "good", "bad" (it raises while its request *)
(* is parsed or built) or "cut" (a forced tool call whose JSON max_tokens  *)
(* cuts short).  The worker gives each submitted line its items, the last  *)
(* of them Done, in whatever order it likes (see EngineWorker).            *)
(***************************************************************************)
EXTENDS Naturals, Sequences, SequencesExt, FiniteSets

CONSTANTS
  Calls,      \* calls of POST /v1/batches
  Uploads,    \* files clients upload
  Lines,      \* Lines[f]: the kinds of the lines of upload f
  Input,      \* Input[c]: the file call c names
  Streams,    \* live requests, which wait on the same executor
  Items,      \* items a request's queue carries, Done included
  MaxFiles,   \* _MAX_STORED_FILES
  Threads     \* threads of the event loop's default executor

ASSUME BatchesAssumption ==
  /\ Uploads \cap Calls = {} /\ Streams \cap Calls = {}
  /\ Lines \in [Uploads -> Seq({"good", "bad", "cut"})]
  /\ Input \in [Calls -> Uploads]
  /\ Items \in Nat \ {0} /\ MaxFiles \in Nat \ {0} /\ Threads \in Nat \ {0}

VARIABLES
  puts,      \* every file ever put, oldest first; a call stands for its output
  files,     \* _FileStore: the files it holds, oldest first
  call,      \* where each call of create_batch is
  jobs,      \* the call's jobs, one line kind each
  at,        \* the job _drain_jobs waits for
  made,      \* made[c][i]: items the worker has queued for job i
  read,      \* items read of the current job, and of each stream
  out,       \* the call's output lines
  failed,    \* its count of failed lines
  fed,       \* items the worker has queued for each live stream
  executor,  \* who waits on the executor, first come first served
  batches    \* the finished batches GET /v1/batches/{id} knows

callVars == <<call, jobs, at, out, failed>>
vars == <<puts, files, callVars, made, read, fed, executor, batches>>

\* Mutant: one file too many.
KeptOneMore(fs) ==
  IF Len(fs) > MaxFiles + 1 THEN SubSeq(fs, Len(fs) - MaxFiles, Len(fs)) ELSE fs

\* Mutant: refuses the newest file instead of evicting the oldest.
KeptOldest(fs) == IF Len(fs) > MaxFiles THEN SubSeq(fs, 1, MaxFiles) ELSE fs

\* What _FileStore.put leaves of its files: the last max_files of them.
Kept(fs) == IF Len(fs) > MaxFiles THEN SubSeq(fs, Len(fs) - MaxFiles + 1, Len(fs)) ELSE fs

Put(f) ==
  /\ puts' = Append(puts, f)
  /\ files' = Kept(Append(files, f))

Init ==
  /\ puts = <<>> /\ files = <<>>
  /\ call = [c \in Calls |-> "new"]
  /\ jobs = [c \in Calls |-> <<>>]
  /\ at = [c \in Calls |-> 1]
  /\ made = [c \in Calls |-> <<>>]
  /\ read = [w \in Calls \cup Streams |-> 0]
  /\ out = [c \in Calls |-> <<>>]
  /\ failed = [c \in Calls |-> 0]
  /\ fed = [s \in Streams |-> 0]
  /\ executor = <<>>
  /\ batches = {}

\* POST /v1/files
CreateFile(f) ==
  /\ f \notin Range(puts)
  /\ Put(f)
  /\ UNCHANGED <<callVars, made, read, fed, executor, batches>>

\* POST /v1/batches names a file that is not, or no longer, there: a 404.
NoSuchFile(c) ==
  /\ call[c] = "new" /\ Input[c] \in Range(puts) \ Range(files)
  /\ call' = [call EXCEPT ![c] = "refused"]
  /\ UNCHANGED <<puts, files, jobs, at, out, failed, made, read, fed, executor, batches>>

\* POST /v1/batches: every line becomes a job, in order, without an await.
SubmitJobs(c) ==
  /\ call[c] = "new" /\ Input[c] \in Range(files)
  /\ call' = [call EXCEPT ![c] = "draining"]
  /\ jobs' = [jobs EXCEPT ![c] = Lines[Input[c]]]
  /\ made' = [made EXCEPT ![c] = [i \in DOMAIN Lines[Input[c]] |-> 0]]
  /\ UNCHANGED <<puts, files, at, out, failed, read, fed, executor, batches>>

Draining(c) == call[c] = "draining" /\ at[c] <= Len(jobs[c])

\* Mutant: a job that failed to build is only counted.
SkipLine(c) ==
  /\ Draining(c) /\ jobs[c][at[c]] = "bad"
  /\ failed' = [failed EXCEPT ![c] = @ + 1]
  /\ at' = [at EXCEPT ![c] = @ + 1]
  /\ UNCHANGED <<puts, files, call, jobs, out, made, read, fed, executor, batches>>

\* A job that failed to build becomes an error line.
ErrorLine(c) ==
  /\ Draining(c) /\ jobs[c][at[c]] = "bad"
  /\ out' = [out EXCEPT ![c] = Append(@, [of |-> at[c], error |-> TRUE])]
  /\ failed' = [failed EXCEPT ![c] = @ + 1]
  /\ at' = [at EXCEPT ![c] = @ + 1]
  /\ UNCHANGED <<puts, files, call, jobs, made, read, fed, executor, batches>>

\* run_in_executor(None, job.queue.get)
AwaitItem(c) ==
  /\ Draining(c) /\ jobs[c][at[c]] # "bad"
  /\ read[c] < Items /\ c \notin Range(executor)
  /\ executor' = Append(executor, c)
  /\ UNCHANGED <<puts, files, callVars, made, read, fed, batches>>

\* A live stream waits for its next item the same way.
AwaitStream(s) ==
  /\ read[s] < Items /\ s \notin Range(executor)
  /\ executor' = Append(executor, s)
  /\ UNCHANGED <<puts, files, callVars, made, read, fed, batches>>

\* Mutant: one thread short.
OnThreadShort(w) == \E i \in 1..Len(executor) : i < Threads /\ executor[i] = w

\* Those who hold a thread of the executor.
OnThread(w) == \E i \in 1..Len(executor) : i <= Threads /\ executor[i] = w

Available(w) == IF w \in Calls THEN made[w][at[w]] ELSE fed[w]

\* get() returns an item and the thread goes to the next waiter.
GetItem(w) ==
  /\ OnThread(w)
  /\ Available(w) > read[w]
  /\ read' = [read EXCEPT ![w] = @ + 1]
  /\ executor' = RemoveFirst(executor, w)
  /\ UNCHANGED <<puts, files, callVars, made, fed, batches>>

\* The worker queues a job's or a stream's next item.
Feed(w) ==
  /\ \/ /\ w \in Calls
        /\ \E i \in DOMAIN jobs[w] :
             /\ jobs[w][i] # "bad" /\ made[w][i] < Items
             /\ made' = [made EXCEPT ![w][i] = @ + 1]
        /\ UNCHANGED fed
     \/ /\ w \in Streams /\ fed[w] < Items
        /\ fed' = [fed EXCEPT ![w] = @ + 1]
        /\ UNCHANGED made
  /\ UNCHANGED <<puts, files, callVars, read, executor, batches>>

\* Mutant: read on from the item count of the job before.
OutputLineReadingOn(c) ==
  /\ Draining(c) /\ read[c] = Items /\ jobs[c][at[c]] = "good"
  /\ out' = [out EXCEPT ![c] = Append(@, [of |-> at[c], error |-> FALSE])]
  /\ at' = [at EXCEPT ![c] = @ + 1]
  /\ UNCHANGED <<puts, files, call, jobs, failed, made, read, fed, executor, batches>>

\* Done was read and the response body is built.
OutputLine(c) ==
  /\ Draining(c) /\ read[c] = Items /\ jobs[c][at[c]] = "good"
  /\ out' = [out EXCEPT ![c] = Append(@, [of |-> at[c], error |-> FALSE])]
  /\ at' = [at EXCEPT ![c] = @ + 1]
  /\ read' = [read EXCEPT ![c] = 0]
  /\ UNCHANGED <<puts, files, call, jobs, failed, made, fed, executor, batches>>

\* json.loads of a forced tool call that was cut short raises out of the handler.
BodyRaises(c) ==
  /\ Draining(c) /\ read[c] = Items /\ jobs[c][at[c]] = "cut"
  /\ call' = [call EXCEPT ![c] = "raised"]
  /\ UNCHANGED <<puts, files, jobs, at, out, failed, made, read, fed, executor, batches>>

\* Every line has its output line: the file is stored, the batch is recorded.
Complete(c) ==
  /\ call[c] = "draining" /\ at[c] > Len(jobs[c])
  /\ Put(c)
  /\ call' = [call EXCEPT ![c] = "completed"]
  /\ batches' = batches \cup {c}
  /\ UNCHANGED <<jobs, at, out, failed, made, read, fed, executor>>

\* What the coroutine of a call does once its request has come in.
Handler(c) ==
  ErrorLine(c) \/ AwaitItem(c) \/ OutputLine(c) \/ BodyRaises(c) \/ Complete(c)

Next ==
  \/ \E f \in Uploads : CreateFile(f)
  \/ \E c \in Calls : SubmitJobs(c) \/ NoSuchFile(c) \/ Handler(c)
  \/ \E s \in Streams : AwaitStream(s)
  \/ \E w \in Calls \cup Streams : GetItem(w) \/ Feed(w)

\* The event loop and the executor run what is ready, and the worker gives a
\* request all its items (EngineWorker's StreamEnds).
Fairness ==
  /\ \A c \in Calls : WF_vars(Handler(c))
  /\ \A w \in Calls \cup Streams : WF_vars(GetItem(w)) /\ WF_vars(Feed(w))

Spec == Init /\ [][Next]_vars /\ Fairness

-----------------------------------------------------------------------------
(* Properties *)

BatchesTypeOK ==
  /\ Range(files) \subseteq Range(puts) /\ Range(puts) \subseteq Uploads \cup Calls
  /\ Len(files) <= MaxFiles
  /\ call \in [Calls -> {"new", "refused", "draining", "completed", "raised"}]
  /\ \A c \in Calls : /\ at[c] \in 1..(Len(jobs[c]) + 1)
                      /\ DOMAIN made[c] = DOMAIN jobs[c]
                      /\ failed[c] \in 0..Len(jobs[c])
                      /\ \A i \in DOMAIN out[c] : out[c][i].of \in DOMAIN jobs[c]
  /\ read \in [Calls \cup Streams -> 0..Items] /\ fed \in [Streams -> 0..Items]
  /\ Range(executor) \subseteq Calls \cup Streams
  /\ batches \subseteq Calls

\* A finished batch answers its input file line by line, in the file's order,
\* with an error line for exactly the lines that failed to build, and its
\* request_counts say so (_drain_jobs, create_batch).
OutputMatchesInput ==
  \A c \in batches :
    LET kinds == Lines[Input[c]]
    IN /\ Len(out[c]) = Len(kinds)
       /\ \A i \in DOMAIN kinds :
            out[c][i] = [of |-> i, error |-> kinds[i] = "bad"]
       /\ failed[c] = Cardinality({i \in DOMAIN kinds : kinds[i] = "bad"})

\* An output line is written only from a finished generation, even though the
\* lines are generated side by side and finish in any order (_drain_jobs).
OutputIsFinal ==
  \A c \in Calls : \A i \in DOMAIN out[c] :
    ~ out[c][i].error => made[c][out[c][i].of] = Items

\* How many files were put after f.
PutAfter(f) == Cardinality({i \in DOMAIN puts : \E j \in 1..(i - 1) : puts[j] = f})

\* The output file of a finished batch can be downloaded until max_files other
\* files were put after it, by uploads or by batches (_FileStore.put).
OutputReadable == \A c \in batches : PutAfter(c) < MaxFiles => c \in Range(files)

\* A finished batch answers its own input, from finished generations, and can
\* be read for as long as the store promises.
BatchSafe == BatchesTypeOK /\ OutputMatchesInput /\ OutputIsFinal /\ OutputReadable

\* A batch call ends, however few threads the executor has and however many
\* streams wait on them: no call waits for a thread that never comes free.
BatchEnds ==
  \A c \in Calls : call[c] = "draining" ~> call[c] \in {"completed", "raised"}

-----------------------------------------------------------------------------
(* A statement of the repository that the code does not keep *)

\* batches.py says a line that goes wrong becomes an error entry on its own
\* output line rather than failing the whole batch.
NoLineSinksBatch == \A c \in Calls : call[c] # "raised"
=============================================================================
