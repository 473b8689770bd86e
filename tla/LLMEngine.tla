------------------------------ MODULE LLMEngine ------------------------------
(***************************************************************************)
(* The generation engine: engine/llm_engine.py (LLMEngine), the continuous *)
(* batching scheduler it drives (engine/scheduler.py), the sequences they  *)
(* share (engine/sequence.py) and the calls the model runner makes on the  *)
(* paged KV cache (engine/model_runner.py, eager paths), composed with     *)
(* PagedKVCache.                                                           *)
(*                                                                         *)
(* One thread owns the engine.  A call of step() or encode() is a run of   *)
(* the actions below from pc = "idle" back to it, one action per loop      *)
(* iteration; add_request and cancel come between calls.  The model's      *)
(* output is any token.  pc = "raised" is a RuntimeError out of step().    *)
(***************************************************************************)
EXTENDS PagedKVCache, SequencesExt

CONSTANTS
  NumRequests,     \* bound on the number of requests
  Embeds,          \* the request ids that are calls of encode()
  Prompts,         \* the prompts a caller may send
  MaxTokens,       \* params.max_tokens of a request
  MaxLen,          \* the context window
  MaxNumSeqs,      \* max_num_seqs
  MaxBatchTokens,  \* max_batch_tokens
  Eos,             \* eos_id
  NoSlot,          \* slot = -1
  VarlenSafe       \* EngineRunner._varlen_prefill_safe: a batch is prefilled packed

\* Request ids in order of arrival: next(self._ids).
Ids == 1..NumRequests

ASSUME EngineAssumption ==
  /\ NumRequests \in Nat
  /\ Embeds \subseteq Ids
  /\ Prompts \subseteq Seq(Tokens) \ {<<>>}
  /\ \A p \in Prompts : Len(p) <= MaxLen
  /\ MaxTokens \in [Ids -> Nat \ {0}]
  /\ MaxNumSeqs \in Nat \ {0}
  /\ NoSlot \notin Slots
  /\ VarlenSafe \in BOOLEAN

VARIABLES
  status,     \* Sequence.status, "new" before add_request
  asked,      \* the prompt the caller sent
  prompt,     \* Sequence.prompt_ids
  output,     \* Sequence.output_ids
  slot,       \* Sequence.slot
  length,     \* Sequence.length
  waiting,    \* Scheduler.waiting
  running,    \* Scheduler.running
  batch,      \* the batch schedule() builds and returns
  isPrefill,  \* its second result
  preempted,  \* schedule()'s count of preemptions
  pc,         \* where the engine's thread is
  cursor,     \* index into batch of the loop at pc
  encoding,   \* the request encode() runs for, 0 in step()
  answer      \* whose pooled vector encode() returned, 0 before

seqVars == <<status, asked, prompt, output, slot, length>>
callVars == <<batch, isPrefill, preempted, pc, cursor, encoding>>
vars == <<kvVars, seqVars, waiting, running, callVars, answer>>

-----------------------------------------------------------------------------
\* Sequence.last_token
LastToken(r) == IF output[r] # <<>> THEN Last(output[r]) ELSE Last(prompt[r])

\* Mutant: stops one token late.
FinishReasonLate(r) ==
  CASE Len(output[r]) > MaxTokens[r] -> "length"
    [] Len(prompt[r]) + Len(output[r]) >= MaxLen -> "length"
    [] output[r] # <<>> /\ Last(output[r]) = Eos -> "stop"
    [] OTHER -> "none"

\* Sequence.finish_reason
FinishReason(r) ==
  CASE Len(output[r]) >= MaxTokens[r] -> "length"
    [] Len(prompt[r]) + Len(output[r]) >= MaxLen -> "length"
    [] output[r] # <<>> /\ Last(output[r]) = Eos -> "stop"
    [] OTHER -> "none"

\* Mutant: without the last token, whose K/V is not written yet.
AllTokenIdsWritten(r) == prompt[r] \o Front(output[r])

\* Sequence.all_token_ids
AllTokenIds(r) == prompt[r] \o output[r]

IsFinished(r) == FinishReason(r) # "none"

BatchTokens == FoldSeq(LAMBDA r, n : n + Len(prompt[r]), 0, batch)

\* Mutant: only the sequences already running count against the cap.
CanAdmitUncounted ==
  /\ waiting # <<>>
  /\ Len(running) < MaxNumSeqs
  /\ HasFreeSlot
  /\ HasFreeBlock
  /\ batch = <<>> \/ BatchTokens + Len(prompt[Head(waiting)]) <= MaxBatchTokens

\* Mutant: the token budget also holds for the first sequence of a batch.
CanAdmitStrict ==
  /\ waiting # <<>>
  /\ Len(running) + Len(batch) < MaxNumSeqs
  /\ HasFreeSlot
  /\ HasFreeBlock
  /\ BatchTokens + Len(prompt[Head(waiting)]) <= MaxBatchTokens

\* The guards of schedule()'s admission loop and of its token-budget break.
CanAdmit ==
  /\ waiting # <<>>
  /\ Len(running) + Len(batch) < MaxNumSeqs
  /\ HasFreeSlot
  /\ HasFreeBlock
  /\ batch = <<>> \/ BatchTokens + Len(prompt[Head(waiting)]) <= MaxBatchTokens

BlockPressure ==
  /\ waiting # <<>>
  /\ running # <<>>
  /\ HasFreeSlot
  /\ ~ HasFreeBlock

\* min(running, key = number of generated tokens): the first of the minimal.
Victim ==
  LET i == CHOOSE j \in 1..Len(running) :
             \A k \in 1..Len(running) :
               \/ Len(output[running[j]]) < Len(output[running[k]])
               \/ Len(output[running[j]]) = Len(output[running[k]]) /\ j <= k
  IN  running[i]

\* Mutant: a sequence joins at the head.
JoinedAtHead(r) == <<r>> \o waiting

\* waiting.append
Joined(r) == Append(waiting, r)

\* list.remove and deque.remove
Without(s, r) == RemoveFirst(s, r)

\* prefill and encode go through the batch one sequence at a time; decode and
\* the packed prefill of several make room for the whole batch first.
OneByOne == \/ encoding # 0
            \/ isPrefill /\ ~ (VarlenSafe /\ Len(batch) > 1)

\* Positions the runner asks ensure_capacity for.
Positions(r) == IF isPrefill \/ encoding # 0 THEN Len(prompt[r]) ELSE length[r] + 1

-----------------------------------------------------------------------------
Init ==
  /\ KVInit
  /\ status = [r \in Ids |-> "new"]
  /\ asked = [r \in Ids |-> <<>>]
  /\ prompt = [r \in Ids |-> <<>>]
  /\ output = [r \in Ids |-> <<>>]
  /\ slot = [r \in Ids |-> NoSlot]
  /\ length = [r \in Ids |-> 0]
  /\ waiting = <<>>
  /\ running = <<>>
  /\ batch = <<>>
  /\ isPrefill = FALSE
  /\ preempted = 0
  /\ pc = "idle"
  /\ cursor = 1
  /\ encoding = 0
  /\ answer = [r \in Ids |-> 0]

\* add_request's effect on the sequences and the scheduler; ids are handed
\* out in order of arrival.
Enqueue(r, p) ==
  /\ pc = "idle"
  /\ status[r] = "new"
  /\ \A q \in Ids : q < r => status[q] # "new"
  /\ status' = [status EXCEPT ![r] = "WAITING"]
  /\ asked' = [asked EXCEPT ![r] = p]
  /\ prompt' = [prompt EXCEPT ![r] = p]
  /\ waiting' = Joined(r)

AddRequest(r, p) ==
  /\ r \notin Embeds
  /\ Enqueue(r, p)
  /\ UNCHANGED <<kvVars, output, slot, length, running, callVars, answer>>

\* encode() up to its call of schedule().
BeginEncode(r, p) ==
  /\ r \in Embeds
  /\ Enqueue(r, p)
  /\ pc' = "schedule"
  /\ encoding' = r
  /\ UNCHANGED <<kvVars, output, slot, length, running, batch, isPrefill, preempted,
                 cursor, answer>>

\* cancel: a waiting sequence is dropped, a running one also gives up its slot.
Cancel(r) ==
  /\ pc = "idle"
  /\ r \notin Embeds
  /\ status' = [status EXCEPT ![r] = "FINISHED"]
  /\ \/ /\ r \in Range(waiting)
        /\ waiting' = Without(waiting, r)
        /\ UNCHANGED <<kvVars, slot, running>>
     \/ /\ r \in Range(running)
        /\ running' = Without(running, r)
        /\ Free(slot[r])
        /\ slot' = [slot EXCEPT ![r] = NoSlot]
        /\ UNCHANGED waiting
  /\ UNCHANGED <<asked, prompt, output, length, callVars, answer>>

\* step() is called: its callers do so while a generation is in flight.
BeginStep ==
  /\ pc = "idle"
  /\ \E r \in Ids \ Embeds : \/ status[r] \in {"WAITING", "RUNNING"}
                            \/ r \in Range(running)
  /\ pc' = "schedule"
  /\ UNCHANGED <<kvVars, seqVars, waiting, running, batch, isPrefill, preempted, cursor,
                 encoding, answer>>

-----------------------------------------------------------------------------
(* Scheduler.schedule *)

\* One turn of the admission loop.
Admit ==
  /\ pc = "schedule"
  /\ CanAdmit
  /\ LET r == Head(waiting)
     IN  \E s \in Slots :
           /\ AllocAndShare(s, prompt[r])
           /\ slot' = [slot EXCEPT ![r] = s]
           /\ status' = [status EXCEPT ![r] = "RUNNING"]
           /\ batch' = Append(batch, r)
  /\ waiting' = Tail(waiting)
  /\ UNCHANGED <<asked, prompt, output, length, running, isPrefill, preempted, pc,
                 cursor, encoding, answer>>

\* _preempt_one under block pressure.
PreemptOne ==
  /\ pc = "schedule"
  /\ ~ CanAdmit
  /\ batch = <<>>
  /\ BlockPressure
  /\ preempted < MaxNumSeqs
  /\ LET v == Victim
     IN  /\ running' = Without(running, v)
         /\ Free(slot[v])
         /\ IF IsFinished(v)
              THEN /\ status' = [status EXCEPT ![v] = "FINISHED"]
                   /\ UNCHANGED <<prompt, length, slot, waiting>>
              ELSE /\ status' = [status EXCEPT ![v] = "WAITING"]
                   /\ prompt' = [prompt EXCEPT ![v] = AllTokenIds(v)]
                   /\ length' = [length EXCEPT ![v] = 0]
                   /\ slot' = [slot EXCEPT ![v] = NoSlot]
                   /\ waiting' = Joined(v)
  /\ preempted' = preempted + 1
  /\ UNCHANGED <<asked, output, batch, isPrefill, pc, cursor, encoding, answer>>

ReturnPrefill ==
  /\ pc = "schedule"
  /\ ~ CanAdmit
  /\ batch # <<>>
  /\ isPrefill' = TRUE
  /\ pc' = "ensure"
  /\ UNCHANGED <<kvVars, seqVars, waiting, running, batch, preempted, cursor, encoding,
                 answer>>

\* The running set is the batch; step() and encode() return at once when it
\* is empty.
ReturnDecode ==
  /\ pc = "schedule"
  /\ ~ CanAdmit
  /\ batch = <<>>
  /\ ~ (BlockPressure /\ preempted < MaxNumSeqs)
  /\ batch' = running
  /\ IF running = <<>>
       THEN /\ pc' = "idle"
            /\ encoding' = 0
            /\ preempted' = 0
       ELSE /\ pc' = "ensure"
            /\ UNCHANGED <<encoding, preempted>>
  /\ UNCHANGED <<kvVars, seqVars, waiting, running, isPrefill, cursor, answer>>

-----------------------------------------------------------------------------
(* The model runner's calls, then store_prefix, for the batch in order *)

\* A loop turns to its next sequence at "again", and after the last goes on to
\* next.  postprocess begins by extending the running list with a prefilled batch.
Advance(again, next) ==
  IF cursor < Len(batch)
    THEN /\ cursor' = cursor + 1
         /\ pc' = again
         /\ UNCHANGED running
    ELSE /\ cursor' = 1
         /\ pc' = next
         /\ running' = IF next = "post" /\ isPrefill THEN running \o batch ELSE running

\* ensure_capacity of the next sequence, or its RuntimeError, which ends step().
EnsureOne ==
  /\ pc = "ensure"
  /\ LET r == batch[cursor]
     IN  /\ EnsureCapacity(slot[r], Positions(r))
         /\ IF Exhausted(slot[r], Positions(r))
              THEN pc' = "raised" /\ UNCHANGED <<cursor, running>>
              ELSE IF OneByOne
              THEN pc' = "write" /\ UNCHANGED <<cursor, running>>
              ELSE Advance("ensure", "write")
  /\ UNCHANGED <<seqVars, waiting, batch, isPrefill, preempted, encoding, answer>>

\* The worker relays the error of an encode() to its caller and goes on, with
\* the batch of that call in no list of the scheduler.
RelayRaise ==
  /\ pc = "raised"
  /\ encoding # 0
  /\ pc' = "idle"
  /\ batch' = <<>>
  /\ isPrefill' = FALSE
  /\ preempted' = 0
  /\ cursor' = 1
  /\ encoding' = 0
  /\ UNCHANGED <<kvVars, seqVars, waiting, running, answer>>

\* The prefill forward of one sequence writes its K/V and samples a token.  A
\* packed prefill rewrites the shared positions too.
PrefillOne ==
  /\ pc = "write"
  /\ encoding = 0
  /\ isPrefill
  /\ LET r == batch[cursor]
     IN  /\ WriteKV(slot[r], IF OneByOne THEN Len(ctx[slot[r]]) ELSE 0, prompt[r])
         /\ length' = [length EXCEPT ![r] = Len(prompt[r])]
         /\ \E t \in Tokens : output' = [output EXCEPT ![r] = Append(@, t)]
  /\ Advance(IF OneByOne THEN "ensure" ELSE "write", "store")
  /\ UNCHANGED <<status, asked, prompt, slot, waiting, batch, isPrefill, preempted,
                 encoding, answer>>

\* One decode row: the last token's K/V goes to position length.
DecodeOne ==
  /\ pc = "write"
  /\ encoding = 0
  /\ ~ isPrefill
  /\ LET r == batch[cursor]
         before == SubSeq(ctx[slot[r]], 1, length[r])
     IN  /\ WriteKV(slot[r], length[r], Append(before, LastToken(r)))
         /\ length' = [length EXCEPT ![r] = @ + 1]
         /\ \E t \in Tokens : output' = [output EXCEPT ![r] = Append(@, t)]
  /\ Advance("write", "post")
  /\ UNCHANGED <<status, asked, prompt, slot, waiting, batch, isPrefill, preempted,
                 encoding, answer>>

\* runner.encode of one sequence.  It sets no length and samples nothing; over
\* a running sequence it rewrites what the slot already holds (the repair this
\* may do to a slot that an earlier encode() left damaged is not modelled).
EncodeOne ==
  /\ pc = "write"
  /\ encoding # 0
  /\ LET r == batch[cursor]
     IN  IF isPrefill
           THEN WriteKV(slot[r], Len(ctx[slot[r]]), prompt[r])
           ELSE UNCHANGED kvVars
  /\ Advance("ensure", "store")
  /\ UNCHANGED <<seqVars, waiting, batch, isPrefill, preempted, encoding, answer>>

\* store_prefix after a prefill; encode() also marks every sequence of the
\* batch finished.
StoreOne ==
  /\ pc = "store"
  /\ LET r == batch[cursor]
     IN  /\ StorePrefix(slot[r], prompt[r])
         /\ status' = IF encoding = 0 THEN status ELSE [status EXCEPT ![r] = "FINISHED"]
  /\ Advance("store", "post")
  /\ UNCHANGED <<asked, prompt, output, slot, length, waiting, batch, isPrefill, preempted,
                 encoding, answer>>

-----------------------------------------------------------------------------
(* Scheduler.postprocess, and the return to the caller *)

\* Mutant: a finished sequence leaves the list but its slot is not freed.
PostFreeKeepsSlot ==
  /\ pc = "post"
  /\ \E r \in Range(running) :
       /\ IsFinished(r)
       /\ running' = Without(running, r)
       /\ status' = [status EXCEPT ![r] = "FINISHED"]
  /\ UNCHANGED <<kvVars, asked, prompt, output, slot, length, waiting, callVars, answer>>

\* The first finished sequence leaves the running list and its slot is freed.
PostFree ==
  /\ pc = "post"
  /\ \E i \in 1..Len(running) :
       LET r == running[i]
       IN  /\ IsFinished(r)
           /\ \A j \in 1..(i - 1) : ~ IsFinished(running[j])
           /\ running' = Without(running, r)
           /\ status' = [status EXCEPT ![r] = "FINISHED"]
           /\ Free(slot[r])
  /\ UNCHANGED <<asked, prompt, output, slot, length, waiting, callVars, answer>>

PostDone ==
  /\ pc = "post"
  /\ \A r \in Range(running) : ~ IsFinished(r)
  /\ pc' = "idle"
  /\ batch' = <<>>
  /\ isPrefill' = FALSE
  /\ preempted' = 0
  /\ encoding' = 0
  /\ answer' = IF encoding = 0 THEN answer ELSE [answer EXCEPT ![encoding] = batch[1]]
  /\ UNCHANGED <<kvVars, seqVars, waiting, running, cursor>>

-----------------------------------------------------------------------------
\* What the engine's thread does inside step() and encode().
EngineStep ==
  \/ BeginStep
  \/ Admit \/ PreemptOne \/ ReturnPrefill \/ ReturnDecode
  \/ EnsureOne \/ RelayRaise \/ PrefillOne \/ DecodeOne \/ EncodeOne \/ StoreOne
  \/ PostFree \/ PostDone

Next ==
  \/ \E r \in Ids : \/ \E p \in Prompts : AddRequest(r, p) \/ BeginEncode(r, p)
                    \/ Cancel(r)
  \/ EngineStep

\* The worker thread keeps calling step() while a generation is in flight.
Spec == Init /\ [][Next]_vars /\ WF_vars(EngineStep)

-----------------------------------------------------------------------------
(* Properties *)

TypeOK ==
  /\ KVTypeOK
  /\ status \in [Ids -> {"new", "WAITING", "RUNNING", "FINISHED"}]
  /\ asked \in [Ids -> Seq(Tokens)]
  /\ prompt \in [Ids -> Seq(Tokens)]
  /\ output \in [Ids -> Seq(Tokens)]
  /\ slot \in [Ids -> Slots \cup {NoSlot}]
  /\ length \in [Ids -> Nat]
  /\ waiting \in Seq(Ids)
  /\ running \in Seq(Ids)
  /\ batch \in Seq(Ids)
  /\ isPrefill \in BOOLEAN
  /\ preempted \in 0..MaxNumSeqs
  /\ pc \in {"idle", "schedule", "ensure", "write", "store", "post", "raised"}
  /\ cursor \in Nat \ {0}
  /\ encoding \in Embeds \cup {0}
  /\ answer \in [Ids -> Ids \cup {0}]

\* The sequences that own a slot: the running ones and, until postprocess
\* takes them over, the admitted ones.
Owners ==
  Range(running) \cup
    IF pc = "schedule" \/ (isPrefill /\ pc # "post") THEN Range(batch) ELSE {}

\* Every slot that is not free has exactly one owner, and nothing waiting
\* names one: no two sequences write through one block table and no slot is
\* lost, through admission, preemption, cancellation and finish.
SlotsOwned ==
  /\ \A r \in Owners : slot[r] \in Slots /\ freeSlots[slot[r]] = 0
  /\ \A r, q \in Owners : slot[r] = slot[q] => r = q
  /\ \A s \in Slots : freeSlots[s] = 0 => \E r \in Owners : slot[r] = s
  /\ \A r \in Range(waiting) : r \notin Owners /\ slot[r] = NoSlot

\* The slots, blocks, tables and entries are whole, and every slot has its one
\* owner: the cache keeps its promises under the real engine's calls.
EngineInv == TypeOK /\ CacheIntact /\ SlotsOwned

\* The admission cap: never more than max_num_seqs sequences hold a slot.
AdmissionCap == Cardinality(Owners) <= MaxNumSeqs

\* What every path keeps, the error of an encode() included: the counts of the pool
\* are exact, no block is lost or freed twice (free, _release_block), and schedule's
\* admission cap holds.
PathsSafe == CountsInv /\ AdmissionCap

\* prompt_ids after preemptions at which r had as many outputs as the numbers in
\* cuts: each of them appends all the outputs there are.
PromptAfter(r, cuts) ==
  FoldLeft(LAMBDA p, n : p \o SubSeq(output[r], 1, n), asked[r], SetToSortSeq(cuts, <))

\* What a running sequence attends to is what its caller sent and the tokens it
\* was given, all but the last, whose K/V the next step writes: exactly these,
\* once and in order, until it is preempted a second time, and after every
\* preemption its prompt as _preempt_one left it and the tokens given since.
ContextIsOwn ==
  pc = "idle" =>
    \A r \in Range(running) :
      \E cuts \in SUBSET (1..(Len(output[r]) - 1)) :
        LET last == Max(cuts \cup {0})
        IN  /\ prompt[r] = PromptAfter(r, cuts)
            /\ ctx[slot[r]] = prompt[r] \o SubSeq(output[r], last + 1, Len(output[r]) - 1)

\* First come, first served: a request is not admitted for the first time
\* while an earlier one still waits for its own first admission.
FirstAdmissionFIFO ==
  \A r \in Ids :
    (status[r] = "RUNNING" \/ output[r] # <<>>) =>
      \A q \in 1..(r - 1) : ~ (status[q] = "WAITING" /\ output[q] = <<>>)

\* schedule() never preempts in vain: when it evicted a sequence it goes on to
\* admit a waiting one, because the prefix cache cannot pin the whole pool.
PreemptionAdmits == [][ReturnDecode => preempted = 0]_vars

\* A call of encode() ended without a vector: it raised, which leaves the batch it
\* had admitted in no list with its slots taken (RelayRaise), or had nothing to run.
EncodeFailed == \E e \in Embeds : status[e] # "new" /\ encoding # e /\ answer[e] = 0

\* Every request is served to its end once it is added, whatever is preempted and
\* whatever encode() sweeps into its batch on the way, unless the block pool ran
\* dry inside step() or a call of encode() failed.
EveryRequestServed ==
  \A r \in Ids \ Embeds :
    status[r] = "WAITING" ~> (status[r] = "FINISHED" \/ pc = "raised" \/ EncodeFailed)

\* The engine seen through EngineContract.
Contract == INSTANCE EngineContract WITH
  Requests <- Ids \ Embeds,
  MaxTokens <- [r \in Ids \ Embeds |-> MaxTokens[r]],
  life <- [r \in Ids \ Embeds |->
             CASE status[r] = "new" -> "new"
               [] status[r] = "FINISHED" -> "done"
               [] OTHER -> "live"],
  tokens <- [r \in Ids \ Embeds |-> Len(output[r])]

\* The engine keeps the contract: a request is given its tokens only while it
\* is alive, never more than it asked for, and finishes only with some.
ImplementsContract == Contract!ContractSpec

-----------------------------------------------------------------------------
(* Statements of the repository that the engine does not keep *)

\* scheduler.py says a preempted sequence is recomputed through its full
\* context, the original prompt and the tokens generated so far.
PreemptedPromptIsWhole ==
  \A r \in Range(waiting) : prompt[r] = asked[r] \o output[r]

\* sequence.py says the second "length" rule is the end of the slot's max_len
\* positions.
LengthMeansWindow ==
  pc = "post" =>
    \A r \in Range(running) :
      FinishReason(r) = "length" =>
        \/ Len(output[r]) >= MaxTokens[r]
        \/ Len(asked[r]) + Len(output[r]) >= MaxLen

\* kv_cache.py says the default pool size, every slot at max_len, never starves
\* the scheduler's slot-based admission.
DefaultPoolNeverStarves == pc = "idle" /\ HasFreeSlot => HasFreeBlock

\* runtime.py says encode() returns the pooled embedding vector of its prompt.
EncodeAnswersOwn == \A e \in Embeds : answer[e] \in {0, e}
=============================================================================
