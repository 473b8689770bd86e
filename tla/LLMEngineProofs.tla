---------------------------- MODULE LLMEngineProofs ----------------------------
(***************************************************************************)
(* Theorems about the generation engine.  HeldInv is what the engine keeps *)
(* whatever it is asked for, calls of encode() included: the counts of the *)
(* cache are exact because every call the engine makes on it is within the *)
(* protocol of its methods.  ServedInv, in the second half, is what it     *)
(* keeps beyond that while nobody calls encode().  The last part is about  *)
(* the one other way the engine generates, the denoising loop of Denoiser. *)
(***************************************************************************)
EXTENDS LLMEngine, Denoiser, QueueLemmas, PagedKVCacheProofs

\* The admitted sequences are not in the running list yet.
Admitted == pc = "schedule" \/ (isPrefill /\ pc # "post")

\* Where the engine's thread is and what the locals of its loops are.
ControlOK ==
  /\ pc \in {"idle", "schedule"} => ~ isPrefill /\ cursor = 1
  /\ pc = "idle" => batch = <<>> /\ encoding = 0
  /\ pc \in {"ensure", "write", "store"} => cursor \in 1..Len(batch)
  /\ pc = "post" => cursor = 1 /\ batch # <<>>
  /\ pc \in {"ensure", "write", "store"} /\ ~ isPrefill => batch = running
  /\ pc = "store" => isPrefill \/ encoding # 0

\* A sequence is in one list, once.
QueuesApart ==
  /\ IsInjective(waiting) /\ IsInjective(running)
  /\ Admitted => IsInjective(batch) /\ Range(batch) \cap Range(running) = {}
  /\ Range(waiting) \cap Owners = {}
  /\ \A r \in Range(waiting) \cup Owners : status[r] # "new"

\* Every owner has a slot to itself.
HeldSlots ==
  /\ \A r \in Owners : slot[r] \in Slots /\ freeSlots[slot[r]] = 0
  /\ \A r, q \in Owners : slot[r] = slot[q] => r = q

\* A sequence has a prompt, and length counts no position that is not written.
SequencesOK ==
  /\ \A r \in Ids : IF status[r] = "new" THEN length[r] = 0 ELSE prompt[r] # <<>>
  /\ \A r \in Range(waiting) : length[r] = 0
  /\ \A r \in Owners : length[r] <= Len(ctx[slot[r]])

\* The i-th sequence of the batch has room for the positions of this step.
Ready(i) == HasCapacity(slot[batch[i]], Positions(batch[i]))

\* What is about to be written, or stored as a prefix, has its room.
RoomMade ==
  /\ pc = "ensure" => \A i \in 1..(cursor - 1) : Ready(i)
  /\ pc = "write" =>
       \A i \in DOMAIN batch : (IF OneByOne THEN i <= cursor ELSE isPrefill \/ i >= cursor) => Ready(i)
  /\ pc = "store" => \A i \in DOMAIN batch : Ready(i)

\* What an admission and an encode() go through has no length yet.
FreshBatch ==
  pc = "schedule" \/ (isPrefill /\ encoding # 0) => \A r \in Range(batch) : length[r] = 0

\* The lists together are within the cap.
CapKept == Len(running) + (IF Admitted THEN Len(batch) ELSE 0) <= MaxNumSeqs

HeldInv ==
  /\ TypeOK
  /\ CountsInv
  /\ ControlOK
  /\ QueuesApart
  /\ HeldSlots
  /\ SequencesOK
  /\ RoomMade
  /\ FreshBatch
  /\ CapKept

-----------------------------------------------------------------------------
(* What the invariant says of one sequence *)

LEMMA OwnersAre == Owners = Range(running) \cup (IF Admitted THEN Range(batch) ELSE {})
BY DEF Owners, Admitted

\* Every owner is a request with a slot in use.
LEMMA OwnerFacts ==
  ASSUME HeldInv, NEW r \in Owners
  PROVE  /\ r \in Ids /\ slot[r] \in Slots /\ freeSlots[slot[r]] = 0
         /\ prompt[r] \in Seq(Tokens) /\ prompt[r] # <<>> /\ status[r] # "new"
         /\ output[r] \in Seq(Tokens) /\ length[r] \in Nat
         /\ ctx[slot[r]] \in Seq(Tokens)
         /\ length[r] <= Len(ctx[slot[r]])
<1>1. TypeOK /\ HeldSlots /\ SequencesOK /\ QueuesApart
    BY DEF HeldInv
<1>2. Range(running) \subseteq Ids /\ Range(batch) \subseteq Ids
    BY <1>1, SeqFacts DEF TypeOK
<1>3. r \in Ids
    BY <1>2, OwnersAre
<1>4. slot[r] \in Slots /\ freeSlots[slot[r]] = 0 /\ status[r] # "new"
    BY <1>1 DEF HeldSlots, QueuesApart
<1>5. ctx[slot[r]] \in Seq(Tokens)
    BY <1>1, <1>4 DEF TypeOK, KVTypeOK
<1> QED
    BY <1>1, <1>3, <1>4, <1>5 DEF TypeOK, SequencesOK

\* The sequence a loop over the batch is at is an owner.
LEMMA CurrentIsOwner ==
  ASSUME HeldInv, pc \in {"ensure", "write", "store"}
  PROVE  /\ batch \in Seq(Ids) /\ cursor \in 1..Len(batch) /\ Len(batch) \in Nat /\ cursor \in Nat
         /\ DOMAIN batch = 1..Len(batch)
         /\ Range(batch) \subseteq Owners
         /\ \A i \in 1..Len(batch) : batch[i] \in Owners /\ batch[i] \in Ids
         /\ IsInjective(batch)
<1>1. TypeOK /\ ControlOK /\ QueuesApart
    BY DEF HeldInv
<1>2. batch \in Seq(Ids) /\ cursor \in 1..Len(batch)
    BY <1>1 DEF TypeOK, ControlOK
<1>3. /\ Len(batch) \in Nat /\ DOMAIN batch = 1..Len(batch)
      /\ \A i \in 1..Len(batch) : batch[i] \in Ids /\ batch[i] \in Range(batch)
    BY <1>2, SeqFacts
<1>4. Range(batch) \subseteq Owners /\ IsInjective(batch)
  <2>1. CASE isPrefill
      BY <1>1, <2>1, OwnersAre DEF Admitted, QueuesApart
  <2>2. CASE ~ isPrefill
    <3>1. batch = running
        BY <1>1, <2>2 DEF ControlOK
    <3> QED
        BY <1>1, <3>1, OwnersAre DEF QueuesApart
  <2> QED
      BY <2>1, <2>2
<1> QED
    BY <1>2, <1>3, <1>4

-----------------------------------------------------------------------------
(* HeldInv holds at first and is kept by what a caller does *)

LEMMA InitHeld == Init => HeldInv
<1> SUFFICES ASSUME Init PROVE HeldInv
    OBVIOUS
<1>1. CountsInv
    BY InitCounts DEF Init
<1>2. Range(<<>>) = {} /\ IsInjective(<<>>) /\ Len(<<>>) = 0 /\ <<>> \in Seq(Ids) /\ <<>> \in Seq(Tokens)
    BY EmptySeq DEF Range, IsInjective
<1>3. Owners = {}
    BY <1>2 DEF Init, Owners
<1>4. TypeOK
  <2>1. KVTypeOK
      BY <1>1 DEF CountsInv
  <2>2. 0 \in 0..MaxNumSeqs
      BY EngineAssumption
  <2>3. /\ status \in [Ids -> {"new", "WAITING", "RUNNING", "FINISHED"}]
        /\ slot \in [Ids -> Slots \cup {NoSlot}]
        /\ length \in [Ids -> Nat] /\ answer \in [Ids -> Ids \cup {0}]
      BY DEF Init
  <2>4. asked \in [Ids -> Seq(Tokens)] /\ prompt \in [Ids -> Seq(Tokens)] /\ output \in [Ids -> Seq(Tokens)]
      BY <1>2 DEF Init
  <2>5. waiting \in Seq(Ids) /\ running \in Seq(Ids) /\ batch \in Seq(Ids)
      BY <1>2 DEF Init
  <2>6. isPrefill \in BOOLEAN /\ pc = "idle" /\ preempted = 0 /\ cursor = 1 /\ encoding = 0
      BY DEF Init
  <2> QED
      BY <2>1, <2>2, <2>3, <2>4, <2>5, <2>6 DEF TypeOK
<1>5. ControlOK /\ RoomMade /\ CapKept
    BY <1>2, EngineAssumption DEF Init, ControlOK, RoomMade, CapKept, Admitted
<1>7. FreshBatch
    BY <1>2 DEF Init, FreshBatch
<1>6. QueuesApart /\ HeldSlots /\ SequencesOK
    BY <1>2, <1>3 DEF Init, QueuesApart, HeldSlots, SequencesOK
<1> QED
    BY <1>1, <1>4, <1>5, <1>6, <1>7 DEF HeldInv

LEMMA StutterHeld ==
  ASSUME HeldInv, UNCHANGED vars
  PROVE  HeldInv'
<1>1. CountsInv'
    BY StutterCounts DEF HeldInv, vars
<1>2. UNCHANGED <<kvVars, seqVars, waiting, running, callVars, answer>>
    BY DEF vars
<1>3. TypeOK' /\ ControlOK'
    BY <1>1, <1>2 DEF HeldInv, TypeOK, CountsInv, ControlOK, seqVars, callVars
<1>4. Owners' = Owners /\ Admitted' = Admitted
    BY <1>2 DEF Owners, Admitted, callVars
<1>5. QueuesApart' /\ HeldSlots' /\ SequencesOK' /\ FreshBatch' /\ CapKept'
    BY <1>2, <1>4 DEF HeldInv, QueuesApart, HeldSlots, SequencesOK, FreshBatch, CapKept, seqVars,
                      callVars, kvVars
<1>6. RoomMade'
    BY <1>2 DEF HeldInv, RoomMade, Ready, Positions, OneByOne, HasCapacity, BlocksFor, seqVars, callVars, kvVars
<1> QED
    BY <1>1, <1>3, <1>5, <1>6 DEF HeldInv

\* A new request joins the waiting list and nothing else.
LEMMA EnqueueHeld ==
  ASSUME HeldInv, NEW r \in Ids, NEW p \in Prompts, AddRequest(r, p) \/ BeginEncode(r, p)
  PROVE  HeldInv'
<1>1. /\ TypeOK /\ CountsInv /\ ControlOK /\ QueuesApart /\ HeldSlots /\ SequencesOK
      /\ RoomMade /\ FreshBatch /\ CapKept
    BY DEF HeldInv
<1>2. /\ pc = "idle" /\ status[r] = "new"
      /\ status' = [status EXCEPT ![r] = "WAITING"]
      /\ asked' = [asked EXCEPT ![r] = p]
      /\ prompt' = [prompt EXCEPT ![r] = p]
      /\ waiting' = Append(waiting, r)
      /\ UNCHANGED <<kvVars, output, slot, length, running, batch, isPrefill, preempted, cursor, answer>>
      /\ \/ pc' = "idle" /\ encoding' = 0
         \/ pc' = "schedule" /\ encoding' \in Embeds
    BY <1>1 DEF AddRequest, BeginEncode, Enqueue, Joined, callVars, ControlOK
<1>3. CountsInv'
    BY <1>1, <1>2, StutterCounts
<1>4. batch = <<>> /\ ~ isPrefill /\ cursor = 1 /\ Range(<<>>) = {} /\ IsInjective(<<>>) /\ Len(<<>>) = 0
    BY <1>1, <1>2 DEF ControlOK, Range, IsInjective
<1>5. Owners = Range(running) /\ Owners' = Range(running)
    BY <1>2, <1>4 DEF Owners
<1>6. /\ p \in Seq(Tokens) /\ p # <<>>
      /\ waiting' \in Seq(Ids) /\ Range(waiting') = Range(waiting) \cup {r}
      /\ IsInjective(waiting) /\ r \notin Range(waiting) => IsInjective(waiting')
    BY <1>1, <1>2, AppendFacts, EngineAssumption DEF TypeOK
<1>7. r \notin Range(waiting) \cup Owners
    BY <1>1, <1>2 DEF QueuesApart
<1>8. TypeOK'
    BY <1>1, <1>2, <1>3, <1>6 DEF TypeOK, CountsInv
<1>9. QueuesApart'
    BY <1>1, <1>2, <1>4, <1>5, <1>6, <1>7 DEF QueuesApart, Admitted, TypeOK
<1>10. ControlOK'
    BY <1>2, <1>4 DEF ControlOK
<1>11. HeldSlots' /\ SequencesOK'
    BY <1>1, <1>2, <1>5, <1>6, <1>7 DEF HeldSlots, SequencesOK, TypeOK, kvVars
<1>12. RoomMade' /\ FreshBatch' /\ CapKept'
    BY <1>1, <1>2, <1>4 DEF RoomMade, FreshBatch, CapKept, Admitted
<1> QED
    BY <1>3, <1>8, <1>9, <1>10, <1>11, <1>12 DEF HeldInv

\* A running sequence leaves the list and gives its slot back; the others keep
\* theirs and what is in them.
LEMMA ReleaseFacts ==
  ASSUME HeldInv, NEW v \in Range(running), Free(slot[v]), running' = Without(running, v)
  PROVE  /\ CountsInv'
         /\ v \in Ids /\ v \in Owners
         /\ running' \in Seq(Ids) /\ Range(running') = Range(running) \ {v}
         /\ IsInjective(running') /\ Len(running') = Len(running) - 1
         /\ KeepsOrder(running', running)
         /\ \A q \in Owners : q # v =>
              /\ slot[q] \in Slots /\ slot[q] # slot[v]
              /\ freeSlots'[slot[q]] = 0
              /\ ctx'[slot[q]] = ctx[slot[q]]
              /\ table'[slot[q]] = table[slot[q]]
<1>1. TypeOK /\ CountsInv /\ QueuesApart /\ HeldSlots
    BY DEF HeldInv
<1>2. v \in Owners
    BY OwnersAre
<1>3. v \in Ids /\ slot[v] \in Slots /\ freeSlots[slot[v]] = 0
    BY <1>2, OwnerFacts
<1>4. CountsInv'
    BY <1>1, <1>3, FreeCounts
<1>5. running \in Seq(Ids) /\ IsInjective(running)
    BY <1>1 DEF TypeOK, QueuesApart
<1>6. /\ running' \in Seq(Ids) /\ Range(running') = Range(running) \ {v}
      /\ IsInjective(running') /\ Len(running') = Len(running) - 1
      /\ KeepsOrder(running', running)
    BY <1>5, RemoveFacts DEF Without
<1>7. /\ freeSlots' = [freeSlots EXCEPT ![slot[v]] = @ + 1]
      /\ ctx' = [ctx EXCEPT ![slot[v]] = <<>>]
      /\ table' = [table EXCEPT ![slot[v]] = <<>>]
    BY DEF Free
<1>8. ASSUME NEW q \in Owners, q # v
      PROVE  /\ slot[q] \in Slots /\ slot[q] # slot[v]
             /\ freeSlots'[slot[q]] = 0
             /\ ctx'[slot[q]] = ctx[slot[q]]
             /\ table'[slot[q]] = table[slot[q]]
  <2>1. slot[q] \in Slots /\ slot[q] # slot[v] /\ freeSlots[slot[q]] = 0
      BY <1>1, <1>2, <1>8 DEF HeldSlots
  <2> QED
      BY <1>1, <1>7, <2>1 DEF TypeOK, KVTypeOK
<1> QED
    BY <1>2, <1>3, <1>4, <1>6, <1>8

\* cancel takes a sequence out of the list it is in, and a running one's slot.
LEMMA CancelHeld ==
  ASSUME HeldInv, NEW r \in Ids, Cancel(r)
  PROVE  HeldInv'
<1>1. /\ TypeOK /\ CountsInv /\ ControlOK /\ QueuesApart /\ HeldSlots /\ SequencesOK
      /\ RoomMade /\ FreshBatch /\ CapKept
    BY DEF HeldInv
<1>2. /\ pc = "idle" /\ status' = [status EXCEPT ![r] = "FINISHED"]
      /\ UNCHANGED <<asked, prompt, output, length, batch, isPrefill, preempted, pc, cursor,
                     encoding, answer>>
    BY DEF Cancel, callVars
<1>3. batch = <<>> /\ ~ isPrefill /\ cursor = 1 /\ Range(<<>>) = {} /\ Len(<<>>) = 0
    BY <1>1, <1>2 DEF ControlOK, Range
<1>4. Owners = Range(running) /\ Owners' = Range(running') /\ ~ Admitted /\ ~ Admitted'
    BY <1>2, <1>3 DEF Owners, Admitted
<1>5. ControlOK' /\ RoomMade' /\ FreshBatch'
    BY <1>1, <1>2, <1>3 DEF ControlOK, RoomMade, FreshBatch
<1>6. CASE r \in Range(waiting) /\ waiting' = Without(waiting, r) /\ UNCHANGED <<kvVars, slot, running>>
  <2>1. CountsInv'
      BY <1>1, <1>6, StutterCounts
  <2>2. waiting' \in Seq(Ids) /\ IsInjective(waiting') /\ Range(waiting') = Range(waiting) \ {r}
      BY <1>1, <1>6, RemoveFacts DEF Without, TypeOK, QueuesApart
  <2>3. Owners' = Owners
      BY <1>4, <1>6
  <2>4. TypeOK'
      BY <1>1, <1>2, <1>6, <2>1, <2>2 DEF TypeOK, CountsInv
  <2>5. QueuesApart'
      BY <1>1, <1>2, <1>4, <1>6, <2>2, <2>3 DEF QueuesApart, TypeOK
  <2>6. HeldSlots' /\ CapKept'
      BY <1>1, <1>4, <1>6, <2>3 DEF HeldSlots, CapKept, kvVars
  <2>7. SequencesOK'
    <3>1. status[r] # "new"
        BY <1>1, <1>6 DEF QueuesApart
    <3>2. \A q \in Ids : IF status'[q] = "new" THEN length'[q] = 0 ELSE prompt'[q] # <<>>
        BY <1>1, <1>2, <3>1 DEF SequencesOK, TypeOK
    <3> QED
        BY <1>1, <1>2, <1>6, <2>2, <2>3, <3>2 DEF SequencesOK, kvVars
  <2> QED
      BY <1>5, <2>1, <2>4, <2>5, <2>6, <2>7 DEF HeldInv
<1>7. CASE /\ r \in Range(running) /\ running' = Without(running, r) /\ Free(slot[r])
           /\ slot' = [slot EXCEPT ![r] = NoSlot] /\ UNCHANGED waiting
  <2>1. /\ CountsInv'
        /\ running' \in Seq(Ids) /\ Range(running') = Range(running) \ {r}
        /\ IsInjective(running') /\ Len(running') = Len(running) - 1
        /\ \A q \in Owners : q # r =>
             /\ slot[q] \in Slots /\ freeSlots'[slot[q]] = 0 /\ ctx'[slot[q]] = ctx[slot[q]]
      BY <1>7, ReleaseFacts
  <2>2. TypeOK'
      BY <1>1, <1>2, <1>7, <2>1 DEF TypeOK, CountsInv
  <2>3. QueuesApart'
      BY <1>1, <1>2, <1>4, <1>7, <2>1 DEF QueuesApart, TypeOK
  <2>4. \A q \in Owners' : q \in Owners /\ q # r /\ slot'[q] = slot[q]
      BY <1>1, <1>4, <1>7, <2>1 DEF TypeOK
  <2>5. HeldSlots'
      BY <1>1, <2>1, <2>4 DEF HeldSlots
  <2>6. SequencesOK'
    <3>1. \A q \in Ids : IF status'[q] = "new" THEN length'[q] = 0 ELSE prompt'[q] # <<>>
      <4>1. status[r] # "new"
          BY <1>1, <1>4, <1>7 DEF QueuesApart
      <4> QED
          BY <1>1, <1>2, <4>1 DEF SequencesOK, TypeOK
    <3> QED
        BY <1>1, <1>2, <1>7, <2>1, <2>4, <3>1 DEF SequencesOK
  <2>7. CapKept'
    <3>1. Len(running) \in Nat
        BY <1>1, SeqFacts DEF TypeOK
    <3> QED
        BY <1>1, <1>4, <2>1, <3>1, EngineAssumption DEF CapKept
  <2> QED
      BY <1>5, <2>1, <2>2, <2>3, <2>5, <2>6, <2>7 DEF HeldInv
<1> QED
    BY <1>6, <1>7 DEF Cancel

LEMMA BeginStepHeld ==
  ASSUME HeldInv, BeginStep
  PROVE  HeldInv'
<1>1. /\ TypeOK /\ CountsInv /\ ControlOK /\ QueuesApart /\ HeldSlots /\ SequencesOK
      /\ RoomMade /\ FreshBatch /\ CapKept
    BY DEF HeldInv
<1>2. /\ pc = "idle" /\ pc' = "schedule"
      /\ UNCHANGED <<kvVars, seqVars, waiting, running, batch, isPrefill, preempted, cursor,
                     encoding, answer>>
    BY DEF BeginStep
<1>3. batch = <<>> /\ ~ isPrefill /\ cursor = 1 /\ Range(<<>>) = {} /\ Len(<<>>) = 0 /\ IsInjective(<<>>)
    BY <1>1, <1>2 DEF ControlOK, Range, IsInjective
<1>4. CountsInv'
    BY <1>1, <1>2, StutterCounts
<1>5. Owners = Range(running) /\ Owners' = Owners /\ ~ Admitted
    BY <1>2, <1>3 DEF Owners, Admitted
<1>6. TypeOK'
    BY <1>1, <1>2, <1>4 DEF TypeOK, CountsInv, seqVars
<1>7. QueuesApart' /\ HeldSlots' /\ SequencesOK'
    BY <1>1, <1>2, <1>3, <1>5 DEF QueuesApart, HeldSlots, SequencesOK, seqVars, kvVars
<1>8. ControlOK' /\ RoomMade' /\ FreshBatch' /\ CapKept'
  <2>1. Len(running) \in Nat
      BY <1>1, SeqFacts DEF TypeOK
  <2> QED
      BY <1>1, <1>2, <1>3, <1>5, <2>1 DEF ControlOK, RoomMade, FreshBatch, CapKept
<1> QED
    BY <1>4, <1>6, <1>7, <1>8 DEF HeldInv

-----------------------------------------------------------------------------
(* Scheduler.schedule keeps it *)

\* alloc takes a free slot, so no owner's.
LEMMA AdmitFacts ==
  ASSUME HeldInv, NEW s \in Slots, NEW tokens \in Seq(Tokens), AllocAndShare(s, tokens)
  PROVE  /\ CountsInv'
         /\ freeSlots'[s] = 0 /\ ctx'[s] = MatchedPrefix(tokens) /\ Len(ctx'[s]) >= 0
         /\ \A q \in Owners : /\ slot[q] # s
                              /\ freeSlots'[slot[q]] = 0
                              /\ ctx'[slot[q]] = ctx[slot[q]]
<1>1. TypeOK /\ CountsInv /\ HeldSlots
    BY DEF HeldInv
<1>2. CountsInv'
    BY <1>1, AllocAndShareCounts
<1>3. /\ freeSlots[s] > 0 /\ freeSlots' = [freeSlots EXCEPT ![s] = @ - 1]
      /\ ctx' = [ctx EXCEPT ![s] = MatchedPrefix(tokens)]
    BY DEF AllocAndShare
<1>4. freeSlots \in [Slots -> 0..1] /\ ctx \in [Slots -> Seq(Tokens)]
    BY <1>1 DEF TypeOK, KVTypeOK
<1>5. freeSlots'[s] = 0 /\ ctx'[s] = MatchedPrefix(tokens)
    BY <1>3, <1>4
<1>6. Len(ctx'[s]) >= 0
  <2>1. ctx' \in [Slots -> Seq(Tokens)]
      BY <1>2 DEF CountsInv, KVTypeOK
  <2>2. Len(ctx'[s]) \in Nat
      BY <2>1, LenProperties
  <2> QED
      BY <2>2
<1>7. ASSUME NEW q \in Owners
      PROVE  slot[q] # s /\ freeSlots'[slot[q]] = 0 /\ ctx'[slot[q]] = ctx[slot[q]]
  <2>1. slot[q] \in Slots /\ freeSlots[slot[q]] = 0
      BY <1>1 DEF HeldSlots
  <2> QED
      BY <1>3, <1>4, <2>1
<1> QED
    BY <1>2, <1>5, <1>6, <1>7

\* The head of the waiting list becomes an owner, of a slot nobody has.
LEMMA AdmitHeld ==
  ASSUME HeldInv, Admit
  PROVE  HeldInv'
<1>1. /\ TypeOK /\ CountsInv /\ ControlOK /\ QueuesApart /\ HeldSlots /\ SequencesOK
      /\ RoomMade /\ FreshBatch /\ CapKept
    BY DEF HeldInv
<1> DEFINE r == Head(waiting)
<1>2. PICK s \in Slots : /\ AllocAndShare(s, prompt[r])
                         /\ slot' = [slot EXCEPT ![r] = s]
                         /\ status' = [status EXCEPT ![r] = "RUNNING"]
                         /\ batch' = Append(batch, r)
    BY DEF Admit
<1>3. /\ pc = "schedule" /\ pc' = "schedule" /\ waiting # <<>> /\ waiting' = Tail(waiting)
      /\ Len(running) + Len(batch) < MaxNumSeqs
      /\ UNCHANGED <<asked, prompt, output, length, running, isPrefill, preempted, cursor,
                     encoding, answer>>
    BY DEF Admit, CanAdmit
<1>4. ~ isPrefill /\ cursor = 1 /\ Admitted /\ Admitted'
    BY <1>1, <1>3 DEF ControlOK, Admitted
<1>5. waiting \in Seq(Ids) /\ batch \in Seq(Ids) /\ running \in Seq(Ids) /\ prompt \in [Ids -> Seq(Tokens)]
    BY <1>1 DEF TypeOK
<1>6. /\ r \in Ids /\ r \in Range(waiting) /\ waiting' \in Seq(Ids)
      /\ Range(waiting') = Range(waiting) \ {r} /\ IsInjective(waiting')
    BY <1>1, <1>3, <1>5, TailFacts DEF QueuesApart
<1> HIDE DEF r
<1>7. r \notin Owners /\ r \notin Range(batch) /\ r \notin Range(running)
    BY <1>1, <1>4, <1>6, OwnersAre DEF QueuesApart
<1>8. /\ batch' \in Seq(Ids) /\ Range(batch') = Range(batch) \cup {r} /\ Len(batch') = Len(batch) + 1
      /\ IsInjective(batch')
    BY <1>1, <1>2, <1>4, <1>5, <1>6, <1>7, AppendFacts DEF QueuesApart
<1>9. Owners = Range(running) \cup Range(batch)
    BY <1>4, OwnersAre
<1>10. Owners' = Owners \cup {r}
    BY <1>3, <1>8, <1>9 DEF Owners
<1>11. /\ CountsInv' /\ freeSlots'[s] = 0 /\ Len(ctx'[s]) >= 0
       /\ \A q \in Owners : slot[q] # s /\ freeSlots'[slot[q]] = 0 /\ ctx'[slot[q]] = ctx[slot[q]]
    BY <1>2, <1>5, <1>6, AdmitFacts
<1>12. Owners \subseteq Ids
    BY <1>5, <1>9, SeqFacts
<1>13. slot'[r] = s /\ \A q \in Owners : q # r /\ slot'[q] = slot[q]
    BY <1>1, <1>2, <1>6, <1>7, <1>12 DEF TypeOK
<1>14. status'[r] = "RUNNING" /\ \A q \in Ids : q # r => status'[q] = status[q]
    BY <1>1, <1>2, <1>6 DEF TypeOK
<1>15. TypeOK'
  <2>1. KVTypeOK'
      BY <1>11 DEF CountsInv
  <2>2. /\ status' \in [Ids -> {"new", "WAITING", "RUNNING", "FINISHED"}]
        /\ slot' \in [Ids -> Slots \cup {NoSlot}]
      BY <1>1, <1>2 DEF TypeOK
  <2> QED
      BY <1>1, <1>3, <1>6, <1>8, <2>1, <2>2 DEF TypeOK
<1>16. ControlOK' /\ RoomMade'
    BY <1>1, <1>3, <1>4 DEF ControlOK, RoomMade
<1>17. QueuesApart'
  <2>1. IsInjective(running') /\ Range(batch') \cap Range(running') = {}
      BY <1>1, <1>3, <1>4, <1>7, <1>8 DEF QueuesApart
  <2>2. Range(waiting') \cap Owners' = {}
      BY <1>1, <1>6, <1>10 DEF QueuesApart
  <2>3. \A q \in Range(waiting') \cup Owners' : q \in Ids /\ (q = r \/ q \in Range(waiting) \cup Owners)
      BY <1>5, <1>6, <1>10, <1>12, SeqFacts
  <2>4. \A q \in Range(waiting') \cup Owners' : status'[q] # "new"
      BY <1>1, <1>14, <2>3 DEF QueuesApart
  <2> QED
      BY <1>6, <1>8, <2>1, <2>2, <2>4 DEF QueuesApart
<1>18. HeldSlots'
    BY <1>1, <1>10, <1>11, <1>13 DEF HeldSlots
<1>19. SequencesOK'
  <2>1. length[r] = 0 /\ prompt[r] # <<>>
      BY <1>1, <1>6 DEF SequencesOK, QueuesApart
  <2>2. \A q \in Ids : IF status'[q] = "new" THEN length'[q] = 0 ELSE prompt'[q] # <<>>
      BY <1>1, <1>3, <1>14, <2>1 DEF SequencesOK
  <2>3. \A q \in Range(waiting') : length'[q] = 0
      BY <1>1, <1>3, <1>6 DEF SequencesOK
  <2>4. \A q \in Owners' : length'[q] <= Len(ctx'[slot'[q]])
      BY <1>1, <1>3, <1>10, <1>11, <1>13, <2>1 DEF SequencesOK
  <2> QED
      BY <2>2, <2>3, <2>4 DEF SequencesOK
<1>20. CapKept'
  <2>1. Len(running) \in Nat /\ Len(batch) \in Nat
      BY <1>5, LenProperties
  <2> QED
      BY <1>3, <1>4, <1>8, <2>1, EngineAssumption DEF CapKept
<1>21. FreshBatch'
  <2>1. length[r] = 0
      BY <1>1, <1>6 DEF SequencesOK
  <2> QED
      BY <1>1, <1>3, <1>8, <2>1 DEF FreshBatch
<1> QED
    BY <1>11, <1>15, <1>16, <1>17, <1>18, <1>19, <1>20, <1>21 DEF HeldInv

\* min() over a nonempty running list finds one of its sequences.
LEMMA VictimRuns ==
  ASSUME HeldInv, running # <<>>
  PROVE  Victim \in Range(running)
<1> DEFINE made(j) == Len(output[running[j]])
           least == {j \in 1..Len(running) : \A k \in 1..Len(running) : made(j) <= made(k)}
           P(j) == \A k \in 1..Len(running) :
                     \/ made(j) < made(k)
                     \/ made(j) = made(k) /\ j <= k
<1>1. running \in Seq(Ids) /\ output \in [Ids -> Seq(Tokens)]
    BY DEF HeldInv, TypeOK
<1>2. /\ Len(running) \in Nat /\ Len(running) > 0
      /\ \A j \in 1..Len(running) : running[j] \in Range(running) /\ running[j] \in Ids
    BY <1>1, SeqFacts, EmptySeq, LenProperties
<1>3. \A j \in 1..Len(running) : made(j) \in Nat
    BY <1>1, <1>2, LenProperties
<1>4. least # {}
  <2> DEFINE counts == {made(j) : j \in 1..Len(running)}
  <2>1. counts \in SUBSET Nat /\ made(1) \in counts
      BY <1>2, <1>3
  <2>2. PICK m \in counts : \A n \in counts : m <= n
      BY <2>1, LeastExists
  <2> QED
      BY <2>2
<1>5. PICK j \in least : \A k \in least : j <= k
  <2>1. least \in SUBSET Nat
      BY <1>2
  <2> HIDE DEF least
  <2> QED
      BY <1>4, <2>1, LeastExists
<1>6. j \in 1..Len(running) /\ \A k \in 1..Len(running) : made(j) <= made(k)
    BY <1>5
<1>7. P(j)
  <2> SUFFICES ASSUME NEW k \in 1..Len(running), made(j) = made(k) PROVE j <= k
      BY <1>3, <1>6
  <2>1. k \in least
      BY <1>6
  <2> QED
      BY <1>5, <2>1
<1>8. (CHOOSE i \in 1..Len(running) : P(i)) \in 1..Len(running)
    BY <1>6, <1>7
<1>9. Victim = running[CHOOSE i \in 1..Len(running) : P(i)]
    BY DEF Victim
<1> QED
    BY <1>2, <1>8, <1>9

\* The victim gives its slot back, and waits with all it has said.
LEMMA PreemptOneHeld ==
  ASSUME HeldInv, PreemptOne
  PROVE  HeldInv'
<1>1. /\ TypeOK /\ CountsInv /\ ControlOK /\ QueuesApart /\ HeldSlots /\ SequencesOK
      /\ RoomMade /\ FreshBatch /\ CapKept
    BY DEF HeldInv
<1> DEFINE v == Victim
<1>2. /\ pc = "schedule" /\ pc' = "schedule" /\ batch = <<>> /\ batch' = <<>> /\ preempted < MaxNumSeqs
      /\ running # <<>> /\ running' = Without(running, v) /\ Free(slot[v])
      /\ preempted' = preempted + 1
      /\ UNCHANGED <<asked, output, isPrefill, cursor, encoding, answer>>
    BY DEF PreemptOne, AllTokenIds, BlockPressure
<1>3. v \in Range(running)
    BY <1>2, VictimRuns
<1>4. \/ /\ status' = [status EXCEPT ![v] = "FINISHED"]
         /\ UNCHANGED <<prompt, length, slot, waiting>>
      \/ /\ status' = [status EXCEPT ![v] = "WAITING"]
         /\ prompt' = [prompt EXCEPT ![v] = @ \o output[v]]
         /\ length' = [length EXCEPT ![v] = 0]
         /\ slot' = [slot EXCEPT ![v] = NoSlot]
         /\ waiting' = Append(waiting, v)
    BY DEF PreemptOne, AllTokenIds, Joined
<1> HIDE DEF v
<1>5. ~ isPrefill /\ cursor = 1 /\ Admitted /\ Admitted' /\ Range(<<>>) = {} /\ IsInjective(<<>>) /\ Len(<<>>) = 0
    BY <1>1, <1>2 DEF ControlOK, Admitted, Range, IsInjective
<1>6. Owners = Range(running) /\ Owners' = Range(running')
    BY <1>2, <1>5 DEF Owners
<1>7. /\ CountsInv' /\ v \in Ids /\ v \in Owners
      /\ running' \in Seq(Ids) /\ Range(running') = Range(running) \ {v}
      /\ IsInjective(running') /\ Len(running') = Len(running) - 1
      /\ \A q \in Owners : q # v =>
           slot[q] \in Slots /\ freeSlots'[slot[q]] = 0 /\ ctx'[slot[q]] = ctx[slot[q]]
    BY <1>2, <1>3, ReleaseFacts
<1>8. /\ waiting \in Seq(Ids) /\ prompt[v] \in Seq(Tokens) /\ prompt[v] # <<>> /\ output[v] \in Seq(Tokens)
      /\ v \notin Range(waiting) /\ IsInjective(waiting) /\ status[v] # "new"
    BY <1>1, <1>7, OwnerFacts DEF TypeOK, QueuesApart
<1>9. /\ waiting' \in Seq(Ids) /\ IsInjective(waiting') /\ Range(waiting') \subseteq Range(waiting) \cup {v}
      /\ v \in Range(waiting') => length'[v] = 0
  <2>1. length \in [Ids -> Nat]
      BY <1>1 DEF TypeOK
  <2>2. CASE UNCHANGED waiting
      BY <1>8, <2>2
  <2>3. CASE waiting' = Append(waiting, v) /\ length' = [length EXCEPT ![v] = 0]
      BY <1>7, <1>8, <2>1, <2>3, AppendFacts
  <2> QED
      BY <1>4, <2>2, <2>3
<1>10. /\ prompt[v] \o output[v] \in Seq(Tokens) /\ prompt[v] \o output[v] # <<>>
    BY <1>8, ConcatFacts, EmptySeq, LenProperties
<1>11. status'[v] # "new" /\ \A q \in Ids : q # v => /\ status'[q] = status[q] /\ prompt'[q] = prompt[q]
                                                   /\ length'[q] = length[q] /\ slot'[q] = slot[q]
    BY <1>1, <1>4, <1>7 DEF TypeOK
<1>12. TypeOK'
  <2>1. KVTypeOK'
      BY <1>7 DEF CountsInv
  <2>2. /\ status' \in [Ids -> {"new", "WAITING", "RUNNING", "FINISHED"}]
        /\ slot' \in [Ids -> Slots \cup {NoSlot}]
        /\ length' \in [Ids -> Nat] /\ prompt' \in [Ids -> Seq(Tokens)]
    <3>1. /\ status \in [Ids -> {"new", "WAITING", "RUNNING", "FINISHED"}]
          /\ slot \in [Ids -> Slots \cup {NoSlot}]
          /\ length \in [Ids -> Nat] /\ prompt \in [Ids -> Seq(Tokens)]
        BY <1>1 DEF TypeOK
    <3>2. v \in Ids
        BY <1>7
    <3>3. /\ status' \in [Ids -> {"new", "WAITING", "RUNNING", "FINISHED"}]
          /\ slot' \in [Ids -> Slots \cup {NoSlot}]
        BY <1>4, <3>1, <3>2
    <3>4. length' \in [Ids -> Nat]
      <4>1. [length EXCEPT ![v] = 0] \in [Ids -> Nat]
          BY <3>1, <3>2
      <4> QED
          BY <1>4, <3>1, <4>1
    <3>5. prompt' \in [Ids -> Seq(Tokens)]
      <4>1. [prompt EXCEPT ![v] = @ \o output[v]] \in [Ids -> Seq(Tokens)]
          BY <1>10, <3>1, <3>2
      <4> QED
          BY <1>4, <3>1, <4>1
    <3> QED
        BY <3>3, <3>4, <3>5
  <2>3. preempted'
 \in 0..MaxNumSeqs
    <3>1. preempted \in 0..MaxNumSeqs /\ MaxNumSeqs \in Nat
        BY <1>1, EngineAssumption DEF TypeOK
    <3> QED
        BY <1>2, <3>1
  <2>4. batch' \in Seq(Ids) /\ pc' \in {"idle", "schedule", "ensure", "write", "store", "post", "raised"}
      BY <1>1, <1>2 DEF TypeOK
  <2> QED
      BY <1>1, <1>2, <1>7, <1>9, <2>1, <2>2, <2>3, <2>4 DEF TypeOK
<1>13. ControlOK' /\ RoomMade' /\ FreshBatch'
    BY <1>1, <1>2, <1>5 DEF ControlOK, RoomMade, FreshBatch
<1>14. \A q \in Owners' : q \in Ids /\ q \in Owners /\ q # v
    BY <1>1, <1>6, <1>7, SeqFacts DEF TypeOK
<1>15. QueuesApart'
  <2>1. Range(waiting') \cap Owners' = {}
      BY <1>1, <1>9, <1>14 DEF QueuesApart
  <2>2. Range(waiting') \subseteq Ids
      BY <1>9, SeqFacts
  <2>3. \A q \in Range(waiting') \cup Owners' : status'[q] # "new"
      BY <1>1, <1>9, <1>11, <1>14, <2>2 DEF QueuesApart
  <2> QED
      BY <1>2, <1>5, <1>7, <1>9, <2>1, <2>3 DEF QueuesApart
<1>16. HeldSlots'
    BY <1>1, <1>7, <1>11, <1>14 DEF HeldSlots
<1>17. SequencesOK'
  <2>1. prompt'[v] # <<>>
      BY <1>1, <1>4, <1>7, <1>8, <1>10 DEF TypeOK
  <2>2. \A q \in Ids : IF status'[q] = "new" THEN length'[q] = 0 ELSE prompt'[q] # <<>>
      BY <1>1, <1>11, <2>1 DEF SequencesOK
  <2>3. \A q \in Range(waiting') : length'[q] = 0
    <3>1. \A q \in Range(waiting') : q \in Ids
        BY <1>9, SeqFacts
    <3> QED
        BY <1>1, <1>9, <1>11, <3>1 DEF SequencesOK
  <2>4. \A q \in Owners' : length'[q] <= Len(ctx'[slot'[q]])
      BY <1>1, <1>7, <1>11, <1>14 DEF SequencesOK
  <2> QED
      BY <2>2, <2>3, <2>4 DEF SequencesOK
<1>18. CapKept'
  <2>1. Len(running) \in Nat
      BY <1>1, SeqFacts DEF TypeOK
  <2> QED
      BY <1>1, <1>2, <1>5, <1>7, <2>1, EngineAssumption DEF CapKept
<1> QED
    BY <1>7, <1>12, <1>13, <1>15, <1>16, <1>17, <1>18 DEF HeldInv

\* schedule returns the admitted sequences, or the running ones.
LEMMA ReturnHeld ==
  ASSUME HeldInv, ReturnPrefill \/ ReturnDecode
  PROVE  HeldInv'
<1>1. /\ TypeOK /\ CountsInv /\ ControlOK /\ QueuesApart /\ HeldSlots /\ SequencesOK
      /\ RoomMade /\ FreshBatch /\ CapKept
    BY DEF HeldInv
<1>2. /\ pc = "schedule" /\ UNCHANGED <<kvVars, seqVars, waiting, running, cursor, answer>>
      /\ \/ /\ batch # <<>> /\ isPrefill' = TRUE /\ pc' = "ensure"
            /\ UNCHANGED <<batch, preempted, encoding>>
         \/ /\ batch = <<>> /\ batch' = running /\ UNCHANGED isPrefill
            /\ \/ running = <<>> /\ pc' = "idle" /\ encoding' = 0 /\ preempted' = 0
               \/ running # <<>> /\ pc' = "ensure" /\ UNCHANGED <<encoding, preempted>>
    BY DEF ReturnPrefill, ReturnDecode
<1>3. ~ isPrefill /\ cursor = 1 /\ Admitted /\ Range(<<>>) = {} /\ IsInjective(<<>>) /\ Len(<<>>) = 0
    BY <1>1, <1>2 DEF ControlOK, Admitted, Range, IsInjective
<1>4. CountsInv'
    BY <1>1, <1>2, StutterCounts
<1>5. Owners' = Owners
    BY <1>2, <1>3 DEF Owners
<1>6. /\ batch \in Seq(Ids) /\ running \in Seq(Ids) /\ Len(batch) \in Nat /\ Len(running) \in Nat
      /\ batch # <<>> => 1 \in 1..Len(batch)
      /\ running # <<>> => 1 \in 1..Len(running)
    BY <1>1, EmptySeq, LenProperties DEF TypeOK
<1>7. TypeOK'
  <2>1. preempted' \in 0..MaxNumSeqs /\ encoding' \in Embeds \cup {0} /\ isPrefill' \in BOOLEAN
    <3>1. /\ preempted \in 0..MaxNumSeqs /\ MaxNumSeqs \in Nat
          /\ encoding \in Embeds \cup {0} /\ isPrefill \in BOOLEAN
        BY <1>1, EngineAssumption DEF TypeOK
    <3>2. 0 \in 0..MaxNumSeqs
        BY <3>1
    <3> QED
        BY <1>2, <3>1, <3>2
  <2>2. batch' \in Seq(Ids) /\
 pc' \in {"idle", "schedule", "ensure", "write", "store", "post", "raised"}
      BY <1>2, <1>6
  <2> QED
      BY <1>1, <1>2, <1>4, <2>1, <2>2 DEF TypeOK, CountsInv, seqVars
<1>8. ControlOK'
    BY <1>1, <1>2, <1>3, <1>6 DEF ControlOK
<1>9. QueuesApart' /\ CapKept'
  <2>1. CASE batch # <<>> /\ isPrefill' = TRUE /\ pc' = "ensure" /\ UNCHANGED batch
      BY <1>1, <1>2, <1>3, <1>5, <2>1 DEF QueuesApart, CapKept, Admitted, seqVars
  <2>2. CASE batch = <<>> /\ UNCHANGED isPrefill /\ pc' \in {"idle", "ensure"}
    <3>1. ~ Admitted'
        BY <1>3, <2>2 DEF Admitted
    <3> QED
        BY <1>1, <1>2, <1>3, <1>5, <1>6, <2>2, <3>1 DEF QueuesApart, CapKept, seqVars
  <2> QED
      BY <1>2, <2>1, <2>2
<1>10. HeldSlots' /\ SequencesOK'
    BY <1>1, <1>2, <1>5 DEF HeldSlots, SequencesOK, kvVars, seqVars
<1>11. RoomMade' /\ FreshBatch'
    BY <1>1, <1>2, <1>3 DEF RoomMade, FreshBatch, seqVars
<1> QED
    BY <1>4, <1>7, <1>8, <1>9, <1>10, <1>11 DEF HeldInv

-----------------------------------------------------------------------------
(* The loops over the batch keep it *)

\* What is true of the lists, the owners and the cap at any turn of a loop.
ListsOK ==
  /\ running \in Seq(Ids) /\ cursor \in Nat \ {0}
  /\ IsInjective(running)
  /\ Admitted => IsInjective(batch) /\ Range(batch) \cap Range(running) = {}
  /\ pc \in {"ensure", "write", "store"} => cursor \in 1..Len(batch)
  /\ pc = "post" => cursor = 1 /\ batch # <<>>
  /\ pc \in {"ensure", "write", "store"} /\ ~ isPrefill => batch = running
  /\ CapKept

\* A turn of a loop keeps the owners: a prefilled batch is taken over by the
\* running list when it stops owning its slots.
LEMMA LoopFacts ==
  ASSUME HeldInv, pc \in {"ensure", "write", "store"}, UNCHANGED <<batch, isPrefill>>,
         \/ pc' \in {"write", "raised"} /\ UNCHANGED <<cursor, running>>
         \/ \E again \in {"ensure", "write", "store"}, next \in {"write", "store", "post"} :
              Advance(again, next)
  PROVE  /\ Owners' = Owners /\ ListsOK'
         /\ pc' \in {"ensure", "write", "store", "post", "raised"}
<1>1. /\ TypeOK /\ ControlOK /\ QueuesApart /\ CapKept
    BY DEF HeldInv
<1>2. /\ batch \in Seq(Ids) /\ cursor \in 1..Len(batch) /\ Len(batch) \in Nat /\ cursor \in Nat
    BY CurrentIsOwner
<1>3. running \in Seq(Ids) /\ Len(running) \in Nat /\ isPrefill \in BOOLEAN
    BY <1>1, LenProperties DEF TypeOK
<1>4. batch # <<>>
    BY <1>2, EmptySeq
<1>5. Admitted <=> isPrefill
    BY DEF Admitted
<1>6. CASE /\ pc' \in {"ensure", "write", "store", "raised"} /\ UNCHANGED running
           /\ cursor' \in 1..Len(batch)
  <2>1. Admitted' <=> isPrefill
      BY <1>6 DEF Admitted
  <2>2. Owners' = Owners
      BY <1>5, <1>6, <2>1, OwnersAre DEF Owners, Admitted
  <2> QED
      BY <1>1, <1>2, <1>3, <1>5, <1>6, <2>1, <2>2 DEF ListsOK, QueuesApart, ControlOK, CapKept
<1>7. CASE /\ pc' \in {"write", "store"} /\ UNCHANGED running /\ cursor' = 1
  <2>1. cursor' \in 1..Len(batch)
      BY <1>2, <1>7
  <2> QED
      BY <1>6, <1>7, <2>1
<1>8. CASE pc' = "post" /\ cursor' = 1 /\ running' = IF isPrefill THEN running \o batch ELSE running
  <2>1. Owners' = Range(running') /\ ~ Admitted'
      BY <1>8 DEF Owners, Admitted
  <2>2. CASE isPrefill
    <3>1. IsInjective(running) /\ IsInjective(batch) /\ Range(running) \cap Range(batch) = {}
        BY <1>1, <1>5, <2>2 DEF QueuesApart
    <3>2. /\ running' \in Seq(Ids) /\ Len(running') = Len(running) + Len(batch)
          /\ Range(running') = Range(running) \cup Range(batch) /\ IsInjective(running')
        BY <1>2, <1>3, <1>8, <2>2, <3>1, ConcatFacts
    <3>3. Owners' = Owners
        BY <1>5, <2>1, <2>2, <3>2, OwnersAre
    <3>4. CapKept'
        BY <1>1, <1>2, <1>3, <1>5, <2>1, <2>2, <3>2, EngineAssumption DEF CapKept
    <3> QED
        BY <1>4, <1>8, <2>1, <3>2, <3>3, <3>4 DEF ListsOK
  <2>3. CASE ~ isPrefill
    <3>1. Owners' = Owners
        BY <1>5, <1>8, <2>1, <2>3, OwnersAre
    <3>2. CapKept'
        BY <1>1, <1>3, <1>5, <1>8, <2>1, <2>3 DEF CapKept
    <3> QED
        BY <1>1, <1>3, <1>4, <1>8, <2>1, <2>3, <3>1, <3>2 DEF ListsOK, QueuesApart
  <2> QED
      BY <2>2, <2>3
<1>9. CASE pc' \in {"write", "raised"} /\ UNCHANGED <<cursor, running>>
    BY <1>2, <1>6, <1>9
<1>10. ASSUME NEW again \in {"ensure", "write", "store"}, NEW next \in {"write", "store", "post"},
              Advance(again, next)
       PROVE  /\ Owners' = Owners /\ ListsOK'
              /\ pc' \in {"ensure", "write", "store", "post", "raised"}
  <2>1. CASE cursor < Len(batch)
    <3>1. cursor' = cursor + 1 /\ pc' = again /\ UNCHANGED running
        BY <1>10, <2>1 DEF Advance
    <3>2. cursor' \in 1..Len(batch)
        BY <1>2, <2>1, <3>1
    <3> QED
        BY <1>6, <3>1, <3>2
  <2>2. CASE ~ (cursor < Len(batch))
    <3>1. /\ cursor' = 1 /\ pc' = next
          /\ running' = IF next = "post" /\ isPrefill THEN running \o batch ELSE running
        BY <1>10, <2>2 DEF Advance
    <3>2. CASE next = "post"
        BY <1>8, <3>1, <3>2
    <3>3. CASE next \in {"write", "store"}
        BY <1>7, <3>1, <3>3
    <3> QED
        BY <3>2, <3>3
  <2> QED
      BY <2>1, <2>2
<1> QED
    BY <1>9, <1>10

\* ensure_capacity only extends tables, and when it does not raise the slot
\* has the room it was called for.
LEMMA EnsureRoom ==
  ASSUME CountsInv, NEW s \in Slots, NEW n \in Nat, EnsureCapacity(s, n)
  PROVE  /\ \A t \in Slots : /\ Len(table[t]) \in Nat /\ Len(table'[t]) \in Nat
                             /\ Len(table[t]) <= Len(table'[t])
         /\ ~ Exhausted(s, n) => BlocksFor(n) <= Len(table'[s])
<1> DEFINE free == {b \in Blocks : freeBlocks[b] > 0}
           missing == BlocksFor(n) - Len(table[s])
           k == IF missing <= 0 THEN 0
                ELSE IF missing <= Cardinality(free) THEN missing ELSE Cardinality(free)
<1>1. table \in [Slots -> Seq(Blocks)]
    BY DEF CountsInv, KVTypeOK
<1>2. PICK q \in Popped(s, n) : table' = [table EXCEPT ![s] = @ \o q]
    BY DEF EnsureCapacity
<1>3. q \in [1..k -> free]
    BY <1>2 DEF Popped
<1>4. IsFiniteSet(free) /\ Cardinality(free) \in Nat
  <2>1. free \subseteq Blocks
      OBVIOUS
  <2> QED
      BY <2>1, SizesAssumption, FS_Subset, FS_CardinalityType
<1> HIDE DEF free
<1>5. BlocksFor(n) \in Nat /\ \A t \in Slots : Len(table[t]) \in Nat
    BY <1>1, BlocksForType, LenProperties
<1>6. k \in Nat
    BY <1>4, <1>5
<1>7. ~ Exhausted(s, n) => k >= missing
    BY <1>4, <1>5 DEF Exhausted, free
<1> HIDE DEF k
<1>8. q \in Seq(free) /\ Len(q) = k
    BY <1>3, <1>6, SeqDef, LenProperties
<1>9. q \in Seq(Blocks)
  <2>1. \A i \in 1..k : q[i] \in Blocks
      BY <1>3 DEF free
  <2>2. q \in [1..k -> Blocks]
      BY <1>3, <2>1
  <2> QED
      BY <1>6, <2>2, SeqDef
<1>10. Len(table[s] \o q) = Len(table[s]) + k
    BY <1>1, <1>8, <1>9, ConcatProperties
<1>11. \A t \in Slots : Len(table'[t]) = IF t = s THEN Len(table[s]) + k ELSE Len(table[t])
    BY <1>1, <1>2, <1>10
<1> QED
    BY <1>5, <1>6, <1>7, <1>11

\* ensure_capacity in the loops of the runner.
LEMMA EnsureOneHeld ==
  ASSUME HeldInv, EnsureOne
  PROVE  HeldInv'
<1>1. /\ TypeOK /\ CountsInv /\ ControlOK /\ QueuesApart /\ HeldSlots /\ SequencesOK
      /\ RoomMade /\ FreshBatch /\ CapKept
    BY DEF HeldInv
<1> DEFINE r == batch[cursor]
           n == Positions(r)
<1>2. /\ pc = "ensure" /\ EnsureCapacity(slot[r], n)
      /\ UNCHANGED <<seqVars, waiting, batch, isPrefill, preempted, encoding, answer>>
      /\ IF Exhausted(slot[r], n)
           THEN pc' = "raised" /\ UNCHANGED <<cursor, running>>
           ELSE IF OneByOne
           THEN pc' = "write" /\ UNCHANGED <<cursor, running>>
           ELSE Advance("ensure", "write")
    BY DEF EnsureOne
<1>3. /\ cursor \in 1..Len(batch) /\ Len(batch) \in Nat /\ cursor \in Nat /\ DOMAIN batch = 1..Len(batch)
      /\ \A i \in 1..Len(batch) : batch[i] \in Owners /\ batch[i] \in Ids
    BY <1>2, CurrentIsOwner
<1>4. /\ \A i \in 1..Len(batch) : slot[batch[i]] \in Slots
      /\ slot[r] \in Slots /\ freeSlots[slot[r]] = 0
    BY <1>3, OwnerFacts
<1>5. n \in Nat
  <2>1. prompt[r] \in Seq(Tokens) /\ length[r] \in Nat
      BY <1>1, <1>3 DEF TypeOK
  <2> QED
      BY <2>1, LenProperties DEF Positions
<1>6. CountsInv'
    BY <1>1, <1>2, <1>4, <1>5, EnsureCapacityCounts
<1>7. UNCHANGED <<freeSlots, ctx>>
    BY <1>2 DEF EnsureCapacity
<1>8. Owners' = Owners /\ ListsOK' /\ pc' \in {"ensure", "write", "store", "post", "raised"}
    BY <1>2, LoopFacts
<1>9. pc' \in {"ensure", "write", "raised"}
    BY <1>2 DEF Advance
<1>10. TypeOK'
  <2>1. KVTypeOK' /\ running' \in Seq(Ids) /\ cursor' \in Nat \ {0}
      BY <1>6, <1>8 DEF CountsInv, ListsOK
  <2> QED
      BY <1>1, <1>2, <1>9, <2>1 DEF TypeOK, seqVars
<1>11. ControlOK'
    BY <1>8, <1>9 DEF ControlOK, ListsOK
<1>12. QueuesApart' /\ HeldSlots' /\ SequencesOK' /\ FreshBatch' /\ CapKept'
    BY <1>1, <1>2, <1>7, <1>8, <1>9 DEF QueuesApart, HeldSlots, SequencesOK, FreshBatch, ListsOK, seqVars
<1>13. \A i \in 1..Len(batch) : /\ Len(table[slot[batch[i]]]) \in Nat
                                /\ Len(table'[slot[batch[i]]]) \in Nat
                                /\ Len(table[slot[batch[i]]]) <= Len(table'[slot[batch[i]]])
    BY <1>1, <1>2, <1>4, <1>5, EnsureRoom
<1>14. \A i \in 1..Len(batch) : Positions(batch[i])' = Positions(batch[i]) /\ BlocksFor(Positions(batch[i])) \in Nat
  <2> SUFFICES ASSUME NEW i \in 1..Len(batch)
               PROVE  Positions(batch[i])' = Positions(batch[i]) /\ BlocksFor(Positions(batch[i])) \in Nat
      OBVIOUS
  <2>1. prompt[batch[i]] \in Seq(Tokens) /\ length[batch[i]] \in Nat
      BY <1>1, <1>3 DEF TypeOK
  <2>2. Positions(batch[i]) \in Nat
      BY <2>1, LenProperties DEF Positions
  <2> QED
      BY <1>2, <2>2, BlocksForType DEF Positions, seqVars
<1>15. \A i \in 1..Len(batch) : Ready(i) => Ready(i)'
  <2> SUFFICES ASSUME NEW i \in 1..Len(batch), Ready(i) PROVE Ready(i)'
      OBVIOUS
  <2>1. BlocksFor(Positions(batch[i])) <= Len(table[slot[batch[i]]])
      BY DEF Ready, HasCapacity
  <2>2. BlocksFor(Positions(batch[i])) <= Len(table'[slot[batch[i]]])
      BY <1>13, <1>14, <2>1
  <2>3. UNCHANGED <<batch, slot>>
      BY <1>2 DEF seqVars
  <2> QED
      BY <1>14, <2>2, <2>3 DEF Ready, HasCapacity, BlocksFor
<1>16. ASSUME ~ Exhausted(slot[r], n), NEW i \in 1..cursor PROVE Ready(i)'
  <2>1. BlocksFor(n) <= Len(table'[slot[r]])
      BY <1>1, <1>2, <1>4, <1>5, <1>16, EnsureRoom
  <2>2. i \in 1..Len(batch) /\ (i = cursor \/ i \in 1..(cursor - 1))
      BY <1>3
  <2>3. CASE i = cursor
    <3>1. UNCHANGED <<batch, slot>> /\ Positions(batch[i])' = Positions(batch[i])
        BY <1>2, <1>14, <2>2 DEF seqVars
    <3> QED
        BY <2>1, <2>3, <3>1 DEF Ready, HasCapacity, BlocksFor
  <2>4. CASE i \in 1..(cursor - 1)
      BY <1>1, <1>2, <1>15, <2>2, <2>4 DEF RoomMade
  <2> QED
      BY <2>2, <2>3, <2>4
<1>17. RoomMade'
  <2>1. CASE pc' = "raised"
      BY <2>1 DEF RoomMade
  <2>2. CASE ~ Exhausted(slot[r], n)
    <3>1. OneByOne' <=> OneByOne
        BY <1>2 DEF OneByOne
    <3>2. CASE pc' = "write" /\ UNCHANGED cursor /\ OneByOne
      <4>1. \A i \in DOMAIN batch' : i <= cursor' => Ready(i)'
          BY <1>2, <1>3, <1>16, <2>2, <3>2
      <4> QED
          BY <3>1, <3>2, <4>1 DEF RoomMade
    <3>3. CASE cursor < Len(batch) /\ pc' = "ensure" /\ cursor' = cursor + 1
      <4>1. 1..(cursor' - 1) = 1..cursor
          BY <1>3, <3>3
      <4> QED
          BY <1>16, <2>2, <3>3, <4>1 DEF RoomMade
    <3>4. CASE ~ (cursor < Len(batch)) /\ pc' = "write" /\ cursor' = 1 /\ ~ OneByOne
      <4>1. \A i \in DOMAIN batch' : Ready(i)'
          BY <1>2, <1>3, <1>16, <2>2, <3>4
      <4> QED
          BY <3>1, <3>4, <4>1 DEF RoomMade
    <3> QED
        BY <1>2, <2>2, <3>2, <3>3, <3>4 DEF Advance
  <2> QED
      BY <1>2, <2>1, <2>2
<1> QED
    BY <1>6, <1>10, <1>11, <1>12, <1>17 DEF HeldInv

\* The error of an encode() leaves its batch without an owner.
LEMMA RelayRaiseHeld ==
  ASSUME HeldInv, RelayRaise
  PROVE  HeldInv'
<1>1. /\ TypeOK /\ CountsInv /\ ControlOK /\ QueuesApart /\ HeldSlots /\ SequencesOK
      /\ RoomMade /\ FreshBatch /\ CapKept
    BY DEF HeldInv
<1>2. /\ pc' = "idle" /\ batch' = <<>> /\ isPrefill' = FALSE /\ preempted' = 0 /\ cursor' = 1 /\ encoding' = 0
      /\ UNCHANGED <<kvVars, seqVars, waiting, running, answer>>
    BY DEF RelayRaise
<1>3. CountsInv'
    BY <1>1, <1>2, StutterCounts
<1>4. ~ Admitted' /\ Owners' = Range(running) /\ Owners' \subseteq Owners
    BY <1>2, OwnersAre DEF Owners, Admitted
<1>5. TypeOK'
  <2>1. MaxNumSeqs \in Nat
      BY EngineAssumption
  <2>2. 0 \in 0..MaxNumSeqs /\ <<>> \in Seq(Ids)
      BY <2>1, EmptySeq
  <2>3. KVTypeOK' /\ UNCHANGED <<status, asked, prompt, output, slot, length>>
      BY <1>2, <1>3 DEF CountsInv, seqVars
  <2>4. /\ preempted' \in 0..MaxNumSeqs /\ batch' \in Seq(Ids) /\ encoding' \in Embeds \cup {0}
        /\ isPrefill' \in BOOLEAN /\ cursor' \in Nat \ {0}
        /\ pc' \in {"idle", "schedule", "ensure", "write", "store", "post", "raised"}
    <3>1. preempted' = 0 /\ batch' = <<>> /\ encoding' = 0 /\ isPrefill' = FALSE /\ pc' = "idle"
        BY <1>2
    <3>2. cursor' \in Nat \ {0}
        BY <1>2
    <3> QED
        BY <2>2, <3>1, <3>2
  <2>5. UNCHANGED <<waiting, running, answer>>
      BY <1>2
  <2> QED
      BY <1>1, <2>3, <2>4, <2>5 DEF TypeOK
<1>6. ControlOK' /\ RoomMade' /\ FreshBatch'
    BY <1>2 DEF ControlOK, RoomMade, FreshBatch
<1>7. QueuesApart' /\ HeldSlots' /\ SequencesOK'
    BY <1>1, <1>2, <1>4 DEF QueuesApart, HeldSlots, SequencesOK, kvVars, seqVars
<1>8. CapKept'
  <2>1. Len(running) \in Nat /\ Len(batch) \in Nat
      BY <1>1, LenProperties DEF TypeOK
  <2> QED
      BY <1>1, <1>2, <1>4, <2>1, EngineAssumption DEF CapKept
<1> QED
    BY <1>3, <1>5, <1>6, <1>7, <1>8 DEF HeldInv

\* Last is an element of a nonempty sequence.
LEMMA LastTokenIsToken ==
  ASSUME HeldInv, NEW r \in Owners
  PROVE  LastToken(r) \in Tokens
<1>1. output[r] \in Seq(Tokens) /\ prompt[r] \in Seq(Tokens) /\ prompt[r] # <<>>
    BY OwnerFacts
<1>2. ASSUME NEW s \in Seq(Tokens), s # <<>> PROVE Last(s) \in Tokens
  <2>1. Len(s) \in 1..Len(s)
      BY <1>2, EmptySeq, LenProperties
  <2> QED
      BY <2>1, ElementOfSeq DEF Last
<1> QED
    BY <1>1, <1>2 DEF LastToken

\* The start of what a slot holds.
LEMMA StartOfContext ==
  ASSUME NEW T, NEW s \in Seq(T), NEW n \in Nat, n <= Len(s)
  PROVE  /\ SubSeq(s, 1, n) \in Seq(T) /\ Len(SubSeq(s, 1, n)) = n
         /\ \A i \in 1..n : SubSeq(s, 1, n)[i] = s[i]
<1>1. Len(s) \in Nat
    BY LenProperties
<1>2. 1 \in 1..(Len(s) + 1) /\ n \in (1 - 1)..Len(s)
    BY <1>1
<1>3. /\ SubSeq(s, 1, n) \in Seq(T) /\ Len(SubSeq(s, 1, n)) = n - 1 + 1
      /\ \A i \in 1..(n - 1 + 1) : SubSeq(s, 1, n)[i] = s[1 + i - 1]
    BY <1>1, <1>2, SubSeqProperties
<1>4. n - 1 + 1 = n /\ \A i \in 1..n : 1 + i - 1 = i
    OBVIOUS
<1> QED
    BY <1>3, <1>4

\* A forward pass writes through the table of the sequence it is at, as far as
\* room was made for, and leaves every other owner's slot alone.
LEMMA ForwardHeld ==
  ASSUME HeldInv, pc = "write", NEW from \in Nat, NEW tokens \in Seq(Tokens),
         Len(tokens) = Positions(batch[cursor]), encoding # 0 => isPrefill,
         WriteKV(slot[batch[cursor]], from, tokens),
         UNCHANGED <<status, asked, prompt, slot, waiting, batch, isPrefill, preempted, encoding, answer>>,
         \/ UNCHANGED length /\ encoding # 0
         \/ length' = [length EXCEPT ![batch[cursor]] = Len(tokens)] /\ encoding = 0,
         output' \in [Ids -> Seq(Tokens)],
         NEW again \in {"ensure", "write", "store"}, NEW next \in {"write", "store", "post"},
         Advance(again, next),
         again = (IF OneByOne THEN "ensure" ELSE "write"),
         next = (IF isPrefill THEN "store" ELSE "post")
  PROVE  HeldInv'
<1>1. /\ TypeOK /\ CountsInv /\ ControlOK /\ QueuesApart /\ HeldSlots /\ SequencesOK
      /\ RoomMade /\ FreshBatch /\ CapKept
    BY DEF HeldInv
<1> DEFINE r == batch[cursor]
<1>2. /\ cursor \in 1..Len(batch) /\ Len(batch) \in Nat /\ cursor \in Nat /\ DOMAIN batch = 1..Len(batch)
      /\ \A i \in 1..Len(batch) : batch[i] \in Owners /\ batch[i] \in Ids
      /\ IsInjective(batch)
    BY CurrentIsOwner
<1>3. r \in Owners /\ r \in Ids /\ slot[r] \in Slots /\ freeSlots[slot[r]] = 0
    BY <1>2, OwnerFacts
<1>4. \A i \in 1..Len(batch) : i # cursor => batch[i] # r
    BY <1>2 DEF IsInjective
<1>5. Len(tokens) \in Nat
    BY LenProperties
<1>6. HasCapacity(slot[r], Len(tokens))
  <2>1. Ready(cursor)
      BY <1>1, <1>2 DEF RoomMade
  <2> QED
      BY <2>1 DEF Ready
<1>7. CountsInv'
    BY <1>1, <1>3, <1>6, WriteKVCounts
<1>8. /\ ctx' = [ctx EXCEPT ![slot[r]] = tokens] /\ UNCHANGED <<freeSlots, table>>
    BY DEF WriteKV
<1>9. Owners' = Owners /\ ListsOK' /\ pc' \in {"ensure", "write", "store", "post", "raised"}
    BY LoopFacts
<1>10. /\ ctx'[slot[r]] = tokens
       /\ \A q \in Owners : q # r => slot[q] # slot[r] /\ ctx'[slot[q]] = ctx[slot[q]]
  <2>1. ctx \in [Slots -> Seq(Tokens)]
      BY <1>1 DEF TypeOK, KVTypeOK
  <2> QED
      BY <1>1, <1>3, <1>8, <2>1 DEF HeldSlots
<1>11. /\ length' \in [Ids -> Nat]
       /\ \A q \in Ids : q # r => length'[q] = length[q]
       /\ length'[r] = IF encoding = 0 THEN Len(tokens) ELSE length[r]
  <2>1. length \in [Ids -> Nat]
      BY <1>1 DEF TypeOK
  <2> QED
      BY <1>3, <1>5, <2>1
<1>12. TypeOK'
  <2>1. KVTypeOK' /\ running' \in Seq(Ids) /\ cursor' \in Nat \ {0}
      BY <1>7, <1>9 DEF CountsInv, ListsOK
  <2> QED
      BY <1>1, <1>9, <1>11, <2>1 DEF TypeOK
<1>13. ControlOK'
  <2>1. pc' \in {again, next}
      BY DEF Advance
  <2>2. pc' = "store" => isPrefill \/ encoding # 0
      BY <2>1
  <2> QED
      BY <1>9, <2>2 DEF ControlOK, ListsOK
<1>14. QueuesApart' /\ HeldSlots' /\ CapKept'
    BY <1>1, <1>8, <1>9 DEF QueuesApart, HeldSlots, ListsOK
<1>15. SequencesOK'
  <2>1. status[r] # "new" /\ r \notin Range(waiting)
      BY <1>1, <1>3 DEF QueuesApart
  <2>2. \A q \in Range(waiting) : q \in Ids
      BY <1>1, SeqFacts DEF TypeOK
  <2>3. \A q \in Owners : q \in Ids
      BY OwnerFacts
  <2>4. length'[r] <= Len(ctx'[slot[r]])
    <3>1. CASE encoding = 0
        BY <1>5, <1>10, <1>11, <3>1
    <3>2. CASE encoding # 0
      <4>1. isPrefill /\ r \in Range(batch)
          BY <1>1, <1>2, <3>2, SeqFacts DEF TypeOK
      <4>2. length[r] = 0
          BY <1>1, <3>2, <4>1 DEF FreshBatch
      <4> QED
          BY <1>5, <1>10, <1>11, <3>2, <4>2
    <3> QED
        BY <3>1, <3>2
  <2>5. \A q \in Owners : length'[q] <= Len(ctx'[slot[q]])
      BY <1>1, <1>10, <1>11, <2>3, <2>4 DEF SequencesOK
  <2> QED
      BY <1>1, <1>9, <1>11, <2>1, <2>2, <2>5 DEF SequencesOK
<1>16. FreshBatch'
    BY <1>1, <1>9 DEF FreshBatch
<1>17. ASSUME NEW i \in 1..Len(batch), Ready(i), isPrefill \/ i # cursor PROVE Ready(i)'
  <2>1. batch[i] \in Ids /\ (isPrefill \/ batch[i] # r)
      BY <1>2, <1>4, <1>17
  <2>2. Positions(batch[i])' = Positions(batch[i])
      BY <1>11, <2>1 DEF Positions
  <2> QED
      BY <1>8, <1>17, <2>2 DEF Ready, HasCapacity, BlocksFor
<1>18. OneByOne' <=> OneByOne
    BY DEF OneByOne
<1>19. \A i \in 1..Len(batch) : (IF OneByOne THEN i <= cursor ELSE isPrefill \/ i >= cursor) => Ready(i)
    BY <1>1, <1>2 DEF RoomMade
<1>20. OneByOne => isPrefill
    BY DEF OneByOne
<1>21. RoomMade'
  <2>1. CASE cursor < Len(batch) /\ pc' = again /\ cursor' = cursor + 1
    <3>1. CASE OneByOne
      <4>1. \A i \in 1..(cursor' - 1) : i \in 1..Len(batch) /\ i <= cursor
          BY <1>2, <2>1
      <4>2. \A i \in 1..(cursor' - 1) : Ready(i)'
          BY <1>17, <1>19, <1>20, <3>1, <4>1
      <4> QED
          BY <2>1, <3>1, <4>2 DEF RoomMade
    <3>2. CASE ~ OneByOne
      <4>1. ASSUME NEW i \in 1..Len(batch), isPrefill \/ i >= cursor' PROVE Ready(i)'
        <5>1. isPrefill \/ (i # cursor /\ i >= cursor)
            BY <1>2, <2>1, <4>1
        <5> QED
            BY <1>17, <1>19, <3>2, <5>1
      <4>2. \A i \in DOMAIN batch' : isPrefill' \/ i >= cursor' => Ready(i)'
          BY <1>2, <4>1
      <4> QED
          BY <1>18, <2>1, <3>2, <4>2 DEF RoomMade
    <3> QED
        BY <3>1, <3>2
  <2>2. CASE ~ (cursor < Len(batch)) /\ pc' = next
    <3>1. CASE isPrefill
      <4>1. \A i \in 1..Len(batch) : IF OneByOne THEN i <= cursor ELSE isPrefill \/ i >= cursor
          BY <1>2, <2>2, <3>1
      <4>2. \A i \in DOMAIN batch' : Ready(i)'
          BY <1>2, <1>17, <1>19, <3>1, <4>1
      <4> QED
          BY <2>2, <3>1, <4>2 DEF RoomMade
    <3>2. CASE ~ isPrefill
        BY <1>20, <2>2, <3>2 DEF RoomMade, OneByOne
    <3> QED
        BY <3>1, <3>2
  <2> QED
      BY <2>1, <2>2 DEF Advance
<1> QED
    BY <1>7, <1>12, <1>13, <1>14, <1>15, <1>16, <1>21 DEF HeldInv

\* A turn of a loop that leaves the slots, the tables and the lengths as they are.
LEMMA QuietTurnHeld ==
  ASSUME HeldInv, pc \in {"write", "store"}, pc = "write" => OneByOne, CountsInv',
         UNCHANGED <<freeSlots, table, ctx>>,
         UNCHANGED <<asked, prompt, output, slot, length, waiting, batch, isPrefill, preempted,
                     encoding, answer>>,
         \/ UNCHANGED status
         \/ status' = [status EXCEPT ![batch[cursor]] = "FINISHED"],
         NEW again \in {"ensure", "store"}, NEW next \in {"store", "post"},
         Advance(again, next), isPrefill \/ encoding # 0,
         again = (IF pc = "write" THEN "ensure" ELSE "store")
  PROVE  HeldInv'
<1>1. /\ TypeOK /\ CountsInv /\ ControlOK /\ QueuesApart /\ HeldSlots /\ SequencesOK
      /\ RoomMade /\ FreshBatch /\ CapKept
    BY DEF HeldInv
<1>2. /\ cursor \in 1..Len(batch) /\ Len(batch) \in Nat /\ cursor \in Nat /\ DOMAIN batch = 1..Len(batch)
      /\ \A i \in 1..Len(batch) : batch[i] \in Owners /\ batch[i] \in Ids
    BY CurrentIsOwner
<1>3. Owners' = Owners /\ ListsOK' /\ pc' \in {again, next}
    BY LoopFacts DEF Advance
<1>4. /\ status' \in [Ids -> {"new", "WAITING", "RUNNING", "FINISHED"}]
      /\ \A q \in Ids : status'[q] = "new" <=> status[q] = "new"
  <2>1. batch[cursor] \in Ids /\ status[batch[cursor]] # "new"
      BY <1>1, <1>2 DEF QueuesApart
  <2> QED
      BY <1>1, <2>1 DEF TypeOK
<1>5. TypeOK'
  <2>1. KVTypeOK' /\ running' \in Seq(Ids) /\ cursor' \in Nat \ {0}
      BY <1>3 DEF CountsInv, ListsOK
  <2> QED
      BY <1>1, <1>3, <1>4, <2>1 DEF TypeOK
<1>6. ControlOK' /\ FreshBatch' /\ HeldSlots' /\ CapKept'
    BY <1>1, <1>3 DEF ControlOK, FreshBatch, HeldSlots, ListsOK
<1>7. \A q \in Owners \cup Range(waiting) : q \in Ids
    BY <1>1, OwnerFacts, SeqFacts DEF TypeOK
<1>8. QueuesApart' /\ SequencesOK'
    BY <1>1, <1>3, <1>4, <1>7 DEF QueuesApart, SequencesOK, ListsOK
<1>9. \A i \in 1..Len(batch) : Ready(i) => Ready(i)'
    BY DEF Ready, HasCapacity, Positions, BlocksFor
<1>10. \A i \in 1..Len(batch) : i <= cursor \/ pc = "store" => Ready(i)'
    BY <1>1, <1>2, <1>9 DEF RoomMade
<1>11. RoomMade'
  <2>1. CASE cursor < Len(batch) /\ pc' = again /\ cursor' = cursor + 1
    <3>1. \A i \in 1..(cursor' - 1) : i \in 1..Len(batch) /\ i <= cursor
        BY <1>2, <2>1
    <3>2. pc' = "store" => pc = "store"
        BY <2>1
    <3> QED
        BY <1>2, <1>10, <2>1, <3>1, <3>2 DEF RoomMade
  <2>2. CASE ~ (cursor < Len(batch)) /\ pc' = next
    <3>1. \A i \in 1..Len(batch) : i <= cursor
        BY <1>2, <2>2
    <3> QED
        BY <1>2, <1>10, <2>2, <3>1 DEF RoomMade
  <2> QED
      BY <2>1, <2>2 DEF Advance
<1> QED
    BY <1>5, <1>6, <1>8, <1>11 DEF HeldInv

\* The forward of one prefilled sequence.
LEMMA PrefillOneHeld ==
  ASSUME HeldInv, PrefillOne
  PROVE  HeldInv'
<1>1. TypeOK /\ ControlOK
    BY DEF HeldInv
<1> DEFINE r == batch[cursor]
<1>2. /\ pc = "write" /\ encoding = 0 /\ isPrefill
      /\ WriteKV(slot[r], IF OneByOne THEN Len(ctx[slot[r]]) ELSE 0, prompt[r])
      /\ length' = [length EXCEPT ![r] = Len(prompt[r])]
      /\ \E t \in Tokens : output' = [output EXCEPT ![r] = Append(@, t)]
      /\ Advance(IF OneByOne THEN "ensure" ELSE "write", "store")
      /\ UNCHANGED <<status, asked, prompt, slot, waiting, batch, isPrefill, preempted,
                     encoding, answer>>
    BY DEF PrefillOne
<1>3. r \in Owners
    BY <1>2, CurrentIsOwner
<1>4. r \in Ids /\ prompt[r] \in Seq(Tokens) /\ ctx[slot[r]] \in Seq(Tokens) /\ output[r] \in Seq(Tokens)
    BY <1>3, OwnerFacts
<1>5. Len(ctx[slot[r]]) \in Nat /\ Len(prompt[r]) = Positions(r)
    BY <1>2, <1>4, LenProperties DEF Positions
<1>6. output' \in [Ids -> Seq(Tokens)]
  <2>1. PICK t \in Tokens : output' = [output EXCEPT ![r] = Append(@, t)]
      BY <1>2
  <2>2. Append(output[r], t) \in Seq(Tokens)
      BY <1>4, AppendFacts
  <2> QED
      BY <1>1, <1>4, <2>1, <2>2 DEF TypeOK
<1>7. (IF OneByOne THEN Len(ctx[slot[r]]) ELSE 0) \in Nat
    BY <1>5
<1>8. /\ (IF OneByOne THEN "ensure" ELSE "write") \in {"ensure", "write", "store"}
      /\ "store" \in {"write", "store", "post"} /\ "store" = (IF isPrefill THEN "store" ELSE "post")
    BY <1>2
<1> QED
    BY <1>2, <1>4, <1>5, <1>6, <1>7, <1>8, ForwardHeld

\* One row of a decode step.
LEMMA DecodeOneHeld ==
  ASSUME HeldInv, DecodeOne
  PROVE  HeldInv'
<1>1. TypeOK /\ ControlOK
    BY DEF HeldInv
<1> DEFINE r == batch[cursor]
           tokens == Append(SubSeq(ctx[slot[r]], 1, length[r]), LastToken(r))
<1>2. /\ pc = "write" /\ encoding = 0 /\ ~ isPrefill
      /\ WriteKV(slot[r], length[r], tokens)
      /\ length' = [length EXCEPT ![r] = @ + 1]
      /\ \E t \in Tokens : output' = [output EXCEPT ![r] = Append(@, t)]
      /\ Advance("write", "post")
      /\ UNCHANGED <<status, asked, prompt, slot, waiting, batch, isPrefill, preempted,
                     encoding, answer>>
    BY DEF DecodeOne
<1>3. r \in Owners
    BY <1>2, CurrentIsOwner
<1>4. /\ r \in Ids /\ ctx[slot[r]] \in Seq(Tokens) /\ output[r] \in Seq(Tokens)
      /\ length[r] \in Nat /\ length[r] <= Len(ctx[slot[r]])
    BY <1>3, OwnerFacts
<1>5. tokens \in Seq(Tokens) /\ Len(tokens) = length[r] + 1
  <2>1. LastToken(r) \in Tokens
      BY <1>3, LastTokenIsToken
  <2>2. SubSeq(ctx[slot[r]], 1, length[r]) \in Seq(Tokens) /\ Len(SubSeq(ctx[slot[r]], 1, length[r])) = length[r]
      BY <1>4, StartOfContext
  <2> QED
      BY <2>1, <2>2, AppendFacts
<1> HIDE DEF tokens
<1>6. Len(tokens) = Positions(r) /\ length' = [length EXCEPT ![r] = Len(tokens)]
    BY <1>1, <1>2, <1>4, <1>5 DEF Positions, TypeOK
<1>7. output' \in [Ids -> Seq(Tokens)]
  <2>1. PICK t \in Tokens : output' = [output EXCEPT ![r] = Append(@, t)]
      BY <1>2
  <2>2. Append(output[r], t) \in Seq(Tokens)
      BY <1>4, AppendFacts
  <2> QED
      BY <1>1, <1>4, <2>1, <2>2 DEF TypeOK
<1>8. ~ OneByOne
    BY <1>2 DEF OneByOne
<1>9. /\ "write" = (IF OneByOne THEN "ensure" ELSE "write") /\ "write" \in {"ensure", "write", "store"}
      /\ "post" \in {"write", "store", "post"} /\ "post" = (IF isPrefill THEN "store" ELSE "post")
    BY <1>2, <1>8
<1> QED
    BY <1>2, <1>4, <1>5, <1>6, <1>7, <1>9, ForwardHeld

\* runner.encode of one sequence.
LEMMA EncodeOneHeld ==
  ASSUME HeldInv, EncodeOne
  PROVE  HeldInv'
<1>1. TypeOK /\ CountsInv
    BY DEF HeldInv
<1> DEFINE r == batch[cursor]
<1>2. /\ pc = "write" /\ encoding # 0 /\ Advance("ensure", "store") /\ OneByOne
      /\ UNCHANGED <<seqVars, waiting, batch, isPrefill, preempted, encoding, answer>>
      /\ IF isPrefill THEN WriteKV(slot[r], Len(ctx[slot[r]]), prompt[r]) ELSE UNCHANGED kvVars
    BY DEF EncodeOne, OneByOne
<1>3. UNCHANGED <<status, asked, prompt, output, slot, length>>
    BY <1>2 DEF seqVars
<1>4. r \in Owners
    BY <1>2, CurrentIsOwner
<1>5. r \in Ids /\ prompt[r] \in Seq(Tokens) /\ ctx[slot[r]] \in Seq(Tokens)
    BY <1>4, OwnerFacts
<1>6. Len(ctx[slot[r]]) \in Nat /\ Len(prompt[r]) = Positions(r)
    BY <1>2, <1>5, LenProperties DEF Positions
<1>7. CASE isPrefill
  <2>1. /\ "ensure" = (IF OneByOne THEN "ensure" ELSE "write") /\ "ensure" \in {"ensure", "write", "store"}
        /\ "store" \in {"write", "store", "post"} /\ "store" = (IF isPrefill THEN "store" ELSE "post")
      BY <1>2, <1>7
  <2>2. output' \in [Ids -> Seq(Tokens)]
      BY <1>1, <1>3 DEF TypeOK
  <2> QED
      BY <1>2, <1>3, <1>5, <1>6, <1>7, <2>1, <2>2, ForwardHeld
<1>8. CASE ~ isPrefill
  <2>1. CountsInv' /\ UNCHANGED <<freeSlots, table, ctx>>
      BY <1>1, <1>2, <1>8, StutterCounts DEF kvVars
  <2>2. /\ "ensure" \in {"ensure", "store"} /\ "store" \in {"store", "post"}
        /\ "ensure" = (IF pc = "write" THEN "ensure" ELSE "store")
      BY <1>2
  <2> QED
      BY <1>2, <1>3, <2>1, <2>2, QuietTurnHeld
<1> QED
    BY <1>7, <1>8

\* store_prefix of one sequence of the batch.
LEMMA StoreOneHeld ==
  ASSUME HeldInv, StoreOne
  PROVE  HeldInv'
<1>1. TypeOK /\ CountsInv /\ RoomMade /\ ControlOK
    BY DEF HeldInv
<1> DEFINE r == batch[cursor]
<1>2. /\ pc = "store" /\ StorePrefix(slot[r], prompt[r]) /\ Advance("store", "post")
      /\ status' = IF encoding = 0 THEN status ELSE [status EXCEPT ![r] = "FINISHED"]
      /\ UNCHANGED <<asked, prompt, output, slot, length, waiting, batch, isPrefill, preempted,
                     encoding, answer>>
    BY DEF StoreOne
<1>3. r \in Owners /\ cursor \in 1..Len(batch) /\ DOMAIN batch = 1..Len(batch)
    BY <1>2, CurrentIsOwner
<1>4. r \in Ids /\ prompt[r] \in Seq(Tokens) /\ slot[r] \in Slots
    BY <1>3, OwnerFacts
<1>5. isPrefill \/ encoding # 0
    BY <1>1, <1>2 DEF ControlOK
<1>6. HasCapacity(slot[r], Len(prompt[r]))
    BY <1>1, <1>2, <1>3, <1>5 DEF RoomMade, Ready, Positions
<1>7. CountsInv'
    BY <1>1, <1>2, <1>4, <1>6, StorePrefixCounts
<1>8. UNCHANGED <<freeSlots, table, ctx>>
    BY <1>2 DEF StorePrefix, kvVars
<1>9. /\ "store" \in {"ensure", "store"} /\ "post" \in {"store", "post"}
      /\ "store" = (IF pc = "write" THEN "ensure" ELSE "store") /\ pc # "write"
    BY <1>2
<1> QED
    BY <1>2, <1>5, <1>7, <1>8, <1>9, QuietTurnHeld

-----------------------------------------------------------------------------
(* Scheduler.postprocess keeps it *)

\* A finished sequence leaves and its slot is freed.
LEMMA PostFreeHeld ==
  ASSUME HeldInv, PostFree
  PROVE  HeldInv'
<1>1. /\ TypeOK /\ CountsInv /\ ControlOK /\ QueuesApart /\ HeldSlots /\ SequencesOK
      /\ RoomMade /\ FreshBatch /\ CapKept
    BY DEF HeldInv
<1>2. PICK i \in 1..Len(running) : /\ running' = Without(running, running[i])
                                   /\ status' = [status EXCEPT ![running[i]] = "FINISHED"]
                                   /\ Free(slot[running[i]])
    BY DEF PostFree
<1> DEFINE r == running[i]
<1>3. /\ pc = "post"
      /\ UNCHANGED <<asked, prompt, output, slot, length, waiting, batch, isPrefill, preempted, pc,
                     cursor, encoding, answer>>
    BY DEF PostFree, callVars
<1>4. r \in Range(running)
    BY <1>1, SeqFacts DEF TypeOK
<1>5. /\ CountsInv' /\ r \in Ids /\ r \in Owners
      /\ running' \in Seq(Ids) /\ Range(running') = Range(running) \ {r}
      /\ IsInjective(running') /\ Len(running') = Len(running) - 1
      /\ \A q \in Owners : q # r =>
           slot[q] \in Slots /\ freeSlots'[slot[q]] = 0 /\ ctx'[slot[q]] = ctx[slot[q]]
    BY <1>2, <1>4, ReleaseFacts
<1> HIDE DEF r
<1>6. Owners = Range(running) /\ Owners' = Range(running') /\ ~ Admitted /\ ~ Admitted'
    BY <1>3 DEF Owners, Admitted
<1>7. status' \in [Ids -> {"new", "WAITING", "RUNNING", "FINISHED"}] /\ \A q \in Ids : status'[q] = "new" <=> status[q] = "new"
  <2>1. status[r] # "new"
      BY <1>1, <1>5 DEF QueuesApart
  <2> QED
      BY <1>1, <1>2, <1>5, <2>1 DEF TypeOK, r
<1>8. TypeOK'
    BY <1>1, <1>3, <1>5, <1>7 DEF TypeOK, CountsInv
<1>9. ControlOK' /\ RoomMade' /\ FreshBatch'
    BY <1>1, <1>3 DEF ControlOK, RoomMade, FreshBatch
<1>10. \A q \in Owners \cup Range(waiting) : q \in Ids
    BY <1>1, OwnerFacts, SeqFacts DEF TypeOK
<1>11. QueuesApart' /\ HeldSlots' /\ SequencesOK'
    BY <1>1, <1>3, <1>5, <1>6, <1>7, <1>10 DEF QueuesApart, HeldSlots, SequencesOK
<1>12. CapKept'
  <2>1. Len(running) \in Nat
      BY <1>1, SeqFacts DEF TypeOK
  <2> QED
      BY <1>1, <1>5, <1>6, <2>1, EngineAssumption DEF CapKept
<1> QED
    BY <1>5, <1>8, <1>9, <1>11, <1>12 DEF HeldInv

LEMMA PostDoneHeld ==
  ASSUME HeldInv, PostDone
  PROVE  HeldInv'
<1>1. /\ TypeOK /\ CountsInv /\ ControlOK /\ QueuesApart /\ HeldSlots /\ SequencesOK
      /\ RoomMade /\ FreshBatch /\ CapKept
    BY DEF HeldInv
<1>2. /\ pc = "post" /\ pc' = "idle" /\ batch' = <<>> /\ isPrefill' = FALSE /\ preempted' = 0 /\ encoding' = 0
      /\ answer' = IF encoding = 0 THEN answer ELSE [answer EXCEPT ![encoding] = batch[1]]
      /\ UNCHANGED <<kvVars, seqVars, waiting, running, cursor>>
    BY DEF PostDone
<1>3. CountsInv'
    BY <1>1, <1>2, StutterCounts
<1>4. ~ Admitted /\ ~ Admitted' /\ Owners' = Owners /\ cursor = 1
    BY <1>1, <1>2 DEF Owners, Admitted, ControlOK
<1>5. TypeOK'
  <2>1. MaxNumSeqs \in Nat
      BY EngineAssumption
  <2>2. batch[1] \in Ids
      BY <1>1, <1>2, EmptySeq, SeqFacts DEF TypeOK, ControlOK
  <2>3. answer' \in [Ids -> Ids \cup {0}]
      BY <1>1, <1>2, <2>2 DEF TypeOK
  <2>4. 0 \in 0..MaxNumSeqs /\ <<>> \in Seq(Ids)
      BY <2>1, EmptySeq
  <2>5. KVTypeOK' /\ UNCHANGED <<status, asked, prompt, output, slot, length, waiting, running, cursor>>
      BY <1>2, <1>3 DEF CountsInv, seqVars
  <2>6. /\ preempted' \in 0..MaxNumSeqs /\ batch' \in Seq(Ids) /\ encoding' \in Embeds \cup {0}
        /\ isPrefill' \in BOOLEAN
        /\ pc' \in {"idle", "schedule", "ensure", "write", "store", "post", "raised"}
    <3>1. preempted' = 0 /\ batch' = <<>> /\ encoding' = 0 /\ isPrefill' = FALSE /\ pc' = "idle"
        BY <1>2
    <3> QED
        BY <2>4, <3>1
  <2> QED
      BY <1>1, <2>3, <2>5, <2>6 DEF TypeOK
<1>6. ControlOK' /\ RoomMade' /\ FreshBatch'
    BY <1>2, <1>4 DEF ControlOK, RoomMade, FreshBatch
<1>7. QueuesApart' /\ HeldSlots' /\ SequencesOK' /\ CapKept'
    BY <1>1, <1>2, <1>4 DEF QueuesApart, HeldSlots, SequencesOK, CapKept, kvVars, seqVars
<1> QED
    BY <1>3, <1>5, <1>6, <1>7 DEF HeldInv

-----------------------------------------------------------------------------
(* What holds whatever the engine is asked for *)

LEMMA StepHeld == HeldInv /\ [Next]_vars => HeldInv'
<1> SUFFICES ASSUME HeldInv, [Next]_vars PROVE HeldInv'
    OBVIOUS
<1>1. CASE UNCHANGED vars
    BY <1>1, StutterHeld
<1>2. CASE Next
  <2>1. CASE \E r \in Ids : \E p \in Prompts : AddRequest(r, p) \/ BeginEncode(r, p)
      BY <2>1, EnqueueHeld
  <2>2. CASE \E r \in Ids : Cancel(r)
      BY <2>2, CancelHeld
  <2>3. CASE BeginStep
      BY <2>3, BeginStepHeld
  <2>4. CASE Admit
      BY <2>4, AdmitHeld
  <2>5. CASE PreemptOne
      BY <2>5, PreemptOneHeld
  <2>6. CASE ReturnPrefill \/ ReturnDecode
      BY <2>6, ReturnHeld
  <2>7. CASE EnsureOne
      BY <2>7, EnsureOneHeld
  <2>8. CASE RelayRaise
      BY <2>8, RelayRaiseHeld
  <2>9. CASE PrefillOne
      BY <2>9, PrefillOneHeld
  <2>10. CASE DecodeOne
      BY <2>10, DecodeOneHeld
  <2>11. CASE EncodeOne
      BY <2>11, EncodeOneHeld
  <2>12. CASE StoreOne
      BY <2>12, StoreOneHeld
  <2>13. CASE PostFree
      BY <2>13, PostFreeHeld
  <2>14. CASE PostDone
      BY <2>14, PostDoneHeld
  <2> QED
      BY <1>2, <2>1, <2>2, <2>3, <2>4, <2>5, <2>6, <2>7, <2>8, <2>9, <2>10, <2>11, <2>12, <2>13,
         <2>14 DEF Next, EngineStep
<1> QED
    BY <1>1, <1>2

\* Every call the engine makes on the cache, in any order of admissions,
\* preemptions, cancellations, errors and calls of encode(), is one the cache's
\* methods were made for.
THEOREM EngineHeld == Spec => []HeldInv
<1>1. Init => HeldInv
    BY InitHeld
<1>2. HeldInv /\ [Next]_vars => HeldInv'
    BY StepHeld
<1> QED
    BY <1>1, <1>2, PTL DEF Spec

\* schedule's admission loop never lets more than max_num_seqs sequences own a slot.
THEOREM EngineAdmissionCap == Spec => []AdmissionCap
<1>1. HeldInv => AdmissionCap
  <2> SUFFICES ASSUME HeldInv PROVE Cardinality(Owners) <= MaxNumSeqs
      BY DEF AdmissionCap
  <2>1. running \in Seq(Ids) /\ batch \in Seq(Ids) /\ CapKept
      BY DEF HeldInv, TypeOK
  <2> DEFINE admitted == IF Admitted THEN Range(batch) ELSE {}
             more == IF Admitted THEN Len(batch) ELSE 0
  <2>2. /\ IsFiniteSet(Range(running)) /\ Cardinality(Range(running)) \in Nat
        /\ Cardinality(Range(running)) <= Len(running) /\ Len(running) \in Nat
      BY <2>1, RangeCount, LenProperties
  <2>3. /\ IsFiniteSet(Range(batch)) /\ Cardinality(Range(batch)) \in Nat
        /\ Cardinality(Range(batch)) <= Len(batch) /\ Len(batch) \in Nat
      BY <2>1, RangeCount, LenProperties
  <2>4. IsFiniteSet(admitted) /\ Cardinality(admitted) \in Nat /\ Cardinality(admitted) <= more /\ more \in Nat
      BY <2>3, FS_EmptySet
  <2>5. Owners = Range(running) \cup admitted
      BY OwnersAre
  <2> HIDE DEF admitted
  <2>6. /\ IsFiniteSet(Range(running) \cap admitted)
        /\ Cardinality(Range(running) \cup admitted)
             = Cardinality(Range(running)) + Cardinality(admitted) - Cardinality(Range(running) \cap admitted)
      BY <2>2, <2>4, FS_Union, FS_Intersection
  <2>7. Cardinality(Range(running) \cap admitted) \in Nat
      BY <2>6, FS_CardinalityType
  <2>8. Len(running) + more <= MaxNumSeqs /\ MaxNumSeqs \in Nat
      BY <2>1, EngineAssumption DEF CapKept
  <2> HIDE DEF more
  <2> QED
      BY <2>2, <2>4, <2>5, <2>6, <2>7, <2>8
<1> QED
    BY <1>1, EngineHeld, PTL

\* The counts of the pool are exact, no block is leaked or freed twice (_free_blocks
\* and _block_refcount), and the cap holds, not least when the error of an encode()
\* abandons its batch.
THEOREM EnginePathsSafe == Spec => []PathsSafe
<1>1. HeldInv => CountsInv
    BY DEF HeldInv
<1> QED
    BY <1>1, EngineHeld, EngineAdmissionCap, PTL DEF PathsSafe

-----------------------------------------------------------------------------
(* An engine that only generates.  Then every slot has its one owner and   *)
(* holds what is its owner's, requests are first admitted in the order of  *)
(* arrival, a preemption always makes room for an admission, and the       *)
(* engine keeps EngineContract.  A call of encode() between the            *)
(* generations breaks the first of these (the batch it abandons on an      *)
(* error keeps its slots) and the last (it marks sequences finished that   *)
(* go on running), so they are stated under Embeds = {}.                   *)

\* The step at hand has prefilled the i-th sequence of the batch.
Prefilled(i) ==
  \/ pc = "store"
  \/ isPrefill /\ i < cursor /\ (pc = "write" \/ (pc \in {"ensure", "raised"} /\ OneByOne))

\* The step at hand has decoded r.
Decoded(r) ==
  \/ pc = "post"
  \/ pc = "write" /\ ~ isPrefill /\ \E i \in 1..(cursor - 1) : running[i] = r

\* What slot s holds is the start of the tokens.
HoldsStart(s, tokens) == Len(ctx[s]) <= Len(tokens) /\ ctx[s] = SubSeq(tokens, 1, Len(ctx[s]))

\* A slot in use has an owner, and nothing that waits names one.
SlotsKept ==
  /\ \A s \in Slots : freeSlots[s] = 0 => \E r \in Owners : slot[r] = s
  /\ \A r \in Range(waiting) : slot[r] = NoSlot

\* A running sequence's slot holds as much as its length says; an admitted
\* one's holds its prompt, or the start of it that the prefix cache had.
ContextsOwn ==
  /\ \A r \in Range(running) : length[r] = Len(ctx[slot[r]])
  /\ Admitted =>
       \A i \in DOMAIN batch :
         IF Prefilled(i)
           THEN ctx[slot[batch[i]]] = prompt[batch[i]] /\ length[batch[i]] = Len(prompt[batch[i]])
           ELSE HoldsStart(slot[batch[i]], prompt[batch[i]])

\* Sequence.status says where a sequence is.
StatusOK ==
  /\ \A r \in Ids : status[r] = "WAITING" <=> r \in Range(waiting)
  /\ \A r \in Owners : status[r] = "RUNNING"
  /\ \A r \in Ids : status[r] = "new" => output[r] = <<>> /\ slot[r] = NoSlot

\* A sequence runs once it has a token, and is given the next only while it
\* may have one more.
OutputsOK ==
  /\ \A r \in Ids : Len(output[r]) <= MaxTokens[r]
  /\ \A r \in Range(waiting) : Len(output[r]) < MaxTokens[r]
  /\ \A r \in Range(running) : output[r] # <<>> /\ (~ Decoded(r) => Len(output[r]) < MaxTokens[r])
  /\ Admitted =>
       \A i \in DOMAIN batch :
         IF Prefilled(i) THEN output[batch[i]] # <<>> ELSE Len(output[batch[i]]) < MaxTokens[batch[i]]

\* Requests come in the order of their ids, and the ones never admitted wait
\* in that order.
ArrivalOK ==
  /\ \A r \in Ids : status[r] # "new" => \A q \in Ids : q < r => status[q] # "new"
  /\ \A i, j \in DOMAIN waiting :
       i < j /\ output[waiting[i]] = <<>> /\ output[waiting[j]] = <<>> => waiting[i] < waiting[j]

\* What is true of the lists: who is where, and in what order they came.
QueuesServed == SlotsKept /\ StatusOK /\ ArrivalOK /\ FirstAdmissionFIFO

ServedInv == CacheInv /\ QueuesServed /\ ContextsOwn /\ OutputsOK

-----------------------------------------------------------------------------
(* What the lists and the slots say of each other *)

LEMMA NotEncoding ==
  ASSUME Embeds = {}, HeldInv
  PROVE  encoding = 0
BY DEF HeldInv, TypeOK

LEMMA SlotsAreOwned ==
  ASSUME HeldInv, SlotsKept
  PROVE  SlotsOwned
<1>1. HeldSlots /\ QueuesApart
    BY DEF HeldInv
<1> QED
    BY <1>1 DEF HeldSlots, QueuesApart, SlotsKept, SlotsOwned

\* A turn that moves nobody, and gives tokens to running sequences only.
LEMMA QueuesFrame ==
  ASSUME HeldInv, QueuesServed, UNCHANGED <<status, slot, waiting, freeSlots>>, Owners' = Owners,
         \A r \in Ids : output'[r] = output[r] \/ (status[r] = "RUNNING" /\ output'[r] # <<>>)
  PROVE  QueuesServed'
<1>1. SlotsKept /\ StatusOK /\ ArrivalOK /\ FirstAdmissionFIFO
    BY DEF QueuesServed
<1>2. waiting \in Seq(Ids)
    BY DEF HeldInv, TypeOK
<1>3. DOMAIN waiting = 1..Len(waiting) /\ \A i \in DOMAIN waiting : waiting[i] \in Ids /\ waiting[i] \in Range(waiting)
    BY <1>2, SeqFacts
<1>4. \A i \in DOMAIN waiting : output'[waiting[i]] = output[waiting[i]]
    BY <1>1, <1>3 DEF StatusOK
<1>5. SlotsKept'
    BY <1>1 DEF SlotsKept
<1>6. StatusOK'
    BY <1>1 DEF StatusOK
<1>7. ArrivalOK'
    BY <1>1, <1>4 DEF ArrivalOK
<1>8. FirstAdmissionFIFO'
  <2> SUFFICES ASSUME NEW r \in Ids, status[r] = "RUNNING" \/ output'[r] # <<>>, NEW q \in 1..(r - 1),
                      status[q] = "WAITING", output'[q] = <<>>
               PROVE  FALSE
      BY DEF FirstAdmissionFIFO
  <2>1. q \in Ids
      BY EngineAssumption DEF Ids
  <2>2. output[q] = <<>>
      BY <2>1
  <2> QED
      BY <1>1, <2>2 DEF FirstAdmissionFIFO
<1> QED
    BY <1>5, <1>6, <1>7, <1>8 DEF QueuesServed

\* A sequence leaves its list for good.
LEMMA QueuesLeave ==
  ASSUME HeldInv, QueuesServed, NEW r \in Ids, status[r] # "new",
         status' = [status EXCEPT ![r] = "FINISHED"], UNCHANGED output,
         Range(waiting') = Range(waiting) \ {r}, KeepsOrder(waiting', waiting),
         Owners' = Owners \ {r}, \A q \in Ids : q # r => slot'[q] = slot[q],
         \A s \in Slots : freeSlots'[s] = 0 => freeSlots[s] = 0 /\ (r \in Owners => s # slot[r])
  PROVE  QueuesServed'
<1>1. SlotsKept /\ StatusOK /\ ArrivalOK /\ FirstAdmissionFIFO
    BY DEF QueuesServed
<1>2. status \in [Ids -> {"new", "WAITING", "RUNNING", "FINISHED"}]
    BY DEF HeldInv, TypeOK
<1>3. status'[r] = "FINISHED" /\ \A q \in Ids : q # r => status'[q] = status[q]
    BY <1>2
<1>4. \A q \in Range(waiting) \cup Owners : q \in Ids
    BY OwnerFacts, SeqFacts DEF HeldInv, TypeOK
<1>5. SlotsKept'
  <2>1. ASSUME NEW s \in Slots, freeSlots'[s] = 0 PROVE \E q \in Owners' : slot'[q] = s
    <3>1. PICK q \in Owners : slot[q] = s
        BY <1>1, <2>1 DEF SlotsKept
    <3>2. q # r
        BY <2>1, <3>1
    <3> QED
        BY <1>4, <3>1, <3>2
  <2>2. \A q \in Range(waiting') : slot'[q] = NoSlot
      BY <1>1, <1>4 DEF SlotsKept
  <2> QED
      BY <2>1, <2>2 DEF SlotsKept
<1>6. StatusOK'
  <2>1. \A q \in Ids : status'[q] = "WAITING" <=> q \in Range(waiting')
      BY <1>1, <1>3 DEF StatusOK
  <2>2. \A q \in Owners' : status'[q] = "RUNNING"
      BY <1>1, <1>3, <1>4 DEF StatusOK
  <2>3. \A q \in Ids : status'[q] = "new" => output'[q] = <<>> /\ slot'[q] = NoSlot
      BY <1>1, <1>3 DEF StatusOK
  <2> QED
      BY <2>1, <2>2, <2>3 DEF StatusOK
<1>7. ArrivalOK'
  <2>1. \A q \in Ids : status'[q] # "new" <=> status[q] # "new"
      BY <1>3
  <2>2. \A p \in Ids : status'[p] # "new" => \A q \in Ids : q < p => status'[q] # "new"
      BY <1>1, <2>1 DEF ArrivalOK
  <2>3. \A i, j \in DOMAIN waiting' :
          i < j /\ output[waiting'[i]] = <<>> /\ output[waiting'[j]] = <<>> => waiting'[i] < waiting'[j]
    <3> SUFFICES ASSUME NEW i \in DOMAIN waiting', NEW j \in DOMAIN waiting',
                        i < j, output[waiting'[i]] = <<>>, output[waiting'[j]] = <<>>
                 PROVE  waiting'[i] < waiting'[j]
        OBVIOUS
    <3>1. PICK k, l \in DOMAIN waiting : k < l /\ waiting'[i] = waiting[k] /\ waiting'[j] = waiting[l]
        BY DEF KeepsOrder
    <3> QED
        BY <1>1, <3>1 DEF ArrivalOK
  <2> QED
      BY <2>2, <2>3 DEF ArrivalOK
<1>8. FirstAdmissionFIFO'
  <2> SUFFICES ASSUME NEW p \in Ids, status'[p] = "RUNNING" \/ output[p] # <<>>, NEW q \in 1..(p - 1),
                      status'[q] = "WAITING", output[q] = <<>>
               PROVE  FALSE
      BY DEF FirstAdmissionFIFO
  <2>1. q \in Ids
      BY EngineAssumption DEF Ids
  <2>2. status[q] = "WAITING" /\ (status[p] = "RUNNING" \/ output[p] # <<>>)
      BY <1>3, <2>1
  <2> QED
      BY <1>1, <2>2 DEF FirstAdmissionFIFO
<1> QED
    BY <1>5, <1>6, <1>7, <1>8 DEF QueuesServed

\* A prefix hit holds the start of the prompt it was looked up for.
LEMMA MatchedIsStart ==
  ASSUME NEW tokens \in Seq(Tokens)
  PROVE  LET m == MatchedPrefix(tokens)
         IN  Len(m) <= Len(tokens) /\ m = SubSeq(tokens, 1, Len(m))
<1> DEFINE m == MatchedPrefix(tokens)
           hits == Boundaries(tokens) \cap DOMAIN entries
<1>1. Len(tokens) \in Nat
    BY LenProperties
<1>2. CASE hits = {}
  <2>1. m = <<>> /\ Len(<<>>) = 0
      BY <1>2 DEF MatchedPrefix
  <2>2. SubSeq(tokens, 1, 0) = <<>>
    <3>1. SubSeq(tokens, 1, 0) \in Seq(Tokens) /\ Len(SubSeq(tokens, 1, 0)) = 0
        BY <1>1, StartOfContext
    <3> QED
        BY <3>1, EmptySeq
  <2> QED
      BY <1>1, <2>1, <2>2
<1>3. CASE hits # {}
  <2>1. m \in Boundaries(tokens)
      BY <1>3, LongestExists DEF MatchedPrefix
  <2>2. Len(m) \in Nat /\ Len(m) <= Len(tokens)
      BY <2>1, BoundaryFacts
  <2>3. PICK i \in 1..(Len(tokens) \div BlockSize) : m = SubSeq(tokens, 1, i * BlockSize)
      BY <2>1 DEF Boundaries
  <2> HIDE DEF m
  <2>4. i * BlockSize \in Nat /\ i * BlockSize <= Len(tokens)
    <3>1. Len(tokens) \div BlockSize \in Nat /\ (Len(tokens) \div BlockSize) * BlockSize <= Len(tokens)
        BY <1>1, FloorMultiple
    <3>2. i \in 0..(Len(tokens) \div BlockSize)
        BY <3>1
    <3> QED
        BY <1>1, <3>1, <3>2, FewerBlocks
  <2>5. Len(SubSeq(tokens, 1, i * BlockSize)) = i * BlockSize
      BY <2>4, StartOfContext
  <2>6. Len(m) = i * BlockSize
      BY <2>3, <2>5
  <2>7. Len(m) <= Len(tokens) /\ m = SubSeq(tokens, 1, Len(m))
      BY <2>2, <2>3, <2>6
  <2> QED
      BY <2>7 DEF m
<1> QED
    BY <1>2, <1>3

-----------------------------------------------------------------------------
(* ServedInv holds at first and is kept between the calls *)

LEMMA InitServed == Init => ServedInv
<1> SUFFICES ASSUME Init PROVE ServedInv
    OBVIOUS
<1>1. CacheInv
    BY InitInv DEF Init
<1>2. Range(<<>>) = {} /\ DOMAIN <<>> = {} /\ Len(<<>>) = 0
    BY EmptySeq DEF Range
<1>3. Owners = {}
    BY <1>2 DEF Init, Owners
<1>4. SlotsKept
    BY <1>2, <1>3 DEF Init, KVInit, SlotsKept
<1>5. StatusOK /\ ArrivalOK /\ FirstAdmissionFIFO
    BY <1>2, <1>3 DEF Init, StatusOK, ArrivalOK, FirstAdmissionFIFO
<1>6. ContextsOwn
    BY <1>2 DEF Init, ContextsOwn
<1>7. OutputsOK
  <2>1. \A r \in Ids : MaxTokens[r] \in Nat \ {0}
      BY EngineAssumption
  <2>2. \A r \in Ids : Len(output[r]) <= MaxTokens[r]
      BY <1>2, <2>1 DEF Init
  <2> QED
      BY <1>2, <2>2 DEF Init, OutputsOK
<1> QED
    BY <1>1, <1>4, <1>5, <1>6, <1>7 DEF ServedInv, QueuesServed

LEMMA StutterServed ==
  ASSUME ServedInv, UNCHANGED vars
  PROVE  ServedInv'
<1>1. CacheInv'
    BY StutterInv DEF ServedInv, vars
<1>2. UNCHANGED <<kvVars, seqVars, waiting, running, callVars>>
    BY DEF vars
<1>3. Owners' = Owners /\ Admitted' = Admitted
    BY <1>2 DEF Owners, Admitted, callVars
<1>4. \A i : Prefilled(i)' = Prefilled(i)
    BY <1>2 DEF Prefilled, OneByOne, callVars
<1>5. \A r : Decoded(r)' = Decoded(r)
    BY <1>2 DEF Decoded, callVars
<1>6. QueuesServed'
    BY <1>2, <1>3 DEF ServedInv, QueuesServed, SlotsKept, StatusOK, ArrivalOK, FirstAdmissionFIFO,
                      seqVars, kvVars
<1>7. ContextsOwn' /\ OutputsOK'
    BY <1>2, <1>3, <1>4, <1>5 DEF ServedInv, ContextsOwn, OutputsOK, HoldsStart, seqVars, kvVars,
                                  callVars
<1> QED
    BY <1>1, <1>6, <1>7 DEF ServedInv

\* A new request is the last that came.
LEMMA EnqueueServed ==
  ASSUME HeldInv, ServedInv, NEW r \in Ids, NEW p \in Prompts, AddRequest(r, p)
  PROVE  ServedInv'
<1>1. /\ CacheInv /\ SlotsKept /\ StatusOK /\ ArrivalOK /\ FirstAdmissionFIFO /\ ContextsOwn /\ OutputsOK
      /\ TypeOK /\ ControlOK /\ QueuesApart
    BY DEF ServedInv, HeldInv, QueuesServed
<1>2. /\ pc = "idle" /\ status[r] = "new" /\ \A q \in Ids : q < r => status[q] # "new"
      /\ status' = [status EXCEPT ![r] = "WAITING"]
      /\ prompt' = [prompt EXCEPT ![r] = p]
      /\ waiting' = Append(waiting, r)
      /\ UNCHANGED <<kvVars, output, slot, length, running, batch, isPrefill, preempted, pc, cursor,
                     encoding, answer>>
    BY DEF AddRequest, Enqueue, Joined, callVars
<1>3. CacheInv'
    BY <1>1, <1>2, StutterInv
<1>4. batch = <<>> /\ ~ isPrefill /\ Range(<<>>) = {} /\ ~ Admitted /\ ~ Admitted'
    BY <1>1, <1>2 DEF ControlOK, Range, Admitted
<1>5. Owners = Range(running) /\ Owners' = Owners
    BY <1>2, <1>4 DEF Owners
<1>6. waiting \in Seq(Ids)
    BY <1>1 DEF TypeOK
<1>7. /\ Range(waiting') = Range(waiting) \cup {r}
      /\ DOMAIN waiting' = 1..(Len(waiting) + 1) /\ Len(waiting) \in Nat
      /\ \A i \in 1..Len(waiting) : waiting'[i] = waiting[i]
      /\ waiting'[Len(waiting) + 1] = r
    BY <1>2, <1>6, AppendFacts, LenProperties
<1>8. status'[r] = "WAITING" /\ \A q \in Ids : q # r => status'[q] = status[q]
    BY <1>1, <1>2 DEF TypeOK
<1>9. r \notin Owners /\ Owners \subseteq Ids
    BY <1>1, <1>2, OwnerFacts DEF QueuesApart
<1>10. output[r] = <<>> /\ slot[r] = NoSlot
    BY <1>1, <1>2 DEF StatusOK
<1>11. SlotsKept'
    BY <1>1, <1>2, <1>5, <1>7, <1>10 DEF SlotsKept, kvVars
<1>12. StatusOK'
    BY <1>1, <1>2, <1>5, <1>7, <1>8, <1>9 DEF StatusOK
<1>13. \A q \in Ids : status[q] # "new" => q < r
  <2> SUFFICES ASSUME NEW q \in Ids, status[q] # "new", ~ (q < r) PROVE FALSE
      OBVIOUS
  <2>1. r < q
      BY <1>2 DEF Ids
  <2> QED
      BY <1>1, <1>2, <2>1 DEF ArrivalOK
<1>14. ArrivalOK'
  <2>1. \A t \in Ids : status'[t] # "new" => \A q \in Ids : q < t => status'[q] # "new"
      BY <1>1, <1>2, <1>8 DEF ArrivalOK
  <2>2. ASSUME NEW i \in DOMAIN waiting', NEW j \in DOMAIN waiting', i < j,
               output[waiting'[i]] = <<>>, output[waiting'[j]] = <<>>
        PROVE  waiting'[i] < waiting'[j]
    <3>1. i \in 1..Len(waiting) /\ DOMAIN waiting = 1..Len(waiting)
        BY <1>6, <1>7, <2>2, LenProperties
    <3>2. CASE j \in 1..Len(waiting)
        BY <1>1, <1>7, <2>2, <3>1, <3>2 DEF ArrivalOK
    <3>3. CASE j = Len(waiting) + 1
      <4>1. waiting[i] \in Ids /\ waiting[i] \in Range(waiting)
          BY <1>6, <3>1, SeqFacts
      <4>2. status[waiting[i]] # "new"
          BY <1>1, <4>1 DEF StatusOK
      <4> QED
          BY <1>7, <1>13, <3>1, <3>3, <4>1, <4>2
    <3> QED
        BY <1>7, <3>2, <3>3
  <2> QED
      BY <1>2, <2>1, <2>2 DEF ArrivalOK
<1>15. FirstAdmissionFIFO'
  <2> SUFFICES ASSUME NEW t \in Ids, status'[t] = "RUNNING" \/ output[t] # <<>>, NEW q \in 1..(t - 1),
                      status'[q] = "WAITING", output[q] = <<>>
               PROVE  FALSE
      BY <1>2 DEF FirstAdmissionFIFO
  <2>1. q \in Ids /\ q < t
      BY EngineAssumption DEF Ids
  <2>2. t # r /\ (status[t] = "RUNNING" \/ output[t] # <<>>)
      BY <1>8, <1>10
  <2>3. status[t] # "new"
      BY <1>1, <2>2 DEF StatusOK
  <2>4. CASE q = r
      BY <1>13, <2>1, <2>3, <2>4 DEF Ids
  <2>5. CASE q # r
      BY <1>1, <1>8, <2>1, <2>2, <2>5 DEF FirstAdmissionFIFO
  <2> QED
      BY <2>4, <2>5
<1>16. ContextsOwn'
    BY <1>1, <1>2, <1>4 DEF ContextsOwn, kvVars
<1>17. OutputsOK'
  <2>1. \A q : Decoded(q)' = Decoded(q)
      BY <1>2 DEF Decoded
  <2>2. Len(output[r]) < MaxTokens[r]
      BY <1>10, EngineAssumption
  <2> QED
      BY <1>1, <1>2, <1>4, <1>7, <2>1, <2>2 DEF OutputsOK
<1> QED
    BY <1>3, <1>11, <1>12, <1>14, <1>15, <1>16, <1>17 DEF ServedInv, QueuesServed

\* A running sequence's slot is freed: nothing else changes hands.
LEMMA ReleaseServed ==
  ASSUME HeldInv, ServedInv, NEW v \in Range(running), Free(slot[v]), running' = Without(running, v)
  PROVE  /\ CacheInv'
         /\ \A s \in Slots : freeSlots'[s] = 0 => freeSlots[s] = 0 /\ s # slot[v]
         /\ Range(running') = Range(running) \ {v}
         /\ v \in Ids /\ v \in Owners /\ slot[v] \in Slots /\ status[v] # "new" /\ v \notin Range(waiting)
         /\ \A q \in Range(running') : /\ q \in Ids /\ q # v /\ q \in Range(running)
                                       /\ ctx'[slot[q]] = ctx[slot[q]]
<1>1. TypeOK /\ QueuesApart /\ CacheInv
    BY DEF HeldInv, ServedInv
<1>2. /\ v \in Ids /\ v \in Owners /\ Range(running') = Range(running) \ {v}
      /\ \A q \in Owners : q # v => ctx'[slot[q]] = ctx[slot[q]]
    BY ReleaseFacts
<1>3. slot[v] \in Slots /\ freeSlots[slot[v]] = 0 /\ status[v] # "new" /\ v \notin Range(waiting)
    BY <1>1, <1>2, OwnerFacts DEF QueuesApart
<1>4. CacheInv'
    BY <1>1, <1>3, FreeInv
<1>5. \A s \in Slots : freeSlots'[s] = 0 => freeSlots[s] = 0 /\ s # slot[v]
  <2>1. freeSlots' = [freeSlots EXCEPT ![slot[v]] = @ + 1] /\ freeSlots \in [Slots -> 0..1]
      BY <1>1 DEF Free, TypeOK, KVTypeOK
  <2> QED
      BY <1>3, <2>1
<1>6. \A q \in Range(running') : q \in Range(running) /\ q # v /\ q \in Owners
    BY <1>2, OwnersAre
<1>7. \A q \in Range(running') : q \in Ids
    BY <1>6, OwnerFacts
<1> QED
    BY <1>2, <1>3, <1>4, <1>5, <1>6, <1>7

LEMMA SameOrder == \A s : KeepsOrder(s, s)
BY DEF KeepsOrder

LEMMA CancelServed ==
  ASSUME HeldInv, ServedInv, NEW r \in Ids, Cancel(r)
  PROVE  ServedInv'
<1>1. /\ CacheInv /\ QueuesServed /\ ContextsOwn /\ OutputsOK /\ StatusOK
      /\ TypeOK /\ ControlOK /\ QueuesApart
    BY DEF ServedInv, HeldInv, QueuesServed
<1>2. /\ pc = "idle" /\ pc' = "idle" /\ status' = [status EXCEPT ![r] = "FINISHED"]
      /\ UNCHANGED <<asked, prompt, output, length, batch, isPrefill, cursor, encoding>>
    BY DEF Cancel, callVars
<1>3. batch = <<>> /\ ~ isPrefill /\ Range(<<>>) = {} /\ ~ Admitted /\ ~ Admitted'
    BY <1>1, <1>2 DEF ControlOK, Range, Admitted
<1>4. Owners = Range(running) /\ Owners' = Range(running')
    BY <1>2, <1>3 DEF Owners
<1>5. \A q : ~ Decoded(q) /\ ~ Decoded(q)'
    BY <1>2 DEF Decoded
<1>6. CASE r \in Range(waiting) /\ waiting' = Without(waiting, r) /\ UNCHANGED <<kvVars, slot, running>>
  <2>1. CacheInv'
      BY <1>1, <1>6, StutterInv
  <2>2. Range(waiting') = Range(waiting) \ {r} /\ KeepsOrder(waiting', waiting)
      BY <1>1, <1>6, RemoveFacts DEF Without, TypeOK, QueuesApart
  <2>3. r \notin Owners /\ status[r] # "new" /\ Owners' = Owners \ {r}
      BY <1>1, <1>4, <1>6 DEF QueuesApart
  <2>4. QueuesServed'
      BY <1>1, <1>2, <1>6, <2>2, <2>3, QueuesLeave DEF kvVars
  <2>5. ContextsOwn'
      BY <1>1, <1>2, <1>3, <1>6 DEF ContextsOwn, kvVars
  <2>6. OutputsOK'
      BY <1>1, <1>2, <1>3, <1>5, <1>6, <2>2 DEF OutputsOK
  <2> QED
      BY <2>1, <2>4, <2>5, <2>6 DEF ServedInv
<1>7. CASE /\ r \in Range(running) /\ running' = Without(running, r) /\ Free(slot[r])
           /\ slot' = [slot EXCEPT ![r] = NoSlot] /\ UNCHANGED waiting
  <2>1. /\ CacheInv'
        /\ \A s \in Slots : freeSlots'[s] = 0 => freeSlots[s] = 0 /\ s # slot[r]
        /\ Range(running') = Range(running) \ {r}
        /\ status[r] # "new" /\ r \notin Range(waiting)
        /\ \A q \in Range(running') : q \in Ids /\ q # r /\ q \in Range(running) /\ ctx'[slot[q]] = ctx[slot[q]]
      BY <1>7, ReleaseServed
  <2>2. \A q \in Ids : q # r => slot'[q] = slot[q]
      BY <1>1, <1>7 DEF TypeOK
  <2>3. Range(waiting') = Range(waiting) \ {r} /\ KeepsOrder(waiting', waiting)
      BY <1>7, <2>1, SameOrder
  <2>4. Owners' = Owners \ {r}
      BY <1>4, <2>1
  <2>5. QueuesServed'
      BY <1>1, <1>2, <2>1, <2>2, <2>3, <2>4, QueuesLeave
  <2>6. ContextsOwn'
      BY <1>1, <1>2, <1>3, <2>1, <2>2 DEF ContextsOwn
  <2>7. OutputsOK'
      BY <1>1, <1>2, <1>3, <1>5, <1>7, <2>1 DEF OutputsOK
  <2> QED
      BY <2>1, <2>5, <2>6, <2>7 DEF ServedInv
<1> QED
    BY <1>6, <1>7 DEF Cancel

\* The calls that touch no sequence and no slot.
LEMMA MovesServed ==
  ASSUME HeldInv, ServedInv, BeginStep \/ ReturnPrefill \/ ReturnDecode
  PROVE  ServedInv'
<1>1. /\ CacheInv /\ QueuesServed /\ ContextsOwn /\ OutputsOK /\ TypeOK /\ ControlOK
    BY DEF ServedInv, HeldInv
<1>2. /\ UNCHANGED <<kvVars, seqVars, waiting, running, cursor>>
      /\ \/ pc = "idle" /\ pc' = "schedule" /\ UNCHANGED <<batch, isPrefill>>
         \/ pc = "schedule" /\ pc' = "ensure" /\ isPrefill' = TRUE /\ UNCHANGED batch
         \/ pc = "schedule" /\ pc' \in {"idle", "ensure"} /\ UNCHANGED isPrefill /\ batch = <<>>
    BY DEF BeginStep, ReturnPrefill, ReturnDecode
<1>3. ~ isPrefill /\ cursor = 1 /\ Range(<<>>) = {} /\ DOMAIN <<>> = {} /\ (pc = "idle" => batch = <<>>)
    BY <1>1, <1>2, EmptySeq DEF ControlOK, Range
<1>4. CacheInv'
    BY <1>1, <1>2, StutterInv
<1>5. Owners' = Owners
    BY <1>2, <1>3 DEF Owners
<1>6. QueuesServed'
    BY <1>1, <1>2, <1>5, QueuesFrame DEF kvVars, seqVars
<1>7. \A q : ~ Decoded(q) /\ ~ Decoded(q)'
    BY <1>2, <1>3 DEF Decoded
<1>8. batch \in Seq(Ids) /\ DOMAIN batch = 1..Len(batch)
    BY <1>1, LenProperties DEF TypeOK
<1>9. \A i \in DOMAIN batch : ~ Prefilled(i) /\ ~ Prefilled(i)'
    BY <1>2, <1>3, <1>8 DEF Prefilled
<1>10. Admitted' => (Admitted \/ batch = <<>>) /\ UNCHANGED batch
    BY <1>2, <1>3 DEF Admitted
<1>11. ContextsOwn'
    BY <1>1, <1>2, <1>3, <1>9, <1>10 DEF ContextsOwn, HoldsStart, kvVars, seqVars
<1>12. OutputsOK'
    BY <1>1, <1>2, <1>3, <1>7, <1>9, <1>10 DEF OutputsOK, seqVars
<1> QED
    BY <1>4, <1>6, <1>11, <1>12 DEF ServedInv

\* The head of the waiting list is admitted: the first to come of the ones
\* never admitted, or one that was admitted before.
LEMMA AdmitServed ==
  ASSUME HeldInv, ServedInv, Admit
  PROVE  ServedInv'
<1>1. /\ CacheInv /\ SlotsKept /\ StatusOK /\ ArrivalOK /\ FirstAdmissionFIFO /\ ContextsOwn /\ OutputsOK
      /\ TypeOK /\ ControlOK /\ QueuesApart
    BY DEF ServedInv, HeldInv, QueuesServed
<1> DEFINE r == Head(waiting)
<1>2. PICK s \in Slots : /\ AllocAndShare(s, prompt[r])
                         /\ slot' = [slot EXCEPT ![r] = s]
                         /\ status' = [status EXCEPT ![r] = "RUNNING"]
                         /\ batch' = Append(batch, r)
    BY DEF Admit
<1>3. /\ pc = "schedule" /\ pc' = "schedule" /\ waiting # <<>> /\ waiting' = Tail(waiting)
      /\ UNCHANGED <<asked, prompt, output, length, running, isPrefill, cursor, encoding>>
    BY DEF Admit, CanAdmit
<1>4. ~ isPrefill /\ cursor = 1 /\ Admitted /\ Admitted'
    BY <1>1, <1>3 DEF ControlOK, Admitted
<1>5. waiting \in Seq(Ids) /\ batch \in Seq(Ids) /\ running \in Seq(Ids) /\ prompt \in [Ids -> Seq(Tokens)]
    BY <1>1 DEF TypeOK
<1>6. /\ r \in Ids /\ r \in Range(waiting) /\ r = waiting[1]
      /\ Range(waiting') = Range(waiting) \ {r} /\ KeepsOrder(waiting', waiting)
      /\ DOMAIN waiting = 1..Len(waiting) /\ Len(waiting) \in Nat /\ Len(waiting) > 0
    BY <1>1, <1>3, <1>5, TailFacts, LenProperties DEF QueuesApart
<1> HIDE DEF r
<1>7. r \notin Owners /\ Owners \subseteq Ids
    BY <1>1, <1>6, OwnerFacts DEF QueuesApart
<1>8. /\ batch' \in Seq(Ids) /\ Range(batch') = Range(batch) \cup {r} /\ Len(batch) \in Nat
      /\ DOMAIN batch = 1..Len(batch) /\ DOMAIN batch' = 1..(Len(batch) + 1)
      /\ \A i \in 1..Len(batch) : batch'[i] = batch[i] /\ batch[i] \in Range(batch)
      /\ batch'[Len(batch) + 1] = r
    BY <1>2, <1>5, <1>6, AppendFacts, SeqFacts
<1>9. Owners = Range(running) \cup Range(batch)
    BY <1>4, OwnersAre
<1>10. Owners' = Owners \cup {r}
    BY <1>3, <1>8, <1>9 DEF Owners
<1>11. /\ CacheInv' /\ ctx'[s] = MatchedPrefix(prompt[r])
       /\ \A q \in Owners : slot[q] # s /\ ctx'[slot[q]] = ctx[slot[q]]
    BY <1>1, <1>2, <1>5, <1>6, AdmitFacts, AllocAndShareInv
<1>12. slot'[r] = s /\ \A q \in Ids : q # r => slot'[q] = slot[q]
    BY <1>1, <1>2, <1>6 DEF TypeOK
<1>13. status'[r] = "RUNNING" /\ \A q \in Ids : q # r => status'[q] = status[q]
    BY <1>1, <1>2, <1>6 DEF TypeOK
<1>14. SlotsKept'
  <2>1. freeSlots' = [freeSlots EXCEPT ![s] = @ - 1]
      BY <1>2 DEF AllocAndShare
  <2>2. \A t \in Slots : t # s => freeSlots'[t] = freeSlots[t]
      BY <1>1, <2>1 DEF TypeOK, KVTypeOK
  <2>3. ASSUME NEW t \in Slots, freeSlots'[t] = 0 PROVE \E q \in Owners' : slot'[q] = t
    <3>1. CASE t = s
        BY <1>10, <1>12, <3>1
    <3>2. CASE t # s
      <4>1. PICK q \in Owners : slot[q] = t
          BY <1>1, <2>2, <2>3, <3>2 DEF SlotsKept
      <4> QED
          BY <1>7, <1>10, <1>12, <4>1
    <3> QED
        BY <3>1, <3>2
  <2>4. \A q \in Range(waiting') : q \in Ids /\ q # r /\ q \in Range(waiting)
      BY <1>5, <1>6, SeqFacts
  <2> QED
      BY <1>1, <1>12, <2>3, <2>4 DEF SlotsKept
<1>15. StatusOK'
  <2>1. \A q \in Ids : status'[q] = "WAITING" <=> q \in Range(waiting')
      BY <1>1, <1>6, <1>13 DEF StatusOK
  <2>2. \A q \in Owners' : status'[q] = "RUNNING"
      BY <1>1, <1>7, <1>10, <1>13 DEF StatusOK
  <2>3. \A q \in Ids : status'[q] = "new" => output'[q] = <<>> /\ slot'[q] = NoSlot
      BY <1>1, <1>3, <1>12, <1>13 DEF StatusOK
  <2> QED
      BY <2>1, <2>2, <2>3 DEF StatusOK
<1>16. status[r] = "WAITING"
    BY <1>1, <1>6 DEF StatusOK
<1>17. ArrivalOK'
  <2>1. \A q \in Ids : status'[q] # "new" <=> status[q] # "new"
      BY <1>13, <1>16
  <2>2. \A p \in Ids : status'[p] # "new" => \A q \in Ids : q < p => status'[q] # "new"
      BY <1>1, <2>1 DEF ArrivalOK
  <2>3. ASSUME NEW i \in DOMAIN waiting', NEW j \in DOMAIN waiting',
               i < j, output[waiting'[i]] = <<>>, output[waiting'[j]] = <<>>
        PROVE  waiting'[i] < waiting'[j]
    <3>1. PICK k, l \in DOMAIN waiting : k < l /\ waiting'[i] = waiting[k] /\ waiting'[j] = waiting[l]
        BY <1>6, <2>3 DEF KeepsOrder
    <3> QED
        BY <1>1, <2>3, <3>1 DEF ArrivalOK
  <2> QED
      BY <1>3, <2>2, <2>3 DEF ArrivalOK
<1>18. FirstAdmissionFIFO'
  <2> SUFFICES ASSUME NEW p \in Ids, status'[p] = "RUNNING" \/ output[p] # <<>>, NEW q \in 1..(p - 1),
                      status'[q] = "WAITING", output[q] = <<>>
               PROVE  FALSE
      BY <1>3 DEF FirstAdmissionFIFO
  <2>1. q \in Ids /\ q < p /\ q # r /\ status[q] = "WAITING"
      BY <1>13, EngineAssumption DEF Ids
  <2>2. CASE p # r \/ output[p] # <<>>
    <3>1. status[p] = "RUNNING" \/ output[p] # <<>>
        BY <1>13, <2>2
    <3> QED
        BY <1>1, <2>1, <3>1 DEF FirstAdmissionFIFO
  <2>3. CASE p = r /\ output[r] = <<>>
    <3>1. q \in Range(waiting)
        BY <1>1, <2>1 DEF StatusOK
    <3>2. PICK j \in 1..Len(waiting) : waiting[j] = q
        BY <1>5, <3>1, SeqFacts
    <3>3. j # 1 /\ 1 < j /\ 1 \in DOMAIN waiting /\ j \in DOMAIN waiting
        BY <1>6, <2>1, <3>2
    <3>4. r < q
        BY <1>1, <1>6, <2>3, <3>2, <3>3 DEF ArrivalOK
    <3> QED
        BY <1>6, <2>1, <2>3, <3>4 DEF Ids
  <2> QED
      BY <2>2, <2>3
<1>19. \A i : ~ Prefilled(i) /\ ~ Prefilled(i)'
    BY <1>3, <1>4 DEF Prefilled
<1>20. \A q : ~ Decoded(q) /\ ~ Decoded(q)'
    BY <1>3 DEF Decoded
<1>21. \A q \in Range(running) \cup Range(batch) : q \in Ids /\ q # r /\ slot'[q] = slot[q] /\ ctx'[slot[q]] = ctx[slot[q]]
    BY <1>7, <1>9, <1>11, <1>12
<1>22. ContextsOwn'
  <2>1. \A q \in Range(running') : length'[q] = Len(ctx'[slot'[q]])
      BY <1>1, <1>3, <1>21 DEF ContextsOwn
  <2>2. ASSUME NEW i \in DOMAIN batch' PROVE HoldsStart(slot[batch[i]], prompt[batch[i]])'
    <3>1. CASE i \in DOMAIN batch
      <4>1. batch'[i] = batch[i] /\ batch[i] \in Range(batch)
          BY <1>8, <3>1
      <4>2. HoldsStart(slot[batch[i]], prompt[batch[i]])
          BY <1>1, <1>4, <1>19, <3>1 DEF ContextsOwn
      <4> QED
          BY <1>3, <1>21, <4>1, <4>2 DEF HoldsStart
    <3>2. CASE i = Len(batch) + 1
      <4>1. batch'[i] = r /\ slot'[r] = s /\ prompt'[r] = prompt[r] /\ prompt[r] \in Seq(Tokens)
          BY <1>3, <1>5, <1>6, <1>8, <1>12, <3>2
      <4> QED
          BY <1>11, <4>1, MatchedIsStart DEF HoldsStart
    <3> QED
        BY <1>8, <3>1, <3>2
  <2> QED
      BY <1>19, <2>1, <2>2 DEF ContextsOwn
<1>23. OutputsOK'
  <2>1. \A q \in Range(waiting') : Len(output[q]) < MaxTokens[q]
      BY <1>1, <1>6 DEF OutputsOK
  <2>2. \A i \in DOMAIN batch' : Len(output[batch'[i]]) < MaxTokens[batch'[i]]
      BY <1>1, <1>4, <1>6, <1>8, <1>19 DEF OutputsOK
  <2> QED
      BY <1>1, <1>3, <1>19, <1>20, <2>1, <2>2 DEF OutputsOK
<1> QED
    BY <1>11, <1>14, <1>15, <1>17, <1>18, <1>22, <1>23 DEF ServedInv, QueuesServed

\* A preempted sequence joins the waiting list again, with the tokens it has.
LEMMA QueuesRejoin ==
  ASSUME HeldInv, QueuesServed, NEW v \in Owners, v \notin Range(waiting), output[v] # <<>>,
         status' = [status EXCEPT ![v] = "WAITING"], UNCHANGED output,
         slot' = [slot EXCEPT ![v] = NoSlot], waiting' = Append(waiting, v),
         Owners' = Owners \ {v},
         \A s \in Slots : freeSlots'[s] = 0 => freeSlots[s] = 0 /\ s # slot[v]
  PROVE  QueuesServed'
<1>1. SlotsKept /\ StatusOK /\ ArrivalOK /\ FirstAdmissionFIFO /\ TypeOK
    BY DEF QueuesServed, HeldInv
<1>2. v \in Ids /\ Owners \subseteq Ids /\ waiting \in Seq(Ids) /\ Range(waiting) \subseteq Ids
    BY <1>1, OwnerFacts, SeqFacts DEF TypeOK
<1>3. status'[v] = "WAITING" /\ \A q \in Ids : q # v => status'[q] = status[q]
    BY <1>1, <1>2 DEF TypeOK
<1>4. slot'[v] = NoSlot /\ \A q \in Ids : q # v => slot'[q] = slot[q]
    BY <1>1, <1>2 DEF TypeOK
<1>5. /\ Range(waiting') = Range(waiting) \cup {v} /\ Len(waiting) \in Nat
      /\ DOMAIN waiting' = 1..(Len(waiting) + 1) /\ DOMAIN waiting = 1..Len(waiting)
      /\ \A i \in 1..Len(waiting) : waiting'[i] = waiting[i]
      /\ waiting'[Len(waiting) + 1] = v
    BY <1>2, AppendFacts, LenProperties
<1>6. SlotsKept'
  <2>1. ASSUME NEW s \in Slots, freeSlots'[s] = 0 PROVE \E q \in Owners' : slot'[q] = s
    <3>1. PICK q \in Owners : slot[q] = s
        BY <1>1, <2>1 DEF SlotsKept
    <3> QED
        BY <1>2, <1>4, <2>1, <3>1
  <2>2. \A q \in Range(waiting') : slot'[q] = NoSlot
      BY <1>1, <1>2, <1>4, <1>5 DEF SlotsKept
  <2> QED
      BY <2>1, <2>2 DEF SlotsKept
<1>7. StatusOK'
  <2>1. \A q \in Ids : status'[q] = "WAITING" <=> q \in Range(waiting')
      BY <1>1, <1>3, <1>5 DEF StatusOK
  <2>2. \A q \in Owners' : status'[q] = "RUNNING"
      BY <1>1, <1>2, <1>3 DEF StatusOK
  <2>3. \A q \in Ids : status'[q] = "new" => output'[q] = <<>> /\ slot'[q] = NoSlot
      BY <1>1, <1>3, <1>4 DEF StatusOK
  <2> QED
      BY <2>1, <2>2, <2>3 DEF StatusOK
<1>8. ArrivalOK'
  <2>1. \A q \in Ids : status'[q] # "new" <=> status[q] # "new"
      BY <1>1, <1>2, <1>3 DEF StatusOK
  <2>2. \A p \in Ids : status'[p] # "new" => \A q \in Ids : q < p => status'[q] # "new"
      BY <1>1, <2>1 DEF ArrivalOK
  <2>3. ASSUME NEW i \in DOMAIN waiting', NEW j \in DOMAIN waiting',
               i < j, output[waiting'[i]] = <<>>, output[waiting'[j]] = <<>>
        PROVE  waiting'[i] < waiting'[j]
    <3>1. i \in DOMAIN waiting /\ j \in DOMAIN waiting
        BY <1>5, <2>3
    <3> QED
        BY <1>1, <1>5, <2>3, <3>1 DEF ArrivalOK
  <2> QED
      BY <2>2, <2>3 DEF ArrivalOK
<1>9. FirstAdmissionFIFO'
  <2> SUFFICES ASSUME NEW p \in Ids, status'[p] = "RUNNING" \/ output[p] # <<>>, NEW q \in 1..(p - 1),
                      status'[q] = "WAITING", output[q] = <<>>
               PROVE  FALSE
      BY DEF FirstAdmissionFIFO
  <2>1. q \in Ids
      BY EngineAssumption DEF Ids
  <2>2. status[q] = "WAITING" /\ (status[p] = "RUNNING" \/ output[p] # <<>>)
      BY <1>3, <2>1
  <2> QED
      BY <1>1, <2>2 DEF FirstAdmissionFIFO
<1> QED
    BY <1>6, <1>7, <1>8, <1>9 DEF QueuesServed

LEMMA PreemptOneServed ==
  ASSUME HeldInv, ServedInv, PreemptOne
  PROVE  ServedInv'
<1>1. /\ CacheInv /\ QueuesServed /\ ContextsOwn /\ OutputsOK /\ TypeOK /\ ControlOK
    BY DEF ServedInv, HeldInv
<1> DEFINE v == Victim
<1>2. /\ pc = "schedule" /\ pc' = "schedule" /\ batch = <<>> /\ batch' = <<>>
      /\ running # <<>> /\ running' = Without(running, v) /\ Free(slot[v])
      /\ UNCHANGED <<asked, output, isPrefill, cursor, encoding>>
    BY DEF PreemptOne, AllTokenIds, BlockPressure
<1>3. v \in Range(running)
    BY <1>2, VictimRuns
<1>4. \/ /\ status' = [status EXCEPT ![v] = "FINISHED"]
         /\ UNCHANGED <<prompt, length, slot, waiting>>
      \/ /\ status' = [status EXCEPT ![v] = "WAITING"]
         /\ prompt' = [prompt EXCEPT ![v] = @ \o output[v]]
         /\ length' = [length EXCEPT ![v] = 0]
         /\ slot' = [slot EXCEPT ![v] = NoSlot]
         /\ waiting' = Append(waiting, v)
    BY DEF PreemptOne, AllTokenIds, Joined
<1> HIDE DEF v
<1>5. ~ isPrefill /\ cursor = 1 /\ Range(<<>>) = {} /\ DOMAIN <<>> = {}
    BY <1>1, <1>2, EmptySeq DEF ControlOK, Range
<1>6. Owners = Range(running) /\ Owners' = Range(running')
    BY <1>2, <1>5 DEF Owners
<1>7. /\ CacheInv'
      /\ \A s \in Slots : freeSlots'[s] = 0 => freeSlots[s] = 0 /\ s # slot[v]
      /\ Range(running') = Range(running) \ {v}
      /\ v \in Ids /\ v \in Owners /\ status[v] # "new" /\ v \notin Range(waiting)
      /\ \A q \in Range(running') : q \in Ids /\ q # v /\ q \in Range(running) /\ ctx'[slot[q]] = ctx[slot[q]]
    BY <1>2, <1>3, ReleaseServed
<1>8. \A q : ~ Decoded(q) /\ ~ Decoded(q)'
    BY <1>2 DEF Decoded
<1>9. output[v] # <<>> /\ Len(output[v]) < MaxTokens[v]
    BY <1>1, <1>3, <1>8 DEF OutputsOK
<1>10. \A q \in Ids : q # v => slot'[q] = slot[q] /\ length'[q] = length[q]
    BY <1>1, <1>4, <1>7 DEF TypeOK
<1>11. Range(waiting') \subseteq Range(waiting) \cup {v} /\ QueuesServed'
  <2>1. CASE status' = [status EXCEPT ![v] = "FINISHED"] /\ UNCHANGED <<prompt, length, slot, waiting>>
    <3>1. Range(waiting') = Range(waiting) \ {v} /\ KeepsOrder(waiting', waiting)
        BY <1>7, <2>1, SameOrder
    <3>2. Owners' = Owners \ {v}
        BY <1>6, <1>7
    <3> QED
        BY <1>1, <1>2, <1>7, <1>10, <2>1, <3>1, <3>2, QueuesLeave
  <2>2. CASE /\ status' = [status EXCEPT ![v] = "WAITING"]
             /\ slot' = [slot EXCEPT ![v] = NoSlot]
             /\ waiting' = Append(waiting, v)
    <3>1. Owners' = Owners \ {v}
        BY <1>6, <1>7
    <3>2. Range(waiting') = Range(waiting) \cup {v}
        BY <1>1, <1>7, <2>2, AppendFacts DEF TypeOK
    <3> QED
        BY <1>1, <1>2, <1>7, <1>9, <2>2, <3>1, <3>2, QueuesRejoin
  <2> QED
      BY <1>4, <2>1, <2>2
<1>12. ContextsOwn'
    BY <1>1, <1>2, <1>5, <1>7, <1>10 DEF ContextsOwn
<1>13. OutputsOK'
    BY <1>1, <1>2, <1>5, <1>7, <1>8, <1>9, <1>11 DEF OutputsOK
<1> QED
    BY <1>7, <1>11, <1>12, <1>13 DEF ServedInv

-----------------------------------------------------------------------------
(* ServedInv is kept by the loops over the batch *)

\* ensure_capacity changes no sequence and no context.
LEMMA EnsureOneServed ==
  ASSUME HeldInv, ServedInv, EnsureOne
  PROVE  ServedInv'
<1>1. /\ CacheInv /\ QueuesServed /\ ContextsOwn /\ OutputsOK /\ TypeOK /\ ControlOK
    BY DEF ServedInv, HeldInv
<1> DEFINE r == batch[cursor]
           n == Positions(r)
<1>2. /\ pc = "ensure" /\ EnsureCapacity(slot[r], n)
      /\ UNCHANGED <<seqVars, waiting, batch, isPrefill, preempted, encoding, answer>>
      /\ IF Exhausted(slot[r], n)
           THEN pc' = "raised" /\ UNCHANGED <<cursor, running>>
           ELSE IF OneByOne
           THEN pc' = "write" /\ UNCHANGED <<cursor, running>>
           ELSE Advance("ensure", "write")
    BY DEF EnsureOne
<1>3. r \in Owners /\ cursor \in 1..Len(batch) /\ DOMAIN batch = 1..Len(batch) /\ Len(batch) \in Nat
    BY <1>2, CurrentIsOwner
<1>4. r \in Ids /\ slot[r] \in Slots /\ freeSlots[slot[r]] = 0
    BY <1>3, OwnerFacts
<1>5. n \in Nat
  <2>1. prompt[r] \in Seq(Tokens) /\ length[r] \in Nat
      BY <1>1, <1>4 DEF TypeOK
  <2> QED
      BY <2>1, LenProperties DEF Positions
<1>6. CacheInv' /\ UNCHANGED <<freeSlots, ctx>>
    BY <1>1, <1>2, <1>4, <1>5, EnsureCapacityInv DEF EnsureCapacity
<1>7. Owners' = Owners
    BY <1>2, LoopFacts
<1>8. QueuesServed'
    BY <1>1, <1>2, <1>6, <1>7, QueuesFrame DEF seqVars
<1>9. /\ UNCHANGED running
      /\ \/ pc' \in {"write", "raised"} /\ UNCHANGED cursor /\ (pc' = "write" => OneByOne)
         \/ pc' = "ensure" /\ ~ OneByOne
         \/ pc' = "write" /\ ~ OneByOne /\ cursor' = 1
    BY <1>2 DEF Advance
<1>10. OneByOne' = OneByOne
    BY <1>2 DEF OneByOne
<1>11. \A i \in DOMAIN batch : Prefilled(i)' <=> Prefilled(i)
    BY <1>2, <1>3, <1>9, <1>10 DEF Prefilled
<1>12. \A q : ~ Decoded(q)
    BY <1>2 DEF Decoded
<1>13. Admitted' => Admitted
    BY <1>2, <1>9 DEF Admitted
<1>14. ContextsOwn'
    BY <1>1, <1>2, <1>6, <1>9, <1>11, <1>13 DEF ContextsOwn, HoldsStart, seqVars
<1>15. OutputsOK'
    BY <1>1, <1>2, <1>9, <1>11, <1>12, <1>13 DEF OutputsOK, seqVars
<1> QED
    BY <1>6, <1>8, <1>14, <1>15 DEF ServedInv

\* A forward pass writes the slot of the sequence it is at and no other.
LEMMA OthersKept ==
  ASSUME HeldInv, NEW r \in Owners, NEW from \in Nat, NEW tokens \in Seq(Tokens), WriteKV(slot[r], from, tokens)
  PROVE  /\ UNCHANGED freeSlots
         /\ ctx'[slot[r]] = tokens
         /\ \A q \in Owners : q # r => ctx'[slot[q]] = ctx[slot[q]]
<1>1. ctx \in [Slots -> Seq(Tokens)] /\ HeldSlots
    BY DEF HeldInv, TypeOK, KVTypeOK
<1>2. ctx' = [ctx EXCEPT ![slot[r]] = tokens] /\ UNCHANGED freeSlots
    BY DEF WriteKV
<1> QED
    BY <1>1, <1>2 DEF HeldSlots

\* The sequence a forward pass is at is given one token.
LEMMA OneToken ==
  ASSUME HeldInv, NEW r \in Ids, \E t \in Tokens : output' = [output EXCEPT ![r] = Append(@, t)]
  PROVE  /\ output'[r] # <<>> /\ Len(output[r]) \in Nat /\ Len(output'[r]) = Len(output[r]) + 1
         /\ \A q \in Ids : q # r => output'[q] = output[q]
<1>1. output \in [Ids -> Seq(Tokens)]
    BY DEF HeldInv, TypeOK
<1>2. PICK t \in Tokens : output' = [output EXCEPT ![r] = Append(@, t)]
    OBVIOUS
<1>3. output'[r] = Append(output[r], t) /\ output[r] \in Seq(Tokens)
    BY <1>1, <1>2
<1> QED
    BY <1>1, <1>2, <1>3, AppendFacts, LenProperties

\* A prefill writes the prompt over the start of it that the slot holds.
LEMMA PrefillOneServed ==
  ASSUME HeldInv, ServedInv, PrefillOne
  PROVE  ServedInv'
<1>1. /\ CacheInv /\ QueuesServed /\ StatusOK /\ ContextsOwn /\ OutputsOK
      /\ TypeOK /\ ControlOK /\ QueuesApart /\ RoomMade
    BY DEF ServedInv, HeldInv, QueuesServed
<1> DEFINE r == batch[cursor]
           from == IF OneByOne THEN Len(ctx[slot[r]]) ELSE 0
<1>2. /\ pc = "write" /\ encoding = 0 /\ isPrefill
      /\ WriteKV(slot[r], from, prompt[r])
      /\ length' = [length EXCEPT ![r] = Len(prompt[r])]
      /\ \E t \in Tokens : output' = [output EXCEPT ![r] = Append(@, t)]
      /\ Advance(IF OneByOne THEN "ensure" ELSE "write", "store")
      /\ UNCHANGED <<status, asked, prompt, slot, waiting, batch, isPrefill, encoding>>
    BY DEF PrefillOne
<1>3. /\ cursor \in 1..Len(batch) /\ Len(batch) \in Nat /\ DOMAIN batch = 1..Len(batch) /\ cursor \in Nat
      /\ \A i \in 1..Len(batch) : batch[i] \in Owners /\ batch[i] \in Ids
      /\ IsInjective(batch)
    BY <1>2, CurrentIsOwner
<1>4. /\ r \in Owners /\ r \in Ids /\ slot[r] \in Slots /\ freeSlots[slot[r]] = 0 /\ status[r] = "RUNNING"
      /\ prompt[r] \in Seq(Tokens) /\ ctx[slot[r]] \in Seq(Tokens)
    BY <1>1, <1>3, OwnerFacts DEF StatusOK
<1>5. Admitted /\ Admitted' /\ UNCHANGED running
  <2>1. pc' \in {"ensure", "write", "store"} /\ UNCHANGED running
      BY <1>2 DEF Advance
  <2> QED
      BY <1>2, <2>1 DEF Admitted
<1>6. \A i \in DOMAIN batch : (Prefilled(i) <=> i < cursor) /\ (Prefilled(i)' <=> i <= cursor)
  <2>1. \A i \in DOMAIN batch : Prefilled(i) <=> i < cursor
      BY <1>2 DEF Prefilled
  <2>2. OneByOne' <=> OneByOne
      BY <1>2 DEF OneByOne
  <2>3. CASE cursor < Len(batch)
    <3>1. cursor' = cursor + 1 /\ pc' = (IF OneByOne THEN "ensure" ELSE "write") /\ isPrefill'
        BY <1>2, <2>3 DEF Advance
    <3> QED
        BY <1>3, <2>1, <2>2, <3>1 DEF Prefilled
  <2>4. CASE ~ (cursor < Len(batch))
    <3>1. pc' = "store" /\ \A i \in DOMAIN batch : i <= cursor
        BY <1>2, <1>3, <2>4 DEF Advance
    <3> QED
        BY <2>1, <3>1 DEF Prefilled
  <2> QED
      BY <2>3, <2>4
<1>7. HoldsStart(slot[r], prompt[r]) /\ Len(output[r]) < MaxTokens[r]
    BY <1>1, <1>3, <1>5, <1>6 DEF ContextsOwn, OutputsOK
<1>8. HasCapacity(slot[r], Len(prompt[r]))
  <2>1. Ready(cursor)
      BY <1>1, <1>2, <1>3 DEF RoomMade
  <2> QED
      BY <1>2, <2>1 DEF Ready, Positions
<1>9. CacheInv'
  <2>1. from \in 0..Len(ctx[slot[r]])
      BY <1>4, LenProperties
  <2>2. Len(ctx[slot[r]]) <= Len(prompt[r]) /\ SubSeq(prompt[r], 1, Len(ctx[slot[r]])) = ctx[slot[r]]
      BY <1>7 DEF HoldsStart
  <2> HIDE DEF from
  <2> QED
      BY <1>1, <1>2, <1>4, <1>8, <2>1, <2>2, WriteKVInv
<1>10. /\ UNCHANGED freeSlots /\ ctx'[slot[r]] = prompt[r]
       /\ \A q \in Owners : q # r => ctx'[slot[q]] = ctx[slot[q]]
  <2>1. from \in Nat
      BY <1>4, LenProperties
  <2> HIDE DEF r, from
  <2> QED
      BY <1>2, <1>4, <2>1, OthersKept
<1>11. /\ output'[r] # <<>> /\ Len(output[r]) \in Nat /\ Len(output'[r]) = Len(output[r]) + 1
       /\ \A q \in Ids : q # r => output'[q] = output[q]
    BY <1>2, <1>4, OneToken
<1>12. Owners' = Owners
    BY <1>2, LoopFacts
<1> HIDE DEF r, from
<1>13. QueuesServed'
    BY <1>1, <1>2, <1>4, <1>10, <1>11, <1>12, QueuesFrame
<1>14. length'[r] = Len(prompt[r]) /\ \A q \in Ids : q # r => length'[q] = length[q]
    BY <1>1, <1>2, <1>4 DEF TypeOK
<1>15. \A q \in Range(running) : q \in Owners /\ q \in Ids /\ q # r
  <2>1. r \in Range(batch)
      BY <1>1, <1>3, SeqFacts DEF TypeOK, r
  <2>2. \A q \in Range(running) : q \in Owners
      BY OwnersAre
  <2> QED
      BY <1>1, <1>5, <2>1, <2>2, OwnerFacts DEF QueuesApart
<1>16. \A i \in DOMAIN batch : batch[i] \in Owners /\ batch[i] \in Ids /\ (i # cursor => batch[i] # r)
    BY <1>3 DEF IsInjective, r
<1>17. ContextsOwn'
  <2>1. \A q \in Range(running') : length'[q] = Len(ctx'[slot'[q]])
      BY <1>1, <1>2, <1>5, <1>10, <1>14, <1>15 DEF ContextsOwn
  <2>2. ASSUME NEW i \in DOMAIN batch'
        PROVE  IF Prefilled(i)'
                 THEN /\ ctx'[slot'[batch'[i]]] = prompt'[batch'[i]]
                      /\ length'[batch'[i]] = Len(prompt'[batch'[i]])
                 ELSE HoldsStart(slot[batch[i]], prompt[batch[i]])'
    <3>1. i \in DOMAIN batch /\ i \in Nat
        BY <1>2, <1>3
    <3>2. CASE i = cursor
        BY <1>2, <1>6, <1>10, <1>14, <3>1, <3>2 DEF r
    <3>3. CASE i # cursor
      <4>1. batch[i] \in Ids /\ batch[i] # r /\ ctx'[slot[batch[i]]] = ctx[slot[batch[i]]] /\ length'[batch[i]] = length[batch[i]]
          BY <1>10, <1>14, <1>16, <3>1, <3>3
      <4>2. IF Prefilled(i)
              THEN ctx[slot[batch[i]]] = prompt[batch[i]] /\ length[batch[i]] = Len(prompt[batch[i]])
              ELSE HoldsStart(slot[batch[i]], prompt[batch[i]])
          BY <1>1, <1>5, <3>1 DEF ContextsOwn
      <4>3. Prefilled(i)' <=> Prefilled(i)
          BY <1>3, <1>6, <3>1, <3>3
      <4> QED
          BY <1>2, <4>1, <4>2, <4>3 DEF HoldsStart
    <3> QED
        BY <3>2, <3>3
  <2> QED
      BY <2>1, <2>2 DEF ContextsOwn
<1>18. OutputsOK'
  <2>1. \A q : ~ Decoded(q)
      BY <1>2 DEF Decoded
  <2>2. MaxTokens[r] \in Nat
      BY <1>4, EngineAssumption
  <2>3. \A q \in Ids : Len(output'[q]) <= MaxTokens[q]
      BY <1>1, <1>7, <1>11, <2>2 DEF OutputsOK
  <2>4. r \notin Range(waiting) /\ Range(waiting) \subseteq Ids
      BY <1>1, <1>4, SeqFacts DEF QueuesApart, TypeOK
  <2>5. \A q \in Range(running') : output'[q] # <<>> /\ (~ Decoded(q)' => Len(output'[q]) < MaxTokens[q])
      BY <1>1, <1>5, <1>11, <1>15, <2>1 DEF OutputsOK
  <2>6. ASSUME NEW i \in DOMAIN batch'
        PROVE  IF Prefilled(i)' THEN output'[batch'[i]] # <<>> ELSE Len(output'[batch'[i]]) < MaxTokens[batch'[i]]
    <3>1. i \in DOMAIN batch /\ i \in Nat
        BY <1>2, <1>3
    <3>2. CASE i = cursor
        BY <1>2, <1>6, <1>11, <3>1, <3>2 DEF r
    <3>3. CASE i # cursor
      <4>1. output'[batch[i]] = output[batch[i]]
          BY <1>11, <1>16, <3>1, <3>3
      <4>2. IF Prefilled(i) THEN output[batch[i]] # <<>> ELSE Len(output[batch[i]]) < MaxTokens[batch[i]]
          BY <1>1, <1>5, <3>1 DEF OutputsOK
      <4>3. Prefilled(i)' <=> Prefilled(i)
          BY <1>3, <1>6, <3>1, <3>3
      <4> QED
          BY <1>2, <4>1, <4>2, <4>3
    <3> QED
        BY <3>2, <3>3
  <2> QED
      BY <1>1, <1>2, <1>11, <2>3, <2>4, <2>5, <2>6 DEF OutputsOK
<1> QED
    BY <1>9, <1>13, <1>17, <1>18 DEF ServedInv

\* What is written after a whole sequence starts with it.
LEMMA GrownFrom ==
  ASSUME NEW T, NEW s \in Seq(T), NEW x \in T
  PROVE  /\ SubSeq(s, 1, Len(s)) = s
         /\ Append(s, x) \in Seq(T) /\ Len(Append(s, x)) = Len(s) + 1
         /\ SubSeq(Append(s, x), 1, Len(s)) = s
<1>1. Len(s) \in Nat
    BY LenProperties
<1>2. /\ Append(s, x) \in Seq(T) /\ Len(Append(s, x)) = Len(s) + 1
      /\ \A i \in 1..Len(s) : Append(s, x)[i] = s[i]
    BY AppendFacts
<1>3. /\ SubSeq(s, 1, Len(s)) \in Seq(T) /\ Len(SubSeq(s, 1, Len(s))) = Len(s)
      /\ \A i \in 1..Len(s) : SubSeq(s, 1, Len(s))[i] = s[i]
    BY <1>1, StartOfContext
<1>4. /\ SubSeq(Append(s, x), 1, Len(s)) \in Seq(T) /\ Len(SubSeq(Append(s, x), 1, Len(s))) = Len(s)
      /\ \A i \in 1..Len(s) : SubSeq(Append(s, x), 1, Len(s))[i] = Append(s, x)[i]
    BY <1>1, <1>2, StartOfContext
<1>5. SubSeq(s, 1, Len(s)) = s
    BY <1>3, SeqEqual
<1>6. SubSeq(Append(s, x), 1, Len(s)) = s
    BY <1>2, <1>4, SeqEqual
<1> QED
    BY <1>2, <1>5, <1>6

\* A decode row writes the last token after all that the slot holds.
LEMMA DecodeOneServed ==
  ASSUME HeldInv, ServedInv, DecodeOne
  PROVE  ServedInv'
<1>1. /\ CacheInv /\ QueuesServed /\ StatusOK /\ ContextsOwn /\ OutputsOK
      /\ TypeOK /\ ControlOK /\ QueuesApart /\ RoomMade
    BY DEF ServedInv, HeldInv, QueuesServed
<1> DEFINE r == batch[cursor]
           held == ctx[slot[r]]
           tokens == Append(held, LastToken(r))
<1>2. /\ pc = "write" /\ encoding = 0 /\ ~ isPrefill
      /\ WriteKV(slot[r], length[r], Append(SubSeq(held, 1, length[r]), LastToken(r)))
      /\ length' = [length EXCEPT ![r] = @ + 1]
      /\ \E t \in Tokens : output' = [output EXCEPT ![r] = Append(@, t)]
      /\ Advance("write", "post")
      /\ UNCHANGED <<status, asked, prompt, slot, waiting, batch, isPrefill, encoding>>
    BY DEF DecodeOne
<1>3. /\ cursor \in 1..Len(batch) /\ Len(batch) \in Nat /\ DOMAIN batch = 1..Len(batch) /\ cursor \in Nat
      /\ \A i \in 1..Len(batch) : batch[i] \in Owners /\ batch[i] \in Ids
      /\ IsInjective(batch) /\ batch \in Seq(Ids)
    BY <1>2, CurrentIsOwner
<1>4. /\ r \in Owners /\ r \in Ids /\ slot[r] \in Slots /\ freeSlots[slot[r]] = 0 /\ status[r] = "RUNNING"
      /\ held \in Seq(Tokens) /\ LastToken(r) \in Tokens
    BY <1>1, <1>3, OwnerFacts, LastTokenIsToken DEF StatusOK
<1>5. batch = running /\ UNCHANGED running
    BY <1>1, <1>2 DEF ControlOK, Advance
<1>6. r \in Range(running) /\ length[r] = Len(held) /\ Len(held) \in Nat
    BY <1>1, <1>3, <1>4, <1>5, SeqFacts, LenProperties DEF ContextsOwn
<1>7. /\ SubSeq(held, 1, Len(held)) = held /\ tokens \in Seq(Tokens) /\ Len(tokens) = Len(held) + 1
      /\ SubSeq(tokens, 1, Len(held)) = held
    BY <1>4, GrownFrom
<1>8. WriteKV(slot[r], Len(held), tokens)
    BY <1>2, <1>6, <1>7
<1>9. HasCapacity(slot[r], Len(tokens))
  <2>1. Ready(cursor)
      BY <1>1, <1>2, <1>3 DEF RoomMade, OneByOne
  <2>2. Positions(r) = Len(tokens)
      BY <1>2, <1>6, <1>7 DEF Positions
  <2> QED
      BY <2>1, <2>2 DEF Ready
<1> HIDE DEF tokens
<1>10. CacheInv'
  <2>1. Len(held) \in 0..Len(held) /\ Len(held) <= Len(tokens)
      BY <1>6, <1>7
  <2> QED
      BY <1>1, <1>4, <1>7, <1>8, <1>9, <2>1, WriteKVInv
<1>11. /\ UNCHANGED freeSlots /\ ctx'[slot[r]] = tokens
       /\ \A q \in Owners : q # r => ctx'[slot[q]] = ctx[slot[q]]
  <2> HIDE DEF r, held
  <2> QED
      BY <1>4, <1>6, <1>7, <1>8, OthersKept DEF held
<1>12. /\ output'[r] # <<>> /\ Len(output[r]) \in Nat /\ Len(output'[r]) = Len(output[r]) + 1
       /\ \A q \in Ids : q # r => output'[q] = output[q]
    BY <1>2, <1>4, OneToken
<1>13. Owners' = Owners
    BY <1>2, LoopFacts
<1>14. length'[r] = Len(held) + 1 /\ \A q \in Ids : q # r => length'[q] = length[q]
    BY <1>1, <1>2, <1>4, <1>6 DEF TypeOK
<1>15. \A q : Decoded(q) <=> \E i \in 1..(cursor - 1) : running[i] = q
    BY <1>2 DEF Decoded
<1>16. ~ Decoded(r)
    BY <1>3, <1>5, <1>15 DEF IsInjective
<1>17. \A q : q # r /\ Decoded(q) => Decoded(q)'
  <2> SUFFICES ASSUME NEW q, Decoded(q) PROVE Decoded(q)'
      OBVIOUS
  <2>1. CASE cursor < Len(batch)
    <3>1. cursor' = cursor + 1 /\ pc' = "write" /\ ~ isPrefill'
        BY <1>2, <2>1 DEF Advance
    <3>2. PICK i \in 1..(cursor - 1) : running[i] = q
        BY <1>15
    <3>3. i \in 1..(cursor' - 1) /\ running'[i] = q
        BY <1>3, <1>5, <3>1, <3>2
    <3> QED
        BY <3>1, <3>3 DEF Decoded
  <2>2. CASE ~ (cursor < Len(batch))
      BY <1>2, <2>2 DEF Advance, Decoded
  <2> QED
      BY <2>1, <2>2
<1>18. \A q : q = r => Decoded(q)'
  <2> SUFFICES ASSUME NEW q, q = r PROVE Decoded(q)'
      OBVIOUS
  <2>1. CASE cursor < Len(batch)
    <3>1. cursor' = cursor + 1 /\ pc' = "write" /\ ~ isPrefill'
        BY <1>2, <2>1 DEF Advance
    <3>2. cursor \in 1..(cursor' - 1) /\ running'[cursor] = q
        BY <1>3, <1>5, <3>1
    <3> QED
        BY <3>1, <3>2 DEF Decoded
  <2>2. CASE ~ (cursor < Len(batch))
      BY <1>2, <2>2 DEF Advance, Decoded
  <2> QED
      BY <2>1, <2>2
<1>19. ~ Admitted'
    BY <1>2 DEF Advance, Admitted
<1>20. \A q \in Range(running) : q \in Owners /\ q \in Ids
    BY OwnersAre, OwnerFacts
<1> HIDE DEF r, held
<1>21. QueuesServed'
    BY <1>1, <1>2, <1>4, <1>11, <1>12, <1>13, QueuesFrame
<1>22. ContextsOwn'
  <2>1. \A q \in Range(running') : length'[q] = Len(ctx'[slot'[q]])
      BY <1>1, <1>2, <1>5, <1>7, <1>11, <1>14, <1>20 DEF ContextsOwn
  <2> QED
      BY <1>19, <2>1 DEF ContextsOwn
<1>23. OutputsOK'
  <2>1. MaxTokens[r] \in Nat /\ Len(output[r]) < MaxTokens[r]
      BY <1>1, <1>4, <1>6, <1>16, EngineAssumption DEF OutputsOK
  <2>2. \A q \in Ids : Len(output'[q]) <= MaxTokens[q]
      BY <1>1, <1>12, <2>1 DEF OutputsOK
  <2>3. r \notin Range(waiting) /\ Range(waiting) \subseteq Ids
      BY <1>1, <1>4, SeqFacts DEF QueuesApart, TypeOK
  <2>4. \A q \in Range(running') : output'[q] # <<>> /\ (~ Decoded(q)' => Len(output'[q]) < MaxTokens[q])
    <3> SUFFICES ASSUME NEW q \in Range(running), q # r
                 PROVE  output[q] # <<>> /\ (~ Decoded(q)' => Len(output[q]) < MaxTokens[q])
      <4> SUFFICES ASSUME NEW q \in Range(running)
                   PROVE  output'[q] # <<>> /\ (~ Decoded(q)' => Len(output'[q]) < MaxTokens[q])
          BY <1>5
      <4>1. CASE q = r
          BY <1>12, <1>18, <4>1
      <4>2. CASE q # r
          BY <1>12, <1>20, <4>2
      <4> QED
          BY <4>1, <4>2
    <3>1. output[q] # <<>> /\ (~ Decoded(q) => Len(output[q]) < MaxTokens[q])
        BY <1>1 DEF OutputsOK
    <3> QED
        BY <1>17, <3>1
  <2> QED
      BY <1>1, <1>2, <1>12, <1>19, <2>2, <2>3, <2>4 DEF OutputsOK
<1> QED
    BY <1>10, <1>21, <1>22, <1>23 DEF ServedInv

\* store_prefix is called with the tokens that the slot holds.
LEMMA StoreOneServed ==
  ASSUME HeldInv, ServedInv, encoding = 0, StoreOne
  PROVE  ServedInv'
<1>1. /\ CacheInv /\ QueuesServed /\ ContextsOwn /\ OutputsOK
      /\ TypeOK /\ ControlOK /\ QueuesApart
    BY DEF ServedInv, HeldInv
<1> DEFINE r == batch[cursor]
<1>2. /\ pc = "store" /\ StorePrefix(slot[r], prompt[r]) /\ Advance("store", "post")
      /\ UNCHANGED <<status, asked, prompt, output, slot, length, waiting, batch, isPrefill, encoding>>
    BY DEF StoreOne
<1>3. /\ cursor \in 1..Len(batch) /\ DOMAIN batch = 1..Len(batch) /\ batch \in Seq(Ids)
      /\ r \in Owners /\ Range(batch) \subseteq Owners
    BY <1>2, CurrentIsOwner
<1>4. slot[r] \in Slots /\ isPrefill /\ Admitted
    BY <1>1, <1>2, <1>3, OwnerFacts DEF ControlOK, Admitted
<1>5. \A i \in DOMAIN batch : Prefilled(i)
    BY <1>2 DEF Prefilled
<1>6. /\ \A i \in DOMAIN batch : ctx[slot[batch[i]]] = prompt[batch[i]] /\ length[batch[i]] = Len(prompt[batch[i]])
      /\ \A i \in DOMAIN batch : output[batch[i]] # <<>>
    BY <1>1, <1>4, <1>5 DEF ContextsOwn, OutputsOK
<1>7. StorePrefix(slot[r], ctx[slot[r]])
    BY <1>2, <1>3, <1>6
<1>8. CacheInv' /\ UNCHANGED <<freeSlots, ctx>>
    BY <1>1, <1>4, <1>7, StorePrefixInv DEF StorePrefix, kvVars
<1>9. Owners' = Owners
    BY <1>2, LoopFacts
<1>10. QueuesServed'
    BY <1>1, <1>2, <1>8, <1>9, QueuesFrame
<1>11. \A q : ~ Decoded(q)
    BY <1>2, <1>4 DEF Decoded
<1>12. CASE pc' = "store" /\ UNCHANGED running
  <2>1. \A i \in DOMAIN batch : Prefilled(i)'
      BY <1>12 DEF Prefilled
  <2>2. ContextsOwn'
      BY <1>1, <1>2, <1>6, <1>8, <1>12, <2>1 DEF ContextsOwn
  <2>3. OutputsOK'
      BY <1>1, <1>2, <1>6, <1>11, <1>12, <2>1 DEF OutputsOK
  <2> QED
      BY <1>8, <1>10, <2>2, <2>3 DEF ServedInv
<1>13. CASE pc' = "post" /\ running' = running \o batch
  <2>1. ~ Admitted' /\ \A q : Decoded(q)'
      BY <1>13 DEF Admitted, Decoded
  <2>2. Range(running') = Range(running) \cup Range(batch)
      BY <1>1, <1>3, <1>13, ConcatFacts DEF TypeOK
  <2>3. \A q \in Range(batch) : \E i \in DOMAIN batch : batch[i] = q
      BY <1>3, SeqFacts
  <2>4. \A q \in Range(running') : length[q] = Len(ctx[slot[q]]) /\ output[q] # <<>>
      BY <1>1, <1>6, <2>2, <2>3 DEF ContextsOwn, OutputsOK
  <2>5. ContextsOwn' /\ OutputsOK'
      BY <1>1, <1>2, <1>8, <2>1, <2>4 DEF ContextsOwn, OutputsOK
  <2> QED
      BY <1>8, <1>10, <2>5 DEF ServedInv
<1> QED
    BY <1>2, <1>4, <1>12, <1>13 DEF Advance

-----------------------------------------------------------------------------
(* ServedInv is kept by Scheduler.postprocess *)

LEMMA PostFreeServed ==
  ASSUME HeldInv, ServedInv, PostFree
  PROVE  ServedInv'
<1>1. /\ CacheInv /\ QueuesServed /\ ContextsOwn /\ OutputsOK /\ TypeOK /\ ControlOK
    BY DEF ServedInv, HeldInv
<1>2. PICK i \in 1..Len(running) : /\ running' = Without(running, running[i])
                                   /\ status' = [status EXCEPT ![running[i]] = "FINISHED"]
                                   /\ Free(slot[running[i]])
    BY DEF PostFree
<1> DEFINE r == running[i]
<1>3. /\ pc = "post"
      /\ UNCHANGED <<asked, prompt, output, slot, length, waiting, batch, isPrefill, pc, cursor>>
    BY DEF PostFree, callVars
<1>4. r \in Range(running)
    BY <1>1, SeqFacts DEF TypeOK
<1>5. /\ CacheInv'
      /\ \A s \in Slots : freeSlots'[s] = 0 => freeSlots[s] = 0 /\ s # slot[r]
      /\ Range(running') = Range(running) \ {r}
      /\ r \in Ids /\ status[r] # "new" /\ r \notin Range(waiting)
      /\ \A q \in Range(running') : q \in Ids /\ q # r /\ q \in Range(running) /\ ctx'[slot[q]] = ctx[slot[q]]
    BY <1>2, <1>4, ReleaseServed
<1>6. Owners = Range(running) /\ Owners' = Range(running') /\ ~ Admitted /\ ~ Admitted'
    BY <1>3 DEF Owners, Admitted
<1>7. status' = [status EXCEPT ![r] = "FINISHED"]
    BY <1>2
<1> HIDE DEF r
<1>8. Range(waiting') = Range(waiting) \ {r} /\ KeepsOrder(waiting', waiting) /\ Owners' = Owners \ {r}
    BY <1>3, <1>5, <1>6, SameOrder
<1>9. QueuesServed'
    BY <1>1, <1>3, <1>5, <1>7, <1>8, QueuesLeave
<1>10. \A q : Decoded(q) /\ Decoded(q)'
    BY <1>3 DEF Decoded
<1>11. ContextsOwn'
    BY <1>1, <1>3, <1>5, <1>6 DEF ContextsOwn
<1>12. OutputsOK'
    BY <1>1, <1>3, <1>5, <1>6, <1>10 DEF OutputsOK
<1> QED
    BY <1>5, <1>9, <1>11, <1>12 DEF ServedInv

\* A sequence that is not finished may have one more token.
LEMMA PostDoneServed ==
  ASSUME HeldInv, ServedInv, PostDone
  PROVE  ServedInv'
<1>1. /\ CacheInv /\ QueuesServed /\ ContextsOwn /\ OutputsOK /\ TypeOK /\ ControlOK
    BY DEF ServedInv, HeldInv
<1>2. /\ pc = "post" /\ pc' = "idle" /\ batch' = <<>> /\ isPrefill' = FALSE
      /\ \A r \in Range(running) : ~ IsFinished(r)
      /\ UNCHANGED <<kvVars, seqVars, waiting, running, cursor>>
    BY DEF PostDone
<1>3. CacheInv'
    BY <1>1, <1>2, StutterInv
<1>4. ~ Admitted /\ ~ Admitted' /\ Owners' = Owners
    BY <1>2 DEF Owners, Admitted
<1>5. QueuesServed'
    BY <1>1, <1>2, <1>4, QueuesFrame DEF kvVars, seqVars
<1>6. \A r \in Range(running) : Len(output[r]) < MaxTokens[r]
  <2> SUFFICES ASSUME NEW r \in Range(running) PROVE Len(output[r]) < MaxTokens[r]
      OBVIOUS
  <2>1. r \in Ids /\ output[r] \in Seq(Tokens)
      BY OwnersAre, OwnerFacts
  <2>2. Len(output[r]) \in Nat /\ MaxTokens[r] \in Nat
      BY <2>1, LenProperties, EngineAssumption
  <2>3. ~ (Len(output[r]) >= MaxTokens[r])
      BY <1>2 DEF IsFinished, FinishReason
  <2> QED
      BY <2>2, <2>3
<1>7. ContextsOwn'
    BY <1>1, <1>2, <1>4 DEF ContextsOwn, kvVars, seqVars
<1>8. OutputsOK'
    BY <1>1, <1>2, <1>4, <1>6 DEF OutputsOK, seqVars
<1> QED
    BY <1>3, <1>5, <1>7, <1>8 DEF ServedInv

-----------------------------------------------------------------------------
(* What holds of an engine that only generates *)

LEMMA StepServed ==
  ASSUME Embeds = {}, HeldInv, ServedInv, [Next]_vars
  PROVE  ServedInv'
<1>1. encoding = 0
    BY NotEncoding
<1>2. CASE UNCHANGED vars
    BY <1>2, StutterServed
<1>3. CASE \E r \in Ids : \E p \in Prompts : AddRequest(r, p)
    BY <1>3, EnqueueServed
<1>4. CASE \E r \in Ids : Cancel(r)
    BY <1>4, CancelServed
<1>5. CASE BeginStep \/ ReturnPrefill \/ ReturnDecode
    BY <1>5, MovesServed
<1>6. CASE Admit
    BY <1>6, AdmitServed
<1>7. CASE PreemptOne
    BY <1>7, PreemptOneServed
<1>8. CASE EnsureOne
    BY <1>8, EnsureOneServed
<1>9. CASE PrefillOne
    BY <1>9, PrefillOneServed
<1>10. CASE DecodeOne
    BY <1>10, DecodeOneServed
<1>11. CASE StoreOne
    BY <1>1, <1>11, StoreOneServed
<1>12. CASE PostFree
    BY <1>12, PostFreeServed
<1>13. CASE PostDone
    BY <1>13, PostDoneServed
<1>14. /\ \A r, p : ~ BeginEncode(r, p)
       /\ ~ RelayRaise /\ ~ EncodeOne
    BY <1>1 DEF BeginEncode, RelayRaise, EncodeOne
<1> QED
    BY <1>2, <1>3, <1>4, <1>5, <1>6, <1>7, <1>8, <1>9, <1>10, <1>11, <1>12, <1>13, <1>14
       DEF Next, EngineStep

\* What the engine keeps when it only generates.
LEMMA EngineKept ==
  ASSUME Embeds = {}
  PROVE  Spec => [](HeldInv /\ ServedInv)
<1>1. Init => HeldInv /\ ServedInv
    BY InitHeld, InitServed
<1>2. HeldInv /\ ServedInv /\ [Next]_vars => (HeldInv /\ ServedInv)'
    BY StepHeld, StepServed
<1> QED
    BY <1>1, <1>2, PTL DEF Spec

\* The scheduler's lists and the cache agree: every slot that alloc handed out
\* has its one owner until free takes it back, through admission, preemption,
\* cancellation, finish and the RuntimeError of ensure_capacity, and no block
\* holds anything but what its readers wrote.
THEOREM EngineServes ==
  ASSUME Embeds = {}
  PROVE  Spec => []EngineInv
<1>1. HeldInv /\ ServedInv => EngineInv
    BY SlotsAreOwned DEF HeldInv, ServedInv, QueuesServed, CacheInv, EngineInv
<1> QED
    BY <1>1, EngineKept, PTL

\* Scheduler.schedule admits first the request that came first, although
\* _preempt_one puts sequences back into the waiting list out of that order.
THEOREM EngineFIFO ==
  ASSUME Embeds = {}
  PROVE  Spec => []FirstAdmissionFIFO
<1>1. ServedInv => FirstAdmissionFIFO
    BY DEF ServedInv, QueuesServed
<1> QED
    BY <1>1, EngineKept, PTL

-----------------------------------------------------------------------------
(* The engine implements EngineContract *)

\* The contract's variables, as Contract reads them off the engine.
Life ==
  [r \in Ids \ Embeds |->
     CASE status[r] = "new" -> "new"
       [] status[r] = "FINISHED" -> "done"
       [] OTHER -> "live"]

Gained == [r \in Ids \ Embeds |-> Len(output[r])]

\* A change of one status is at most a change of one life.
LEMMA LifeStep ==
  ASSUME HeldInv, NEW r \in Ids \ Embeds, NEW x, status' = [status EXCEPT ![r] = x]
  PROVE  Life' = [Life EXCEPT ![r] = CASE x = "new" -> "new" [] x = "FINISHED" -> "done" [] OTHER -> "live"]
<1>1. status \in [Ids -> {"new", "WAITING", "RUNNING", "FINISHED"}]
    BY DEF HeldInv, TypeOK
<1> QED
    BY <1>1 DEF Life

\* A sequence that stays alive is no step of the contract, and one that dies is
\* finished when it has tokens.
LEMMA LiveStep ==
  ASSUME HeldInv, NEW r \in Ids \ Embeds, status[r] \in {"WAITING", "RUNNING"},
         NEW x \in {"WAITING", "RUNNING", "FINISHED"}, status' = [status EXCEPT ![r] = x], UNCHANGED output
  PROVE  /\ x # "FINISHED" => UNCHANGED <<Life, Gained>>
         /\ x = "FINISHED" => Contract!Drop(r)
         /\ x = "FINISHED" /\ output[r] # <<>> => Contract!Finish(r)
<1>1. Life[r] = "live" /\ DOMAIN Life = Ids \ Embeds
    BY DEF Life
<1>2. Life' = [Life EXCEPT ![r] = IF x = "FINISHED" THEN "done" ELSE "live"]
    BY LifeStep
<1>3. UNCHANGED Gained
    BY DEF Gained
<1>4. x # "FINISHED" => UNCHANGED <<Life, Gained>>
    BY <1>1, <1>2, <1>3 DEF Life
<1>5. x = "FINISHED" => Contract!Drop(r)
    BY <1>1, <1>2, <1>3 DEF Contract!Drop, Life, Gained
<1>6. ASSUME x = "FINISHED", output[r] # <<>> PROVE Contract!Finish(r)
  <2>1. output[r] \in Seq(Tokens)
      BY DEF HeldInv, TypeOK
  <2>2. Gained[r] > 0
      BY <1>6, <2>1, EmptySeq, LenProperties DEF Gained
  <2> QED
      BY <1>1, <1>2, <1>3, <1>6, <2>2 DEF Contract!Finish, Life, Gained
<1> QED
    BY <1>4, <1>5, <1>6

\* A forward pass gives a live sequence one of the tokens it may still have.
LEMMA EmitStep ==
  ASSUME HeldInv, NEW r \in Ids \ Embeds, status[r] = "RUNNING", UNCHANGED status,
         Len(output[r]) < MaxTokens[r],
         \E t \in Tokens : output' = [output EXCEPT ![r] = Append(@, t)]
  PROVE  Contract!Emit(r)
<1>1. /\ Len(output[r]) \in Nat /\ Len(output'[r]) = Len(output[r]) + 1
      /\ \A q \in Ids : q # r => output'[q] = output[q]
    BY OneToken
<1>2. Gained' = [Gained EXCEPT ![r] = @ + 1]
    BY <1>1 DEF Gained
<1>3. Gained[r] < [q \in Ids \ Embeds |-> MaxTokens[q]][r]
    BY DEF Gained
<1>4. Life[r] = "live" /\ UNCHANGED Life
    BY DEF Life
<1> QED
    BY <1>2, <1>3, <1>4 DEF Contract!Emit, Life, Gained

\* Every step of the engine is a step of the contract or none.
LEMMA ContractStep ==
  ASSUME Embeds = {}, HeldInv, ServedInv, [Next]_vars
  PROVE  Contract!ContractNext \/ UNCHANGED <<Life, Gained>>
<1>1. encoding = 0 /\ Ids \ Embeds = Ids
    BY NotEncoding
<1>2. TypeOK /\ StatusOK /\ OutputsOK /\ ControlOK
    BY DEF HeldInv, ServedInv, QueuesServed
<1>3. \A r \in Owners : r \in Ids \ Embeds /\ status[r] = "RUNNING"
    BY <1>1, <1>2, OwnerFacts DEF StatusOK
<1>4. \A r \in Range(running) : r \in Owners /\ output[r] # <<>>
    BY <1>2, OwnersAre DEF OutputsOK
<1>5. UNCHANGED <<status, output>> => UNCHANGED <<Life, Gained>>
    BY DEF Life, Gained
<1>6. CASE \/ UNCHANGED vars \/ BeginStep \/ ReturnPrefill \/ ReturnDecode \/ EnsureOne \/ PostDone
  <2>1. UNCHANGED <<status, output>>
      BY <1>6 DEF BeginStep, ReturnPrefill, ReturnDecode, EnsureOne, PostDone, vars, seqVars
  <2> QED
      BY <1>5, <2>1
<1>7. CASE \E r \in Ids : \E p \in Prompts : AddRequest(r, p)
  <2>1. PICK r \in Ids, p \in Prompts : AddRequest(r, p)
      BY <1>7
  <2>2. status[r] = "new" /\ status' = [status EXCEPT ![r] = "WAITING"] /\ UNCHANGED output
      BY <2>1 DEF AddRequest, Enqueue
  <2>3. Life[r] = "new" /\ Life' = [Life EXCEPT ![r] = "live"] /\ UNCHANGED Gained
    <3>1. Life[r] = "new" /\ UNCHANGED Gained
        BY <1>1, <2>2 DEF Life, Gained
    <3>2. Life' = [Life EXCEPT ![r] = "live"]
        BY <1>1, <1>2, <2>2 DEF Life, TypeOK
    <3> QED
        BY <3>1, <3>2
  <2>4. Contract!Begin(r)
      BY <2>3 DEF Contract!Begin, Life, Gained
  <2> QED
      BY <1>1, <2>4 DEF Contract!ContractNext
<1>8. CASE \E r \in Ids : Cancel(r)
  <2>1. PICK r \in Ids : Cancel(r)
      BY <1>8
  <2>2. status' = [status EXCEPT ![r] = "FINISHED"] /\ UNCHANGED output /\ r \in Range(waiting) \cup Range(running)
      BY <2>1 DEF Cancel
  <2>3. status[r] \in {"WAITING", "RUNNING"}
      BY <1>2, <1>3, <1>4, <2>2 DEF StatusOK
  <2>4. Contract!Drop(r)
      BY <1>1, <2>2, <2>3, LiveStep
  <2> QED
      BY <1>1, <2>4 DEF Contract!ContractNext
<1>9. CASE Admit
  <2>1. /\ status' = [status EXCEPT ![Head(waiting)] = "RUNNING"] /\ UNCHANGED output
        /\ waiting # <<>> /\ waiting \in Seq(Ids)
      BY <1>2, <1>9 DEF Admit, CanAdmit, TypeOK
  <2>2. Head(waiting) \in Ids /\ status[Head(waiting)] = "WAITING"
      BY <1>2, <2>1, TailFacts DEF StatusOK
  <2> QED
      BY <1>1, <2>1, <2>2, LiveStep
<1>10. CASE PreemptOne
  <2>1. /\ \/ status' = [status EXCEPT ![Victim] = "FINISHED"]
           \/ status' = [status EXCEPT ![Victim] = "WAITING"]
        /\ UNCHANGED output /\ running # <<>>
      BY <1>10 DEF PreemptOne, AllTokenIds, BlockPressure
  <2>2. PICK v \in Range(running) : v = Victim
      BY <2>1, VictimRuns
  <2>3. v \in Ids \ Embeds /\ status[v] = "RUNNING"
      BY <1>3, <1>4
  <2>4. Contract!Drop(v) \/ UNCHANGED <<Life, Gained>>
      BY <2>1, <2>2, <2>3, LiveStep
  <2> QED
      BY <2>3, <2>4 DEF Contract!ContractNext
<1>11. CASE PrefillOne \/ DecodeOne
  <2> DEFINE r == batch[cursor]
  <2>1. /\ pc = "write" /\ UNCHANGED status
        /\ \E t \in Tokens : output' = [output EXCEPT ![r] = Append(@, t)]
      BY <1>11 DEF PrefillOne, DecodeOne
  <2>2. /\ cursor \in 1..Len(batch) /\ DOMAIN batch = 1..Len(batch) /\ cursor \in Nat
        /\ r \in Owners /\ IsInjective(batch)
      BY <2>1, CurrentIsOwner
  <2>3. Len(output[r]) < MaxTokens[r]
    <3>1. CASE isPrefill
      <4>1. Admitted /\ ~ Prefilled(cursor)
          BY <2>1, <2>2, <3>1 DEF Admitted, Prefilled
      <4> QED
          BY <1>2, <2>2, <4>1 DEF OutputsOK
    <3>2. CASE ~ isPrefill
      <4>1. batch = running /\ running \in Seq(Ids)
          BY <1>2, <2>1, <3>2 DEF ControlOK, TypeOK
      <4>2. r \in Range(running)
          BY <2>2, <4>1, SeqFacts
      <4>3. ~ Decoded(r)
          BY <2>1, <2>2, <3>2, <4>1 DEF Decoded, IsInjective
      <4> QED
          BY <1>2, <4>2, <4>3 DEF OutputsOK
    <3> QED
        BY <3>1, <3>2
  <2>4. PICK q \in Owners : q = r
      BY <2>2
  <2>5. Contract!Emit(q)
    <3> HIDE DEF r
    <3> QED
        BY <1>3, <2>1, <2>3, <2>4, EmitStep
  <2> QED
      BY <1>3, <2>5 DEF Contract!ContractNext
<1>12. CASE StoreOne
    BY <1>1, <1>5, <1>12 DEF StoreOne
<1>13. CASE PostFree
  <2>1. PICK i \in 1..Len(running) : status' = [status EXCEPT ![running[i]] = "FINISHED"] /\ UNCHANGED output
      BY <1>13 DEF PostFree
  <2>2. PICK q \in Range(running) : q = running[i]
      BY <1>2, SeqFacts DEF TypeOK
  <2>3. q \in Ids \ Embeds /\ status[q] = "RUNNING" /\ output[q] # <<>>
      BY <1>3, <1>4
  <2>4. Contract!Finish(q)
      BY <2>1, <2>2, <2>3, LiveStep
  <2> QED
      BY <2>3, <2>4 DEF Contract!ContractNext
<1>14. /\ \A r, p : ~ BeginEncode(r, p)
       /\ ~ RelayRaise /\ ~ EncodeOne
    BY <1>1 DEF BeginEncode, RelayRaise, EncodeOne
<1> QED
    BY <1>6, <1>7, <1>8, <1>9, <1>10, <1>11, <1>12, <1>13, <1>14 DEF Next, EngineStep

\* The engine is what EngineContract says, at every step of step() and cancel:
\* tokens only for a live sequence, never more than max_tokens, and finish only
\* after one, whatever is preempted and recomputed on the way.
THEOREM EngineKeepsContract ==
  ASSUME Embeds = {}
  PROVE  Spec => ImplementsContract
<1>1. Init => Contract!ContractInit
  <2>1. Len(<<>>) = 0
      BY EmptySeq
  <2> QED
      BY <2>1 DEF Init, Contract!ContractInit
<1>2. HeldInv /\ ServedInv /\ [Next]_vars => [Contract!ContractNext]_(Contract!contractVars)
    BY ContractStep DEF Contract!contractVars, Life, Gained
<1> QED
    BY <1>1, <1>2, EngineKept, PTL DEF Spec, ImplementsContract, Contract!ContractSpec

-----------------------------------------------------------------------------
(* schedule() preempts only to admit *)

\* Under block pressure schedule() gives running sequences' slots back until
\* the head of the waiting list fits, and it has not given back more than run.
VacatedOK ==
  /\ pc = "idle" => preempted = 0
  /\ pc = "schedule" /\ batch = <<>> =>
       /\ preempted + Len(running) <= MaxNumSeqs
       /\ preempted > 0 => waiting # <<>> /\ HasFreeSlot

PressureInv == VacatedOK /\ BudgetHolds

LEMMA InitPressure == Init => PressureInv
<1> SUFFICES ASSUME Init PROVE PressureInv
    OBVIOUS
<1>1. VacatedOK
    BY DEF Init, VacatedOK
<1>2. {b \in Blocks : pins[b] > 0} = {}
    BY DEF Init, KVInit
<1> QED
    BY <1>1, <1>2, FS_EmptySet, SizesAssumption DEF PressureInv, BudgetHolds

\* store_prefix ends within the budget, and nothing else pins a block.
LEMMA BudgetKept ==
  ASSUME HeldInv, BudgetHolds, [Next]_vars
  PROVE  BudgetHolds'
<1>1. CASE StoreOne
  <2>1. TypeOK /\ CountsInv /\ RoomMade /\ ControlOK
      BY DEF HeldInv
  <2> DEFINE r == batch[cursor]
  <2>2. pc = "store" /\ StorePrefix(slot[r], prompt[r])
      BY <1>1 DEF StoreOne
  <2>3. r \in Owners /\ cursor \in 1..Len(batch) /\ DOMAIN batch = 1..Len(batch)
      BY <2>2, CurrentIsOwner
  <2>4. prompt[r] \in Seq(Tokens) /\ slot[r] \in Slots
      BY <2>3, OwnerFacts
  <2>5. HasCapacity(slot[r], Len(prompt[r]))
      BY <2>1, <2>2, <2>3 DEF ControlOK, RoomMade, Ready, Positions
  <2> QED
      BY <2>1, <2>2, <2>4, <2>5, StorePrefixBudget
<1>2. CASE UNCHANGED pins
    BY <1>2 DEF BudgetHolds
<1>3. StoreOne \/ UNCHANGED pins
  <2>1. CASE Admit
      BY <2>1 DEF Admit, AllocAndShare
  <2>2. CASE PreemptOne \/ PostFree
      BY <2>2 DEF PreemptOne, AllTokenIds, PostFree, Free
  <2>3. CASE \E r \in Ids : Cancel(r)
      BY <2>3 DEF Cancel, Free, kvVars
  <2>4. CASE EnsureOne
      BY <2>4 DEF EnsureOne, EnsureCapacity
  <2>5. CASE PrefillOne \/ DecodeOne \/ EncodeOne
      BY <2>5 DEF PrefillOne, DecodeOne, EncodeOne, WriteKV, kvVars
  <2>6. CASE \E r \in Ids : \E p \in Prompts : AddRequest(r, p) \/ BeginEncode(r, p)
      BY <2>6 DEF AddRequest, BeginEncode, kvVars
  <2>7. CASE UNCHANGED vars \/ BeginStep \/ ReturnPrefill \/ ReturnDecode \/ RelayRaise \/ PostDone
      BY <2>7 DEF BeginStep, ReturnPrefill, ReturnDecode, RelayRaise, PostDone, kvVars, vars
  <2> QED
      BY <2>1, <2>2, <2>3, <2>4, <2>5, <2>6, <2>7 DEF Next, EngineStep
<1> QED
    BY <1>1, <1>2, <1>3

LEMMA VacatedKept ==
  ASSUME HeldInv, VacatedOK, [Next]_vars
  PROVE  VacatedOK'
<1>1. TypeOK /\ ControlOK /\ CapKept
    BY DEF HeldInv
<1>2. /\ running \in Seq(Ids) /\ waiting \in Seq(Ids) /\ Len(running) \in Nat
      /\ preempted \in Nat /\ MaxNumSeqs \in Nat
  <2>1. MaxNumSeqs \in Nat
      BY EngineAssumption
  <2> QED
      BY <1>1, <2>1, LenProperties DEF TypeOK
<1>3. CASE UNCHANGED vars
    BY <1>3 DEF VacatedOK, vars, callVars, kvVars, HasFreeSlot
<1>4. CASE \E r \in Ids : Cancel(r) \/ \E p \in Prompts : AddRequest(r, p)
    BY <1>4 DEF VacatedOK, Cancel, AddRequest, Enqueue, callVars
<1>5. CASE BeginStep \/ \E r \in Ids : \E p \in Prompts : BeginEncode(r, p)
  <2>1. pc = "idle" /\ pc' = "schedule" /\ UNCHANGED <<running, batch, preempted>>
      BY <1>5 DEF BeginStep, BeginEncode, Enqueue
  <2>2. batch = <<>> /\ preempted = 0 /\ Len(running) <= MaxNumSeqs
    <3>1. batch = <<>> /\ preempted = 0 /\ ~ isPrefill
        BY <1>1, <2>1 DEF ControlOK, VacatedOK
    <3> QED
        BY <1>1, <1>2, <2>1, <3>1 DEF CapKept, Admitted
  <2> QED
      BY <1>2, <2>1, <2>2 DEF VacatedOK
<1>6. CASE Admit
  <2>1. pc' = "schedule" /\ batch' = Append(batch, Head(waiting)) /\ waiting # <<>> /\ batch \in Seq(Ids)
      BY <1>1, <1>6 DEF Admit, CanAdmit, TypeOK
  <2>2. Head(waiting) \in Ids
      BY <1>2, <2>1, TailFacts
  <2>3. batch' # <<>>
      BY <2>1, <2>2, AppendFacts
  <2> QED
      BY <2>1, <2>3 DEF VacatedOK
<1>7. CASE PreemptOne
  <2>1. /\ pc = "schedule" /\ pc' = "schedule" /\ batch = <<>> /\ waiting # <<>> /\ running # <<>>
        /\ running' = Without(running, Victim) /\ Free(slot[Victim]) /\ preempted' = preempted + 1
        /\ waiting' = waiting \/ waiting' = Append(waiting, Victim)
      BY <1>7 DEF PreemptOne, AllTokenIds, BlockPressure, Joined
  <2>2. PICK v \in Range(running) : v = Victim
      BY <2>1, VictimRuns
  <2>3. v \in Ids /\ slot[v] \in Slots /\ freeSlots[slot[v]] = 0
      BY <2>2, OwnersAre, OwnerFacts
  <2>4. Len(running') = Len(running) - 1
      BY <2>1, <2>2, ReleaseFacts
  <2>5. waiting' # <<>>
      BY <1>2, <2>1, <2>2, <2>3, AppendFacts
  <2>6. HasFreeSlot'
    <3>1. freeSlots' = [freeSlots EXCEPT ![slot[v]] = @ + 1] /\ freeSlots \in [Slots -> 0..1]
        BY <1>1, <2>1, <2>2 DEF Free, TypeOK, KVTypeOK
    <3>2. PICK s \in Slots : s = slot[v]
        BY <2>3
    <3>3. freeSlots'[s] > 0
        BY <2>3, <3>1, <3>2
    <3> QED
        BY <3>3 DEF HasFreeSlot
  <2>7. preempted' + Len(running') <= MaxNumSeqs
      BY <1>2, <2>1, <2>4 DEF VacatedOK
  <2> QED
      BY <2>1, <2>5, <2>6, <2>7 DEF VacatedOK
<1>8. CASE ReturnPrefill \/ ReturnDecode \/ RelayRaise \/ PostDone
    BY <1>8 DEF VacatedOK, ReturnPrefill, ReturnDecode, RelayRaise, PostDone
<1>9. CASE EnsureOne \/ PrefillOne \/ DecodeOne \/ EncodeOne \/ StoreOne \/ PostFree
    BY <1>9 DEF VacatedOK, EnsureOne, PrefillOne, DecodeOne, EncodeOne, StoreOne, PostFree, Advance, callVars
<1> QED
    BY <1>3, <1>4, <1>5, <1>6, <1>7, <1>8, <1>9 DEF Next, EngineStep

\* With no owner of a slot only the prefix cache holds blocks, and it may not
\* hold them all.
LEMMA NobodyHoldsAll ==
  ASSUME HeldInv, SlotsKept, BudgetHolds, MaxPrefixBlocks < Cardinality(Blocks), Owners = {}
  PROVE  HasFreeBlock
<1> SUFFICES ASSUME ~ HasFreeBlock PROVE FALSE
    OBVIOUS
<1>1. KVTypeOK /\ RefcountsExact /\ PoolConserved /\ PinsExact /\ FreeSlotsEmpty
    BY DEF HeldInv, CountsInv
<1>2. \A s \in Slots : table[s] = <<>>
    BY <1>1 DEF SlotsKept, FreeSlotsEmpty
<1>3. Range(<<>>) = {}
    BY DEF Range
<1>4. \A b \in Blocks : Holders(b) = {}
    BY <1>2, <1>3 DEF Holders
<1>5. ASSUME NEW b \in Blocks PROVE pins[b] > 0
  <2>1. freeBlocks[b] \in 0..1 /\ ~ (freeBlocks[b] > 0) /\ pins[b] \in Nat
      BY <1>1 DEF HasFreeBlock, KVTypeOK
  <2>2. refs[b] # 0
      BY <1>1, <2>1 DEF PoolConserved
  <2>3. refs[b] = 0 + pins[b]
      BY <1>1, <1>4, FS_EmptySet DEF RefcountsExact, PinsExact
  <2> QED
      BY <2>1, <2>2, <2>3
<1>6. {b \in Blocks : pins[b] > 0} = Blocks
    BY <1>5
<1>7. Cardinality(Blocks) \in Nat /\ MaxPrefixBlocks \in Nat
    BY SizesAssumption, FS_CardinalityType
<1> QED
    BY <1>6, <1>7 DEF BudgetHolds

\* schedule() ends its preemptions with an admission (scheduler.py's loop under
\* block pressure): when every running sequence has been evicted, the blocks
\* the prefix cache may pin leave one for the head of the waiting list.
\* max_prefix_block_fraction keeps the budget below the pool.
THEOREM EnginePreemptionAdmits ==
  ASSUME Embeds = {}, MaxPrefixBlocks < Cardinality(Blocks)
  PROVE  Spec => PreemptionAdmits
<1>1. HeldInv /\ ServedInv /\ PressureInv /\ [Next]_vars => PressureInv'
    BY BudgetKept, VacatedKept DEF PressureInv
<1>2. HeldInv /\ ServedInv /\ PressureInv /\ [Next]_vars => [ReturnDecode => preempted = 0]_vars
  <2> SUFFICES ASSUME HeldInv, ServedInv, PressureInv, ReturnDecode, preempted # 0
               PROVE  FALSE
      OBVIOUS
  <2>1. TypeOK /\ SlotsKept /\ VacatedOK /\ BudgetHolds
      BY DEF HeldInv, ServedInv, QueuesServed, PressureInv
  <2>2. running \in Seq(Ids) /\ Len(running) \in Nat /\ preempted \in Nat /\ MaxNumSeqs \in Nat
    <3>1. MaxNumSeqs \in Nat
        BY EngineAssumption
    <3> QED
        BY <2>1, <3>1, LenProperties DEF TypeOK
  <2>3. pc = "schedule" /\ batch = <<>> /\ ~ CanAdmit /\ ~ (BlockPressure /\ preempted < MaxNumSeqs)
      BY DEF ReturnDecode
  <2>4. waiting # <<>> /\ HasFreeSlot /\ preempted + Len(running) <= MaxNumSeqs
      BY <2>1, <2>2, <2>3 DEF VacatedOK
  <2>5. Len(running) + Len(batch) < MaxNumSeqs
      BY <2>2, <2>3, <2>4, EmptySeq
  <2>6. ~ HasFreeBlock
      BY <2>3, <2>4, <2>5 DEF CanAdmit
  <2>7. running = <<>>
    <3> SUFFICES ASSUME running # <<>> PROVE FALSE
        OBVIOUS
    <3>1. preempted = MaxNumSeqs
        BY <2>2, <2>3, <2>4, <2>6 DEF BlockPressure
    <3> QED
        BY <2>2, <2>4, <3>1, EmptySeq
  <2>8. Owners = {}
      BY <2>3, <2>7 DEF Owners, Range
  <2> QED
      BY <2>1, <2>6, <2>8, NobodyHoldsAll
<1> QED
    BY <1>1, <1>2, InitPressure, EngineKept, PTL DEF Spec, PreemptionAdmits

-----------------------------------------------------------------------------
(* The denoising loop of Denoiser.                                          *)

\* The positions behind the prompt.
Span == (request.prompt + 1)..(request.prompt + request.tokens)

\* The steps that are left, and the positions still masked.
Left == request.steps - turn
Open == Cardinality(masked)

\* Each forward so far decided q positions or one more, none of them none, and
\* what is still masked is as much for every step left.
SpreadBy(q) ==
  /\ q * Left <= Open /\ Open <= (q + 1) * Left
  /\ \A f \in 1..turn : Share(f) \in {q, q + 1} /\ Share(f) > 0

\* The canvas is the prompt, what the forwards decided, and masks where masked
\* says so.
CanvasIs ==
  /\ DOMAIN canvas = 1..(request.prompt + request.tokens)
  /\ \A p \in DOMAIN canvas :
       IF p <= request.prompt THEN canvas[p] = Given
       ELSE IF p \in masked THEN canvas[p] = Mask ELSE canvas[p] \in 1..turn

\* While the loop runs the canvas is as far as its steps, and what is left is
\* spread over the steps left.
DenoiseInv ==
  /\ phase \in {"idle", "loop", "done"}
  /\ phase = "loop" =>
       /\ request \in [prompt : Nat, tokens : Nat, steps : Nat]
       /\ turn \in 0..request.steps
       /\ masked \subseteq Span /\ (turn = 0 => masked = Span)
       /\ forwards = (IF masked = {} /\ turn > 0 THEN turn ELSE turn + 1)
       /\ chance = {}
       /\ CanvasIs
       /\ request.steps > 0 => \E q \in Nat : SpreadBy(q)
  /\ DenoisedOnce

-----------------------------------------------------------------------------
\* Products keep the order.
LEMMA ProductsGrow ==
  ASSUME NEW a \in Nat, NEW b \in Nat, a <= b, NEW c \in Nat
  PROVE  a * c <= b * c /\ a * c \in Nat /\ b * c \in Nat
<1>1. PICK k \in Nat : b = a + k
    BY b - a \in Nat
<1>2. b * c = a * c + k * c /\ k * c \in Nat /\ a * c \in Nat
    BY <1>1
<1> QED
    BY <1>2

\* The most equal share of m positions over the steps left is q or q + 1, and
\* leaves as much for every step after it.
LEMMA PortionFacts ==
  ASSUME NEW q \in Nat, NEW m \in Nat \ {0}, NEW left \in Nat \ {0},
         q * left <= m, m <= (q + 1) * left
  PROVE  LET n == Min({Max({1, m \div left}), m})
         IN  /\ n \in Nat /\ n \in {q, q + 1} /\ n > 0 /\ n <= m
             /\ q * (left - 1) <= m - n /\ m - n <= (q + 1) * (left - 1)
<1> DEFINE d == m \div left
           n == Min({Max({1, d}), m})
<1>1. d \in Nat /\ d * left <= m /\ m < (d + 1) * left
    OBVIOUS
<1>2. d <= m
  <2>1. d * 1 <= d * left
      BY <1>1
  <2> QED
      BY <1>1, <2>1
<1> HIDE DEF d
<1>3. n = IF d = 0 THEN 1 ELSE d
  <2>1. Max({1, d}) = IF d = 0 THEN 1 ELSE d
      BY <1>1 DEF Max
  <2>2. Max({1, d}) \in Nat /\ Max({1, d}) <= m
      BY <1>1, <1>2, <2>1
  <2> HIDE DEF d
  <2>3. \A x \in Nat : x <= m => Min({x, m}) = x
      BY DEF Min
  <2> QED
      BY <2>1, <2>2, <2>3
<1>4. q <= d
  <2> SUFFICES ASSUME d + 1 <= q PROVE FALSE
      BY <1>1
  <2>1. (d + 1) * left <= q * left
      BY <1>1, ProductsGrow
  <2> QED
      BY <1>1, <2>1
<1>5. d <= q + 1
  <2> SUFFICES ASSUME q + 2 <= d PROVE FALSE
      BY <1>1
  <2>1. (q + 2) * left <= d * left
      BY <1>1, ProductsGrow
  <2>2. (q + 2) * left = (q + 1) * left + left
      OBVIOUS
  <2>3. (q + 1) * left \in Nat
      OBVIOUS
  <2> QED
      BY <1>1, <2>1, <2>2, <2>3
<1>6. /\ q * (left - 1) = q * left - q /\ (q + 1) * (left - 1) = (q + 1) * left - (q + 1)
      /\ (q + 1) * left = q * left + left /\ q * left \in Nat
    OBVIOUS
<1>7. n \in {q, q + 1}
    BY <1>1, <1>3, <1>4, <1>5
<1>8. n = q => m - n <= (q + 1) * (left - 1)
  <2> SUFFICES ASSUME n = q PROVE m - n <= (q + 1) * (left - 1)
      OBVIOUS
  <2>1. d = q
      BY <1>1, <1>3, <1>4
  <2>2. m < (q + 1) * left
      BY <1>1, <2>1
  <2> HIDE DEF n
  <2> QED
      BY <1>6, <2>2
<1>9. n = q + 1 => q * (left - 1) <= m - n
  <2> SUFFICES ASSUME n = q + 1 PROVE q * (left - 1) <= m - n
      OBVIOUS
  <2>1. CASE d = 0
    <3>1. q = 0
        BY <1>1, <1>4, <2>1
    <3>2. 0 * (left - 1) = 0
        OBVIOUS
    <3> HIDE DEF n
    <3> QED
        BY <3>1, <3>2
  <2>2. CASE d = q + 1
    <3>1. (q + 1) * left <= m
        BY <1>1, <2>2
    <3> HIDE DEF n
    <3> QED
        BY <1>6, <3>1
  <2> QED
      BY <1>1, <1>3, <2>1, <2>2
<1>10. /\ n = q => q * (left - 1) <= m - n
       /\ n = q + 1 => m - n <= (q + 1) * (left - 1)
  <2> HIDE DEF n
  <2> QED
      BY <1>6
<1>11. n \in Nat /\ n > 0 /\ n <= m
    BY <1>1, <1>2, <1>3
<1> QED
    BY <1>7, <1>8, <1>9, <1>10, <1>11 DEF d

\* The span is as large as max_tokens.
LEMMA SpanFacts ==
  ASSUME request \in [prompt : Nat, tokens : Nat, steps : Nat]
  PROVE  /\ IsFiniteSet(Span) /\ Cardinality(Span) = request.tokens
         /\ Span \subseteq 1..(request.prompt + request.tokens)
<1>1. request.prompt \in Nat /\ request.tokens \in Nat
    OBVIOUS
<1>2. /\ IsFiniteSet(Span)
      /\ Cardinality(Span) = IF request.prompt + 1 > request.prompt + request.tokens THEN 0
                             ELSE (request.prompt + request.tokens) - (request.prompt + 1) + 1
  <2> DEFINE a == request.prompt + 1
             b == request.prompt + request.tokens
  <2>1. a \in Int /\ b \in Int
      BY <1>1
  <2>2. Span = a..b
      BY DEF Span
  <2> HIDE DEF a, b
  <2>3. IsFiniteSet(a..b) /\ Cardinality(a..b) = IF a > b THEN 0 ELSE b - a + 1
      BY <2>1, FS_Interval
  <2> QED
      BY <2>2, <2>3 DEF a, b
<1>3. Cardinality(Span) = request.tokens
    BY <1>1, <1>2
<1> QED
    BY <1>1, <1>2, <1>3 DEF Span

\* A fresh span is all masked.
LEMMA BeginKeeps ==
  ASSUME DenoiseInv, NEW plen \in PromptSizes, NEW olen \in OutputSizes, NEW count \in StepCounts,
         Begin(plen, olen, count)
  PROVE  DenoiseInv'
<1>1. /\ request' = [prompt |-> plen, tokens |-> olen, steps |-> count]
      /\ canvas' = [p \in 1..(plen + olen) |-> IF p <= plen THEN Given ELSE Mask]
      /\ masked' = (plen + 1)..(plen + olen)
      /\ forwards' = 1 /\ turn' = 0 /\ phase' = "loop" /\ chance' = {}
    BY DEF Begin
<1>2. plen \in Nat /\ olen \in Nat /\ count \in Nat
    BY DenoiserAssumption
<1>3. request' \in [prompt : Nat, tokens : Nat, steps : Nat] /\ masked' = Span'
    BY <1>1, <1>2 DEF Span
<1>4. CanvasIs'
    BY <1>1, <1>2 DEF CanvasIs
<1>5. Open' = olen
  <2>1. Cardinality(Span') = olen
    <3>1. Span' = (plen + 1)..(plen + olen)
        BY <1>1 DEF Span
    <3>2. Cardinality((plen + 1)..(plen + olen))
            = IF plen + 1 > plen + olen THEN 0 ELSE (plen + olen) - (plen + 1) + 1
        BY <1>2, FS_Interval
    <3> QED
        BY <1>2, <3>1, <3>2
  <2> QED
      BY <1>3, <2>1 DEF Open
<1>6. Left' = count /\ 1..turn' = {}
    BY <1>1, <1>2 DEF Left
<1>7. count > 0 => \E q \in Nat : q * count <= olen /\ olen <= (q + 1) * count
  <2> SUFFICES ASSUME count > 0
               PROVE  /\ olen \div count \in Nat /\ (olen \div count) * count <= olen
                      /\ olen <= (olen \div count + 1) * count
      OBVIOUS
  <2> QED
      BY <1>2
<1>8. count > 0 => \E q \in Nat : SpreadBy(q)'
    BY <1>5, <1>6, <1>7 DEF SpreadBy
<1>9. DenoisedOnce'
    BY <1>1 DEF DenoisedOnce
<1> QED
    BY <1>1, <1>2, <1>3, <1>4, <1>8, <1>9 DEF DenoiseInv

\* A step gives the chosen positions to the newest forward and no other position
\* to any.
LEMMA UnmaskKeeps ==
  ASSUME DenoiseInv, Unmask
  PROVE  DenoiseInv'
<1>1. /\ phase = "loop" /\ turn < request.steps /\ masked # {}
      /\ turn' = turn + 1 /\ forwards' = (IF masked' = {} THEN forwards ELSE forwards + 1)
      /\ request' = request /\ phase' = phase /\ chance' = chance
    BY DEF Unmask
<1>2. PICK chosen \in kSubset(Unmasked, masked) :
        /\ canvas' = [p \in DOMAIN canvas |-> IF p \in chosen THEN forwards ELSE canvas[p]]
        /\ masked' = masked \ chosen
    BY DEF Unmask
<1>3. /\ request \in [prompt : Nat, tokens : Nat, steps : Nat]
      /\ request.prompt \in Nat /\ request.tokens \in Nat /\ request.steps \in Nat
      /\ turn \in Nat /\ turn \in 0..request.steps
      /\ masked \subseteq Span /\ forwards = turn + 1 /\ chance = {} /\ CanvasIs
    BY <1>1 DEF DenoiseInv
<1>4. PICK q \in Nat : SpreadBy(q)
    BY <1>1, <1>3 DEF DenoiseInv
<1>5. chosen \subseteq masked /\ Cardinality(chosen) = Unmasked
    BY DEF kSubset
<1>6. /\ IsFiniteSet(masked) /\ IsFiniteSet(chosen) /\ Open \in Nat \ {0}
  <2>1. IsFiniteSet(masked)
      BY <1>3, SpanFacts, FS_Subset
  <2>2. Cardinality(masked) \in Nat /\ Cardinality(masked) # 0
      BY <1>1, <2>1, FS_CardinalityType, FS_EmptySet
  <2> QED
      BY <1>5, <2>1, <2>2, FS_Subset DEF Open
<1>7. Left \in Nat \ {0} /\ Left' = Left - 1
    BY <1>1, <1>3 DEF Left
<1>8. /\ Unmasked \in {q, q + 1} /\ Unmasked > 0 /\ Unmasked \in Nat /\ Unmasked <= Open
      /\ q * (Left - 1) <= Open - Unmasked /\ Open - Unmasked <= (q + 1) * (Left - 1)
  <2>1. q * Left <= Open /\ Open <= (q + 1) * Left
      BY <1>4 DEF SpreadBy
  <2>2. Unmasked = Min({Max({1, Open \div Left}), Open})
      BY DEF Unmasked, Open, Left
  <2> QED
      BY <1>6, <1>7, <2>1, <2>2, PortionFacts
<1>9. Open' = Open - Unmasked
  <2>1. masked \cap chosen = chosen
      BY <1>5
  <2>2. Cardinality(masked \ chosen) = Cardinality(masked) - Cardinality(masked \cap chosen)
      BY <1>6, FS_Difference
  <2> QED
      BY <1>2, <1>5, <2>1, <2>2 DEF Open
<1>10. masked' \subseteq Span' /\ Span' = Span
    BY <1>1, <1>2, <1>3 DEF Span
<1>11. \A p \in masked : p \in DOMAIN canvas /\ p > request.prompt /\ canvas[p] = Mask
    BY <1>3 DEF CanvasIs, Span
<1>12. CanvasIs'
  <2>1. DOMAIN canvas' = 1..(request'.prompt + request'.tokens)
      BY <1>1, <1>2, <1>3 DEF CanvasIs
  <2>2. ASSUME NEW p \in DOMAIN canvas
        PROVE  IF p <= request.prompt THEN canvas'[p] = Given
               ELSE IF p \in masked' THEN canvas'[p] = Mask ELSE canvas'[p] \in 1..turn + 1
    <3>1. CASE p \in chosen
      <4>1. p > request.prompt /\ p \notin masked'
          BY <1>2, <1>5, <1>11, <3>1
      <4>2. canvas'[p] = turn + 1
          BY <1>2, <1>3, <3>1
      <4>3. p \in Nat
          BY <1>3 DEF CanvasIs
      <4> QED
          BY <1>3, <4>1, <4>2, <4>3
    <3>2. CASE p \notin chosen
      <4>1. canvas'[p] = canvas[p] /\ (p \in masked' <=> p \in masked)
          BY <1>2, <3>2
      <4>2. IF p <= request.prompt THEN canvas[p] = Given
            ELSE IF p \in masked THEN canvas[p] = Mask ELSE canvas[p] \in 1..turn
          BY <1>3 DEF CanvasIs
      <4>3. \A x \in 1..turn : x \in 1..turn + 1
          BY <1>3
      <4> QED
          BY <4>1, <4>2, <4>3
    <3> QED
        BY <3>1, <3>2
  <2>3. DOMAIN canvas' = DOMAIN canvas
      BY <1>2
  <2> QED
      BY <1>1, <2>1, <2>2, <2>3 DEF CanvasIs
<1>13. ASSUME NEW f \in 1..turn PROVE Share(f)' = Share(f)
  <2>1. f # forwards /\ f # Mask
      BY <1>3 DEF Mask
  <2>2. \A p \in DOMAIN canvas : canvas'[p] = f <=> canvas[p] = f
    <3> SUFFICES ASSUME NEW p \in DOMAIN canvas PROVE canvas'[p] = f <=> canvas[p] = f
        OBVIOUS
    <3>1. CASE p \in chosen
      <4>1. canvas[p] = Mask /\ canvas'[p] = forwards
          BY <1>2, <1>5, <1>11, <3>1
      <4> QED
          BY <2>1, <4>1
    <3>2. CASE p \notin chosen
        BY <1>2, <3>2
    <3> QED
        BY <3>1, <3>2
  <2>3. {p \in DOMAIN canvas' : canvas'[p] = f} = {p \in DOMAIN canvas : canvas[p] = f}
      BY <1>2, <2>2
  <2> QED
      BY <2>3 DEF Share
<1>14. ASSUME NEW f, f = turn + 1 PROVE Share(f)' = Unmasked
  <2>1. \A p \in DOMAIN canvas : canvas'[p] = turn + 1 <=> p \in chosen
    <3> SUFFICES ASSUME NEW p \in DOMAIN canvas, p \notin chosen PROVE canvas[p] # turn + 1
        BY <1>2, <1>3
    <3>1. canvas[p] \in {Given, Mask} \cup 1..turn
        BY <1>3 DEF CanvasIs
    <3> QED
        BY <1>3, <3>1 DEF Given, Mask
  <2>2. {p \in DOMAIN canvas' : canvas'[p] = turn + 1} = chosen
      BY <1>2, <1>5, <1>11, <2>1
  <2>3. Share(f)' = Cardinality(chosen)
      BY <1>14, <2>2 DEF Share
  <2> QED
      BY <1>5, <2>3
<1>15. SpreadBy(q)'
  <2>1. ASSUME NEW f \in 1..turn' PROVE Share(f)' \in {q, q + 1} /\ Share(f)' > 0
    <3>1. CASE f \in 1..turn
        BY <1>4, <1>13, <3>1 DEF SpreadBy
    <3>2. CASE f = turn + 1
        BY <1>8, <1>14, <3>2
    <3> QED
        BY <1>1, <1>3, <3>1, <3>2
  <2> QED
      BY <1>7, <1>8, <1>9, <2>1 DEF SpreadBy
<1>16. /\ turn' \in 0..request'.steps /\ turn' > 0
       /\ forwards' = (IF masked' = {} /\ turn' > 0 THEN turn' ELSE turn' + 1)
    BY <1>1, <1>3
<1>17. DenoisedOnce'
    BY <1>1 DEF DenoisedOnce
<1> QED
    BY <1>1, <1>3, <1>10, <1>12, <1>15, <1>16, <1>17 DEF DenoiseInv

\* With denoise steps nothing is left masked when they are over; without them
\* the one forward decides the whole span.
LEMMA DiscretizeKeeps ==
  ASSUME DenoiseInv, Discretize
  PROVE  DenoiseInv'
<1>1. /\ phase = "loop" /\ (turn = request.steps \/ masked = {})
      /\ canvas' = [p \in DOMAIN canvas |-> IF p \in masked THEN forwards ELSE canvas[p]]
      /\ chance' = masked /\ masked' = {} /\ phase' = "done"
      /\ request' = request /\ turn' = turn /\ forwards' = forwards
    BY DEF Discretize
<1>2. /\ request \in [prompt : Nat, tokens : Nat, steps : Nat]
      /\ request.prompt \in Nat /\ request.tokens \in Nat /\ request.steps \in Nat
      /\ turn \in Nat /\ turn \in 0..request.steps
      /\ masked \subseteq Span /\ (turn = 0 => masked = Span) /\ chance = {} /\ CanvasIs
      /\ forwards = (IF masked = {} /\ turn > 0 THEN turn ELSE turn + 1)
      /\ forwards \in Nat /\ forwards > 0
    BY <1>1 DEF DenoiseInv
<1>3. /\ DOMAIN canvas' = DOMAIN canvas /\ DOMAIN canvas = 1..(request.prompt + request.tokens)
      /\ \A p \in DOMAIN canvas : canvas'[p] = IF p \in masked THEN forwards ELSE canvas[p]
      /\ \A p \in masked : p \in DOMAIN canvas /\ p > request.prompt
    BY <1>1, <1>2 DEF CanvasIs, Span
<1>4. \A p \in DOMAIN canvas : IF p <= request.prompt THEN canvas'[p] = Given
                               ELSE canvas'[p] \in 1..forwards
  <2> SUFFICES ASSUME NEW p \in DOMAIN canvas
               PROVE  IF p <= request.prompt THEN canvas'[p] = Given ELSE canvas'[p] \in 1..forwards
      OBVIOUS
  <2>1. IF p <= request.prompt THEN canvas[p] = Given
        ELSE IF p \in masked THEN canvas[p] = Mask ELSE canvas[p] \in 1..turn
      BY <1>2 DEF CanvasIs
  <2>2. forwards \in 1..forwards /\ \A x \in 1..turn : x \in 1..forwards
      BY <1>2
  <2>3. p \in masked => ~ (p <= request.prompt)
      BY <1>2 DEF Span
  <2> QED
      BY <1>3, <2>1, <2>2, <2>3
<1>5. /\ \A p \in DOMAIN canvas' : (canvas'[p] = Given) <=> (p <= request'.prompt)
      /\ \A p \in DOMAIN canvas' : canvas'[p] # Mask
    BY <1>1, <1>3, <1>4 DEF Given, Mask
<1>6. /\ forwards <= Max({request.steps, 1})
      /\ request.tokens > 0 => \A f \in 1..forwards : Share(f)' > 0
      /\ \E q \in Nat : \A f \in 1..forwards : Share(f)' > 0 => Share(f)' \in {q, q + 1}
      /\ request.steps > 0 => masked = {}
  <2>1. Max({request.steps, 1}) = IF request.steps = 0 THEN 1 ELSE request.steps
      BY <1>2 DEF Max
  <2>2. CASE request.steps > 0
    <3>1. PICK q \in Nat : SpreadBy(q)
        BY <1>1, <1>2, <2>2 DEF DenoiseInv
    <3>2. IsFiniteSet(masked) /\ Cardinality(masked) \in Nat
        BY <1>2, SpanFacts, FS_Subset, FS_CardinalityType
    <3>3. masked = {}
      <4> SUFFICES ASSUME turn = request.steps PROVE masked = {}
          BY <1>1
      <4>1. Left = 0
          BY <1>2 DEF Left
      <4>2. Open <= (q + 1) * 0
          BY <3>1, <4>1 DEF SpreadBy
      <4>3. Cardinality(masked) = 0
          BY <3>2, <4>2 DEF Open
      <4> QED
          BY <3>2, <4>3, FS_EmptySet
    <3>4. canvas' = [p \in DOMAIN canvas |-> canvas[p]]
        BY <1>1, <3>3
    <3>5. \A f : Share(f)' = Share(f)
      <4> TAKE f
      <4>1. {p \in DOMAIN canvas' : canvas'[p] = f} = {p \in DOMAIN canvas : canvas[p] = f}
          BY <3>4
      <4> QED
          BY <4>1 DEF Share
    <3>6. CASE turn > 0
      <4>1. forwards = turn
          BY <1>2, <3>3, <3>6
      <4>2. \A f \in 1..turn : Share(f)' \in {q, q + 1} /\ Share(f)' > 0
          BY <3>1, <3>5 DEF SpreadBy
      <4> QED
          BY <1>2, <2>1, <2>2, <3>3, <4>1, <4>2
    <3>7. CASE turn = 0
      <4>1. forwards = 1 /\ Span = {}
          BY <1>2, <3>3, <3>7
      <4>2. request.tokens = 0
        <5>1. request.tokens > 0 => request.prompt + 1 \in Span
            BY <1>2 DEF Span
        <5> QED
            BY <1>2, <4>1, <5>1
      <4>3. ASSUME NEW f \in 1..forwards PROVE Share(f)' = 0
        <5>1. \A p \in DOMAIN canvas' : canvas'[p] = Given
            BY <1>2, <1>3, <1>4, <4>2
        <5>2. {p \in DOMAIN canvas' : canvas'[p] = f} = {}
            BY <1>2, <5>1 DEF Given
        <5> QED
            BY <5>2, FS_EmptySet DEF Share
      <4> QED
          BY <1>2, <2>1, <2>2, <3>3, <4>1, <4>2, <4>3
    <3>8. turn > 0 \/ turn = 0
        BY <1>2
    <3> QED
        BY <3>6, <3>7, <3>8
  <2>3. CASE request.steps = 0
    <3>1. turn = 0 /\ forwards = 1 /\ masked = Span
        BY <1>2, <2>3
    <3>2. {p \in DOMAIN canvas' : canvas'[p] = 1} = Span
      <4>1. \A p \in Span : p \in DOMAIN canvas /\ canvas'[p] = 1
          BY <1>3, <3>1
      <4>2. \A p \in DOMAIN canvas : p \notin Span => p <= request.prompt
          BY <1>2, <1>3 DEF Span
      <4>3. \A p \in DOMAIN canvas : p <= request.prompt => canvas'[p] # 1
          BY <1>4 DEF Given
      <4> QED
          BY <1>3, <4>1, <4>2, <4>3
    <3>3. Share(1)' = request.tokens
        BY <1>2, <3>2, SpanFacts DEF Share
    <3>4. \A f \in 1..forwards : f = 1
        BY <3>1
    <3>5. forwards <= Max({request.steps, 1})
        BY <2>1, <2>3, <3>1
    <3>6. request.tokens > 0 => \A f \in 1..forwards : Share(f)' > 0
        BY <3>3, <3>4
    <3>7. \A f \in 1..forwards : Share(f)' \in {request.tokens, request.tokens + 1}
        BY <3>3, <3>4
    <3>8. \E q \in Nat : \A f \in 1..forwards : Share(f)' > 0 => Share(f)' \in {q, q + 1}
        BY <1>2, <3>7
    <3>9. ~ (request.steps > 0)
        BY <2>3
    <3> QED
        BY <3>5, <3>6, <3>8, <3>9
  <2> QED
      BY <1>2, <2>2, <2>3
<1>7. request'.tokens > 0 => Drawn' = 1..forwards'
    BY <1>1, <1>6 DEF Drawn
<1>8. \A f, g \in Drawn' : Share(f)' <= Share(g)' + 1
  <2>1. PICK q \in Nat : \A f \in 1..forwards : Share(f)' > 0 => Share(f)' \in {q, q + 1}
      BY <1>6
  <2>2. \A f \in Drawn' : Share(f)' \in {q, q + 1}
      BY <1>1, <2>1 DEF Drawn
  <2>3. \A a, b \in {q, q + 1} : a <= b + 1
      OBVIOUS
  <2> QED
      BY <2>2, <2>3
<1>9. DenoisedOnce'
    BY <1>1, <1>3, <1>5, <1>6, <1>7, <1>8 DEF DenoisedOnce
<1> QED
    BY <1>1, <1>9 DEF DenoiseInv

\* DiffusionDecodeStrategy.generate (engine/decode_strategy.py): whatever the
\* request and the number of steps, the span comes out decided once, spread evenly.
THEOREM SpanDenoised == DenoiseSpec => []DenoisedOnce
<1>1. DenoiseInit => DenoiseInv
    BY DEF DenoiseInit, DenoiseInv, DenoisedOnce
<1>2. DenoiseInv /\ [DenoiseNext]_denoiseVars => DenoiseInv'
  <2> SUFFICES ASSUME DenoiseInv, [DenoiseNext]_denoiseVars PROVE DenoiseInv'
      OBVIOUS
  <2>1. CASE DenoiseNext
      BY <2>1, BeginKeeps, UnmaskKeeps, DiscretizeKeeps DEF DenoiseNext
  <2>2. CASE UNCHANGED denoiseVars
    <3>1. /\ phase' = phase /\ request' = request /\ turn' = turn /\ masked' = masked
          /\ forwards' = forwards /\ chance' = chance /\ canvas' = canvas
        BY <2>2 DEF denoiseVars
    <3>2. /\ Span' = Span /\ Left' = Left /\ Open' = Open /\ Drawn' = Drawn
          /\ \A f : Share(f)' = Share(f)
        BY <3>1 DEF Span, Left, Open, Drawn, Share
    <3>3. /\ CanvasIs' <=> CanvasIs
          /\ \A q : SpreadBy(q)' <=> SpreadBy(q)
        BY <3>1, <3>2 DEF CanvasIs, SpreadBy
    <3>4. DenoisedOnce' <=> DenoisedOnce
        BY <3>1, <3>2 DEF DenoisedOnce
    <3> QED
        BY <3>1, <3>2, <3>3, <3>4 DEF DenoiseInv
  <2> QED
      BY <2>1, <2>2
<1>3. DenoiseInv => DenoisedOnce
    BY DEF DenoiseInv
<1> QED
    BY <1>1, <1>2, <1>3, PTL DEF DenoiseSpec
=============================================================================
