--------------------------- MODULE EngineWorkerProofs ---------------------------
(***************************************************************************)
(* Theorems about the worker of api/runtime.py, for any number of handlers *)
(* and callers, failing calls of encode() included: no list of the         *)
(* scheduler holds a request without its entry in _pending, close()        *)
(* abandons no live work, and every queue carries its request's tokens and *)
(* one Done, whichever thread is ahead of the other.                       *)
(***************************************************************************)
EXTENDS EngineWorker, QueueLemmas

\* The handlers that have not put their request into the inbox.
Unsent == {"start", "refused", "checked"}

\* Done is in r's queue: the terminal flag is set, and _dispatch is not between
\* setting it and the put.
DonePut(r) == terminal[r] /\ r \notin Range(todo)

\* The tokens of a queue, and the tokens with the Done that ends them.
Numbers(n) == [i \in 1..n |-> i]
Ending(n) == [i \in 1..(n + 1) |-> IF i <= n THEN i ELSE Done]

\* What is in the inbox was put there by a handler, and a cancellation by one
\* that reads no more.
InboxOK ==
  \A item \in Range(inbox) :
    /\ item.kind = "generate" => hpc[item.who] \notin Unsent
    /\ item.kind = "cancel" => hpc[item.who] = "gone"

\* _pending holds whatever the engine was given and is not over, those a failed
\* encode() left in no list included until they are cancelled.
PendingOK ==
  /\ IsInjective(pending)
  /\ \A r \in Range(pending) : life[r] # "new" /\ hpc[r] \notin Unsent
  /\ \A r \in Requests : life[r] # "new" /\ ~ terminal[r] => r \in Range(pending)
  /\ \A r \in Requests : terminal[r] => life[r] = "done" \/ r \in lost
  /\ \A r \in lost : life[r] = "live" /\ (terminal[r] => r \notin Range(pending))
  /\ \A r \in Requests : tokens[r] <= MaxTokens[r]
  /\ wpc = "stopped" => pending = <<>>

\* _dispatch visits each entry of _pending once, and deletes those it ended.
VisitsOK ==
  /\ wpc # "dispatch" => todo = <<>> /\ ending = {}
  /\ IsInjective(todo) /\ Range(todo) \subseteq Range(pending)
  /\ \A r \in Range(todo) : terminal[r] => Head(todo) = r /\ sent[r] = tokens[r]
  /\ \A r \in Range(pending) : terminal[r] => r \in ending \/ r \in Range(todo)
  /\ \A r \in ending : r \in Range(pending) /\ terminal[r] /\ r \notin Range(todo)

\* What a handler has read and what is left in its queue are its tokens so far,
\* and Done last once it is put; only a handler that left may miss some.
LogsOK ==
  \A r \in Requests :
    /\ got[r] \o queue[r] = IF DonePut(r) THEN Ending(sent[r]) ELSE Numbers(sent[r])
    /\ DonePut(r) /\ hpc[r] # "gone" => sent[r] = tokens[r]
    /\ hpc[r] = "finished" => DonePut(r) /\ got[r] = Ending(sent[r])

ServiceInv == WorkerTypeOK /\ InboxOK /\ PendingOK /\ VisitsOK /\ LogsOK

-----------------------------------------------------------------------------
(* Items and queues *)

\* What the inbox carries.
Items ==
  {Stop} \cup [kind : {"generate", "cancel"}, who : Requests] \cup [kind : {"encode"}, who : Encoders]

LEMMA ItemFacts ==
  ASSUME NEW item \in Items, item # Stop
  PROVE  \/ item.kind = "generate" /\ item.who \in Requests
         \/ item.kind = "cancel" /\ item.who \in Requests
         \/ item.kind = "encode" /\ item.who \in Encoders
BY DEF Items, Stop

LEMMA MadeItems ==
  /\ Stop \in Items /\ Stop.kind = "stop"
  /\ \A r \in Requests : /\ Item("generate", r) \in Items /\ Item("cancel", r) \in Items
                         /\ Item("generate", r).kind = "generate" /\ Item("generate", r).who = r
                         /\ Item("cancel", r).kind = "cancel" /\ Item("cancel", r).who = r
  /\ \A e \in Encoders : Item("encode", e) \in Items /\ Item("encode", e).kind = "encode"
BY DEF Items, Stop, Item

LEMMA NumbersFacts ==
  ASSUME NEW n \in Nat
  PROVE  /\ Numbers(n) \in Seq(Nat) /\ Len(Numbers(n)) = n
         /\ \A i \in 1..n : Numbers(n)[i] = i
         /\ Ending(n) \in Seq(Nat) /\ Len(Ending(n)) = n + 1
         /\ \A i \in 1..n : Ending(n)[i] = i
         /\ Append(Numbers(n), n + 1) = Numbers(n + 1)
         /\ Append(Numbers(n), Done) = Ending(n)
<1>1. Numbers(n) \in Seq(Nat) /\ Len(Numbers(n)) = n /\ \A i \in 1..n : Numbers(n)[i] = i
    BY DEF Numbers
<1>2. Ending(n) \in Seq(Nat) /\ Len(Ending(n)) = n + 1 /\ \A i \in 1..(n + 1) : Ending(n)[i] = IF i <= n THEN i ELSE Done
    BY DEF Ending, Done
<1>3. Numbers(n + 1) \in Seq(Nat) /\ Len(Numbers(n + 1)) = n + 1 /\ \A i \in 1..(n + 1) : Numbers(n + 1)[i] = i
    BY DEF Numbers
<1>4. /\ Append(Numbers(n), n + 1) \in Seq(Nat) /\ Len(Append(Numbers(n), n + 1)) = n + 1
      /\ \A i \in 1..n : Append(Numbers(n), n + 1)[i] = i
      /\ Append(Numbers(n), n + 1)[n + 1] = n + 1
    BY <1>1, AppendFacts
<1>5. /\ Append(Numbers(n), Done) \in Seq(Nat) /\ Len(Append(Numbers(n), Done)) = n + 1
      /\ \A i \in 1..n : Append(Numbers(n), Done)[i] = i
      /\ Append(Numbers(n), Done)[n + 1] = Done
    BY <1>1, AppendFacts DEF Done
<1>6. \A i \in 1..(n + 1) : i \in 1..n \/ i = n + 1
    OBVIOUS
<1>7. Append(Numbers(n), n + 1) = Numbers(n + 1)
    BY <1>3, <1>4, <1>6, SeqEqual
<1>8. Append(Numbers(n), Done) = Ending(n)
    BY <1>2, <1>5, <1>6, SeqEqual
<1>9. \A i \in 1..n : Ending(n)[i] = i
    BY <1>2
<1> QED
    BY <1>1, <1>2, <1>7, <1>8, <1>9

\* A consumer takes the head of its queue: together they are the same.
LEMMA HeadMoves ==
  ASSUME NEW T, NEW s \in Seq(T), NEW t \in Seq(T), t # <<>>
  PROVE  /\ Append(s, Head(t)) \o Tail(t) = s \o t
         /\ (s \o t)[Len(s) + 1] = Head(t)
         /\ Len(s) \in Nat /\ Len(t) \in Nat /\ Len(t) > 0 /\ Len(s \o t) = Len(s) + Len(t)
<1>1. /\ Len(s) \in Nat /\ Len(t) \in Nat /\ Len(t) > 0 /\ Head(t) \in T /\ Head(t) = t[1]
      /\ Tail(t) \in Seq(T) /\ Len(Tail(t)) = Len(t) - 1
      /\ \A i \in 1..(Len(t) - 1) : Tail(t)[i] = t[i + 1]
    BY TailFacts, LenProperties
<1>2. /\ s \o t \in Seq(T) /\ Len(s \o t) = Len(s) + Len(t)
      /\ \A i \in 1..(Len(s) + Len(t)) : (s \o t)[i] = IF i <= Len(s) THEN s[i] ELSE t[i - Len(s)]
    BY ConcatProperties
<1> DEFINE u == Append(s, Head(t))
<1>3. u \in Seq(T) /\ Len(u) = Len(s) + 1 /\ (\A i \in 1..Len(s) : u[i] = s[i]) /\ u[Len(s) + 1] = t[1]
    BY <1>1, AppendFacts
<1> HIDE DEF u
<1>4. /\ u \o Tail(t) \in Seq(T) /\ Len(u \o Tail(t)) = Len(u) + Len(Tail(t))
      /\ \A i \in 1..(Len(u) + Len(Tail(t))) :
           (u \o Tail(t))[i] = IF i <= Len(u) THEN u[i] ELSE Tail(t)[i - Len(u)]
    BY <1>1, <1>3, ConcatProperties
<1>5. Len(u \o Tail(t)) = Len(s) + Len(t)
    BY <1>1, <1>3, <1>4
<1>6. ASSUME NEW i \in 1..(Len(s) + Len(t)) PROVE (u \o Tail(t))[i] = (s \o t)[i]
  <2>1. CASE i <= Len(s)
      BY <1>1, <1>2, <1>3, <1>4, <2>1
  <2>2. CASE i = Len(s) + 1
    <3>1. ~ (i <= Len(s)) /\ i - Len(s) = 1 /\ i <= Len(u) /\ i \in 1..(Len(u) + Len(Tail(t)))
        BY <1>1, <1>3, <2>2
    <3>2. (s \o t)[i] = t[1]
        BY <1>2, <3>1
    <3>3. (u \o Tail(t))[i] = u[i]
        BY <1>4, <3>1
    <3> QED
        BY <1>3, <2>2, <3>2, <3>3
  <2>3. CASE i > Len(s) + 1
    <3>1. ~ (i <= Len(s)) /\ ~ (i <= Len(u)) /\ i - Len(u) \in 1..(Len(t) - 1) /\ i - Len(u) + 1 = i - Len(s)
        BY <1>1, <1>3, <2>3
    <3> QED
        BY <1>1, <1>2, <1>4, <1>5, <3>1
  <2>4. i <= Len(s) \/ i = Len(s) + 1 \/ i > Len(s) + 1
      BY <1>1
  <2> QED
      BY <2>1, <2>2, <2>3, <2>4
<1>7. u \o Tail(t) = s \o t
    BY <1>2, <1>4, <1>5, <1>6, SeqEqual
<1>8. (s \o t)[Len(s) + 1] = t[1]
  <2>1. Len(s) + 1 \in 1..(Len(s) + Len(t)) /\ ~ (Len(s) + 1 <= Len(s)) /\ Len(s) + 1 - Len(s) = 1
      BY <1>1
  <2> QED
      BY <1>2, <2>1
<1> QED
    BY <1>1, <1>2, <1>7, <1>8 DEF u

\* The worker puts an item behind the others.
LEMMA PutBehind ==
  ASSUME NEW T, NEW s \in Seq(T), NEW t \in Seq(T), NEW x \in T
  PROVE  s \o Append(t, x) = Append(s \o t, x)
<1>1. /\ Len(s) \in Nat /\ Len(t) \in Nat
      /\ s \o t \in Seq(T) /\ Len(s \o t) = Len(s) + Len(t)
      /\ \A i \in 1..(Len(s) + Len(t)) : (s \o t)[i] = IF i <= Len(s) THEN s[i] ELSE t[i - Len(s)]
    BY ConcatProperties, LenProperties
<1>2. /\ Append(t, x) \in Seq(T) /\ Len(Append(t, x)) = Len(t) + 1
      /\ (\A i \in 1..Len(t) : Append(t, x)[i] = t[i]) /\ Append(t, x)[Len(t) + 1] = x
    BY AppendFacts
<1>3. /\ s \o Append(t, x) \in Seq(T) /\ Len(s \o Append(t, x)) = Len(s) + Len(t) + 1
      /\ \A i \in 1..(Len(s) + Len(t) + 1) :
           (s \o Append(t, x))[i] = IF i <= Len(s) THEN s[i] ELSE Append(t, x)[i - Len(s)]
  <2>1. Len(s) + Len(Append(t, x)) = Len(s) + Len(t) + 1
      BY <1>1, <1>2
  <2>2. \A u \in Seq(T) : /\ s \o u \in Seq(T) /\ Len(s \o u) = Len(s) + Len(u)
                           /\ \A i \in 1..(Len(s) + Len(u)) :
                                (s \o u)[i] = IF i <= Len(s) THEN s[i] ELSE u[i - Len(s)]
      BY ConcatProperties
  <2>3. Append(t, x) \in Seq(T)
      BY <1>2
  <2> QED
      BY <2>1, <2>2, <2>3
<1>4. /\ Append(s \o t, x) \in Seq(T) /\ Len(Append(s \o t, x)) = Len(s) + Len(t) + 1
      /\ (\A i \in 1..(Len(s) + Len(t)) : Append(s \o t, x)[i] = (s \o t)[i])
      /\ Append(s \o t, x)[Len(s) + Len(t) + 1] = x
    BY <1>1, AppendFacts
<1>5. ASSUME NEW i \in 1..(Len(s) + Len(t) + 1) PROVE (s \o Append(t, x))[i] = Append(s \o t, x)[i]
  <2>1. CASE i <= Len(s)
      BY <1>1, <1>3, <1>4, <2>1
  <2>2. CASE i > Len(s) /\ i <= Len(s) + Len(t)
    <3>1. i - Len(s) \in 1..Len(t) /\ ~ (i <= Len(s)) /\ i \in 1..(Len(s) + Len(t))
        BY <1>1, <2>2
    <3> QED
        BY <1>1, <1>2, <1>3, <1>4, <3>1
  <2>3. CASE i = Len(s) + Len(t) + 1
    <3>1. i - Len(s) = Len(t) + 1 /\ ~ (i <= Len(s))
        BY <1>1, <2>3
    <3>2. (s \o Append(t, x))[i] = Append(t, x)[Len(t) + 1]
        BY <1>3, <3>1
    <3> QED
        BY <1>2, <1>4, <2>3, <3>2
  <2> QED
      BY <1>1, <2>1, <2>2, <2>3
<1> QED
    BY <1>3, <1>4, <1>5, SeqEqual

-----------------------------------------------------------------------------
(* ServiceInv holds at first and is kept by the handlers *)

LEMMA InitService == Init => ServiceInv
<1> SUFFICES ASSUME Init PROVE ServiceInv
    OBVIOUS
<1>1. /\ Range(<<>>) = {} /\ IsInjective(<<>>) /\ Len(<<>>) = 0
      /\ <<>> \in Seq(Requests) /\ <<>> \in Seq(Nat) /\ <<>> \in Seq(Items)
    BY EmptySeq DEF Range, IsInjective
<1>2. WorkerTypeOK
  <2>1. ContractTypeOK
      BY DEF Init, ContractInit, ContractTypeOK
  <2>2. inbox \in Seq(Items) /\ pending \in Seq(Requests) /\ todo \in Seq(Requests)
      BY <1>1 DEF Init
  <2>3. DOMAIN sent = Requests /\ \A r \in Requests : sent[r] \in 0..tokens[r]
      BY DEF Init, ContractInit
  <2>4. queue \in [Requests -> Seq(Nat)] /\ got \in [Requests -> Seq(Nat)]
      BY <1>1 DEF Init
  <2>5. /\ terminal \in [Requests -> BOOLEAN]
        /\ hpc \in [Requests -> {"start", "refused", "checked", "reading", "aborting", "gone",
                                 "finished"}]
        /\ epc \in [Encoders -> {"start", "refused", "checked", "blocked", "answered", "failed"}]
      BY DEF Init
  <2>6. /\ wpc \in {"top", "drain", "coalesce", "step", "dispatch", "stopped", "dead"}
        /\ wasIdle \in BOOLEAN /\ ending \subseteq Requests /\ emitted \subseteq Requests
        /\ closer \in {"open", "closing", "joining"} /\ lost \subseteq Requests
      BY DEF Init
  <2> QED
      BY <2>1, <2>2, <2>3, <2>4, <2>5, <2>6 DEF WorkerTypeOK, Items
<1>3. InboxOK /\ VisitsOK
    BY <1>1 DEF Init, InboxOK, VisitsOK
<1>4. PendingOK
    BY <1>1, ContractAssumption DEF Init, ContractInit, PendingOK
<1>5. LogsOK
  <2>1. Numbers(0) = <<>> /\ <<>> \o <<>> = <<>>
    <3>1. Numbers(0) \in Seq(Nat) /\ Len(Numbers(0)) = 0
        BY NumbersFacts
    <3> QED
        BY <1>1, <3>1, EmptySeq, ConcatEmptySeq
  <2> QED
      BY <2>1 DEF Init, LogsOK, DonePut
<1> QED
    BY <1>2, <1>3, <1>4, <1>5 DEF ServiceInv

-----------------------------------------------------------------------------
(* What leaves a part of the invariant alone *)

\* A step that adds nothing to the inbox but the sentinel.
LEMMA SameInbox ==
  ASSUME ServiceInv, UNCHANGED hpc, inbox' \in Seq(Items), Range(inbox') \subseteq Range(inbox) \cup {Stop}
  PROVE  InboxOK'
<1>1. \A item \in Range(inbox') : item \in Range(inbox) \/ item.kind = "stop"
    BY MadeItems
<1> QED
    BY <1>1 DEF ServiceInv, InboxOK

\* What the inbox says of a request.
LEMMA InboxFacts ==
  ASSUME WorkerTypeOK
  PROVE  /\ inbox \in Seq(Items)
         /\ \A item \in Range(inbox) : item.kind \in {"generate", "cancel"} => item.who \in Requests
<1>1. inbox \in Seq(Items)
    BY DEF WorkerTypeOK, Items
<1>2. Range(inbox) \subseteq Items
    BY <1>1, SeqFacts
<1> QED
    BY <1>1, <1>2, ItemFacts, MadeItems

\* A step that touches neither _pending nor what it says of a request.
LEMMA SamePending ==
  ASSUME ServiceInv, UNCHANGED <<life, tokens, pending, terminal, lost>>,
         \A r \in Requests : hpc'[r] \in Unsent => hpc[r] \in Unsent,
         wpc' = "stopped" => pending = <<>>
  PROVE  PendingOK'
<1>1. Range(pending) \subseteq Requests
    BY SeqFacts DEF ServiceInv, WorkerTypeOK
<1> QED
    BY <1>1 DEF ServiceInv, PendingOK

\* A step outside _dispatch, or one that touches no part of it.
LEMMA SameVisits ==
  ASSUME ServiceInv, UNCHANGED <<todo, ending, pending, terminal, sent, tokens>>,
         wpc' = wpc \/ (wpc # "dispatch" /\ wpc' # "dispatch")
  PROVE  VisitsOK'
BY DEF ServiceInv, VisitsOK

\* A step that touches no log.
LEMMA SameLogs ==
  ASSUME ServiceInv, UNCHANGED <<todo, terminal, sent, tokens, queue, got>>,
         \A r \in Requests : /\ hpc'[r] = "finished" => hpc[r] = "finished"
                             /\ hpc[r] = "gone" => hpc'[r] = "gone"
  PROVE  LogsOK'
<1>1. \A r \in Requests : DonePut(r)' = DonePut(r)
    BY DEF DonePut
<1> QED
    BY <1>1 DEF ServiceInv, LogsOK

\* Where the threads of others are is no part of the other clauses.
LEMMA KeptTogether ==
  ASSUME WorkerTypeOK', InboxOK', PendingOK', VisitsOK', LogsOK'
  PROVE  ServiceInv'
BY DEF ServiceInv

-----------------------------------------------------------------------------
(* The handlers keep it *)

LEMMA CheckOpenKeeps ==
  ASSUME ServiceInv, NEW r \in Requests, CheckOpen(r)
  PROVE  ServiceInv'
<1>1. WorkerTypeOK'
    BY DEF ServiceInv, WorkerTypeOK, ContractTypeOK, CheckOpen, contractVars, runVars, encVars
<1>2. \A q \in Requests : \/ hpc'[q] = hpc[q]
                          \/ q = r /\ hpc[q] = "start" /\ hpc'[q] \in {"refused", "checked"}
    BY DEF ServiceInv, WorkerTypeOK, CheckOpen
<1>3. UNCHANGED <<life, tokens, wpc, wasIdle, pending, todo, ending, emitted, sent, inbox, terminal,
                  queue, got, lost>>
    BY DEF CheckOpen, contractVars, runVars, encVars
<1>4. InboxOK'
    BY <1>2, <1>3, InboxFacts DEF ServiceInv, InboxOK, Unsent
<1>5. PendingOK'
    BY <1>2, <1>3, SamePending DEF Unsent, ServiceInv, PendingOK
<1>6. VisitsOK'
    BY <1>3, SameVisits
<1>7. LogsOK'
    BY <1>2, <1>3, SameLogs
<1> QED
    BY <1>1, <1>4, <1>5, <1>6, <1>7, KeptTogether

LEMMA SubmitKeeps ==
  ASSUME ServiceInv, NEW r \in Requests, Submit(r)
  PROVE  ServiceInv'
<1> DEFINE item == Item("generate", r)
<1>1. /\ inbox' = Append(inbox, item) /\ item \in Items /\ item.kind = "generate" /\ item.who = r
      /\ inbox \in Seq(Items)
    BY MadeItems, InboxFacts DEF Submit, Enqueue, ServiceInv
<1>2. inbox' \in Seq(Items) /\ Range(inbox') = Range(inbox) \cup {item}
  <2> HIDE DEF item
  <2> QED
    BY <1>1, AppendFacts
<1>3. UNCHANGED <<life, tokens, wpc, wasIdle, pending, todo, ending, emitted, sent, terminal, queue,
                  got, lost>>
    BY DEF Submit, contractVars, runVars, encVars
<1>4. WorkerTypeOK'
    BY <1>2 DEF ServiceInv, WorkerTypeOK, ContractTypeOK, Submit, encVars, contractVars, runVars, Items
<1>5. \A q \in Requests : \/ hpc'[q] = hpc[q] /\ q # r
                          \/ q = r /\ hpc[q] = "checked" /\ hpc'[q] = "reading"
    BY DEF ServiceInv, WorkerTypeOK, Submit
<1>6. InboxOK'
    BY <1>1, <1>2, <1>5, InboxFacts DEF ServiceInv, InboxOK, Unsent
<1>7. PendingOK'
    BY <1>3, <1>5, SamePending DEF Unsent, ServiceInv, PendingOK
<1>8. VisitsOK'
    BY <1>3, SameVisits
<1>9. LogsOK'
    BY <1>3, <1>5, SameLogs
<1> QED
    BY <1>4, <1>6, <1>7, <1>8, <1>9, KeptTogether

\* Done comes once, and last.
LEMMA ReadsDoneLast ==
  ASSUME NEW n \in Nat, NEW s \in Seq(Nat), NEW t \in Seq(Nat), t # <<>>, Head(t) = Done
  PROVE  /\ s \o t # Numbers(n)
         /\ s \o t = Ending(n) => Tail(t) = <<>> /\ Append(s, Head(t)) = Ending(n)
<1>1. /\ Append(s, Head(t)) \o Tail(t) = s \o t
      /\ (s \o t)[Len(s) + 1] = 0
      /\ Len(s) \in Nat /\ Len(t) \in Nat /\ Len(t) > 0 /\ Len(s \o t) = Len(s) + Len(t)
    BY HeadMoves DEF Done
<1> DEFINE u == s \o t
           k == Len(s) + 1
<1>a. u[k] = 0 /\ k \in Nat \ {0} /\ k <= Len(u) /\ Len(u) = k - 1 + Len(t)
    BY <1>1
<1>b. /\ Len(Numbers(n)) = n /\ \A i \in 1..n : Numbers(n)[i] = i
      /\ Len(Ending(n)) = n + 1 /\ \A i \in 1..n : Ending(n)[i] = i
    BY NumbersFacts
<1>c. Tail(t) \in Seq(Nat) /\ Len(Tail(t)) = Len(t) - 1
    BY TailFacts
<1> HIDE DEF u, k
<1>2. u # Numbers(n)
    BY <1>a, <1>b
<1>3. ASSUME u = Ending(n) PROVE Tail(t) = <<>>
  <2>1. Len(u) = n + 1 /\ ~ (k \in 1..n) /\ Len(t) \in Nat
      BY <1>1, <1>3, <1>a, <1>b
  <2>2. k = n + 1 /\ Len(t) = 1
    <3>1. k <= n + 1 /\ k > n /\ n + 1 = k - 1 + Len(t) /\ k \in Nat
        BY <1>a, <2>1
    <3>2. k = n + 1
        BY <3>1
    <3>3. ASSUME NEW l \in Nat, n + 1 = n + 1 - 1 + l PROVE l = 1
        BY <3>3
    <3>4. n + 1 = n + 1 - 1 + Len(t)
        BY <3>1, <3>2
    <3>5. Len(t) = 1
        BY <2>1, <3>3, <3>4
    <3> QED
        BY <3>2, <3>5
  <2>3. Len(Tail(t)) = 0
      BY <1>c, <2>2
  <2> QED
      BY <1>c, <2>3, EmptySeq
<1>4. ASSUME Tail(t) = <<>> PROVE Append(s, Head(t)) = s \o t
  <2>1. Append(s, Head(t)) \in Seq(Nat)
      BY AppendFacts, TailFacts
  <2> QED
      BY <1>1, <1>4, <2>1, ConcatEmptySeq
<1> QED
    BY <1>2, <1>3, <1>4 DEF u

\* A handler that reads Done reads what was marked terminal before.
LEMMA ReadsWhatIsPut ==
  ASSUME ServiceInv, NEW r \in Requests, Read(r)
  PROVE  /\ Head(queue[r]) = Done => DonePut(r) /\ Append(got[r], Head(queue[r])) = Ending(sent[r])
         /\ terminal' = terminal
<1>1. /\ queue[r] # <<>> /\ got[r] \in Seq(Nat) /\ queue[r] \in Seq(Nat) /\ sent[r] \in Nat
    BY DEF ServiceInv, WorkerTypeOK, ContractTypeOK, Read
<1>2. ASSUME Head(queue[r]) = Done
      PROVE  DonePut(r) /\ Append(got[r], Head(queue[r])) = Ending(sent[r])
    BY <1>1, <1>2, ReadsDoneLast DEF ServiceInv, LogsOK
<1>3. terminal' = terminal
  <2>1. Head(queue[r]) = Done => terminal[r] = TRUE
      BY <1>2 DEF DonePut, ServiceInv, WorkerTypeOK
  <2>2. terminal \in [Requests -> BOOLEAN]
      BY DEF ServiceInv, WorkerTypeOK
  <2>3. terminal' = IF Head(queue[r]) = Done THEN [terminal EXCEPT ![r] = TRUE] ELSE terminal
      BY DEF Read
  <2> QED
      BY <2>1, <2>2, <2>3
<1> QED
    BY <1>2, <1>3

LEMMA ReadKeeps ==
  ASSUME ServiceInv, NEW r \in Requests, Read(r)
  PROVE  ServiceInv'
<1>1. /\ hpc[r] = "reading" /\ queue[r] # <<>> /\ got[r] \in Seq(Nat) /\ queue[r] \in Seq(Nat)
      /\ sent[r] \in Nat
    BY DEF ServiceInv, WorkerTypeOK, ContractTypeOK, Read
<1>2. /\ Head(queue[r]) \in Nat /\ Tail(queue[r]) \in Seq(Nat)
      /\ Append(got[r], Head(queue[r])) \in Seq(Nat)
      /\ Append(got[r], Head(queue[r])) \o Tail(queue[r]) = got[r] \o queue[r]
  <2>1. Head(queue[r]) \in Nat /\ Tail(queue[r]) \in Seq(Nat)
      BY <1>1, TailFacts
  <2>2. Append(got[r], Head(queue[r])) \in Seq(Nat)
      BY <1>1, <2>1, AppendFacts
  <2> QED
      BY <1>1, <2>1, <2>2, HeadMoves
<1>3. /\ Head(queue[r]) = Done => DonePut(r) /\ Append(got[r], Head(queue[r])) = Ending(sent[r])
      /\ terminal' = terminal
    BY ReadsWhatIsPut
<1>4. UNCHANGED <<life, tokens, wpc, wasIdle, pending, todo, ending, emitted, sent, inbox, terminal, lost>>
    BY <1>3 DEF Read, contractVars, runVars, encVars
<1>5. /\ got'[r] = Append(got[r], Head(queue[r])) /\ queue'[r] = Tail(queue[r])
      /\ got' \in [Requests -> Seq(Nat)] /\ queue' \in [Requests -> Seq(Nat)]
      /\ \A q \in Requests \ {r} : got'[q] = got[q] /\ queue'[q] = queue[q]
    BY <1>2 DEF ServiceInv, WorkerTypeOK, Read
<1>6. /\ \A q \in Requests \ {r} : hpc'[q] = hpc[q]
      /\ hpc'[r] = IF Head(queue[r]) = Done THEN "finished" ELSE "reading"
      /\ hpc' \in [Requests -> {"start", "refused", "checked", "reading", "aborting", "gone",
                                "finished"}]
    BY <1>1 DEF ServiceInv, WorkerTypeOK, Read
<1>7. WorkerTypeOK'
    BY <1>4, <1>5, <1>6 DEF ServiceInv, WorkerTypeOK, ContractTypeOK, Read, encVars
<1>8. InboxOK'
    BY <1>1, <1>4, <1>6, InboxFacts DEF ServiceInv, InboxOK, Unsent
<1>9. PendingOK'
    BY <1>1, <1>4, <1>6, SamePending DEF Unsent, ServiceInv, PendingOK
<1>10. VisitsOK'
    BY <1>4, SameVisits
<1>11. LogsOK'
  <2>1. \A q \in Requests : DonePut(q)' = DonePut(q)
      BY <1>4 DEF DonePut
  <2> QED
      BY <1>1, <1>2, <1>3, <1>4, <1>5, <1>6, <2>1 DEF ServiceInv, LogsOK
<1> QED
    BY <1>7, <1>8, <1>9, <1>10, <1>11, KeptTogether

LEMMA AbandonKeeps ==
  ASSUME ServiceInv, NEW r \in Requests, Abandon(r)
  PROVE  ServiceInv'
<1>1. UNCHANGED <<life, tokens, wpc, wasIdle, pending, todo, ending, emitted, sent, inbox, terminal,
                  queue, got, lost>>
    BY DEF Abandon, contractVars, runVars, encVars
<1>2. WorkerTypeOK'
    BY DEF ServiceInv, WorkerTypeOK, ContractTypeOK, Abandon, contractVars, runVars, encVars
<1>3. \A q \in Requests : \/ hpc'[q] = hpc[q]
                          \/ q = r /\ hpc[q] = "reading" /\ hpc'[q] \in {"gone", "aborting"}
    BY DEF ServiceInv, WorkerTypeOK, Abandon
<1>4. InboxOK'
    BY <1>1, <1>3, InboxFacts DEF ServiceInv, InboxOK, Unsent
<1>5. PendingOK'
    BY <1>1, <1>3, SamePending DEF Unsent, ServiceInv, PendingOK
<1>6. VisitsOK'
    BY <1>1, SameVisits
<1>7. LogsOK'
    BY <1>1, <1>3, SameLogs
<1> QED
    BY <1>2, <1>4, <1>5, <1>6, <1>7, KeptTogether

LEMMA PostCancelKeeps ==
  ASSUME ServiceInv, NEW r \in Requests, PostCancel(r)
  PROVE  ServiceInv'
<1> DEFINE item == Item("cancel", r)
<1>1. /\ inbox' = Append(inbox, item) /\ item \in Items /\ item.kind = "cancel" /\ item.who = r
      /\ inbox \in Seq(Items)
    BY MadeItems, InboxFacts DEF PostCancel, Enqueue, ServiceInv
<1>2. inbox' \in Seq(Items) /\ Range(inbox') = Range(inbox) \cup {item}
  <2> HIDE DEF item
  <2> QED
    BY <1>1, AppendFacts
<1>3. UNCHANGED <<life, tokens, wpc, wasIdle, pending, todo, ending, emitted, sent, terminal, queue,
                  got, lost>>
    BY DEF PostCancel, contractVars, runVars, encVars
<1>4. WorkerTypeOK'
    BY <1>2 DEF ServiceInv, WorkerTypeOK, ContractTypeOK, PostCancel, encVars, contractVars, runVars, Items
<1>5. \A q \in Requests : \/ hpc'[q] = hpc[q] /\ q # r
                          \/ q = r /\ hpc[q] = "aborting" /\ hpc'[q] = "gone"
    BY DEF ServiceInv, WorkerTypeOK, PostCancel
<1>6. InboxOK'
    BY <1>1, <1>2, <1>5, InboxFacts DEF ServiceInv, InboxOK, Unsent
<1>7. PendingOK'
    BY <1>3, <1>5, SamePending DEF Unsent, ServiceInv, PendingOK
<1>8. VisitsOK'
    BY <1>3, SameVisits
<1>9. LogsOK'
    BY <1>3, <1>5, SameLogs
<1> QED
    BY <1>4, <1>6, <1>7, <1>8, <1>9, KeptTogether

\* The callers of encode() and close() touch no request.
LEMMA OthersKeep ==
  ASSUME ServiceInv,
         (\E e \in Encoders : CheckOpenEncode(e) \/ SubmitEncode(e)) \/ SetClosed \/ PostStop
  PROVE  ServiceInv'
<1>1. UNCHANGED <<life, tokens, wpc, wasIdle, pending, todo, ending, emitted, sent, terminal, queue,
                  hpc, got, lost>>
    BY DEF CheckOpenEncode, SubmitEncode, SetClosed, PostStop, contractVars, runVars, handleVars, encVars
<1>2. \/ inbox' = inbox
      \/ \E item \in Items : /\ inbox' = Append(inbox, item)
                             /\ item.kind \notin {"generate", "cancel"}
    BY MadeItems DEF CheckOpenEncode, SubmitEncode, SetClosed, PostStop, Enqueue
<1>3. /\ inbox' \in Seq(Items)
      /\ \A item \in Range(inbox') : item \in Range(inbox) \/ item.kind \notin {"generate", "cancel"}
  <2>1. inbox \in Seq(Items)
      BY InboxFacts DEF ServiceInv
  <2>2. CASE inbox' = inbox
      BY <2>1, <2>2
  <2>3. ASSUME NEW item \in Items, inbox' = Append(inbox, item), item.kind \notin {"generate", "cancel"}
        PROVE  inbox' \in Seq(Items) /\ Range(inbox') = Range(inbox) \cup {item}
      BY <2>1, <2>3, AppendFacts
  <2> QED
      BY <1>2, <2>2, <2>3
<1>4. epc' \in [Encoders -> {"start", "refused", "checked", "blocked", "answered", "failed"}]
      /\ closer' \in {"open", "closing", "joining"}
    BY DEF CheckOpenEncode, SubmitEncode, SetClosed, PostStop, encVars, ServiceInv, WorkerTypeOK
<1>5. WorkerTypeOK'
    BY <1>1, <1>3, <1>4 DEF ServiceInv, WorkerTypeOK, ContractTypeOK, Items
<1>6. InboxOK'
    BY <1>1, <1>3 DEF ServiceInv, InboxOK
<1>7. PendingOK'
    BY <1>1, SamePending DEF ServiceInv, PendingOK
<1>8. VisitsOK'
    BY <1>1, SameVisits
<1>9. LogsOK'
    BY <1>1, SameLogs
<1> QED
    BY <1>5, <1>6, <1>7, <1>8, <1>9, KeptTogether

-----------------------------------------------------------------------------
(* The worker keeps it: taking items off the inbox *)

\* What the inbox loses at its head.
LEMMA TakenFacts ==
  ASSUME WorkerTypeOK, inbox # <<>>
  PROVE  /\ Head(inbox) \in Items /\ Head(inbox) \in Range(inbox)
         /\ Tail(inbox) \in Seq(Items) /\ Range(Tail(inbox)) \subseteq Range(inbox)
         /\ Append(Tail(inbox), Stop) \in Seq(Items)
         /\ Range(Append(Tail(inbox), Stop)) \subseteq Range(inbox) \cup {Stop}
<1>1. /\ Head(inbox) \in Items /\ Head(inbox) \in Range(inbox)
      /\ Tail(inbox) \in Seq(Items) /\ Range(Tail(inbox)) \subseteq Range(inbox)
    BY InboxFacts, TailFacts
<1>2. /\ Append(Tail(inbox), Stop) \in Seq(Items)
      /\ Range(Append(Tail(inbox), Stop)) = Range(Tail(inbox)) \cup {Stop}
  <2>1. \A s \in Seq(Items) : /\ Append(s, Stop) \in Seq(Items)
                              /\ Range(Append(s, Stop)) = Range(s) \cup {Stop}
      BY MadeItems, AppendFacts
  <2> QED
      BY <1>1, <2>1
<1> QED
    BY <1>1, <1>2

\* What every turn of the loops of _run that takes an item has in common.
Taking ==
  /\ TakeItem
  /\ wpc # "dispatch" /\ wpc' \in {"top", "drain", "coalesce"} /\ wasIdle' \in BOOLEAN
  /\ UNCHANGED <<todo, ending, emitted, hpc, got, closer>>

LEMMA TakingInbox ==
  ASSUME ServiceInv, Taking
  PROVE  inbox' \in Seq(Items) /\ InboxOK'
<1>1. inbox' \in Seq(Items) /\ Range(inbox') \subseteq Range(inbox)
    BY TakenFacts DEF Taking, TakeItem, ServiceInv
<1> QED
    BY <1>1, SameInbox DEF Taking

LEMMA RegisterKeeps ==
  ASSUME ServiceInv, Taking, NEW r \in Requests, Register(r), hpc[r] \notin Unsent
  PROVE  ServiceInv'
<1>1. inbox' \in Seq(Items) /\ InboxOK'
    BY TakingInbox
<1>2. /\ life[r] = "new" /\ life' = [life EXCEPT ![r] = "live"]
      /\ UNCHANGED <<tokens, sent, terminal, queue, epc, lost, todo, ending, emitted, hpc, got, closer>>
      /\ pending' = Append(pending, r) /\ todo = <<>> /\ ending = {}
      /\ wpc' \in {"top", "drain", "coalesce"} /\ wasIdle' \in BOOLEAN /\ wpc # "dispatch"
    BY DEF Taking, Register, Begin, encVars, ServiceInv, VisitsOK
<1>3. r \notin Range(pending) /\ pending \in Seq(Requests)
    BY <1>2 DEF ServiceInv, PendingOK, WorkerTypeOK
<1>4. /\ pending' \in Seq(Requests) /\ Range(pending') = Range(pending) \cup {r}
      /\ IsInjective(pending) => IsInjective(pending')
    BY <1>2, <1>3, AppendFacts
<1>5. /\ life' \in [Requests -> {"new", "live", "done"}] /\ life'[r] = "live"
      /\ \A q \in Requests \ {r} : life'[q] = life[q]
    BY <1>2 DEF ServiceInv, WorkerTypeOK, ContractTypeOK
<1>6. WorkerTypeOK'
    BY <1>1, <1>2, <1>4, <1>5 DEF ServiceInv, WorkerTypeOK, ContractTypeOK, Items
<1>7. PendingOK'
  <2>1. Range(pending) \subseteq Requests
      BY <1>3, SeqFacts
  <2> QED
      BY <1>2, <1>4, <1>5, <2>1 DEF ServiceInv, PendingOK
<1>8. VisitsOK'
  <2>1. Range(<<>>) = {}
      BY DEF Range
  <2>2. ~ terminal[r]
      BY <1>2 DEF ServiceInv, PendingOK
  <2> QED
      BY <1>2, <1>4, <2>1, <2>2 DEF ServiceInv, VisitsOK
<1>9. LogsOK'
    BY <1>2, SameLogs
<1> QED
    BY <1>1, <1>6, <1>7, <1>8, <1>9, KeptTogether

LEMMA AnswerEncodeKeeps ==
  ASSUME ServiceInv, Taking, NEW e \in Encoders, AnswerEncode(e)
  PROVE  ServiceInv'
<1>1. inbox' \in Seq(Items) /\ InboxOK'
    BY TakingInbox
<1>2. /\ UNCHANGED <<tokens, sent, pending, terminal, queue, todo, ending, emitted, hpc, got, closer>>
      /\ wpc' \in {"top", "drain", "coalesce"} /\ wasIdle' \in BOOLEAN /\ wpc # "dispatch"
    BY DEF Taking, AnswerEncode
<1>3. /\ life' \in [Requests -> {"new", "live", "done"}]
      /\ \A q \in Requests : \/ life'[q] = life[q]
                             \/ life[q] = "live" /\ life'[q] = "done"
    BY DEF AnswerEncode, EncodeReturns, EncodeRaises, Listed, Live, ServiceInv, WorkerTypeOK,
           ContractTypeOK
<1>4. epc' \in [Encoders -> {"start", "refused", "checked", "blocked", "answered", "failed"}]
    BY DEF AnswerEncode, EncodeReturns, EncodeRaises, ServiceInv, WorkerTypeOK
<1>5. WorkerTypeOK'
  <2>1. lost' \subseteq Requests
      BY DEF AnswerEncode, EncodeReturns, EncodeRaises, Listed, Live, ServiceInv, WorkerTypeOK
  <2> QED
      BY <1>1, <1>2, <1>3, <1>4, <2>1 DEF ServiceInv, WorkerTypeOK, ContractTypeOK, Items
<1>6. PendingOK'
  <2>1. Range(pending) \subseteq Requests
      BY SeqFacts DEF ServiceInv, WorkerTypeOK
  <2>2. lost \subseteq lost' /\ \A q \in lost' : life'[q] = "live"
      BY DEF AnswerEncode, EncodeReturns, EncodeRaises, Listed, Live, ServiceInv, WorkerTypeOK,
             ContractTypeOK, PendingOK
  <2> QED
      BY <1>2, <1>3, <2>1, <2>2 DEF ServiceInv, PendingOK
<1>7. VisitsOK'
    BY <1>2, SameVisits
<1>8. LogsOK'
    BY <1>2, SameLogs
<1> QED
    BY <1>1, <1>5, <1>6, <1>7, <1>8, KeptTogether

LEMMA CancelPendingKeeps ==
  ASSUME ServiceInv, Taking, NEW r \in Requests, CancelPending(r), hpc[r] = "gone"
  PROVE  ServiceInv'
<1>1. inbox' \in Seq(Items) /\ InboxOK'
    BY TakingInbox
<1>2. /\ UNCHANGED <<tokens, sent, epc, lost, todo, ending, emitted, hpc, got, closer>>
      /\ wpc' \in {"top", "drain", "coalesce"} /\ wasIdle' \in BOOLEAN /\ wpc # "dispatch"
      /\ todo = <<>> /\ ending = {}
    BY DEF Taking, CancelPending, encVars, contractVars, ServiceInv, VisitsOK
<1>3. CASE terminal[r] \/ ~ Contains(pending, r)
  <2>1. UNCHANGED <<life, pending, terminal, queue>>
      BY <1>3 DEF CancelPending, encVars, contractVars
  <2>2. WorkerTypeOK'
      BY <1>1, <1>2, <2>1 DEF ServiceInv, WorkerTypeOK, ContractTypeOK, Items
  <2>3. PendingOK'
      BY <1>2, <2>1, SamePending
  <2>4. VisitsOK'
      BY <1>2, <2>1, SameVisits
  <2>5. LogsOK'
      BY <1>2, <2>1, SameLogs
  <2> QED
      BY <1>1, <2>2, <2>3, <2>4, <2>5, KeptTogether
<1>4. CASE ~ (terminal[r] \/ ~ Contains(pending, r))
  <2>1. /\ life' = IF r \in lost THEN life ELSE [life EXCEPT ![r] = "done"]
        /\ terminal' = [terminal EXCEPT ![r] = TRUE]
        /\ pending' = Without(pending, r) /\ queue' = [queue EXCEPT ![r] = Append(@, Done)]
        /\ ~ terminal[r] /\ Contains(pending, r)
      BY <1>4 DEF CancelPending
  <2>2. pending \in Seq(Requests) /\ r \in Range(pending)
      BY <2>1, SeqFacts DEF Contains, ServiceInv, WorkerTypeOK
  <2>3. pending' \in Seq(Requests) /\ IsInjective(pending') /\ Range(pending') = Range(pending) \ {r}
      BY <2>1, <2>2, RemoveFacts DEF Without, ServiceInv, PendingOK
  <2>4. /\ life' \in [Requests -> {"new", "live", "done"}] /\ terminal' \in [Requests -> BOOLEAN]
        /\ life'[r] = "done" \/ r \in lost
        /\ life'[r] # "new" 
        /\ terminal'[r]
        /\ \A q \in Requests \ {r} : life'[q] = life[q] /\ terminal'[q] = terminal[q]
      BY <2>1 DEF ServiceInv, WorkerTypeOK, ContractTypeOK, PendingOK
  <2>5. /\ sent[r] \in Nat /\ got[r] \in Seq(Nat) /\ queue[r] \in Seq(Nat)
        /\ got[r] \o queue[r] = Numbers(sent[r])
      BY <2>1 DEF ServiceInv, WorkerTypeOK, ContractTypeOK, LogsOK, DonePut
  <2>6. Append(queue[r], Done) \in Seq(Nat) /\ got[r] \o Append(queue[r], Done) = Ending(sent[r])
    <3>1. Done \in Nat
        BY DEF Done
    <3>2. Append(queue[r], Done) \in Seq(Nat)
        BY <2>5, <3>1, AppendFacts
    <3>3. got[r] \o Append(queue[r], Done) = Append(got[r] \o queue[r], Done)
      <4>1. \A s, t \in Seq(Nat) : s \o Append(t, Done) = Append(s \o t, Done)
          BY <3>1, PutBehind
      <4> QED
          BY <2>5, <4>1
    <3>4. Append(Numbers(sent[r]), Done) = Ending(sent[r])
        BY <2>5, NumbersFacts
    <3> QED
        BY <2>5, <3>2, <3>3, <3>4
  <2>7. /\ queue' \in [Requests -> Seq(Nat)] /\ queue'[r] = Append(queue[r], Done)
        /\ \A q \in Requests \ {r} : queue'[q] = queue[q]
      BY <2>1, <2>6 DEF ServiceInv, WorkerTypeOK
  <2>8. WorkerTypeOK'
      BY <1>1, <1>2, <2>3, <2>4, <2>7 DEF ServiceInv, WorkerTypeOK, ContractTypeOK, Items
  <2>9. Range(pending) \subseteq Requests /\ Range(<<>>) = {}
      BY <2>2, SeqFacts DEF Range
  <2>10. PendingOK'
    <3>1. \A q \in lost : life'[q] = "live"
        BY <2>1, <2>4 DEF ServiceInv, WorkerTypeOK, PendingOK
    <3> QED
        BY <1>2, <2>3, <2>4, <2>9, <3>1 DEF ServiceInv, PendingOK
  <2>11. VisitsOK'
      BY <1>2, <2>3, <2>4, <2>9 DEF ServiceInv, VisitsOK
  <2>12. LogsOK'
    <3>1. DonePut(r)' /\ \A q \in Requests \ {r} : DonePut(q)' = DonePut(q)
        BY <1>2, <2>4, <2>9 DEF DonePut
    <3> QED
        BY <1>2, <2>4, <2>6, <2>7, <3>1 DEF ServiceInv, LogsOK
  <2> QED
      BY <1>1, <2>8, <2>10, <2>11, <2>12, KeptTogether
<1> QED
    BY <1>3, <1>4

LEMMA TakingKeeps ==
  ASSUME ServiceInv, Taking
  PROVE  ServiceInv'
<1> DEFINE item == Head(inbox)
<1>1. inbox # <<>> /\ item # Stop /\ Intake(item)
    BY DEF Taking, TakeItem
<1>2. item \in Items /\ item \in Range(inbox)
    BY <1>1, TakenFacts DEF ServiceInv
<1>3. /\ item.kind = "generate" => hpc[item.who] \notin Unsent
      /\ item.kind = "cancel" => hpc[item.who] = "gone"
    BY <1>2 DEF ServiceInv, InboxOK
<1> HIDE DEF item
<1>4. CASE item.kind = "generate" /\ item.who \in Requests
    BY <1>1, <1>3, <1>4, RegisterKeeps DEF Intake
<1>5. CASE item.kind = "encode" /\ item.who \in Encoders
    BY <1>1, <1>5, AnswerEncodeKeeps DEF Intake
<1>6. CASE item.kind = "cancel" /\ item.who \in Requests
    BY <1>1, <1>3, <1>6, CancelPendingKeeps DEF Intake
<1> QED
    BY <1>1, <1>2, <1>4, <1>5, <1>6, ItemFacts

\* The worker moves on without touching a request.
LEMMA MovesKeep ==
  ASSUME ServiceInv,
         TopBusy \/ TopStop \/ DrainEnd \/ CoalesceEnd \/ StepRaise \/ DispatchEnd
  PROVE  ServiceInv'
<1>1. UNCHANGED <<life, tokens, pending, todo, ending, sent, terminal, queue, hpc, got, epc, lost, closer>>
    BY DEF TopBusy, TopStop, DrainEnd, CoalesceEnd, StepRaise, DispatchEnd, encVars, contractVars, handleVars
<1>2. inbox' = inbox \/ (inbox # <<>> /\ inbox' \in {Tail(inbox), Append(Tail(inbox), Stop)})
    BY DEF TopBusy, TopStop, DrainEnd, CoalesceEnd, StepRaise, DispatchEnd, StopKept
<1>3. inbox' \in Seq(Items) /\ Range(inbox') \subseteq Range(inbox) \cup {Stop}
    BY <1>2, InboxFacts, TakenFacts DEF ServiceInv
<1>4. /\ wpc \in {"top", "drain", "coalesce", "step", "dispatch"}
      /\ wpc' \in {"top", "drain", "coalesce", "step", "stopped", "dead"}
      /\ wpc' = "stopped" => pending = <<>>
      /\ wpc = "dispatch" => todo = <<>> /\ ending = {}
      /\ wasIdle' \in BOOLEAN /\ emitted' \subseteq Requests
    BY DEF TopBusy, TopStop, DrainEnd, CoalesceEnd, StepRaise, DispatchEnd, AfterDrain,
           AfterCoalesce, ServiceInv, WorkerTypeOK
<1>5. WorkerTypeOK'
    BY <1>1, <1>3, <1>4 DEF ServiceInv, WorkerTypeOK, ContractTypeOK, Items
<1>6. InboxOK'
    BY <1>1, <1>3, SameInbox
<1>7. PendingOK'
    BY <1>1, <1>4, SamePending
<1>8. VisitsOK'
    BY <1>1, <1>4 DEF ServiceInv, VisitsOK
<1>9. LogsOK'
    BY <1>1, SameLogs
<1> QED
    BY <1>5, <1>6, <1>7, <1>8, <1>9, KeptTogether

-----------------------------------------------------------------------------
(* The worker keeps it: a step of the engine *)

LEMMA StepEmitKeeps ==
  ASSUME ServiceInv, NEW r \in Requests, StepEmit(r)
  PROVE  ServiceInv'
<1>1. /\ wpc = "step" /\ life[r] = "live" /\ r \notin lost /\ tokens[r] < MaxTokens[r]
      /\ tokens' = [tokens EXCEPT ![r] = @ + 1] /\ emitted' = emitted \cup {r}
      /\ UNCHANGED <<life, wpc, wasIdle, inbox, pending, todo, ending, sent, terminal, queue, hpc,
                     got, epc, lost, closer>>
    BY DEF StepEmit, Emit, Listed, encVars, handleVars
<1>2. /\ tokens[r] \in Nat /\ tokens'[r] = tokens[r] + 1 /\ tokens' \in [Requests -> Nat]
      /\ \A q \in Requests \ {r} : tokens'[q] = tokens[q]
    BY <1>1 DEF ServiceInv, WorkerTypeOK, ContractTypeOK
<1>3. \A q \in Requests : sent[q] \in 0..tokens'[q]
  <2>1. \A q \in Requests : sent[q] \in 0..tokens[q]
      BY DEF ServiceInv, WorkerTypeOK
  <2>2. \A q \in Requests : tokens[q] \in Nat /\ (tokens'[q] = tokens[q] \/ tokens'[q] = tokens[q] + 1)
      BY <1>2 DEF ServiceInv, WorkerTypeOK, ContractTypeOK
  <2> QED
      BY <2>1, <2>2
<1>4. WorkerTypeOK'
    BY <1>1, <1>2, <1>3 DEF ServiceInv, WorkerTypeOK, ContractTypeOK
<1>5. ~ terminal[r] /\ MaxTokens[r] \in Nat
    BY <1>1, ContractAssumption DEF ServiceInv, PendingOK
<1>6. InboxOK'
    BY <1>1 DEF ServiceInv, InboxOK
<1>7. PendingOK'
  <2>1. \A q \in Requests : tokens'[q] <= MaxTokens[q]
      BY <1>1, <1>2, <1>5 DEF ServiceInv, PendingOK
  <2> QED
      BY <1>1, <2>1 DEF ServiceInv, PendingOK
<1>8. VisitsOK'
  <2>1. Range(todo) = {}
      BY <1>1 DEF ServiceInv, VisitsOK, Range
  <2> QED
      BY <1>1, <2>1 DEF ServiceInv, VisitsOK
<1>9. LogsOK'
    BY <1>1, <1>2, <1>5 DEF ServiceInv, LogsOK, DonePut
<1> QED
    BY <1>4, <1>6, <1>7, <1>8, <1>9, KeptTogether

LEMMA StepFinishKeeps ==
  ASSUME ServiceInv, NEW r \in Requests, StepFinish(r)
  PROVE  ServiceInv'
<1>1. /\ life[r] = "live" /\ r \notin lost /\ life' = [life EXCEPT ![r] = "done"]
      /\ UNCHANGED <<tokens, wpc, wasIdle, inbox, pending, todo, ending, emitted, sent, terminal,
                     queue, hpc, got, epc, lost, closer>>
    BY DEF StepFinish, Finish, Listed, encVars, runVars, handleVars
<1>2. /\ life' \in [Requests -> {"new", "live", "done"}] /\ life'[r] = "done"
      /\ \A q \in Requests \ {r} : life'[q] = life[q]
    BY <1>1 DEF ServiceInv, WorkerTypeOK, ContractTypeOK
<1>3. WorkerTypeOK'
    BY <1>1, <1>2 DEF ServiceInv, WorkerTypeOK, ContractTypeOK
<1>4. InboxOK'
    BY <1>1 DEF ServiceInv, InboxOK
<1>5. PendingOK'
  <2>1. Range(pending) \subseteq Requests
      BY SeqFacts DEF ServiceInv, WorkerTypeOK
  <2> QED
      BY <1>1, <1>2, <2>1 DEF ServiceInv, PendingOK
<1>6. VisitsOK'
    BY <1>1, SameVisits
<1>7. LogsOK'
    BY <1>1, SameLogs
<1> QED
    BY <1>3, <1>4, <1>5, <1>6, <1>7, KeptTogether

\* No entry of _pending is terminal when _dispatch begins.
LEMMA StepReturnKeeps ==
  ASSUME ServiceInv, StepReturn
  PROVE  ServiceInv'
<1>1. /\ wpc = "step" /\ wpc' = "dispatch" /\ todo' = pending /\ ending' = {}
      /\ UNCHANGED <<life, tokens, wasIdle, inbox, pending, emitted, sent, terminal, queue, hpc,
                     got, epc, lost, closer>>
    BY DEF StepReturn, encVars, contractVars, handleVars
<1>2. todo = <<>> /\ ending = {} /\ Range(todo) = {}
    BY <1>1 DEF ServiceInv, VisitsOK, Range
<1>3. \A r \in Range(pending) : ~ terminal[r]
    BY <1>2 DEF ServiceInv, VisitsOK
<1>4. WorkerTypeOK'
    BY <1>1 DEF ServiceInv, WorkerTypeOK, ContractTypeOK
<1>5. InboxOK'
    BY <1>1 DEF ServiceInv, InboxOK
<1>6. PendingOK'
    BY <1>1, SamePending
<1>7. VisitsOK'
    BY <1>1, <1>3 DEF ServiceInv, VisitsOK, PendingOK
<1>8. LogsOK'
  <2>1. \A r \in Requests : DonePut(r)' = DonePut(r)
      BY <1>1, <1>2, <1>3 DEF DonePut
  <2> QED
      BY <1>1, <2>1 DEF ServiceInv, LogsOK
<1> QED
    BY <1>4, <1>5, <1>6, <1>7, <1>8, KeptTogether

-----------------------------------------------------------------------------
(* The worker keeps it: _dispatch *)

LEMMA VisitingFacts ==
  ASSUME ServiceInv, NEW r \in Requests, Visiting(r)
  PROVE  /\ wpc = "dispatch" /\ todo # <<>> /\ r = Head(todo) /\ r \in Range(todo)
         /\ Tail(todo) \in Seq(Requests) /\ IsInjective(Tail(todo))
         /\ Range(Tail(todo)) = Range(todo) \ {r}
         /\ r \in Range(pending)
         /\ \A q \in Range(todo) \ {r} : ~ terminal[q]
         /\ sent[r] \in Nat /\ tokens[r] \in Nat /\ got[r] \in Seq(Nat) /\ queue[r] \in Seq(Nat)
         /\ got[r] \o queue[r] = Numbers(sent[r])
<1>1. todo \in Seq(Requests) /\ todo # <<>> /\ r = Head(todo) /\ wpc = "dispatch"
    BY DEF ServiceInv, WorkerTypeOK, Visiting
<1>2. /\ r \in Range(todo) /\ Tail(todo) \in Seq(Requests) /\ IsInjective(Tail(todo))
      /\ Range(Tail(todo)) = Range(todo) \ {r}
    BY <1>1, TailFacts DEF ServiceInv, VisitsOK
<1>3. r \in Range(pending) /\ \A q \in Range(todo) \ {r} : ~ terminal[q]
    BY <1>1, <1>2 DEF ServiceInv, VisitsOK
<1>4. /\ sent[r] \in Nat /\ tokens[r] \in Nat /\ got[r] \in Seq(Nat) /\ queue[r] \in Seq(Nat)
    BY DEF ServiceInv, WorkerTypeOK, ContractTypeOK
<1>5. got[r] \o queue[r] = Numbers(sent[r])
    BY <1>2 DEF ServiceInv, LogsOK, DonePut
<1> QED
    BY <1>1, <1>2, <1>3, <1>4, <1>5

\* A token put, or Done put, behind what is in the queue.
LEMMA PutFacts ==
  ASSUME ServiceInv, NEW r \in Requests, NEW x \in Nat,
         queue' = [queue EXCEPT ![r] = Append(@, x)], UNCHANGED got,
         got[r] \o queue[r] = Numbers(sent[r])
  PROVE  /\ queue' \in [Requests -> Seq(Nat)]
         /\ \A q \in Requests \ {r} : queue'[q] = queue[q]
         /\ got[r] \o queue'[r] = Append(Numbers(sent[r]), x)
<1>1. got[r] \in Seq(Nat) /\ queue[r] \in Seq(Nat)
    BY DEF ServiceInv, WorkerTypeOK
<1>2. Append(queue[r], x) \in Seq(Nat)
    BY <1>1, AppendFacts
<1>3. got[r] \o Append(queue[r], x) = Append(got[r] \o queue[r], x)
  <2>1. \A s, t \in Seq(Nat) : s \o Append(t, x) = Append(s \o t, x)
      BY PutBehind
  <2> QED
      BY <1>1, <2>1
<1>4. /\ queue' \in [Requests -> Seq(Nat)] /\ queue'[r] = Append(queue[r], x)
      /\ \A q \in Requests \ {r} : queue'[q] = queue[q]
    BY <1>2 DEF ServiceInv, WorkerTypeOK
<1> QED
    BY <1>3, <1>4

LEMMA PutTokenKeeps ==
  ASSUME ServiceInv, NEW r \in Requests, PutToken(r)
  PROVE  ServiceInv'
<1>1. /\ Visiting(r) /\ sent[r] < tokens[r]
      /\ sent' = [sent EXCEPT ![r] = @ + 1] /\ queue' = [queue EXCEPT ![r] = Append(@, sent[r] + 1)]
      /\ UNCHANGED <<life, tokens, wpc, wasIdle, pending, todo, ending, emitted, inbox, terminal,
                     hpc, got, epc, lost, closer>>
    BY DEF PutToken, encVars, contractVars
<1>2. /\ r \in Range(todo) /\ r = Head(todo) /\ sent[r] \in Nat /\ tokens[r] \in Nat
      /\ got[r] \o queue[r] = Numbers(sent[r])
    BY <1>1, VisitingFacts
<1>3. /\ sent'[r] = sent[r] + 1 /\ DOMAIN sent' = Requests
      /\ \A q \in Requests \ {r} : sent'[q] = sent[q]
      /\ \A q \in Requests : sent'[q] \in 0..tokens[q]
  <2>1. DOMAIN sent = Requests /\ \A q \in Requests : sent[q] \in 0..tokens[q]
      BY DEF ServiceInv, WorkerTypeOK
  <2>2. /\ sent'[r] = sent[r] + 1 /\ DOMAIN sent' = Requests
        /\ \A q \in Requests \ {r} : sent'[q] = sent[q]
      BY <1>1, <2>1
  <2>3. sent[r] + 1 \in 0..tokens[r]
      BY <1>1, <1>2
  <2> QED
      BY <2>1, <2>2, <2>3
<1>4. ~ terminal[r]
  <2>1. terminal[r] => sent[r] = tokens[r]
      BY <1>2 DEF ServiceInv, VisitsOK
  <2> QED
      BY <1>1, <1>2, <2>1
<1>5. /\ queue' \in [Requests -> Seq(Nat)]
      /\ \A q \in Requests \ {r} : queue'[q] = queue[q]
      /\ got[r] \o queue'[r] = Numbers(sent'[r])
  <2>1. Append(Numbers(sent[r]), sent'[r]) = Numbers(sent'[r])
      BY <1>2, <1>3, NumbersFacts
  <2>2. PICK x \in Nat : x = sent'[r]
      BY <1>2, <1>3
  <2>3. queue' = [queue EXCEPT ![r] = Append(@, x)]
      BY <1>1, <1>3, <2>2
  <2>4. /\ queue' \in [Requests -> Seq(Nat)]
        /\ \A q \in Requests \ {r} : queue'[q] = queue[q]
        /\ got[r] \o queue'[r] = Append(Numbers(sent[r]), x)
      BY <1>1, <1>2, <2>3, PutFacts
  <2> QED
      BY <2>1, <2>2, <2>4
<1>6. WorkerTypeOK'
    BY <1>1, <1>3, <1>5 DEF ServiceInv, WorkerTypeOK, ContractTypeOK
<1>7. InboxOK'
    BY <1>1 DEF ServiceInv, InboxOK
<1>8. PendingOK'
    BY <1>1 DEF ServiceInv, PendingOK
<1>9. VisitsOK'
  <2>1. Range(todo) \subseteq Requests
      BY SeqFacts DEF ServiceInv, WorkerTypeOK
  <2> QED
      BY <1>1, <1>2, <1>3, <1>4, <2>1 DEF ServiceInv, VisitsOK
<1>10. LogsOK'
  <2>1. \A q \in Requests : DonePut(q)' = DonePut(q)
      BY <1>1 DEF DonePut
  <2>2. ~ DonePut(r) /\ hpc[r] # "finished"
      BY <1>2 DEF DonePut, ServiceInv, LogsOK
  <2>3. \A q \in Requests :
          /\ got[q] \o queue'[q] = IF DonePut(q) THEN Ending(sent'[q]) ELSE Numbers(sent'[q])
          /\ DonePut(q) /\ hpc[q] # "gone" => sent'[q] = tokens[q]
          /\ hpc[q] = "finished" => DonePut(q) /\ got[q] = Ending(sent'[q])
    <3>1. ASSUME NEW q \in Requests \ {r}
          PROVE  /\ got[q] \o queue'[q] = IF DonePut(q) THEN Ending(sent'[q]) ELSE Numbers(sent'[q])
                 /\ DonePut(q) /\ hpc[q] # "gone" => sent'[q] = tokens[q]
                 /\ hpc[q] = "finished" => DonePut(q) /\ got[q] = Ending(sent'[q])
        BY <1>3, <1>5 DEF ServiceInv, LogsOK
    <3> QED
        BY <1>5, <2>2, <3>1
  <2>4. \A q \in Requests :
          /\ got'[q] \o queue'[q] = IF DonePut(q)' THEN Ending(sent'[q]) ELSE Numbers(sent'[q])
          /\ DonePut(q)' /\ hpc'[q] # "gone" => sent'[q] = tokens'[q]
          /\ hpc'[q] = "finished" => DonePut(q)' /\ got'[q] = Ending(sent'[q])
    <3>1. UNCHANGED <<got, hpc, tokens>>
        BY <1>1
    <3> QED
        BY <2>1, <2>3, <3>1
  <2> QED
      BY <2>4 DEF LogsOK
<1> QED
    BY <1>6, <1>7, <1>8, <1>9, <1>10, KeptTogether

LEMMA MarkTerminalKeeps ==
  ASSUME ServiceInv, NEW r \in Requests, MarkTerminal(r)
  PROVE  ServiceInv'
<1>1. /\ Visiting(r) /\ sent[r] = tokens[r] /\ life[r] = "done"
      /\ terminal' = [terminal EXCEPT ![r] = TRUE]
      /\ UNCHANGED <<life, tokens, wpc, wasIdle, pending, todo, ending, emitted, sent, inbox, queue,
                     hpc, got, epc, lost, closer>>
    BY DEF MarkTerminal, contractVars, runVars, encVars
<1>2. r \in Range(todo) /\ r = Head(todo) /\ r \in Range(pending)
    BY <1>1, VisitingFacts
<1>3. /\ terminal' \in [Requests -> BOOLEAN] /\ terminal'[r]
      /\ \A q \in Requests \ {r} : terminal'[q] = terminal[q]
    BY <1>1 DEF ServiceInv, WorkerTypeOK
<1>4. WorkerTypeOK'
    BY <1>1, <1>3 DEF ServiceInv, WorkerTypeOK, ContractTypeOK
<1>5. InboxOK'
    BY <1>1 DEF ServiceInv, InboxOK
<1>6. Range(pending) \subseteq Requests /\ Range(todo) \subseteq Requests
    BY SeqFacts DEF ServiceInv, WorkerTypeOK
<1>7. PendingOK'
    BY <1>1, <1>3, <1>6 DEF ServiceInv, PendingOK
<1>8. VisitsOK'
  <2>1. \A q \in ending : q \in Requests /\ q # r
      BY <1>2 DEF ServiceInv, WorkerTypeOK, VisitsOK
  <2> QED
      BY <1>1, <1>2, <1>3, <1>6, <2>1 DEF ServiceInv, VisitsOK
<1>9. LogsOK'
  <2>1. \A q \in Requests : DonePut(q)' = DonePut(q)
      BY <1>1, <1>2, <1>3 DEF DonePut
  <2> QED
      BY <1>1, <2>1 DEF ServiceInv, LogsOK
<1> QED
    BY <1>4, <1>5, <1>7, <1>8, <1>9, KeptTogether

LEMMA PutDoneKeeps ==
  ASSUME ServiceInv, NEW r \in Requests, PutDone(r)
  PROVE  ServiceInv'
<1>1. /\ Visiting(r) /\ terminal[r] /\ queue' = [queue EXCEPT ![r] = Append(@, Done)]
      /\ ending' = ending \cup {r} /\ todo' = Tail(todo)
      /\ UNCHANGED <<life, tokens, wpc, wasIdle, pending, emitted, sent, inbox, terminal, hpc, got,
                     epc, lost, closer>>
    BY DEF PutDone, encVars, contractVars
<1>2. /\ wpc = "dispatch" /\ r \in Range(todo) /\ r = Head(todo) /\ r \in Range(pending)
      /\ sent[r] \in Nat /\ tokens[r] \in Nat /\ got[r] \o queue[r] = Numbers(sent[r])
      /\ Tail(todo) \in Seq(Requests) /\ IsInjective(Tail(todo))
      /\ Range(Tail(todo)) = Range(todo) \ {r}
      /\ \A q \in Range(todo) \ {r} : ~ terminal[q]
    BY <1>1, VisitingFacts
<1>3. sent[r] = tokens[r]
    BY <1>1, <1>2 DEF ServiceInv, VisitsOK
<1>4. /\ queue' \in [Requests -> Seq(Nat)]
      /\ \A q \in Requests \ {r} : queue'[q] = queue[q]
      /\ got[r] \o queue'[r] = Ending(sent[r])
  <2>1. Append(Numbers(sent[r]), Done) = Ending(sent[r])
      BY <1>2, NumbersFacts
  <2>2. Done \in Nat
      BY DEF Done
  <2> QED
      BY <1>1, <1>2, <2>1, <2>2, PutFacts
<1>5. WorkerTypeOK'
    BY <1>1, <1>2, <1>4 DEF ServiceInv, WorkerTypeOK, ContractTypeOK
<1>6. InboxOK'
    BY <1>1 DEF ServiceInv, InboxOK
<1>7. PendingOK'
    BY <1>1 DEF ServiceInv, PendingOK
<1>8. VisitsOK'
    BY <1>1, <1>2 DEF ServiceInv, VisitsOK
<1>9. LogsOK'
  <2>1. DonePut(r)' /\ ~ DonePut(r) /\ \A q \in Requests \ {r} : DonePut(q)' = DonePut(q)
      BY <1>1, <1>2 DEF DonePut
  <2> QED
      BY <1>1, <1>3, <1>4, <2>1 DEF ServiceInv, LogsOK
<1> QED
    BY <1>5, <1>6, <1>7, <1>8, <1>9, KeptTogether

LEMMA PassOverKeeps ==
  ASSUME ServiceInv, NEW r \in Requests, PassOver(r)
  PROVE  ServiceInv'
<1>1. /\ Visiting(r) /\ life[r] = "live" /\ todo' = Tail(todo)
      /\ UNCHANGED <<life, tokens, wpc, wasIdle, pending, ending, emitted, sent, inbox, terminal,
                     queue, hpc, got, epc, lost, closer>>
    BY DEF PassOver, encVars, contractVars, handleVars
<1>2. /\ wpc = "dispatch" /\ Tail(todo) \in Seq(Requests) /\ IsInjective(Tail(todo))
      /\ Range(Tail(todo)) = Range(todo) \ {r}
      /\ \A q \in Range(todo) \ {r} : ~ terminal[q]
    BY <1>1, VisitingFacts
<1>3. ~ terminal[r]
    BY <1>1, VisitingFacts DEF ServiceInv, PendingOK
<1>4. WorkerTypeOK'
    BY <1>1, <1>2 DEF ServiceInv, WorkerTypeOK, ContractTypeOK
<1>5. InboxOK'
    BY <1>1 DEF ServiceInv, InboxOK
<1>6. PendingOK'
    BY <1>1 DEF ServiceInv, PendingOK
<1>7. VisitsOK'
    BY <1>1, <1>2, <1>3 DEF ServiceInv, VisitsOK
<1>8. LogsOK'
  <2>1. \A q \in Requests : DonePut(q)' = DonePut(q)
      BY <1>1, <1>2, <1>3 DEF DonePut
  <2> QED
      BY <1>1, <2>1 DEF ServiceInv, LogsOK
<1> QED
    BY <1>4, <1>5, <1>6, <1>7, <1>8, KeptTogether

LEMMA ForgetKeeps ==
  ASSUME ServiceInv, NEW r \in Requests, Forget(r)
  PROVE  ServiceInv'
<1>1. /\ wpc = "dispatch" /\ todo = <<>> /\ r \in ending
      /\ pending' = Without(pending, r) /\ ending' = ending \ {r}
      /\ UNCHANGED <<life, tokens, wpc, wasIdle, todo, emitted, sent, inbox, terminal, queue, hpc,
                     got, epc, lost, closer>>
    BY DEF Forget, encVars, contractVars, handleVars
<1>2. r \in Range(pending) /\ terminal[r] /\ pending \in Seq(Requests)
    BY <1>1 DEF ServiceInv, WorkerTypeOK, VisitsOK
<1>3. pending' \in Seq(Requests) /\ IsInjective(pending') /\ Range(pending') = Range(pending) \ {r}
    BY <1>1, <1>2, RemoveFacts DEF Without, ServiceInv, PendingOK
<1>4. WorkerTypeOK'
    BY <1>1, <1>3 DEF ServiceInv, WorkerTypeOK, ContractTypeOK
<1>5. InboxOK'
    BY <1>1 DEF ServiceInv, InboxOK
<1>6. PendingOK'
    BY <1>1, <1>2, <1>3 DEF ServiceInv, PendingOK
<1>7. VisitsOK'
  <2>1. Range(todo) = {}
      BY <1>1 DEF Range
  <2> QED
      BY <1>1, <1>3, <2>1 DEF ServiceInv, VisitsOK
<1>8. LogsOK'
    BY <1>1, SameLogs
<1> QED
    BY <1>4, <1>5, <1>6, <1>7, <1>8, KeptTogether

-----------------------------------------------------------------------------
(* What holds of the worker *)

LEMMA StepService == ServiceInv /\ [Next]_vars => ServiceInv'
<1> SUFFICES ASSUME ServiceInv, [Next]_vars PROVE ServiceInv'
    OBVIOUS
<1>1. CASE UNCHANGED vars
  <2>1. UNCHANGED <<life, tokens, wpc, wasIdle, inbox, pending, todo, ending, emitted, sent,
                    terminal, queue, hpc, got, epc, lost, closer>>
      BY <1>1 DEF vars, contractVars, runVars, handleVars, encVars
  <2>2. WorkerTypeOK'
      BY <2>1 DEF ServiceInv, WorkerTypeOK, ContractTypeOK
  <2>3. InboxOK'
      BY <2>1 DEF ServiceInv, InboxOK
  <2>4. PendingOK'
      BY <2>1 DEF ServiceInv, PendingOK
  <2> QED
      BY <2>1, <2>2, <2>3, <2>4, SameVisits, SameLogs, KeptTogether
<1>2. CASE TopBusy \/ TopStop \/ DrainEnd \/ CoalesceEnd \/ StepRaise \/ DispatchEnd
    BY <1>2, MovesKeep
<1>3. CASE TopIdle \/ Drain \/ Coalesce
  <2>1. Taking
      BY <1>3 DEF TopIdle, Drain, Coalesce, Taking, ServiceInv, WorkerTypeOK
  <2> QED
      BY <2>1, TakingKeeps
<1>4. CASE StepReturn
    BY <1>4, StepReturnKeeps
<1>5. ASSUME NEW r \in Requests,
             \/ StepEmit(r) \/ StepFinish(r)
             \/ PutToken(r) \/ MarkTerminal(r) \/ PutDone(r) \/ PassOver(r)
             \/ Forget(r)
      PROVE  ServiceInv'
    BY <1>5, StepEmitKeeps, StepFinishKeeps, PutTokenKeeps, MarkTerminalKeeps, PutDoneKeeps,
       PassOverKeeps, ForgetKeeps
<1>6. ASSUME NEW r \in Requests,
             CheckOpen(r) \/ Submit(r) \/ Read(r) \/ Abandon(r) \/ PostCancel(r)
      PROVE  ServiceInv'
    BY <1>6, CheckOpenKeeps, SubmitKeeps, ReadKeeps, AbandonKeeps, PostCancelKeeps
<1>7. CASE (\E e \in Encoders : CheckOpenEncode(e) \/ SubmitEncode(e)) \/ SetClosed \/ PostStop
    BY <1>7, OthersKeep
<1> QED
    BY <1>1, <1>2, <1>3, <1>4, <1>5, <1>6, <1>7 DEF Next, WorkerThread, Handlers

LEMMA AlwaysService == SafeSpec => []ServiceInv
<1> QED
    BY InitService, StepService, PTL DEF SafeSpec

LEMMA ServiceServes == ServiceInv => WorkerInv
<1> SUFFICES ASSUME ServiceInv PROVE WorkerInv
    OBVIOUS
<1>1. NoOrphans
    BY DEF ServiceInv, PendingOK, NoOrphans, Listed, Live
<1>2. NothingLost
  <2> SUFFICES ASSUME NEW r \in Requests, hpc[r] = "finished"
               PROVE  got[r] = Ending(tokens[r])
      BY DEF NothingLost, Ending
  <2> QED
      BY DEF ServiceInv, LogsOK
<1>3. StoppedDrained
  <2> SUFFICES ASSUME wpc = "stopped"
               PROVE  Listed = {} /\ \A r \in Requests : life[r] # "new" => terminal[r]
      BY DEF StoppedDrained
  <2>1. Range(pending) = {}
      BY DEF ServiceInv, PendingOK, Range
  <2> QED
      BY <2>1 DEF ServiceInv, PendingOK, Listed, Live
<1> QED
    BY <1>1, <1>2, <1>3 DEF WorkerInv, ServiceInv

\* Whatever the order in which the handlers, the callers of encode(), close()
\* and the worker touch the inbox, the queues and the flags: nothing runs on in
\* the engine that is not in _pending, even after a failed encode(), a consumer that
\* read its Done has every token, and a worker that stopped had finished or cancelled
\* what it accepted.
THEOREM WorkerServes == SafeSpec => []WorkerInv
<1> QED
    BY AlwaysService, ServiceServes, PTL

\* The same with the fairness the liveness properties assume.
COROLLARY FairWorkerServes == Spec => []WorkerInv
<1> QED
    BY WorkerServes DEF Spec

-----------------------------------------------------------------------------
(* The worker implements StreamContract *)

\* The queues handed out, and what was put into one.
Opened == {r \in Requests : hpc[r] \notin Unsent}
Log(r) == got[r] \o queue[r]

\* What a step of the worker means for a queue: nothing, the next token, Done,
\* or that the queue is handed out.
Same(r) == DonePut(r)' = DonePut(r) /\ sent'[r] = sent[r]
SameBut(r) == \A q \in Requests \ {r} : Same(q)
Quiet == Opened' = Opened /\ \A r \in Requests : Same(r)
Opens(r) == hpc[r] \in Unsent /\ Opened' = Opened \cup {r} /\ \A q \in Requests : Same(q)
Puts(r) ==
  /\ Opened' = Opened /\ r \in Opened /\ SameBut(r)
  /\ ~ DonePut(r) /\ ~ DonePut(r)'
  /\ sent[r] < MaxTokens[r] /\ sent'[r] = sent[r] + 1
Ends(r) ==
  /\ Opened' = Opened /\ r \in Opened /\ SameBut(r)
  /\ ~ DonePut(r) /\ DonePut(r)' /\ sent'[r] = sent[r]

LEMMA QuietSteps ==
  ASSUME UNCHANGED <<todo, sent, terminal>>,
         \A r \in Requests : hpc'[r] \in Unsent <=> hpc[r] \in Unsent
  PROVE  Quiet
BY DEF Quiet, Same, DonePut, Opened

LEMMA HandlersOnStreams ==
  ASSUME ServiceInv, NEW r \in Requests,
         CheckOpen(r) \/ Submit(r) \/ Read(r) \/ Abandon(r) \/ PostCancel(r)
  PROVE  Quiet \/ Opens(r)
<1>1. hpc \in [Requests -> {"start", "refused", "checked", "reading", "aborting", "gone", "finished"}]
    BY DEF ServiceInv, WorkerTypeOK
<1>2. CASE CheckOpen(r)
  <2>1. \A q \in Requests : hpc'[q] \in Unsent <=> hpc[q] \in Unsent
      BY <1>1, <1>2 DEF CheckOpen, Unsent
  <2> QED
      BY <1>2, <2>1, QuietSteps DEF CheckOpen, runVars
<1>3. CASE Submit(r)
  <2>1. /\ hpc[r] \in Unsent /\ hpc'[r] \notin Unsent
        /\ \A q \in Requests \ {r} : hpc'[q] = hpc[q]
      BY <1>1, <1>3 DEF Submit, Unsent
  <2>2. Opened' = Opened \cup {r}
      BY <2>1 DEF Opened
  <2> QED
      BY <1>3, <2>1, <2>2 DEF Submit, runVars, Opens, Same, DonePut
<1>4. CASE Read(r)
  <2>1. \A q \in Requests : hpc'[q] \in Unsent <=> hpc[q] \in Unsent
      BY <1>1, <1>4 DEF Read, Unsent
  <2>2. terminal' = terminal
      BY <1>4, ReadsWhatIsPut
  <2> QED
      BY <1>4, <2>1, <2>2, QuietSteps DEF Read, runVars
<1>5. CASE Abandon(r)
  <2>1. \A q \in Requests : hpc'[q] \in Unsent <=> hpc[q] \in Unsent
      BY <1>1, <1>5 DEF Abandon, Unsent
  <2> QED
      BY <1>5, <2>1, QuietSteps DEF Abandon, runVars
<1>6. CASE PostCancel(r)
  <2>1. \A q \in Requests : hpc'[q] \in Unsent <=> hpc[q] \in Unsent
      BY <1>1, <1>6 DEF PostCancel, Unsent
  <2> QED
      BY <1>6, <2>1, QuietSteps DEF PostCancel, runVars
<1> QED
    BY <1>2, <1>3, <1>4, <1>5, <1>6

LEMMA TakingOnStreams ==
  ASSUME ServiceInv, Taking
  PROVE  Quiet \/ \E r \in Requests : Ends(r)
<1> DEFINE item == Head(inbox)
<1>a. inbox # <<>> /\ item # Stop /\ Intake(item)
    BY DEF Taking, TakeItem
<1>b. item \in Items
    BY <1>a, TakenFacts DEF ServiceInv
<1> HIDE DEF item
<1>c. \/ \E r \in Requests : Register(r) \/ CancelPending(r)
      \/ \E e \in Encoders : AnswerEncode(e)
  <2>1. CASE item.kind = "generate" /\ item.who \in Requests
      BY <1>a, <2>1 DEF Intake
  <2>2. CASE item.kind = "encode" /\ item.who \in Encoders
      BY <1>a, <2>2 DEF Intake
  <2>3. CASE item.kind = "cancel" /\ item.who \in Requests
      BY <1>a, <2>3 DEF Intake
  <2> QED
      BY <1>a, <1>b, <2>1, <2>2, <2>3, ItemFacts
<1>1. UNCHANGED <<todo, hpc>> /\ todo = <<>> /\ Range(todo) = {} /\ sent' = sent
  <2>1. sent' = sent
      BY <1>c DEF Register, AnswerEncode, CancelPending
  <2> QED
      BY <2>1 DEF Taking, ServiceInv, VisitsOK, Range
<1>2. CASE terminal' = terminal
    BY <1>1, <1>2, QuietSteps
<1>3. CASE terminal' # terminal
  <2>4. PICK r \in Requests : CancelPending(r)
      BY <1>3, <1>c DEF Register, AnswerEncode
  <2>5. ~ terminal[r] /\ Contains(pending, r) /\ terminal' = [terminal EXCEPT ![r] = TRUE]
      BY <1>3, <2>4 DEF CancelPending
  <2>6. /\ terminal'[r] /\ \A q \in Requests \ {r} : terminal'[q] = terminal[q]
        /\ r \in Range(pending)
      BY <2>5, SeqFacts DEF Contains, ServiceInv, WorkerTypeOK
  <2>7. r \in Opened /\ Opened' = Opened
      BY <1>1, <2>6 DEF Opened, ServiceInv, PendingOK
  <2> QED
      BY <1>1, <2>5, <2>6, <2>7 DEF Ends, SameBut, Same, DonePut
<1> QED
    BY <1>2, <1>3

LEMMA DispatchOnStreams ==
  ASSUME ServiceInv, NEW r \in Requests,
         PutToken(r) \/ MarkTerminal(r) \/ PutDone(r) \/ PassOver(r)
  PROVE  Quiet \/ Puts(r) \/ Ends(r)
<1>1. Visiting(r) /\ Opened' = Opened
    BY DEF PutToken, MarkTerminal, PutDone, PassOver, handleVars, Opened
<1>2. /\ r \in Range(todo) /\ Range(Tail(todo)) = Range(todo) \ {r} /\ r \in Range(pending)
      /\ sent[r] \in Nat /\ tokens[r] \in Nat
    BY <1>1, VisitingFacts
<1>3. r \in Opened
    BY <1>2 DEF Opened, ServiceInv, PendingOK
<1>4. CASE PutToken(r)
  <2>1. sent'[r] = sent[r] + 1 /\ \A q \in Requests \ {r} : sent'[q] = sent[q]
      BY <1>4 DEF PutToken, ServiceInv, WorkerTypeOK
  <2>2. sent[r] < MaxTokens[r]
    <3>1. MaxTokens[r] \in Nat /\ tokens[r] <= MaxTokens[r] /\ sent[r] < tokens[r]
        BY <1>4, ContractAssumption DEF PutToken, ServiceInv, PendingOK
    <3> QED
        BY <1>2, <3>1
  <2> QED
      BY <1>1, <1>2, <1>3, <1>4, <2>1, <2>2 DEF PutToken, Puts, SameBut, Same, DonePut
<1>5. CASE MarkTerminal(r)
  <2>1. \A q \in Requests \ {r} : terminal'[q] = terminal[q]
      BY <1>5 DEF MarkTerminal, ServiceInv, WorkerTypeOK
  <2> QED
      BY <1>1, <1>2, <1>5, <2>1 DEF MarkTerminal, runVars, Quiet, Same, DonePut
<1>6. CASE PutDone(r)
    BY <1>1, <1>2, <1>3, <1>6 DEF PutDone, Ends, SameBut, Same, DonePut
<1>7. CASE PassOver(r)
  <2>1. ~ terminal[r]
      BY <1>2, <1>7 DEF PassOver, ServiceInv, PendingOK
  <2> QED
      BY <1>1, <1>2, <1>7, <2>1 DEF PassOver, handleVars, Quiet, Same, DonePut
<1> QED
    BY <1>4, <1>5, <1>6, <1>7

LEMMA StepOnStreams ==
  ASSUME ServiceInv, [Next]_vars
  PROVE  Quiet \/ \E r \in Requests : Opens(r) \/ Puts(r) \/ Ends(r)
<1>1. CASE \/ UNCHANGED vars
           \/ TopBusy \/ TopStop \/ DrainEnd \/ CoalesceEnd \/ StepRaise \/ DispatchEnd
           \/ (\E e \in Encoders : CheckOpenEncode(e) \/ SubmitEncode(e)) \/ SetClosed \/ PostStop
  <2>1. UNCHANGED <<todo, sent, terminal, hpc>>
      BY <1>1 DEF TopBusy, TopStop, DrainEnd, CoalesceEnd, StepRaise, DispatchEnd, CheckOpenEncode,
                  SubmitEncode, SetClosed, PostStop, vars, runVars, handleVars
  <2> QED
      BY <2>1, QuietSteps
<1>2. CASE TopIdle \/ Drain \/ Coalesce
  <2>1. Taking
      BY <1>2 DEF TopIdle, Drain, Coalesce, Taking, ServiceInv, WorkerTypeOK
  <2> QED
      BY <2>1, TakingOnStreams
<1>3. CASE StepReturn
  <2>1. /\ wpc = "step" /\ todo' = pending /\ UNCHANGED <<sent, terminal, hpc>>
      BY <1>3 DEF StepReturn, handleVars
  <2>2. Range(todo) = {} /\ \A r \in Range(pending) : ~ terminal[r]
      BY <2>1 DEF ServiceInv, VisitsOK, Range
  <2> QED
      BY <2>1, <2>2 DEF Quiet, Same, DonePut, Opened
<1>4. ASSUME NEW r \in Requests, StepEmit(r) \/ StepFinish(r) \/ Forget(r)
      PROVE  Quiet
  <2>1. UNCHANGED <<todo, sent, terminal, hpc>>
      BY <1>4 DEF StepEmit, StepFinish, Forget, runVars, handleVars
  <2> QED
      BY <2>1, QuietSteps
<1>5. ASSUME NEW r \in Requests, PutToken(r) \/ MarkTerminal(r) \/ PutDone(r) \/ PassOver(r)
      PROVE  Quiet \/ Puts(r) \/ Ends(r)
    BY <1>5, DispatchOnStreams
<1>6. ASSUME NEW r \in Requests,
             CheckOpen(r) \/ Submit(r) \/ Read(r) \/ Abandon(r) \/ PostCancel(r)
      PROVE  Quiet \/ Opens(r)
    BY <1>6, HandlersOnStreams
<1> QED
    BY <1>1, <1>2, <1>3, <1>4, <1>5, <1>6 DEF Next, WorkerThread, Handlers

\* A queue carries Done when it was put, and only then.
LEMMA DoneIsPut ==
  ASSUME ServiceInv, NEW r \in Requests
  PROVE  /\ Log(r) = IF DonePut(r) THEN Ending(sent[r]) ELSE Numbers(sent[r])
         /\ sent[r] \in Nat
         /\ (\E i \in DOMAIN Log(r) : Log(r)[i] = Done) <=> DonePut(r)
<1>1. sent[r] \in Nat /\ Log(r) = IF DonePut(r) THEN Ending(sent[r]) ELSE Numbers(sent[r])
    BY DEF ServiceInv, WorkerTypeOK, ContractTypeOK, LogsOK, Log
<1>2. ASSUME NEW n \in Nat
      PROVE  /\ \E i \in DOMAIN Ending(n) : Ending(n)[i] = Done
             /\ ~ \E i \in DOMAIN Numbers(n) : Numbers(n)[i] = Done
  <2>1. n + 1 \in DOMAIN Ending(n) /\ Ending(n)[n + 1] = Done
      BY DEF Ending
  <2>2. \A i \in DOMAIN Numbers(n) : Numbers(n)[i] = i /\ i # 0
      BY DEF Numbers
  <2> QED
      BY <2>1, <2>2 DEF Done
<1>3. CASE DonePut(r)
    BY <1>1, <1>2, <1>3
<1>4. CASE ~ DonePut(r)
    BY <1>1, <1>2, <1>4
<1> QED
    BY <1>1, <1>3, <1>4

\* A step that leaves a queue alone leaves what is in it.
LEMMA SameLog ==
  ASSUME ServiceInv, ServiceInv', NEW r \in Requests, Same(r)
  PROVE  got'[r] \o queue'[r] = got[r] \o queue[r]
BY DEF ServiceInv, LogsOK, Same

\* Every step is one of the contract's or leaves the queues alone.
LEMMA StreamStep ==
  ASSUME ServiceInv, ServiceInv', [Next]_vars
  PROVE  [Streams!StreamNext]_(Streams!streamVars)
<1> DEFINE log == [r \in Requests |-> got[r] \o queue[r]]
<1>1. \A r \in Requests : log[r] = Log(r)
    BY DEF Log
<1>2. Streams!streamVars = <<Opened, log>> /\ (Streams!streamVars)' = <<Opened', log'>>
    BY DEF Streams!streamVars, Opened, Unsent
<1>3. Opened \subseteq Requests
    BY DEF Opened
<1>4. CASE Quiet
  <2>1. Opened' = Opened /\ log' = log
      BY <1>4, SameLog DEF Quiet
  <2> QED
      BY <1>2, <2>1
<1>5. ASSUME NEW r \in Requests, Opens(r) PROVE Streams!StreamNext
  <2>1. Opened' = Opened \cup {r} /\ r \notin Opened /\ log' = log
      BY <1>5, SameLog DEF Opens, Opened
  <2>2. Streams!Open(r)
      BY <2>1 DEF Streams!Open, Opened, Unsent
  <2> QED
      BY <2>2 DEF Streams!StreamNext
<1>6. ASSUME NEW r \in Requests, Puts(r) PROVE Streams!StreamNext
  <2>1. /\ Opened' = Opened /\ r \in Opened /\ sent[r] < MaxTokens[r] /\ sent[r] \in Nat
        /\ \A q \in Requests \ {r} : log'[q] = log[q]
      BY <1>6, SameLog, DoneIsPut DEF Puts, SameBut
  <2>2. /\ log[r] = Numbers(sent[r]) /\ log'[r] = Numbers(sent[r] + 1)
        /\ ~ \E i \in DOMAIN log[r] : log[r][i] = Done
    <3>1. log[r] = Numbers(sent[r]) /\ ~ \E i \in DOMAIN log[r] : log[r][i] = Done
        BY <1>1, <1>6, DoneIsPut DEF Puts
    <3>2. got'[r] \o queue'[r] = Numbers(sent'[r])
        BY <1>6 DEF Puts, ServiceInv, LogsOK
    <3> QED
        BY <1>6, <3>1, <3>2 DEF Puts
  <2>3. log'[r] = Append(log[r], Len(log[r]) + 1) /\ Len(log[r]) < MaxTokens[r]
      BY <2>1, <2>2, NumbersFacts
  <2>4. log' = [log EXCEPT ![r] = Append(@, Len(@) + 1)]
      BY <2>1, <2>3
  <2>5. Streams!Put(r)
      BY <2>1, <2>2, <2>3, <2>4 DEF Streams!Put, Streams!Ended, Streams!Done, Done, Opened, Unsent
  <2> QED
      BY <2>5 DEF Streams!StreamNext
<1>7. ASSUME NEW r \in Requests, Ends(r) PROVE Streams!StreamNext
  <2>1. /\ Opened' = Opened /\ r \in Opened /\ sent[r] \in Nat
        /\ \A q \in Requests \ {r} : log'[q] = log[q]
      BY <1>7, SameLog, DoneIsPut DEF Ends, SameBut
  <2>2. /\ log[r] = Numbers(sent[r]) /\ log'[r] = Ending(sent[r])
        /\ ~ \E i \in DOMAIN log[r] : log[r][i] = Done
    <3>1. log[r] = Numbers(sent[r]) /\ ~ \E i \in DOMAIN log[r] : log[r][i] = Done
        BY <1>1, <1>7, DoneIsPut DEF Ends
    <3>2. got'[r] \o queue'[r] = Ending(sent'[r])
        BY <1>7 DEF Ends, ServiceInv, LogsOK
    <3> QED
        BY <1>7, <3>1, <3>2 DEF Ends
  <2>3. log'[r] = Append(log[r], Done)
      BY <2>1, <2>2, NumbersFacts
  <2>4. log' = [log EXCEPT ![r] = Append(@, Done)]
      BY <2>1, <2>3
  <2>5. Streams!End(r)
      BY <2>1, <2>2, <2>4 DEF Streams!End, Streams!Ended, Streams!Done, Done, Opened, Unsent
  <2> QED
      BY <2>5 DEF Streams!StreamNext
<1> QED
    BY <1>4, <1>5, <1>6, <1>7, StepOnStreams

\* Whatever the interleaving, each queue carries its request's tokens in order,
\* then a single Done, then nothing: the worker implements the safety half of
\* the promise of submit().
THEOREM WorkerKeepsStreams == SafeSpec => StreamsIntact
<1>1. Init => Streams!StreamInit
  <2> SUFFICES ASSUME Init PROVE Streams!StreamInit
      OBVIOUS
  <2>1. {r \in Requests : hpc[r] \notin {"start", "refused", "checked"}} = {}
      BY DEF Init
  <2>2. \A r \in Requests : got[r] = <<>> /\ queue[r] = <<>>
      BY DEF Init
  <2>3. <<>> \o <<>> = <<>>
      BY EmptySeq, ConcatEmptySeq
  <2> QED
      BY <2>1, <2>2, <2>3 DEF Streams!StreamInit
<1>2. ServiceInv /\ ServiceInv' /\ [Next]_vars => [Streams!StreamNext]_(Streams!streamVars)
    BY StreamStep
<1> QED
    BY <1>1, <1>2, AlwaysService, PTL DEF SafeSpec, StreamsIntact, Streams!StreamSafeSpec
=============================================================================
