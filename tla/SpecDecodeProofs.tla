--------------------------- MODULE SpecDecodeProofs ---------------------------
(***************************************************************************)
(* Speculative decoding is invisible: whatever the drafters propose, a     *)
(* greedy request is told what plain greedy decoding would tell it, as     *)
(* long as the gate does not close over a carried base token, budgets end  *)
(* within the window and no structured request is preempted.  The          *)
(* invariant says of every row how far its K/V, its recurrent state, its   *)
(* base token and its matcher have come along Greedy[r].                   *)
(***************************************************************************)
EXTENDS SpecDecode, QueueLemmas

\* What the scheduler and the server's settings must grant.
Granted ==
  /\ CloseWithCarry = FALSE
  /\ \A r \in Seqs : MaxTokens[r] <= Window
  /\ Constrained \cap Preemptible = {}

\* s and t agree through position k.
Through(s, t, k) ==
  /\ k <= Len(s) /\ k <= Len(t)
  /\ \A i \in 1..k : s[i] = t[i]

Carries(r) == carry[r] # NoToken

\* How many of r's outputs its K/V and its recurrent state stand for.
Reached(r) == len[r] + (IF Carries(r) THEN 1 ELSE 0)

\* r's outputs follow Greedy[r], within the budget and not past the end.
OutputOK(r) ==
  /\ Len(out[r]) <= MaxTokens[r]
  /\ Through(out[r], Greedy[r], Len(out[r]))
  /\ \A i \in 1..(Len(out[r]) - 1) : out[r][i] # Eos
  /\ pre[r] <= Len(out[r])

MayGoOn(r) == Len(out[r]) < MaxTokens[r] /\ \A i \in 1..Len(out[r]) : out[r][i] # Eos

Ended(r) == IsFinished(r, out[r])

\* A waiting row starts over from what it has said.
WaitOK(r) ==
  /\ pre[r] = Len(out[r]) /\ ~ Carries(r) /\ MayGoOn(r)
  /\ r \in Constrained => acc[r] = <<>> /\ seen[r] = NoToken

\* A running row that has not ended has everything in step.
StateOK(r) ==
  /\ Through(kv[r], out[r], Reached(r))
  /\ Len(rec[r]) = Reached(r) /\ Through(rec[r], out[r], Reached(r))
  /\ Carries(r) => Len(out[r]) < MaxTokens[r] /\ carry[r] = Greedy[r][Len(out[r]) + 1]
  /\ r \in Constrained => /\ Len(acc[r]) = seen[r]
                          /\ Through(acc[r], out[r], seen[r])

RunOK(r) ==
  /\ slot[r] \in Slots /\ len[r] + 1 = Len(out[r]) /\ seen[r] \in Nat
  /\ Ended(r) \/ StateOK(r)

RowOK(r) ==
  /\ OutputOK(r)
  /\ r \in Constrained => pre[r] = 0
  /\ status[r] = "waiting" => WaitOK(r)
  /\ status[r] = "running" => RunOK(r)

\* r's matcher has accepted everything r has said.
Caught(r) == r \in Constrained => seen[r] = Len(out[r])

SlotsApart == \A q, r \in Running : slot[q] = slot[r] => q = r

OwnPrefix(r) ==
  LET p == mtp[slot[r]]
  IN p # NoPrefix => p.owner = r /\ Through(p.toks, out[r], Len(p.toks))

PrefixesOwn == Unprimed = FALSE => \A r \in Running : OwnPrefix(r)

NearEnd == \E r \in Running : Len(out[r]) + SpecK >= TableLen

\* Where the step stands: which rows it has still to take, and in which shape.
StepOK ==
  /\ todo \subseteq Running
  /\ phase \in {"idle", "post"} => todo = {}
  /\ \A r \in Running : phase \in {"idle", "base"} \/ r \in todo => ~ Ended(r)
  /\ phase = "plain" => \A r \in Running : ~ Carries(r)
  /\ phase = "base" => \A r \in Running : Caught(r) /\ (r \in todo <=> ~ Carries(r))
  /\ phase = "verify" => \A r \in todo : Caught(r) /\ Carries(r)
  /\ phase = "raised" => NearEnd

TypeOK ==
  /\ SpecTypeOK
  /\ mtp \in [Slots -> [owner : Seqs \cup {NoToken}, toks : Seq(Tokens)]]

InStep ==
  /\ TypeOK
  /\ \A r \in Seqs : RowOK(r)
  /\ SlotsApart /\ PrefixesOwn /\ StepOK
-----------------------------------------------------------------------------
(* Facts about the token lists.                                            *)

\* The step at which an induction would fail first.
LEMMA FirstBad ==
  ASSUME NEW n \in Nat, NEW bad \in SUBSET (0..n), bad # {}, 0 \notin bad
  PROVE  \E i \in 1..n : i \in bad /\ i - 1 \in 0..n /\ i - 1 \notin bad /\ \A j \in bad : i <= j
<1>1. bad \in SUBSET Nat
    OBVIOUS
<1>2. PICK i \in bad : \A j \in bad : i <= j
    BY <1>1, LeastExists
<1>3. i \in 1..n /\ i - 1 \in 0..n /\ ~ (i <= i - 1)
    OBVIOUS
<1> QED
    BY <1>2, <1>3

\* The first k tokens of a list.
LEMMA FirstTokens ==
  ASSUME NEW s \in Seq(Tokens), NEW k \in Nat, k <= Len(s)
  PROVE  /\ SubSeq(s, 1, k) \in Seq(Tokens) /\ Len(SubSeq(s, 1, k)) = k
         /\ \A i \in 1..k : SubSeq(s, 1, k)[i] = s[i]
<1>1. Len(s) \in Nat /\ \A i \in 1..k : s[i] \in Tokens
    BY SeqFacts
<1>2. /\ SubSeq(s, 1, k) \in Seq(Tokens)
      /\ Len(SubSeq(s, 1, k)) = IF 1 <= k THEN k - 1 + 1 ELSE 0
      /\ \A i \in 1..(k - 1 + 1) : SubSeq(s, 1, k)[i] = s[1 + i - 1]
    BY <1>1, SubSeqProperties
<1>3. k - 1 + 1 = k /\ \A i \in 1..k : 1 + i - 1 = i
    OBVIOUS
<1>4. Len(SubSeq(s, 1, k)) = k
    BY <1>2, <1>3
<1> QED
    BY <1>2, <1>3, <1>4

\* A stretch of a list.
LEMMA Stretch ==
  ASSUME NEW s \in Seq(Tokens), NEW m \in Nat, NEW n \in Nat, 1 <= m, n <= Len(s)
  PROVE  /\ SubSeq(s, m, n) \in Seq(Tokens)
         /\ Len(SubSeq(s, m, n)) = IF m <= n THEN n - m + 1 ELSE 0
         /\ \A i \in 1..(n - m + 1) : SubSeq(s, m, n)[i] = s[m + i - 1]
<1>1. Len(s) \in Nat /\ \A i \in 1..Len(s) : s[i] \in Tokens
    BY SeqFacts
<1>2. \A i \in m..n : s[i] \in Tokens
    BY <1>1
<1> QED
    BY <1>2, SubSeqProperties

\* One list after another.
LEMMA Joined ==
  ASSUME NEW s \in Seq(Tokens), NEW t \in Seq(Tokens)
  PROVE  /\ s \o t \in Seq(Tokens) /\ Len(s \o t) = Len(s) + Len(t)
         /\ \A i \in 1..Len(s) : (s \o t)[i] = s[i]
         /\ \A i \in 1..Len(t) : (s \o t)[Len(s) + i] = t[i]
<1>1. /\ s \o t \in Seq(Tokens) /\ Len(s \o t) = Len(s) + Len(t)
      /\ \A i \in 1..(Len(s) + Len(t)) : (s \o t)[i] = IF i <= Len(s) THEN s[i] ELSE t[i - Len(s)]
    BY ConcatProperties
<1>2. Len(s) \in Nat /\ Len(t) \in Nat
    BY SeqFacts
<1>3. \A i \in 1..Len(s) : (s \o t)[i] = s[i]
    BY <1>1, <1>2
<1>4. ASSUME NEW i \in 1..Len(t) PROVE (s \o t)[Len(s) + i] = t[i]
  <2>1. Len(s) + i \in 1..(Len(s) + Len(t)) /\ ~ (Len(s) + i <= Len(s)) /\ Len(s) + i - Len(s) = i
      BY <1>2
  <2> QED
      BY <1>1, <2>1
<1> QED
    BY <1>1, <1>3, <1>4

\* A list of one.
LEMMA Single ==
  ASSUME NEW x \in Tokens
  PROVE  <<x>> \in Seq(Tokens) /\ Len(<<x>>) = 1 /\ <<x>>[1] = x
    OBVIOUS

\* Lists that agree through the whole of both are the same.
LEMMA SameTokens ==
  ASSUME NEW s \in Seq(Tokens), NEW t \in Seq(Tokens), Len(s) = Len(t), Through(s, t, Len(t))
  PROVE  s = t
    BY SeqEqual DEF Through

\* What agrees through k with the whole of a list has the list as its start.
LEMMA SameStart ==
  ASSUME NEW s \in Seq(Tokens), NEW t \in Seq(Tokens), Through(s, t, Len(t))
  PROVE  SubSeq(s, 1, Len(t)) = t
<1>1. Len(t) \in Nat /\ Len(t) <= Len(s)
    BY SeqFacts DEF Through
<1>2. /\ SubSeq(s, 1, Len(t)) \in Seq(Tokens) /\ Len(SubSeq(s, 1, Len(t))) = Len(t)
      /\ \A i \in 1..Len(t) : SubSeq(s, 1, Len(t))[i] = t[i]
    BY <1>1, FirstTokens DEF Through
<1> QED
    BY <1>2, SeqEqual

\* write_decode and the verify forward: what is written stands where it was
\* put, and what comes before stays.
LEMMA Overwritten ==
  ASSUME NEW s \in Seq(Tokens), NEW i \in Nat \ {0}, i <= Len(s) + 1, NEW ids \in Seq(Tokens)
  PROVE  /\ Overwrite(s, i, ids) \in Seq(Tokens)
         /\ Len(Overwrite(s, i, ids)) >= i - 1 + Len(ids)
         /\ \A j \in 1..(i - 1) : Overwrite(s, i, ids)[j] = s[j]
         /\ \A j \in 1..Len(ids) : Overwrite(s, i, ids)[i - 1 + j] = ids[j]
<1> DEFINE front == SubSeq(s, 1, i - 1)
           rest == SubSeq(s, i + Len(ids), Len(s))
<1>1. Len(s) \in Nat /\ Len(ids) \in Nat /\ i - 1 \in Nat /\ i - 1 <= Len(s) /\ i + Len(ids) \in Nat
      /\ 1 <= i + Len(ids)
    BY SeqFacts
<1>2. front \in Seq(Tokens) /\ Len(front) = i - 1 /\ \A j \in 1..(i - 1) : front[j] = s[j]
    BY <1>1, FirstTokens
<1>3. rest \in Seq(Tokens)
    BY <1>1, Stretch
<1>4. Overwrite(s, i, ids) = front \o ids \o rest
    BY DEF Overwrite
<1> HIDE DEF front, rest
<1>5. /\ front \o ids \in Seq(Tokens) /\ Len(front \o ids) = i - 1 + Len(ids)
      /\ \A j \in 1..(i - 1) : (front \o ids)[j] = s[j]
      /\ \A j \in 1..Len(ids) : (front \o ids)[i - 1 + j] = ids[j]
  <2>1. /\ front \o ids \in Seq(Tokens) /\ Len(front \o ids) = Len(front) + Len(ids)
        /\ \A j \in 1..Len(front) : (front \o ids)[j] = front[j]
        /\ \A j \in 1..Len(ids) : (front \o ids)[Len(front) + j] = ids[j]
      BY <1>2, Joined
  <2> QED
      BY <1>2, <2>1
<1>6. /\ Overwrite(s, i, ids) \in Seq(Tokens)
      /\ Len(Overwrite(s, i, ids)) = i - 1 + Len(ids) + Len(rest)
      /\ \A j \in 1..(i - 1 + Len(ids)) : Overwrite(s, i, ids)[j] = (front \o ids)[j]
  <2> DEFINE u == front \o ids
  <2>1. u \in Seq(Tokens) /\ Len(u) = i - 1 + Len(ids)
      BY <1>5
  <2> HIDE DEF u
  <2>2. /\ u \o rest \in Seq(Tokens) /\ Len(u \o rest) = Len(u) + Len(rest)
        /\ \A j \in 1..Len(u) : (u \o rest)[j] = u[j]
      BY <1>3, <2>1, Joined
  <2>3. /\ u \o rest \in Seq(Tokens) /\ Len(u \o rest) = i - 1 + Len(ids) + Len(rest)
        /\ \A j \in 1..(i - 1 + Len(ids)) : (u \o rest)[j] = u[j]
      BY <2>1, <2>2
  <2> QED
      BY <1>4, <2>3 DEF u
<1>7. Len(rest) \in Nat
    BY <1>3, SeqFacts
<1>8. \A j \in 1..(i - 1) : j \in 1..(i - 1 + Len(ids))
    BY <1>1
<1>9. \A j \in 1..Len(ids) : i - 1 + j \in 1..(i - 1 + Len(ids))
    BY <1>1
<1>10. Len(Overwrite(s, i, ids)) >= i - 1 + Len(ids)
    BY <1>1, <1>6, <1>7
<1> QED
    BY <1>5, <1>6, <1>8, <1>9, <1>10

-----------------------------------------------------------------------------
(* Facts about the matcher and the model.                                  *)

\* The matcher's positions along a walk.
LEMMA WalkSteps ==
  ASSUME NEW m \in Seq(Tokens), NEW toks \in Seq(Tokens)
  PROVE  \E w \in [0..Len(toks) -> Seq(Tokens)] :
           /\ w[0] = m /\ Walk(m, toks) = w[Len(toks)]
           /\ \A i \in 1..Len(toks) : w[i] = Accept(w[i - 1], toks[i])
<1> DEFINE Walks(w, k) == /\ w \in [0..k -> Seq(Tokens)] /\ w[0] = m
                          /\ \A i \in 1..k : w[i] = Accept(w[i - 1], toks[i])
           CanWalk(k) == \E w : Walks(w, k)
           short == {k \in 0..Len(toks) : ~ CanWalk(k)}
<1>1. Len(toks) \in Nat /\ \A i \in 1..Len(toks) : toks[i] \in Tokens
    BY SeqFacts
<1>2. ASSUME NEW v \in Seq(Tokens), NEW x \in Tokens PROVE Accept(v, x) \in Seq(Tokens)
    BY AppendFacts DEF Accept
<1>3. short = {}
  <2> SUFFICES ASSUME short # {} PROVE FALSE
      OBVIOUS
  <2>1. CanWalk(0)
    <3>1. Walks([i \in 0..0 |-> m], 0)
        OBVIOUS
    <3> QED
        BY <3>1
  <2> HIDE DEF CanWalk
  <2>2. short \in SUBSET (0..Len(toks)) /\ 0 \notin short
      BY <2>1
  <2> HIDE DEF short
  <2>3. PICK k \in 1..Len(toks) : k \in short /\ k - 1 \in 0..Len(toks) /\ k - 1 \notin short
      BY <1>1, <2>2, FirstBad
  <2>9. ~ CanWalk(k) /\ CanWalk(k - 1)
      BY <2>3 DEF short
  <2>4. PICK w : Walks(w, k - 1)
      BY <2>9 DEF CanWalk
  <2> DEFINE u == [i \in 0..k |-> IF i = k THEN Accept(w[k - 1], toks[k]) ELSE w[i]]
  <2>5. Accept(w[k - 1], toks[k]) \in Seq(Tokens)
    <3>1. w[k - 1] \in Seq(Tokens) /\ toks[k] \in Tokens
        BY <1>1, <2>3, <2>4
    <3> QED
        BY <1>2, <3>1
  <2>6. u \in [0..k -> Seq(Tokens)] /\ u[0] = m
      BY <2>3, <2>4, <2>5
  <2>7. ASSUME NEW i \in 1..k PROVE u[i] = Accept(u[i - 1], toks[i])
    <3>1. u[i - 1] = w[i - 1]
        BY <2>3
    <3>2. CASE i = k
        BY <3>1, <3>2
    <3>3. CASE i # k
      <4>1. i \in 1..(k - 1) /\ u[i] = w[i]
          BY <2>3, <3>3
      <4> QED
          BY <2>4, <3>1, <4>1
    <3> QED
        BY <3>2, <3>3
  <2>8. Walks(u, k)
      BY <2>6, <2>7
  <2> HIDE DEF u
  <2>10. CanWalk(k)
      BY <2>8 DEF CanWalk
  <2> QED
      BY <2>9, <2>10
<1> DEFINE run == CHOOSE w : w = [i \in 0..Len(toks) |-> IF i = 0 THEN m ELSE Accept(w[i - 1], toks[i])]
<1>4. PICK w : Walks(w, Len(toks))
  <2>1. CanWalk(Len(toks))
    <3> HIDE DEF CanWalk
    <3> QED
        BY <1>1, <1>3
  <2> QED
      BY <2>1
<1>5. w = [i \in 0..Len(toks) |-> IF i = 0 THEN m ELSE Accept(w[i - 1], toks[i])]
  <2>1. \A i \in 0..Len(toks) : w[i] = IF i = 0 THEN m ELSE Accept(w[i - 1], toks[i])
      BY <1>1, <1>4
  <2> QED
      BY <1>4, <2>1
<1>6. run = [i \in 0..Len(toks) |-> IF i = 0 THEN m ELSE Accept(run[i - 1], toks[i])]
    BY <1>5
<1>7. Walk(m, toks) = run[Len(toks)]
    BY DEF Walk
<1> HIDE DEF run
<1>8. run[0] = m /\ \A i \in 1..Len(toks) : run[i] = Accept(run[i - 1], toks[i])
    BY <1>1, <1>6
<1>9. \A i \in 0..Len(toks) : run[i] = w[i]
  <2> DEFINE bad == {i \in 0..Len(toks) : run[i] # w[i]}
  <2> SUFFICES ASSUME bad # {} PROVE FALSE
      OBVIOUS
  <2>1. bad \in SUBSET (0..Len(toks)) /\ 0 \notin bad
      BY <1>4, <1>8
  <2> HIDE DEF bad
  <2>2. PICK i \in 1..Len(toks) : i \in bad /\ i - 1 \in 0..Len(toks) /\ i - 1 \notin bad
      BY <1>1, <2>1, FirstBad
  <2>3. run[i] # w[i] /\ run[i - 1] = w[i - 1]
      BY <2>2 DEF bad
  <2> QED
      BY <1>4, <1>8, <2>2, <2>3
<1>10. Walk(m, toks) = w[Len(toks)]
    BY <1>1, <1>7, <1>9
<1> QED
    BY <1>4, <1>10

\* The matcher is always at some list of tokens.
LEMMA WalkType ==
  ASSUME NEW m \in Seq(Tokens), NEW toks \in Seq(Tokens)
  PROVE  Walk(m, toks) \in Seq(Tokens)
<1>1. Len(toks) \in Nat /\ Len(toks) \in 0..Len(toks)
    BY SeqFacts
<1>2. PICK w \in [0..Len(toks) -> Seq(Tokens)] : Walk(m, toks) = w[Len(toks)]
    BY WalkSteps
<1> QED
    BY <1>1, <1>2
\* What Greedy[r] says before it ends is legal, so the matcher follows it.
LEMMA WalkFollows ==
  ASSUME NEW r \in Constrained,
         NEW o \in Seq(Tokens), Through(o, Greedy[r], Len(o)), Len(o) <= MaxTokens[r],
         \A i \in 1..Len(o) : o[i] # Eos,
         NEW m \in Seq(Tokens), Through(m, o, Len(m)),
         NEW toks \in Seq(Tokens), Len(o) = Len(m) + Len(toks),
         \A i \in 1..Len(toks) : toks[i] = o[Len(m) + i]
  PROVE  Walk(m, toks) = o
<1>1. PICK w \in [0..Len(toks) -> Seq(Tokens)] :
           /\ w[0] = m /\ Walk(m, toks) = w[Len(toks)]
           /\ \A i \in 1..Len(toks) : w[i] = Accept(w[i - 1], toks[i])
    BY WalkSteps
<1>2. /\ Len(o) \in Nat /\ Len(m) \in Nat /\ Len(toks) \in Nat /\ r \in Seqs
      /\ \A i \in 1..Len(o) : o[i] \in Tokens
      /\ Greedy[r] \in Seq(Tokens) /\ MaxTokens[r] \in Nat /\ MaxTokens[r] <= Len(Greedy[r])
      /\ Len(Greedy[r]) \in Nat
    BY SeqFacts, SpecAssumption
<1> DEFINE bad == {i \in 0..Len(toks) : w[i] # SubSeq(o, 1, Len(m) + i)}
<1>3. ASSUME NEW k \in Nat, k <= Len(o) PROVE SubSeq(o, 1, k) \in Language
  <2>1. k \in 0..MaxTokens[r] /\ k <= Len(Greedy[r])
      BY <1>2, <1>3
  <2> DEFINE said == SubSeq(Greedy[r], 1, k)
  <2>2. said \in Seq(Tokens) /\ Len(said) = k /\ \A i \in 1..k : said[i] = Greedy[r][i]
      BY <1>2, <2>1, FirstTokens
  <2>3. SubSeq(o, 1, k) \in Seq(Tokens) /\ Len(SubSeq(o, 1, k)) = k /\ \A i \in 1..k : SubSeq(o, 1, k)[i] = o[i]
      BY <1>2, <1>3, FirstTokens
  <2>4. \A i \in 1..k : Greedy[r][i] = o[i] /\ o[i] # Eos
      BY <1>2, <1>3 DEF Through
  <2> HIDE DEF said
  <2>5. Eos \notin Range(said)
    <3>1. \A x \in Range(said) : \E i \in 1..k : said[i] = x
        BY <2>2, SeqFacts
    <3> QED
        BY <2>2, <2>4, <3>1
  <2>6. SubSeq(o, 1, k) = said
    <3> DEFINE u == SubSeq(o, 1, k)
    <3>1. u \in Seq(Tokens) /\ Len(u) = Len(said) /\ \A i \in 1..Len(u) : u[i] = said[i]
        BY <2>2, <2>3, <2>4
    <3> HIDE DEF u
    <3>2. u = said
        BY <2>2, <3>1, SeqEqual
    <3> QED
        BY <3>2 DEF u
  <2> USE DEF said
  <2> QED
      BY <2>1, <2>5, <2>6, GrammarAssumption
<1>4. bad = {}
  <2> SUFFICES ASSUME bad # {} PROVE FALSE
      OBVIOUS
  <2>1. SubSeq(o, 1, Len(m)) = m
    <3>1. Through(o, m, Len(m))
        BY DEF Through
    <3> QED
        BY <3>1, SameStart
  <2>2. bad \in SUBSET (0..Len(toks)) /\ 0 \notin bad
      BY <1>1, <1>2, <2>1
  <2> HIDE DEF bad
  <2>3. PICK i \in 1..Len(toks) : i \in bad /\ i - 1 \in 0..Len(toks) /\ i - 1 \notin bad
      BY <1>2, <2>2, FirstBad
  <2> DEFINE k == Len(m) + (i - 1)
  <2>4. k \in Nat /\ k + 1 = Len(m) + i /\ k + 1 <= Len(o) /\ k + 1 \in 1..Len(o) /\ k <= Len(o)
      BY <1>2, <2>3
  <2>5. w[i - 1] = SubSeq(o, 1, k) /\ toks[i] = o[k + 1]
      BY <2>3, <2>4 DEF bad
  <2>6. Append(SubSeq(o, 1, k), o[k + 1]) = SubSeq(o, 1, k + 1)
    <3> HIDE DEF k
    <3>1. /\ SubSeq(o, 1, k) \in Seq(Tokens) /\ Len(SubSeq(o, 1, k)) = k
          /\ \A j \in 1..k : SubSeq(o, 1, k)[j] = o[j]
        BY <2>4, FirstTokens
    <3>2. /\ SubSeq(o, 1, k + 1) \in Seq(Tokens) /\ Len(SubSeq(o, 1, k + 1)) = k + 1
          /\ \A j \in 1..(k + 1) : SubSeq(o, 1, k + 1)[j] = o[j]
      <4>1. k + 1 \in Nat /\ k + 1 <= Len(o)
          BY <2>4
      <4> DEFINE n == k + 1
      <4> HIDE DEF n
      <4>2. /\ SubSeq(o, 1, n) \in Seq(Tokens) /\ Len(SubSeq(o, 1, n)) = n
            /\ \A j \in 1..n : SubSeq(o, 1, n)[j] = o[j]
          BY <4>1, FirstTokens DEF n
      <4> QED
          BY <4>2 DEF n
    <3> DEFINE u == Append(SubSeq(o, 1, k), o[k + 1])
    <3>3. /\ u \in Seq(Tokens) /\ Len(u) = k + 1
          /\ \A j \in 1..k : u[j] = o[j]
          /\ u[k + 1] = o[k + 1]
        BY <1>2, <2>4, <3>1, AppendFacts
    <3>4. \A j \in 1..(k + 1) : j \in 1..k \/ j = k + 1
        BY <2>4
    <3> HIDE DEF u
    <3>5. \A j \in 1..(k + 1) : u[j] = SubSeq(o, 1, k + 1)[j]
        BY <3>2, <3>3, <3>4
    <3>6. u = SubSeq(o, 1, k + 1)
        BY <3>2, <3>3, <3>5, SeqEqual
    <3> QED
        BY <3>6 DEF u
  <2>7. SubSeq(o, 1, k + 1) \in Language
      BY <1>3, <2>4
  <2>8. w[i] = SubSeq(o, 1, k + 1)
    <3>1. w[i] = Accept(w[i - 1], toks[i])
        BY <1>1, <2>3
    <3> HIDE DEF k
    <3>2. w[i] = Accept(SubSeq(o, 1, k), o[k + 1])
        BY <2>5, <3>1
    <3> QED
        BY <2>6, <2>7, <3>2 DEF Accept
  <2>9. w[i] = SubSeq(o, 1, Len(m) + i)
      BY <2>4, <2>8
  <2> QED
      BY <2>3, <2>9 DEF bad
<1>5. Len(toks) \in 0..Len(toks)
    BY <1>2
<1>6. w[Len(toks)] = SubSeq(o, 1, Len(m) + Len(toks))
    BY <1>4, <1>5
<1>7. SubSeq(o, 1, Len(o)) = o
    BY SubSeqFull
<1> QED
    BY <1>1, <1>6, <1>7

\* From the right context, state and matcher the model says what it says.
LEMMA PickRight ==
  ASSUME NEW r \in Seqs, NEW o \in Seq(Tokens),
         Through(o, Greedy[r], Len(o)), Len(o) < MaxTokens[r],
         NEW h, Recurrent => h = o, NEW m, r \in Constrained => m = o
  PROVE  Pick(r, o, h, m) = {Greedy[r][Len(o) + 1]} /\ Greedy[r][Len(o) + 1] \in Tokens
<1>1. /\ Len(o) \in Nat /\ Greedy[r] \in Seq(Tokens) /\ Len(Greedy[r]) \in Nat
      /\ Len(o) + 1 \in 1..Len(Greedy[r]) /\ MaxTokens[r] \in Nat
    BY SeqFacts, SpecAssumption
<1>2. Greedy[r][Len(o) + 1] \in Tokens
    BY <1>1, SeqFacts
<1>3. SubSeq(o, 1, Len(o)) = o
    BY SubSeqFull
<1>4. SubSeq(Greedy[r], 1, Len(o)) = o
  <2>1. Through(Greedy[r], o, Len(o))
      BY DEF Through
  <2> QED
      BY <1>1, <2>1, SameStart
<1>5. IsStrictPrefix(o, Greedy[r])
  <2>1. Len(o) <= Len(Greedy[r]) /\ o # Greedy[r]
      BY <1>1
  <2> QED
      BY <1>3, <1>4, <2>1 DEF IsStrictPrefix, IsPrefix
<1> QED
    BY <1>2, <1>5 DEF Pick

\* The model says tokens.
LEMMA PickTokens ==
  ASSUME NEW r \in Seqs, NEW o \in Seq(Tokens), NEW h, NEW m
  PROVE  Pick(r, o, h, m) \subseteq Tokens
<1>1. Len(o) \in Nat /\ Greedy[r] \in Seq(Tokens) /\ Len(Greedy[r]) \in Nat
    BY SeqFacts, SpecAssumption
<1>2. ASSUME IsStrictPrefix(o, Greedy[r]) PROVE Len(o) + 1 \in 1..Len(Greedy[r])
  <2>1. /\ Len(o) <= Len(Greedy[r]) /\ o # Greedy[r]
        /\ SubSeq(o, 1, Len(o)) = SubSeq(Greedy[r], 1, Len(o))
      BY <1>2 DEF IsStrictPrefix, IsPrefix
  <2>2. SubSeq(o, 1, Len(o)) = o /\ SubSeq(Greedy[r], 1, Len(Greedy[r])) = Greedy[r]
      BY <1>1, SubSeqFull
  <2>3. Len(o) # Len(Greedy[r])
      BY <2>1, <2>2
  <2> QED
      BY <1>1, <2>1, <2>3
<1> QED
    BY <1>1, <1>2, SeqFacts DEF Pick

\* _truncate_emit keeps a start of the emission: within the budget, through the
\* first end of sequence, and all of it unless one of the two cuts it.
LEMMA Truncated ==
  ASSUME NEW r \in Seqs, out[r] \in Seq(Tokens), Len(out[r]) < MaxTokens[r],
         NEW emit \in Seq(Tokens), emit # <<>>
  PROVE  LET e == TruncateEmit(r, emit)
         IN /\ e \in Seq(Tokens) /\ Len(e) \in 1..Len(emit) /\ Len(out[r]) + Len(e) <= MaxTokens[r]
            /\ \A i \in 1..Len(e) : e[i] = emit[i]
            /\ \A i \in 1..(Len(e) - 1) : emit[i] # Eos
            /\ Len(e) < Len(emit) => Len(out[r]) + Len(e) = MaxTokens[r] \/ emit[Len(e)] = Eos
<1> DEFINE left == IF MaxTokens[r] > Len(out[r]) THEN MaxTokens[r] - Len(out[r]) ELSE 1
           n == IF left < Len(emit) THEN left ELSE Len(emit)
           kept == SubSeq(emit, 1, n)
           ends == {i \in 1..Len(kept) : kept[i] = Eos}
           k == IF ends = {} THEN n ELSE CHOOSE i \in ends : \A j \in ends : i <= j
           e == TruncateEmit(r, emit)
<1>1. /\ Len(out[r]) \in Nat /\ MaxTokens[r] \in Nat /\ Len(emit) \in Nat \ {0} /\ left \in Nat \ {0}
      /\ left = MaxTokens[r] - Len(out[r])
  <2>1. Len(out[r]) \in Nat /\ MaxTokens[r] \in Nat /\ Len(emit) \in Nat \ {0}
      BY SeqFacts, EmptySeq, SpecAssumption
  <2> QED
      BY <2>1
<1>2. n \in Nat /\ n \in 1..Len(emit) /\ Len(out[r]) + n <= MaxTokens[r]
      /\ (n < Len(emit) => Len(out[r]) + n = MaxTokens[r])
    BY <1>1
<1>3. kept \in Seq(Tokens) /\ Len(kept) = n /\ \A i \in 1..n : kept[i] = emit[i]
  <2> HIDE DEF n
  <2> QED
      BY <1>1, <1>2, FirstTokens
<1>4. e = IF ends = {} THEN kept ELSE SubSeq(kept, 1, k)
  <2>1. e = IF ends = {} THEN kept ELSE SubSeq(kept, 1, CHOOSE i \in ends : \A j \in ends : i <= j)
      BY Zenon DEF TruncateEmit
  <2> HIDE DEF ends, kept, e
  <2> QED
      BY <2>1
<1> HIDE DEF n, kept, e
<1>5. ends # {} => k \in ends /\ \A j \in ends : k <= j
  <2>1. ends \in SUBSET Nat
      BY <1>2, <1>3
  <2> QED
      BY <2>1, LeastExists
<1> HIDE DEF k
<1>6. CASE ends = {}
  <2>1. e = kept /\ \A i \in 1..n : emit[i] # Eos
      BY <1>3, <1>4, <1>6
  <2>2. n - 1 \in Nat /\ \A i \in 1..(n - 1) : i \in 1..n
      BY <1>2
  <2> QED
      BY <1>2, <1>3, <2>1, <2>2 DEF e
<1>7. CASE ends # {}
  <2>1. k \in 1..n /\ kept[k] = Eos /\ \A j \in 1..n : kept[j] = Eos => k <= j
      BY <1>3, <1>5, <1>7
  <2>2. k \in Nat /\ k <= n /\ k <= Len(kept)
      BY <1>2, <1>3, <2>1
  <2>3. e \in Seq(Tokens) /\ Len(e) = k /\ \A i \in 1..k : e[i] = kept[i]
      BY <1>3, <1>4, <1>7, <2>2, FirstTokens
  <2>4. \A i \in 1..k : i \in 1..n
      BY <1>2, <2>1
  <2>5. \A i \in 1..(k - 1) : i \in 1..n /\ ~ (k <= i)
      BY <1>2, <2>1
  <2>6. k \in 1..Len(emit) /\ Len(out[r]) + k <= MaxTokens[r]
      BY <1>1, <1>2, <2>1
  <2>7. (\A i \in 1..k : e[i] = emit[i]) /\ emit[k] = Eos
      BY <1>3, <2>1, <2>3, <2>4
  <2>8. \A i \in 1..(k - 1) : emit[i] # Eos
      BY <1>3, <2>1, <2>5
  <2> QED
      BY <2>3, <2>6, <2>7, <2>8 DEF e
<1> QED
    BY <1>6, <1>7

-----------------------------------------------------------------------------
(* Facts about a row.                                                      *)

\* The step leaves q's row as it is.
SameRow(q) ==
  /\ status'[q] = status[q] /\ slot'[q] = slot[q] /\ out'[q] = out[q] /\ pre'[q] = pre[q]
  /\ len'[q] = len[q] /\ kv'[q] = kv[q] /\ rec'[q] = rec[q] /\ carry'[q] = carry[q]
  /\ acc'[q] = acc[q] /\ seen'[q] = seen[q]

LEMMA RowStays ==
  ASSUME NEW q \in Seqs, RowOK(q), SameRow(q)
  PROVE  /\ RowOK(q)'
         /\ Ended(q)' <=> Ended(q)
         /\ Carries(q)' <=> Carries(q)
         /\ Caught(q) => Caught(q)'
<1>1. Ended(q)' <=> Ended(q)
    BY DEF Ended, IsFinished, SameRow
<1>2. Carries(q)' <=> Carries(q)
    BY DEF Carries, SameRow
<1>3. Reached(q)' = Reached(q)
    BY <1>2 DEF Reached, SameRow
<1>4. OutputOK(q)' /\ (q \in Constrained => pre'[q] = 0)
    BY DEF RowOK, OutputOK, Through, SameRow
<1>5. status'[q] = "waiting" => WaitOK(q)'
    BY <1>2 DEF RowOK, WaitOK, MayGoOn, SameRow
<1>6. StateOK(q) => StateOK(q)'
    BY <1>2, <1>3 DEF StateOK, Through, SameRow
<1>7. status'[q] = "running" => RunOK(q)'
    BY <1>1, <1>6 DEF RowOK, RunOK, SameRow
<1>8. Caught(q) => Caught(q)'
    BY DEF Caught, SameRow
<1> QED
    BY <1>1, <1>2, <1>4, <1>5, <1>7, <1>8 DEF RowOK

\* A draft prefix stays its row's own when the row says more.
LEMMA PrefixStays ==
  ASSUME NEW q \in Seqs, OwnPrefix(q), slot'[q] = slot[q], mtp'[slot[q]] = mtp[slot[q]],
         out[q] \in Seq(Tokens), mtp[slot[q]].toks \in Seq(Tokens),
         Len(out[q]) <= Len(out'[q]), Len(out'[q]) \in Nat, Through(out'[q], out[q], Len(out[q]))
  PROVE  OwnPrefix(q)'
<1> DEFINE p == mtp[slot[q]]
<1>1. mtp'[slot'[q]] = p
    OBVIOUS
<1>2. p # NoPrefix => p.owner = q /\ Through(p.toks, out[q], Len(p.toks))
    BY DEF OwnPrefix
<1>3. Len(p.toks) \in Nat /\ Len(out[q]) \in Nat
    BY SeqFacts
<1>4. p # NoPrefix => Through(p.toks, out'[q], Len(p.toks))
    BY <1>2, <1>3 DEF Through
<1> HIDE DEF p
<1> QED
    BY <1>1, <1>2, <1>4 DEF OwnPrefix

\* What the types say of one row.
LEMMA RowTypes ==
  ASSUME SpecTypeOK, NEW r \in Seqs
  PROVE  /\ status[r] \in {"waiting", "running", "finished"}
         /\ out[r] \in Seq(Tokens) /\ Len(out[r]) \in Nat
         /\ kv[r] \in Seq(Tokens) /\ Len(kv[r]) \in Nat
         /\ rec[r] \in Seq(Tokens) /\ Len(rec[r]) \in Nat
         /\ acc[r] \in Seq(Tokens) /\ Len(acc[r]) \in Nat
         /\ pre[r] \in Nat /\ len[r] \in Nat
         /\ carry[r] \in Tokens \cup {NoToken} /\ seen[r] \in Nat \cup {NoToken}
         /\ drafts[r] \in DraftLists
<1>1. /\ out[r] \in Seq(Tokens) /\ kv[r] \in Seq(Tokens)
      /\ rec[r] \in Seq(Tokens) /\ acc[r] \in Seq(Tokens)
    BY DEF SpecTypeOK
<1>2. Len(out[r]) \in Nat /\ Len(kv[r]) \in Nat /\ Len(rec[r]) \in Nat /\ Len(acc[r]) \in Nat
    BY <1>1, SeqFacts
<1> QED
    BY <1>1, <1>2 DEF SpecTypeOK

\* What the constants say of one request.
LEMMA RequestTypes ==
  ASSUME NEW r \in Seqs
  PROVE  /\ Greedy[r] \in Seq(Tokens) /\ Len(Greedy[r]) \in Nat
         /\ MaxTokens[r] \in Nat \ {0} /\ MaxTokens[r] <= Len(Greedy[r])
         /\ \A i \in 1..Len(Greedy[r]) : Greedy[r][i] \in Tokens
    BY SpecAssumption, SeqFacts

\* A row that has not ended may go on.
LEMMA NotEnded ==
  ASSUME SpecTypeOK, NEW r \in Seqs, OutputOK(r), ~ Ended(r)
  PROVE  MayGoOn(r)
<1>1. Len(out[r]) \in Nat /\ MaxTokens[r] \in Nat /\ out[r] \in Seq(Tokens)
    BY RowTypes, RequestTypes
<1>2. Len(out[r]) < MaxTokens[r]
    BY <1>1 DEF Ended, IsFinished
<1>3. out[r] # <<>> => out[r][Len(out[r])] # Eos
    BY DEF Ended, IsFinished, Last
<1>4. out[r] = <<>> => Len(out[r]) = 0
    BY EmptySeq
<1>5. \A i \in 1..Len(out[r]) : i \in 1..(Len(out[r]) - 1) \/ i = Len(out[r])
    BY <1>1
<1>6. \A i \in 1..Len(out[r]) : out[r][i] # Eos
    BY <1>1, <1>3, <1>4, <1>5 DEF OutputOK
<1> QED
    BY <1>2, <1>6 DEF MayGoOn

\* A row that has not been preempted is counted from its outputs alone.
LEMMA AllIdsFacts ==
  ASSUME SpecTypeOK, NEW r \in Seqs, pre[r] <= Len(out[r])
  PROVE  /\ \A o \in Seq(Tokens) : AllIds(r, o) \in Seq(Tokens) /\ Watermark(r, o) \in Nat
         /\ AllIds(r, out[r]) \in Seq(Tokens) /\ Watermark(r, out[r]) \in Nat
         /\ pre[r] = 0 => \A o \in Seq(Tokens) : AllIds(r, o) = o /\ Watermark(r, o) = Len(o)
<1>1. out[r] \in Seq(Tokens) /\ pre[r] \in Nat
    BY RowTypes
<1>2. SubSeq(out[r], 1, pre[r]) \in Seq(Tokens)
    BY <1>1, FirstTokens
<1>3. ASSUME NEW o \in Seq(Tokens) PROVE AllIds(r, o) \in Seq(Tokens)
    BY <1>2, Joined DEF AllIds
<1>4. ASSUME NEW o \in Seq(Tokens) PROVE Watermark(r, o) \in Nat
    BY <1>3, SeqFacts DEF Watermark
<1>5. ASSUME pre[r] = 0, NEW o \in Seq(Tokens) PROVE AllIds(r, o) = o /\ Watermark(r, o) = Len(o)
  <2>1. SubSeq(out[r], 1, 0) = <<>>
      BY SubSeqEmpty
  <2>2. AllIds(r, o) = o
      BY <1>5, <2>1, ConcatEmptySeq DEF AllIds
  <2> QED
      BY <2>2 DEF Watermark
<1> QED
    BY <1>1, <1>3, <1>4, <1>5

\* sync leaves the matcher at some list of tokens.
LEMMA SyncedType ==
  ASSUME SpecTypeOK, NEW r \in Seqs, pre[r] <= Len(out[r])
  PROVE  Synced(r, out[r]) \in Seq(Tokens)
<1> DEFINE ids == AllIds(r, out[r])
<1>1. acc[r] \in Seq(Tokens) /\ seen[r] \in Nat \cup {NoToken} /\ ids \in Seq(Tokens)
    BY RowTypes, AllIdsFacts
<1> HIDE DEF ids
<1>2. CASE seen[r] = NoToken
    BY <1>1, <1>2 DEF Synced
<1>3. CASE seen[r] # NoToken
  <2>1. seen[r] + 1 \in Nat /\ 1 <= seen[r] + 1 /\ Len(ids) \in Nat
      BY <1>1, <1>3, SeqFacts
  <2>2. SubSeq(ids, seen[r] + 1, Len(ids)) \in Seq(Tokens)
      BY <1>1, <2>1, Stretch
  <2> QED
      BY <1>1, <1>3, <2>2, WalkType DEF Synced, ids
<1> QED
    BY <1>2, <1>3

\* Once it has synced, a matcher that was in step has accepted every output.
LEMMA SyncedRight ==
  ASSUME SpecTypeOK, NEW r \in Constrained, r \in Seqs, RowOK(r), status[r] = "running", ~ Ended(r)
  PROVE  Synced(r, out[r]) = out[r] /\ Watermark(r, out[r]) = Len(out[r])
<1>1. /\ out[r] \in Seq(Tokens) /\ Len(out[r]) \in Nat /\ acc[r] \in Seq(Tokens) /\ Len(acc[r]) \in Nat
      /\ pre[r] = 0 /\ OutputOK(r) /\ RunOK(r)
    BY RowTypes DEF RowOK
<1>2. /\ seen[r] \in Nat /\ Len(acc[r]) = seen[r] /\ Through(acc[r], out[r], seen[r])
    BY <1>1 DEF RunOK, StateOK
<1>3. AllIds(r, out[r]) = out[r] /\ Watermark(r, out[r]) = Len(out[r])
    BY <1>1, AllIdsFacts DEF OutputOK
<1>4. MayGoOn(r)
    BY <1>1, NotEnded
<1> DEFINE toks == SubSeq(out[r], seen[r] + 1, Len(out[r]))
<1>5. seen[r] <= Len(out[r]) /\ seen[r] + 1 \in Nat /\ 1 <= seen[r] + 1
    BY <1>2 DEF Through
<1>6. /\ toks \in Seq(Tokens) /\ Len(toks) = Len(out[r]) - seen[r]
      /\ \A i \in 1..Len(toks) : toks[i] = out[r][seen[r] + i]
  <2>1. /\ toks \in Seq(Tokens)
        /\ Len(toks) = IF seen[r] + 1 <= Len(out[r]) THEN Len(out[r]) - (seen[r] + 1) + 1 ELSE 0
        /\ \A i \in 1..(Len(out[r]) - (seen[r] + 1) + 1) : toks[i] = out[r][(seen[r] + 1) + i - 1]
      BY <1>1, <1>5, Stretch
  <2> HIDE DEF toks
  <2>2. Len(toks) = Len(out[r]) - seen[r]
      BY <1>1, <1>2, <1>5, <2>1
  <2>3. \A i \in 1..Len(toks) : i \in 1..(Len(out[r]) - (seen[r] + 1) + 1) /\ (seen[r] + 1) + i - 1 = seen[r] + i
      BY <1>1, <1>2, <2>2
  <2> QED
      BY <2>1, <2>2, <2>3
<1>7. seen[r] # NoToken
    BY <1>2, SpecAssumption
<1>8. Synced(r, out[r]) = Walk(acc[r], toks)
    BY <1>3, <1>7 DEF Synced
<1> HIDE DEF toks
<1>9. Len(out[r]) = Len(acc[r]) + Len(toks) /\ Len(out[r]) <= MaxTokens[r]
    BY <1>1, <1>2, <1>6 DEF OutputOK
<1>10. Walk(acc[r], toks) = out[r]
  <2>1. Through(out[r], Greedy[r], Len(out[r])) /\ \A i \in 1..Len(out[r]) : out[r][i] # Eos
      BY <1>1, <1>4 DEF OutputOK, MayGoOn
  <2>2. Through(acc[r], out[r], Len(acc[r])) /\ \A i \in 1..Len(toks) : toks[i] = out[r][Len(acc[r]) + i]
      BY <1>2, <1>6
  <2>3. /\ out[r] \in Seq(Tokens) /\ acc[r] \in Seq(Tokens) /\ toks \in Seq(Tokens)
        /\ Len(out[r]) = Len(acc[r]) + Len(toks) /\ Len(out[r]) <= MaxTokens[r]
      BY <1>1, <1>6, <1>9
  <2> DEFINE o == out[r]
             m == acc[r]
  <2> HIDE DEF o, m
  <2>4. /\ Through(o, Greedy[r], Len(o)) /\ (\A i \in 1..Len(o) : o[i] # Eos)
        /\ Through(m, o, Len(m)) /\ (\A i \in 1..Len(toks) : toks[i] = o[Len(m) + i])
        /\ o \in Seq(Tokens) /\ m \in Seq(Tokens) /\ toks \in Seq(Tokens)
        /\ Len(o) = Len(m) + Len(toks) /\ Len(o) <= MaxTokens[r]
      BY <2>1, <2>2, <2>3 DEF o, m
  <2>5. Walk(m, toks) = o
      BY <2>4, WalkFollows
  <2> QED
      BY <2>5 DEF o, m
<1> QED
    BY <1>3, <1>8, <1>10

\* What the forward of a row writes and reads: the last output goes behind
\* what stands there, and the context is everything said.
LEMMA Forward ==
  ASSUME SpecTypeOK, NEW r \in Seqs, RowOK(r), status[r] = "running", ~ Ended(r), ~ Carries(r)
  PROVE  LET k == Overwrite(kv[r], len[r] + 1, <<Last(out[r])>>)
             h == Append(rec[r], Last(out[r]))
         IN /\ k \in Seq(Tokens) /\ Through(k, out[r], len[r] + 1) /\ h = out[r]
            /\ SubSeq(k, 1, len[r] + 1) = out[r] /\ len[r] + 1 = Len(out[r])
            /\ Last(out[r]) \in Tokens
<1> DEFINE x == Last(out[r])
           k == Overwrite(kv[r], len[r] + 1, <<x>>)
           h == Append(rec[r], x)
<1>1. /\ out[r] \in Seq(Tokens) /\ Len(out[r]) \in Nat /\ kv[r] \in Seq(Tokens) /\ Len(kv[r]) \in Nat
      /\ rec[r] \in Seq(Tokens) /\ Len(rec[r]) \in Nat /\ len[r] \in Nat
    BY RowTypes
<1>2. /\ len[r] + 1 = Len(out[r]) /\ Through(kv[r], out[r], len[r])
      /\ Len(rec[r]) = len[r] /\ Through(rec[r], out[r], len[r])
    BY <1>1 DEF RowOK, RunOK, StateOK, Reached
<1>3. x = out[r][len[r] + 1] /\ x \in Tokens
  <2>1. len[r] + 1 \in 1..Len(out[r])
      BY <1>1, <1>2
  <2> QED
      BY <1>1, <1>2, <2>1, SeqFacts DEF Last
<1> HIDE DEF x
<1>4. len[r] + 1 \in Nat \ {0} /\ len[r] + 1 <= Len(kv[r]) + 1
    BY <1>1, <1>2 DEF Through
<1>5. /\ k \in Seq(Tokens) /\ Len(k) >= (len[r] + 1) - 1 + Len(<<x>>)
      /\ \A j \in 1..((len[r] + 1) - 1) : k[j] = kv[r][j]
      /\ \A j \in 1..Len(<<x>>) : k[(len[r] + 1) - 1 + j] = <<x>>[j]
  <2> DEFINE ids == <<x>>
             i == len[r] + 1
  <2>1. ids \in Seq(Tokens) /\ i \in Nat \ {0} /\ i <= Len(kv[r]) + 1 /\ kv[r] \in Seq(Tokens)
      BY <1>1, <1>3, <1>4, Single
  <2> HIDE DEF ids, i
  <2>2. /\ Overwrite(kv[r], i, ids) \in Seq(Tokens)
        /\ Len(Overwrite(kv[r], i, ids)) >= i - 1 + Len(ids)
        /\ \A j \in 1..(i - 1) : Overwrite(kv[r], i, ids)[j] = kv[r][j]
        /\ \A j \in 1..Len(ids) : Overwrite(kv[r], i, ids)[i - 1 + j] = ids[j]
      BY <2>1, Overwritten
  <2> QED
      BY <2>2 DEF ids, i
<1>6. k \in Seq(Tokens) /\ Len(k) >= len[r] + 1 /\ k[len[r] + 1] = x /\ \A j \in 1..len[r] : k[j] = kv[r][j]
  <2>1. Len(<<x>>) = 1 /\ <<x>>[1] = x
      BY <1>3, Single
  <2>2. (len[r] + 1) - 1 = len[r]
      BY <1>1
  <2> HIDE DEF k
  <2> QED
      BY <1>1, <1>5, <2>1, <2>2
<1>7. /\ h \in Seq(Tokens) /\ Len(h) = len[r] + 1 /\ h[len[r] + 1] = x
      /\ \A j \in 1..len[r] : h[j] = rec[r][j]
    BY <1>1, <1>2, <1>3, AppendFacts
<1> HIDE DEF k, h
<1>8. \A j \in 1..(len[r] + 1) : j \in 1..len[r] \/ j = len[r] + 1
    BY <1>1
<1>9. Len(k) \in Nat
    BY <1>6, SeqFacts
<1>10. Through(k, out[r], len[r] + 1)
    BY <1>1, <1>2, <1>3, <1>6, <1>8, <1>9 DEF Through
<1>11. Through(h, out[r], len[r] + 1)
    BY <1>1, <1>2, <1>3, <1>7, <1>8 DEF Through
<1>12. h = out[r]
    BY <1>1, <1>2, <1>7, <1>11, SameTokens
<1>13. SubSeq(k, 1, len[r] + 1) = out[r]
    BY <1>1, <1>2, <1>6, <1>10, SameStart
<1> QED
    BY <1>2, <1>3, <1>6, <1>10, <1>12, <1>13 DEF k, h, x

\* What a row says next, when its context, state and matcher are what it said.
LEMMA NextToken ==
  ASSUME SpecTypeOK, NEW r \in Seqs, OutputOK(r), MayGoOn(r),
         NEW h, Recurrent => h = out[r], NEW m, r \in Constrained => m = out[r],
         NEW x \in Pick(r, out[r], h, m)
  PROVE  x \in Tokens /\ x = Greedy[r][Len(out[r]) + 1]
<1>1. out[r] \in Seq(Tokens) /\ Through(out[r], Greedy[r], Len(out[r])) /\ Len(out[r]) < MaxTokens[r]
    BY RowTypes DEF OutputOK, MayGoOn
<1> QED
    BY <1>1, PickRight

\* A row that has gone on by Greedy's next token is still in order.
LEMMA SaysNext ==
  ASSUME SpecTypeOK, NEW r \in Seqs, OutputOK(r), MayGoOn(r), pre'[r] = pre[r],
         NEW x, x \in Tokens, x = Greedy[r][Len(out[r]) + 1], out'[r] = Append(out[r], x)
  PROVE  /\ OutputOK(r)' /\ out'[r] \in Seq(Tokens) /\ Len(out'[r]) = Len(out[r]) + 1
         /\ Through(out'[r], out[r], Len(out[r]))
<1>1. out[r] \in Seq(Tokens) /\ Len(out[r]) \in Nat /\ pre[r] \in Nat
    BY RowTypes
<1>2. MaxTokens[r] \in Nat /\ Len(Greedy[r]) \in Nat /\ MaxTokens[r] <= Len(Greedy[r])
    BY RequestTypes
<1>3. /\ out'[r] \in Seq(Tokens) /\ Len(out'[r]) = Len(out[r]) + 1
      /\ \A i \in 1..Len(out[r]) : out'[r][i] = out[r][i]
      /\ out'[r][Len(out[r]) + 1] = x
    BY <1>1, AppendFacts
<1>4. \A i \in 1..(Len(out[r]) + 1) : i \in 1..Len(out[r]) \/ i = Len(out[r]) + 1
    BY <1>1
<1>5. Through(out'[r], out[r], Len(out[r]))
    BY <1>1, <1>3 DEF Through
<1>6. Through(out'[r], Greedy[r], Len(out'[r]))
    BY <1>1, <1>2, <1>3, <1>4 DEF Through, OutputOK, MayGoOn
<1>7. \A i \in 1..(Len(out'[r]) - 1) : out'[r][i] # Eos
    BY <1>1, <1>3 DEF MayGoOn
<1>8. Len(out'[r]) <= MaxTokens[r] /\ pre'[r] <= Len(out'[r])
    BY <1>1, <1>2, <1>3 DEF OutputOK, MayGoOn
<1> QED
    BY <1>3, <1>5, <1>6, <1>7, <1>8 DEF OutputOK

-----------------------------------------------------------------------------
(* The steps, one lemma for each.                                          *)

LEMMA InitInStep == Init => InStep
<1> SUFFICES ASSUME Init PROVE InStep
    OBVIOUS
<1>1. <<>> \in Seq(Tokens) /\ Len(<<>>) = 0 /\ Running = {}
    BY EmptySeq DEF Init, Running
<1>2. <<>> \in DraftLists
  <2>1. 0 \in 0..SpecK /\ <<>> \in [1..0 -> Tokens]
      BY SpecAssumption
  <2> QED
      BY <2>1 DEF DraftLists
<1>3. NoPrefix \in [owner : Seqs \cup {NoToken}, toks : Seq(Tokens)]
    BY <1>1 DEF NoPrefix
<1>4. mtp \in [Slots -> [owner : Seqs \cup {NoToken}, toks : Seq(Tokens)]]
    BY <1>3 DEF Init
<1>5. \A s \in Slots : mtp[s].owner \in Seqs \cup {NoToken} /\ mtp[s].toks \in Seq(Tokens)
    BY <1>4
<1>6. TypeOK
    BY <1>1, <1>2, <1>4, <1>5 DEF TypeOK, SpecTypeOK, Init
<1>7. ASSUME NEW r \in Seqs PROVE RowOK(r)
  <2>1. MaxTokens[r] \in Nat \ {0} /\ Len(Greedy[r]) \in Nat
      BY RequestTypes
  <2>2. /\ status[r] = "waiting" /\ out[r] = <<>> /\ pre[r] = 0 /\ carry[r] = NoToken
        /\ acc[r] = <<>> /\ seen[r] = NoToken
      BY DEF Init
  <2>3. OutputOK(r)
      BY <1>1, <2>1, <2>2 DEF OutputOK, Through
  <2>4. WaitOK(r)
      BY <1>1, <2>1, <2>2 DEF WaitOK, MayGoOn, Carries
  <2> QED
      BY <2>2, <2>3, <2>4 DEF RowOK
<1>8. SlotsApart /\ PrefixesOwn /\ StepOK
    BY <1>1 DEF SlotsApart, PrefixesOwn, StepOK, Init
<1> QED
    BY <1>6, <1>7, <1>8 DEF InStep

\* A step that leaves the rows alone leaves alone what is said of them.
LEMMA RowsStay ==
  ASSUME InStep, UNCHANGED <<rowVars, walkVars, out, len, kv, rec, carry, mtp>>,
         todo' \subseteq Running, drafts' \in [Seqs -> DraftLists],
         phase' \in {"idle", "plain", "base", "verify", "post", "raised"}
  PROVE  /\ TypeOK' /\ (\A r \in Seqs : RowOK(r)') /\ SlotsApart' /\ PrefixesOwn'
         /\ Running' = Running
         /\ \A r \in Seqs : /\ Ended(r)' <=> Ended(r)
                            /\ Carries(r)' <=> Carries(r)
                            /\ Caught(r) => Caught(r)'
<1>1. Running' = Running
    BY DEF Running, rowVars
<1>2. TypeOK'
    BY <1>1 DEF InStep, TypeOK, SpecTypeOK, rowVars, walkVars
<1>3. \A r \in Seqs : SameRow(r)
    BY DEF SameRow, rowVars, walkVars
<1>4. \A r \in Seqs : RowOK(r)
    BY DEF InStep
<1>5. \A r \in Seqs : /\ RowOK(r)'
                      /\ Ended(r)' <=> Ended(r)
                      /\ Carries(r)' <=> Carries(r)
                      /\ Caught(r) => Caught(r)'
    BY <1>3, <1>4, RowStays
<1>6. SlotsApart'
    BY <1>1 DEF InStep, SlotsApart, rowVars
<1>7. ASSUME Unprimed = FALSE, NEW r \in Running PROVE OwnPrefix(r)'
  <2>1. OwnPrefix(r)
      BY <1>7 DEF InStep, PrefixesOwn
  <2> QED
      BY <2>1 DEF OwnPrefix, rowVars
<1>8. PrefixesOwn'
    BY <1>1, <1>7 DEF PrefixesOwn
<1> QED
    BY <1>1, <1>2, <1>5, <1>6, <1>8

LEMMA BeginPlainKeeps ==
  ASSUME Granted, InStep, BeginPlain
  PROVE  InStep'
<1>1. \A r \in Running : ~ Carries(r) /\ ~ Ended(r)
    BY DEF BeginPlain, Granted, Carries, InStep, StepOK
<1>2. /\ todo' = Running /\ phase' = "plain"
      /\ UNCHANGED <<rowVars, walkVars, out, len, kv, rec, carry, mtp, drafts>>
    BY DEF BeginPlain
<1>3. drafts' \in [Seqs -> DraftLists]
    BY <1>2 DEF InStep, TypeOK, SpecTypeOK
<1>4. /\ TypeOK' /\ (\A r \in Seqs : RowOK(r)') /\ SlotsApart' /\ PrefixesOwn'
      /\ Running' = Running
      /\ \A r \in Seqs : (Ended(r)' <=> Ended(r)) /\ (Carries(r)' <=> Carries(r))
    BY <1>2, <1>3, RowsStay
<1>5. Running \subseteq Seqs
    BY DEF Running
<1>6. StepOK'
    BY <1>1, <1>2, <1>4, <1>5 DEF StepOK
<1> QED
    BY <1>4, <1>6 DEF InStep

LEMMA ProposeKeeps ==
  ASSUME InStep, Propose
  PROVE  InStep'
<1>1. /\ todo' = Running /\ phase' = "verify" /\ phase = "base" /\ todo = {}
      /\ UNCHANGED <<rowVars, walkVars, out, len, kv, rec, carry, mtp>>
    BY DEF Propose
<1>2. drafts' \in [Seqs -> DraftLists]
  <2>1. PICK d \in [Running -> DraftLists] :
               drafts' = [r \in Seqs |-> IF r \in Running THEN d[r] ELSE <<>>]
      BY DEF Propose
  <2>2. <<>> \in DraftLists
    <3>1. 0 \in 0..SpecK /\ <<>> \in [1..0 -> Tokens]
        BY SpecAssumption
    <3> QED
        BY <3>1 DEF DraftLists
  <2> QED
      BY <2>1, <2>2
<1>3. /\ TypeOK' /\ (\A r \in Seqs : RowOK(r)') /\ SlotsApart' /\ PrefixesOwn'
      /\ Running' = Running
      /\ \A r \in Seqs : /\ Ended(r)' <=> Ended(r)
                         /\ Carries(r)' <=> Carries(r)
                         /\ Caught(r) => Caught(r)'
    BY <1>1, <1>2, RowsStay
<1>4. Running \subseteq Seqs
    BY DEF Running
<1>5. \A r \in Running : ~ Ended(r) /\ Caught(r) /\ Carries(r)
    BY <1>1 DEF InStep, StepOK
<1>6. StepOK'
    BY <1>1, <1>3, <1>4, <1>5 DEF StepOK
<1> QED
    BY <1>3, <1>6 DEF InStep

\* A draft has at most SpecK tokens.
LEMMA DraftFacts ==
  ASSUME SpecTypeOK, NEW r \in Seqs
  PROVE  drafts[r] \in Seq(Tokens) /\ Len(drafts[r]) \in 0..SpecK
<1>1. PICK k \in 0..SpecK : drafts[r] \in [1..k -> Tokens]
    BY RowTypes DEF DraftLists
<1>2. k \in Nat /\ drafts[r] \in Seq(Tokens)
  <2>1. k \in Nat
      BY SpecAssumption
  <2>2. drafts[r] \in UNION {[1..n -> Tokens] : n \in Nat}
      BY <1>1, <2>1
  <2> QED
      BY <2>1, <2>2, SeqDef
<1>3. DOMAIN drafts[r] = 1..k /\ DOMAIN drafts[r] = 1..Len(drafts[r]) /\ Len(drafts[r]) \in Nat
    BY <1>1, <1>2, LenProperties
<1>4. Len(drafts[r]) = k
    BY <1>2, <1>3
<1> QED
    BY <1>1, <1>2, <1>4

\* The verify tensor is at most one position wider than the longest draft.
LEMMA WidthBound ==
  ASSUME SpecTypeOK, AnyDraft
  PROVE  VerifyWidth \in 2..(SpecK + 1)
<1> DEFINE Longest(k) == /\ \E r \in Running : Len(drafts[r]) = k
                         /\ \A r \in Running : Len(drafts[r]) <= k
           short == {j \in 0..SpecK : \E r \in Running : Len(drafts[r]) = SpecK - j}
<1>1. SpecK \in Nat \ {0} /\ Running \subseteq Seqs
    BY SpecAssumption DEF Running
<1>2. \A r \in Running : Len(drafts[r]) \in 0..SpecK /\ drafts[r] \in Seq(Tokens)
    BY <1>1, DraftFacts
<1>3. \E k \in 1..SpecK : Longest(k)
  <2>1. PICK q \in Running : drafts[q] # <<>>
      BY DEF AnyDraft
  <2>2. Len(drafts[q]) \in 1..SpecK
      BY <1>1, <1>2, <2>1, EmptySeq
  <2>3. SpecK - Len(drafts[q]) \in short /\ short \in SUBSET Nat
    <3>1. SpecK - Len(drafts[q]) \in 0..SpecK /\ Len(drafts[q]) = SpecK - (SpecK - Len(drafts[q]))
        BY <1>1, <2>2
    <3> QED
        BY <1>1, <3>1
  <2> HIDE DEF short
  <2>4. PICK j \in short : \A i \in short : j <= i
      BY <2>3, LeastExists
  <2>5. j \in 0..SpecK /\ j <= SpecK - Len(drafts[q])
      BY <2>3, <2>4 DEF short
  <2>6. SpecK - j \in 1..SpecK
      BY <1>1, <2>2, <2>5
  <2>7. \E r \in Running : Len(drafts[r]) = SpecK - j
      BY <2>4 DEF short
  <2>8. ASSUME NEW r \in Running PROVE Len(drafts[r]) <= SpecK - j
    <3>1. Len(drafts[r]) \in 0..SpecK
        BY <1>2
    <3>2. SpecK - Len(drafts[r]) \in 0..SpecK /\ Len(drafts[r]) = SpecK - (SpecK - Len(drafts[r]))
        BY <1>1, <3>1
    <3>3. SpecK - Len(drafts[r]) \in short
        BY <3>2 DEF short
    <3>4. j <= SpecK - Len(drafts[r])
        BY <2>4, <3>3
    <3> QED
        BY <1>1, <2>5, <3>1, <3>4
  <2> QED
      BY <2>6, <2>7, <2>8
<1>4. VerifyWidth = 1 + CHOOSE k \in 1..SpecK : Longest(k)
    BY DEF VerifyWidth
<1> HIDE DEF Longest
<1>5. (CHOOSE k \in 1..SpecK : Longest(k)) \in 1..SpecK
    BY <1>3
<1> QED
    BY <1>1, <1>4, <1>5

LEMMA VerifyRaisesKeeps ==
  ASSUME InStep, VerifyRaises
  PROVE  InStep'
<1>1. /\ todo' = Running /\ phase' = "raised" /\ phase = "verify" /\ AnyDraft /\ todo = Running /\ PastTable
      /\ UNCHANGED <<rowVars, walkVars, out, len, kv, rec, carry, mtp, drafts>>
    BY DEF VerifyRaises
<1>2. drafts' \in [Seqs -> DraftLists] /\ SpecTypeOK
    BY <1>1 DEF InStep, TypeOK, SpecTypeOK
<1>3. /\ TypeOK' /\ (\A r \in Seqs : RowOK(r)') /\ SlotsApart' /\ PrefixesOwn'
      /\ Running' = Running
      /\ \A r \in Seqs : Ended(r)' <=> Ended(r)
    BY <1>1, <1>2, RowsStay
<1>4. Running \subseteq Seqs
    BY DEF Running
<1>5. \A r \in Running : ~ Ended(r)
    BY <1>1 DEF InStep, StepOK
<1>6. NearEnd
  <2>1. PICK r \in Running : len[r] + 1 + VerifyWidth > TableLen
      BY <1>1 DEF PastTable
  <2>2. VerifyWidth \in 2..(SpecK + 1)
      BY <1>1, <1>2, WidthBound
  <2>3. len[r] + 1 = Len(out[r])
      BY <1>4 DEF InStep, RowOK, RunOK, Running
  <2>4. len[r] \in Nat /\ TableLen \in Nat /\ SpecK \in Nat
      BY <1>2, <1>4, RowTypes, SpecAssumption
  <2>5. Len(out[r]) + SpecK >= TableLen
      BY <2>1, <2>2, <2>3, <2>4
  <2> QED
      BY <2>5 DEF NearEnd
<1>7. NearEnd'
    BY <1>1, <1>3, <1>6 DEF NearEnd
<1>8. StepOK'
    BY <1>1, <1>3, <1>4, <1>5, <1>7 DEF StepOK
<1> QED
    BY <1>3, <1>8 DEF InStep

LEMMA StutterKeeps ==
  ASSUME InStep, UNCHANGED vars
  PROVE  InStep'
<1>1. /\ UNCHANGED <<rowVars, walkVars, out, len, kv, rec, carry, mtp>>
      /\ todo' = todo /\ drafts' = drafts /\ phase' = phase
    BY DEF vars, rowVars, walkVars
<1>2. /\ drafts' \in [Seqs -> DraftLists] /\ todo' \subseteq Running
      /\ phase' \in {"idle", "plain", "base", "verify", "post", "raised"}
    BY <1>1 DEF InStep, TypeOK, SpecTypeOK
<1>3. /\ TypeOK' /\ (\A r \in Seqs : RowOK(r)') /\ SlotsApart' /\ PrefixesOwn'
      /\ Running' = Running
      /\ \A r \in Seqs : /\ Ended(r)' <=> Ended(r)
                         /\ Carries(r)' <=> Carries(r)
                         /\ Caught(r) => Caught(r)'
    BY <1>1, <1>2, RowsStay
<1>4. Running \subseteq Seqs
    BY DEF Running
<1>5. NearEnd => NearEnd'
    BY <1>1, <1>3 DEF NearEnd
<1>6. StepOK
    BY DEF InStep
<1>7. StepOK'
    BY <1>1, <1>3, <1>4, <1>5, <1>6 DEF StepOK
<1> QED
    BY <1>3, <1>7 DEF InStep

\* A step of one row leaves alone what is said of the others.
LEMMA OthersStay ==
  ASSUME InStep, NEW r \in Seqs, \A q \in Seqs \ {r} : SameRow(q)
  PROVE  \A q \in Seqs \ {r} : /\ RowOK(q)'
                               /\ Ended(q)' <=> Ended(q)
                               /\ Carries(q)' <=> Carries(q)
                               /\ Caught(q) => Caught(q)'
                               /\ q \in Running' <=> q \in Running
<1> SUFFICES ASSUME NEW q \in Seqs \ {r}
             PROVE  /\ RowOK(q)'
                    /\ Ended(q)' <=> Ended(q)
                    /\ Carries(q)' <=> Carries(q)
                    /\ Caught(q) => Caught(q)'
                    /\ q \in Running' <=> q \in Running
    OBVIOUS
<1>1. RowOK(q) /\ SameRow(q) /\ q \in Seqs
    BY DEF InStep
<1>2. q \in Running' <=> q \in Running
    BY <1>1 DEF Running, SameRow
<1> QED
    BY <1>1, <1>2, RowStays

LEMMA BeginSpecKeeps ==
  ASSUME Granted, InStep, BeginSpec
  PROVE  InStep'
<1>1. /\ phase = "idle" /\ phase' = "base"
      /\ acc' = [r \in Seqs |-> IF r \in Running THEN Synced(r, out[r]) ELSE acc[r]]
      /\ seen' = [r \in Seqs |-> IF r \in Running THEN Watermark(r, out[r]) ELSE seen[r]]
      /\ todo' = {r \in Running : carry[r] = NoToken}
      /\ UNCHANGED <<rowVars, out, len, kv, rec, carry, mtp, drafts>>
    BY DEF BeginSpec
<1>2. SpecTypeOK /\ TypeOK /\ StepOK
    BY DEF InStep, TypeOK
<1>3. Running' = Running /\ Running \subseteq Seqs
    BY <1>1 DEF Running, rowVars
<1>4. ASSUME NEW r \in Running
      PROVE  /\ Synced(r, out[r]) \in Seq(Tokens) /\ Watermark(r, out[r]) \in Nat
             /\ r \in Constrained => Synced(r, out[r]) = out[r] /\ Watermark(r, out[r]) = Len(out[r])
             /\ ~ Ended(r)
  <2>1. /\ RowOK(r) /\ r \in Seqs /\ status[r] = "running" /\ ~ Ended(r) /\ pre[r] <= Len(out[r])
      BY <1>1, <1>2, <1>3 DEF InStep, RowOK, OutputOK, Running, StepOK
  <2>2. r \in Constrained => Synced(r, out[r]) = out[r] /\ Watermark(r, out[r]) = Len(out[r])
      BY <1>2, <2>1, SyncedRight
  <2> QED
      BY <1>2, <2>1, <2>2, SyncedType, AllIdsFacts
<1>5. TypeOK'
  <2>1. acc' \in [Seqs -> Seq(Tokens)] /\ seen' \in [Seqs -> Nat \cup {NoToken}]
      BY <1>1, <1>2, <1>4 DEF SpecTypeOK
  <2>2. todo' \subseteq Running' /\ phase' \in {"idle", "plain", "base", "verify", "post", "raised"}
      BY <1>1, <1>3
  <2> QED
      BY <1>1, <1>2, <2>1, <2>2 DEF TypeOK, SpecTypeOK, rowVars
<1>6. ASSUME NEW r \in Running
      PROVE  RowOK(r)' /\ Caught(r)' /\ ~ Ended(r)' /\ (Carries(r)' <=> Carries(r))
  <2>1. r \in Seqs /\ RowOK(r) /\ status[r] = "running"
      BY <1>3 DEF InStep, Running
  <2>2. /\ status'[r] = status[r] /\ slot'[r] = slot[r] /\ out'[r] = out[r] /\ pre'[r] = pre[r]
        /\ len'[r] = len[r] /\ kv'[r] = kv[r] /\ rec'[r] = rec[r] /\ carry'[r] = carry[r]
        /\ acc'[r] = Synced(r, out[r]) /\ seen'[r] = Watermark(r, out[r])
      BY <1>1, <2>1 DEF rowVars
  <2>3. ~ Ended(r)' /\ (Carries(r)' <=> Carries(r))
      BY <1>4, <2>2 DEF Ended, IsFinished, Carries
  <2>4. Reached(r)' = Reached(r)
      BY <2>2, <2>3 DEF Reached
  <2>5. Caught(r)'
      BY <1>4, <2>2 DEF Caught
  <2>6. RunOK(r) /\ StateOK(r)
      BY <1>4, <2>1 DEF RowOK, RunOK
  <2>7. r \in Constrained => Len(acc'[r]) = seen'[r] /\ Through(acc'[r], out'[r], seen'[r])
    <3>1. Len(out[r]) \in Nat
        BY <1>2, <2>1, RowTypes
    <3> QED
        BY <1>4, <2>2, <3>1 DEF Through
  <2>8. StateOK(r)'
      BY <2>2, <2>3, <2>4, <2>6, <2>7 DEF StateOK, Through
  <2>9. RunOK(r)'
      BY <1>4, <2>2, <2>6, <2>8 DEF RunOK
  <2>10. OutputOK(r)' /\ (r \in Constrained => pre'[r] = 0)
      BY <2>1, <2>2 DEF RowOK, OutputOK, Through
  <2> QED
      BY <2>1, <2>2, <2>3, <2>5, <2>9, <2>10 DEF RowOK
<1>7. ASSUME NEW r \in Seqs PROVE RowOK(r)'
  <2>1. CASE r \in Running
      BY <1>6, <2>1
  <2>2. CASE r \notin Running
    <3>1. SameRow(r) /\ RowOK(r)
        BY <1>1, <2>2 DEF SameRow, rowVars, InStep
    <3> QED
        BY <3>1, RowStays
  <2> QED
      BY <2>1, <2>2
<1>8. SlotsApart'
    BY <1>1, <1>3 DEF InStep, SlotsApart, rowVars
<1>9. ASSUME Unprimed = FALSE, NEW r \in Running PROVE OwnPrefix(r)'
  <2>1. OwnPrefix(r)
      BY <1>9 DEF InStep, PrefixesOwn
  <2> QED
      BY <1>1, <2>1 DEF OwnPrefix, rowVars
<1>10. PrefixesOwn'
    BY <1>3, <1>9 DEF PrefixesOwn
<1>11. \A r \in Running : r \in todo' <=> ~ Carries(r)'
    BY <1>1, <1>6 DEF Carries
<1>12. StepOK'
    BY <1>1, <1>3, <1>6, <1>11 DEF StepOK
<1> QED
    BY <1>5, <1>7, <1>8, <1>10, <1>12 DEF InStep

LEMMA PostprocessKeeps ==
  ASSUME InStep, Postprocess
  PROVE  InStep'
<1>1. /\ phase = "post" /\ phase' = "idle" /\ todo' = todo
      /\ status' = [r \in Seqs |-> IF r \in Running /\ IsFinished(r, out[r]) THEN "finished"
                                   ELSE status[r]]
      /\ slot' = [r \in Seqs |-> IF status'[r] = "running" THEN slot[r] ELSE NoToken]
      /\ drafts' = [r \in Seqs |-> <<>>]
      /\ UNCHANGED <<walkVars, out, pre, len, kv, rec, carry, mtp>>
    BY DEF Postprocess
<1>2. TypeOK /\ SpecTypeOK /\ StepOK /\ todo = {}
    BY <1>1 DEF InStep, TypeOK, StepOK
<1>3. \A r \in Running' : r \in Running /\ r \in Seqs /\ ~ Ended(r) /\ SameRow(r)
    BY <1>1 DEF Running, Ended, SameRow, walkVars
<1>4. TypeOK'
  <2>1. <<>> \in DraftLists
    <3>1. 0 \in 0..SpecK /\ <<>> \in [1..0 -> Tokens]
        BY SpecAssumption
    <3> QED
        BY <3>1 DEF DraftLists
  <2>2. status' \in [Seqs -> {"waiting", "running", "finished"}] /\ slot' \in [Seqs -> Slots \cup {NoToken}]
      BY <1>1, <1>2 DEF SpecTypeOK
  <2>3. drafts' \in [Seqs -> DraftLists] /\ todo' \subseteq Running'
      BY <1>1, <1>2, <2>1
  <2> QED
      BY <1>1, <1>2, <2>2, <2>3 DEF TypeOK, SpecTypeOK, walkVars
<1>5. ASSUME NEW r \in Seqs PROVE RowOK(r)'
  <2>1. RowOK(r)
      BY DEF InStep
  <2>2. CASE r \in Running'
      BY <1>3, <2>1, <2>2, RowStays
  <2>3. CASE r \notin Running'
    <3>1. status'[r] # "running" /\ (status'[r] = "waiting" => status[r] = "waiting")
        BY <1>1, <2>3 DEF Running
    <3>2. /\ out'[r] = out[r] /\ pre'[r] = pre[r] /\ carry'[r] = carry[r]
          /\ acc'[r] = acc[r] /\ seen'[r] = seen[r]
        BY <1>1 DEF walkVars
    <3>3. OutputOK(r)' /\ (r \in Constrained => pre'[r] = 0)
        BY <2>1, <3>2 DEF RowOK, OutputOK, Through
    <3>4. status'[r] = "waiting" => WaitOK(r)'
        BY <2>1, <3>1, <3>2 DEF RowOK, WaitOK, MayGoOn, Carries
    <3> QED
        BY <3>1, <3>3, <3>4 DEF RowOK
  <2> QED
      BY <2>2, <2>3
<1>6. \A r \in Running' : ~ Ended(r)'
  <2> SUFFICES ASSUME NEW r \in Running' PROVE ~ Ended(r)'
      OBVIOUS
  <2>1. RowOK(r) /\ SameRow(r) /\ ~ Ended(r) /\ r \in Seqs
      BY <1>3 DEF InStep
  <2> QED
      BY <2>1, RowStays
<1>7. SlotsApart'
    BY <1>3 DEF InStep, SlotsApart, SameRow
<1>8. ASSUME Unprimed = FALSE, NEW r \in Running' PROVE OwnPrefix(r)'
  <2>1. OwnPrefix(r) /\ SameRow(r)
      BY <1>3, <1>8 DEF InStep, PrefixesOwn
  <2> QED
      BY <1>1, <2>1 DEF OwnPrefix, SameRow
<1>9. PrefixesOwn'
    BY <1>8 DEF PrefixesOwn
<1>10. StepOK'
    BY <1>1, <1>2, <1>6 DEF StepOK
<1> QED
    BY <1>4, <1>5, <1>7, <1>9, <1>10 DEF InStep

LEMMA PreemptKeeps ==
  ASSUME Granted, InStep, NEW r \in Seqs, Preempt(r)
  PROVE  InStep'
<1>1. /\ phase = "idle" /\ r \in Running /\ r \in Preemptible
      /\ status' = [status EXCEPT ![r] = "waiting"] /\ slot' = [slot EXCEPT ![r] = NoToken]
      /\ pre' = [pre EXCEPT ![r] = Len(out[r])] /\ len' = [len EXCEPT ![r] = 0]
      /\ kv' = [kv EXCEPT ![r] = <<>>] /\ carry' = [carry EXCEPT ![r] = NoToken]
      /\ UNCHANGED <<walkVars, out, rec, mtp, drafts, todo, phase>>
    BY DEF Preempt
<1>2. TypeOK /\ SpecTypeOK /\ StepOK /\ todo = {} /\ RowOK(r)
    BY <1>1 DEF InStep, TypeOK, StepOK
<1>3. \A q \in Seqs \ {r} : SameRow(q)
    BY <1>1, <1>2 DEF SameRow, walkVars, SpecTypeOK
<1>4. Len(out[r]) \in Nat
    BY <1>2, RowTypes
<1>5. /\ status'[r] = "waiting" /\ out'[r] = out[r] /\ pre'[r] = Len(out[r]) /\ carry'[r] = NoToken
    BY <1>1, <1>2 DEF SpecTypeOK
<1>6. r \notin Running' /\ Running' \subseteq Running
    BY <1>1, <1>5, <1>3 DEF Running, SameRow
<1>7. TypeOK'
  <2>1. <<>> \in Seq(Tokens)
      BY EmptySeq
  <2>2. /\ status' \in [Seqs -> {"waiting", "running", "finished"}] /\ slot' \in [Seqs -> Slots \cup {NoToken}]
        /\ pre' \in [Seqs -> Nat] /\ len' \in [Seqs -> Nat] /\ kv' \in [Seqs -> Seq(Tokens)]
        /\ carry' \in [Seqs -> Tokens \cup {NoToken}]
      BY <1>1, <1>2, <1>4, <2>1 DEF SpecTypeOK
  <2> QED
      BY <1>1, <1>2, <2>2 DEF TypeOK, SpecTypeOK, walkVars
<1>8. RowOK(r)'
  <2>1. r \notin Constrained /\ ~ Ended(r) /\ OutputOK(r)
      BY <1>1, <1>2 DEF Granted, StepOK, RowOK
  <2>2. MayGoOn(r)
      BY <1>2, <2>1, NotEnded
  <2>3. OutputOK(r)'
      BY <1>4, <1>5, <2>1 DEF OutputOK, Through
  <2>4. WaitOK(r)'
      BY <1>5, <2>1, <2>2 DEF WaitOK, MayGoOn, Carries
  <2> QED
      BY <1>5, <2>1, <2>3, <2>4 DEF RowOK
<1>9. \A q \in Seqs : RowOK(q)'
    BY <1>3, <1>8, OthersStay
<1>10. \A q \in Running' : q \in Seqs \ {r} /\ q \in Running
    BY <1>6 DEF Running
<1>11. SlotsApart'
    BY <1>3, <1>10 DEF InStep, SlotsApart, SameRow
<1>12. ASSUME Unprimed = FALSE, NEW q \in Running' PROVE OwnPrefix(q)'
  <2>1. OwnPrefix(q) /\ SameRow(q)
      BY <1>3, <1>10, <1>12 DEF InStep, PrefixesOwn
  <2> QED
      BY <1>1, <2>1 DEF OwnPrefix, SameRow
<1>13. PrefixesOwn'
    BY <1>12 DEF PrefixesOwn
<1>14. \A q \in Running' : ~ Ended(q)'
    BY <1>1, <1>2, <1>3, <1>10, OthersStay DEF StepOK
<1>15. StepOK'
    BY <1>1, <1>2, <1>14 DEF StepOK
<1> QED
    BY <1>7, <1>9, <1>11, <1>13, <1>15 DEF InStep

LEMMA CancelKeeps ==
  ASSUME InStep, NEW r \in Seqs, Cancel(r)
  PROVE  InStep'
<1>1. /\ phase = "idle" /\ r \in Running
      /\ status' = [status EXCEPT ![r] = "finished"] /\ slot' = [slot EXCEPT ![r] = NoToken]
      /\ carry' = [carry EXCEPT ![r] = NoToken] /\ mtp' = [mtp EXCEPT ![slot[r]] = NoPrefix]
      /\ UNCHANGED <<walkVars, out, pre, len, kv, rec, drafts, todo, phase>>
    BY DEF Cancel
<1>2. TypeOK /\ SpecTypeOK /\ StepOK /\ todo = {} /\ RowOK(r)
    BY <1>1 DEF InStep, TypeOK, StepOK
<1>3. \A q \in Seqs \ {r} : SameRow(q)
    BY <1>1, <1>2 DEF SameRow, walkVars, SpecTypeOK
<1>4. slot[r] \in Slots
    BY <1>1, <1>2 DEF RowOK, RunOK, Running
<1>5. /\ status'[r] = "finished" /\ out'[r] = out[r] /\ pre'[r] = pre[r]
    BY <1>1, <1>2 DEF SpecTypeOK
<1>6. \A q \in Running' : q \in Seqs \ {r} /\ q \in Running
    BY <1>5, <1>3 DEF Running, SameRow
<1>7. TypeOK'
  <2>1. NoPrefix \in [owner : Seqs \cup {NoToken}, toks : Seq(Tokens)]
      BY EmptySeq DEF NoPrefix
  <2>2. mtp' \in [Slots -> [owner : Seqs \cup {NoToken}, toks : Seq(Tokens)]]
      BY <1>1, <1>2, <2>1 DEF TypeOK
  <2>3. \A s \in Slots : mtp'[s].owner \in Seqs \cup {NoToken} /\ mtp'[s].toks \in Seq(Tokens)
      BY <2>2
  <2>4. /\ status' \in [Seqs -> {"waiting", "running", "finished"}] /\ slot' \in [Seqs -> Slots \cup {NoToken}]
        /\ carry' \in [Seqs -> Tokens \cup {NoToken}] /\ todo' \subseteq Running'
      BY <1>1, <1>2 DEF SpecTypeOK
  <2> QED
      BY <1>1, <1>2, <2>2, <2>3, <2>4 DEF TypeOK, SpecTypeOK, walkVars
<1>8. RowOK(r)'
  <2>1. OutputOK(r)' /\ (r \in Constrained => pre'[r] = 0)
      BY <1>2, <1>5 DEF RowOK, OutputOK, Through
  <2> QED
      BY <1>5, <2>1 DEF RowOK
<1>9. \A q \in Seqs : RowOK(q)'
    BY <1>3, <1>8, OthersStay
<1>10. SlotsApart'
    BY <1>3, <1>6 DEF InStep, SlotsApart, SameRow
<1>11. ASSUME Unprimed = FALSE, NEW q \in Running' PROVE OwnPrefix(q)'
  <2>1. OwnPrefix(q) /\ SameRow(q) /\ q \in Running /\ q # r
      BY <1>3, <1>6, <1>11 DEF InStep, PrefixesOwn
  <2>2. slot[q] # slot[r]
      BY <1>1, <2>1 DEF InStep, SlotsApart
  <2>3. mtp'[slot[q]] = mtp[slot[q]]
    <3>1. slot[q] \in Slots
        BY <2>1 DEF InStep, RowOK, RunOK, Running
    <3> QED
        BY <1>1, <1>2, <2>2, <3>1 DEF TypeOK
  <2> QED
      BY <2>1, <2>3 DEF OwnPrefix, SameRow
<1>12. PrefixesOwn'
    BY <1>11 DEF PrefixesOwn
<1>13. \A q \in Running' : ~ Ended(q)'
    BY <1>1, <1>2, <1>3, <1>6, OthersStay DEF StepOK
<1>14. StepOK'
    BY <1>1, <1>2, <1>13 DEF StepOK
<1> QED
    BY <1>7, <1>9, <1>10, <1>12, <1>14 DEF InStep

\* A row whose K/V, recurrent state and matcher are in step with a token less
\* than it has said, and that carries nothing, may run on.
LEMMA RunsOn ==
  ASSUME NEW r \in Seqs, slot'[r] \in Slots, Len(out[r]) \in Nat,
         Len(out'[r]) = Len(out[r]) + 1, Through(out'[r], out[r], Len(out[r])),
         carry'[r] = NoToken, len'[r] = Len(out[r]),
         Through(kv'[r], out[r], Len(out[r])), rec'[r] = out[r], seen'[r] \in Nat,
         r \in Constrained => Len(acc'[r]) = seen'[r] /\ Through(acc'[r], out'[r], seen'[r])
  PROVE  RunOK(r)'
<1>1. Carries(r)' = FALSE
    BY DEF Carries
<1>2. Reached(r)' = Len(out[r])
    BY <1>1 DEF Reached
<1>3. Through(kv'[r], out'[r], Len(out[r])) /\ Through(rec'[r], out'[r], Len(out[r]))
    BY DEF Through
<1>4. StateOK(r)'
    BY <1>1, <1>2, <1>3 DEF StateOK
<1> QED
    BY <1>4 DEF RunOK

LEMMA PrefillKeeps ==
  ASSUME Granted, InStep, NEW r \in Seqs, Prefill(r)
  PROVE  InStep'
<1>1. PICK s \in Slots \ {slot[q] : q \in Running}, primed \in {TRUE, ~Unprimed},
           x \in Pick(r, out[r], out[r], Synced(r, out[r])) :
        /\ slot' = [slot EXCEPT ![r] = s]
        /\ out'  = [out EXCEPT ![r] = Append(@, x)]
        /\ mtp'  = IF primed
                   THEN [mtp EXCEPT ![s] = [owner |-> r, toks |-> Append(out[r], x)]]
                   ELSE mtp
    BY DEF Prefill
<1>2. /\ phase = "idle" /\ status[r] = "waiting" /\ phase' = "post"
      /\ status' = [status EXCEPT ![r] = "running"] /\ len' = [len EXCEPT ![r] = pre[r]]
      /\ kv' = [kv EXCEPT ![r] = out[r]] /\ rec' = [rec EXCEPT ![r] = out[r]]
      /\ acc' = [acc EXCEPT ![r] = Synced(r, out[r])]
      /\ seen' = [seen EXCEPT ![r] = Watermark(r, out[r])]
      /\ UNCHANGED <<pre, carry, drafts, todo>>
    BY DEF Prefill
<1>3. TypeOK /\ SpecTypeOK /\ StepOK /\ todo = {} /\ RowOK(r)
    BY <1>2 DEF InStep, TypeOK, StepOK
<1>4. WaitOK(r) /\ OutputOK(r) /\ MayGoOn(r) /\ pre[r] = Len(out[r]) /\ carry[r] = NoToken
    BY <1>2, <1>3 DEF RowOK, WaitOK, Carries
<1>5. out[r] \in Seq(Tokens) /\ Len(out[r]) \in Nat /\ acc[r] \in Seq(Tokens)
    BY <1>3, RowTypes
<1>6. Synced(r, out[r]) \in Seq(Tokens) /\ Watermark(r, out[r]) \in Nat
    BY <1>3, <1>4, <1>5, SyncedType, AllIdsFacts
<1>7. ASSUME r \in Constrained
      PROVE  Synced(r, out[r]) = out[r] /\ Watermark(r, out[r]) = 0 /\ Len(out[r]) = 0
  <2>1. acc[r] = <<>> /\ seen[r] = NoToken /\ pre[r] = 0
      BY <1>3, <1>4, <1>7 DEF WaitOK, RowOK
  <2>2. Len(out[r]) = 0 /\ out[r] = <<>>
      BY <1>4, <1>5, <2>1, EmptySeq
  <2>3. Watermark(r, out[r]) = Len(out[r])
    <3>1. pre[r] <= Len(out[r])
        BY <1>4, <1>5
    <3> QED
        BY <1>3, <1>5, <2>1, <3>1, AllIdsFacts
  <2> QED
      BY <2>1, <2>2, <2>3 DEF Synced
<1>8. x \in Tokens /\ x = Greedy[r][Len(out[r]) + 1]
    BY <1>3, <1>4, <1>7, NextToken
<1>9. /\ status'[r] = "running" /\ slot'[r] = s /\ out'[r] = Append(out[r], x) /\ pre'[r] = pre[r]
      /\ len'[r] = Len(out[r]) /\ kv'[r] = out[r] /\ rec'[r] = out[r] /\ carry'[r] = NoToken
      /\ acc'[r] = Synced(r, out[r]) /\ seen'[r] = Watermark(r, out[r])
    BY <1>1, <1>2, <1>3, <1>4 DEF SpecTypeOK
<1>10. /\ OutputOK(r)' /\ out'[r] \in Seq(Tokens) /\ Len(out'[r]) = Len(out[r]) + 1
       /\ Through(out'[r], out[r], Len(out[r]))
    BY <1>3, <1>4, <1>8, <1>9, SaysNext
<1>11. \A q \in Seqs \ {r} : SameRow(q)
    BY <1>1, <1>2, <1>3 DEF SameRow, SpecTypeOK
<1>12. RowOK(r)'
  <2>1. r \in Constrained => Len(acc'[r]) = seen'[r] /\ Through(acc'[r], out'[r], seen'[r])
      BY <1>5, <1>7, <1>9, <1>10 DEF Through
  <2>2. Through(kv'[r], out[r], Len(out[r])) /\ slot'[r] \in Slots
      BY <1>5, <1>9 DEF Through
  <2>3. RunOK(r)'
      BY <1>5, <1>6, <1>9, <1>10, <2>1, <2>2, RunsOn
  <2>4. r \in Constrained => pre'[r] = 0
      BY <1>3, <1>9 DEF RowOK
  <2> QED
      BY <1>9, <1>10, <2>3, <2>4 DEF RowOK
<1>13. \A q \in Seqs : RowOK(q)'
    BY <1>11, <1>12, OthersStay
<1>14. Running' \subseteq Running \cup {r}
    BY <1>11 DEF Running, SameRow
<1>15. TypeOK'
  <2>1. Append(out[r], x) \in Seq(Tokens)
      BY <1>9, <1>10
  <2>2. [owner |-> r, toks |-> Append(out[r], x)] \in [owner : Seqs \cup {NoToken}, toks : Seq(Tokens)]
      BY <2>1
  <2>3. mtp' \in [Slots -> [owner : Seqs \cup {NoToken}, toks : Seq(Tokens)]]
      BY <1>1, <1>3, <2>2 DEF TypeOK
  <2>4. \A t \in Slots : mtp'[t].owner \in Seqs \cup {NoToken} /\ mtp'[t].toks \in Seq(Tokens)
      BY <2>3
  <2>5. /\ status' \in [Seqs -> {"waiting", "running", "finished"}] /\ slot' \in [Seqs -> Slots \cup {NoToken}]
        /\ out' \in [Seqs -> Seq(Tokens)] /\ len' \in [Seqs -> Nat] /\ kv' \in [Seqs -> Seq(Tokens)]
        /\ rec' \in [Seqs -> Seq(Tokens)] /\ acc' \in [Seqs -> Seq(Tokens)]
        /\ seen' \in [Seqs -> Nat \cup {NoToken}]
      BY <1>1, <1>2, <1>3, <1>4, <1>5, <1>6, <2>1 DEF SpecTypeOK
  <2>6. todo' \subseteq Running'
      BY <1>2, <1>3
  <2> QED
      BY <1>2, <1>3, <2>3, <2>4, <2>5, <2>6 DEF TypeOK, SpecTypeOK
<1>16. \A q \in Running : slot[q] # s /\ q # r /\ q \in Seqs /\ slot[q] \in Slots
    BY <1>1, <1>2 DEF Running, InStep, RowOK, RunOK
<1>17. SlotsApart'
    BY <1>9, <1>11, <1>14, <1>16 DEF InStep, SlotsApart, SameRow
<1>18. ASSUME Unprimed = FALSE, NEW q \in Running' PROVE OwnPrefix(q)'
  <2>1. mtp' = [mtp EXCEPT ![s] = [owner |-> r, toks |-> Append(out[r], x)]]
      BY <1>1, <1>18
  <2>2. CASE q = r
    <3>1. mtp'[slot'[r]] = [owner |-> r, toks |-> out'[r]]
        BY <1>3, <1>9, <2>1 DEF TypeOK
    <3>2. Through(out'[r], out'[r], Len(out'[r]))
        BY <1>5, <1>10 DEF Through
    <3> QED
        BY <2>2, <3>1, <3>2 DEF OwnPrefix
  <2>3. CASE q # r
    <3>1. q \in Running /\ SameRow(q) /\ OwnPrefix(q)
        BY <1>11, <1>14, <1>16, <1>18, <2>3 DEF InStep, PrefixesOwn, Running
    <3>2. mtp'[slot[q]] = mtp[slot[q]]
        BY <1>3, <1>16, <2>1, <3>1 DEF TypeOK
    <3> QED
        BY <3>1, <3>2 DEF OwnPrefix, SameRow
  <2> QED
      BY <2>2, <2>3
<1>19. PrefixesOwn'
    BY <1>18 DEF PrefixesOwn
<1>20. StepOK'
    BY <1>2, <1>3 DEF StepOK
<1> QED
    BY <1>13, <1>15, <1>17, <1>19, <1>20 DEF InStep

\* The matcher of a row that has caught up stands at what the row has said.
LEMMA CaughtUp ==
  ASSUME SpecTypeOK, NEW r \in Constrained, r \in Seqs, StateOK(r), Caught(r)
  PROVE  acc[r] = out[r]
<1>1. /\ acc[r] \in Seq(Tokens) /\ out[r] \in Seq(Tokens)
      /\ Len(acc[r]) = Len(out[r]) /\ Through(acc[r], out[r], Len(out[r]))
    BY RowTypes DEF StateOK, Caught
<1> QED
    BY <1>1, SameTokens

\* A row in a batch goes on: the slots stay apart and the prefixes their own.
LEMMA SlotsStay ==
  ASSUME InStep, NEW r \in Running, UNCHANGED <<status, slot, mtp>>,
         \A q \in Seqs \ {r} : SameRow(q),
         Len(out'[r]) \in Nat, Through(out'[r], out[r], Len(out[r]))
  PROVE  Running' = Running /\ SlotsApart' /\ PrefixesOwn'
<1>1. Running' = Running
    BY DEF Running
<1>2. SlotsApart'
    BY <1>1 DEF InStep, SlotsApart
<1>3. ASSUME Unprimed = FALSE, NEW q \in Running PROVE OwnPrefix(q)'
  <2>1. OwnPrefix(q) /\ q \in Seqs /\ slot[q] \in Slots
      BY <1>3 DEF InStep, PrefixesOwn, RowOK, RunOK, Running
  <2>2. CASE q = r
    <3>1. /\ out[r] \in Seq(Tokens) /\ Len(out[r]) \in Nat /\ mtp[slot[r]].toks \in Seq(Tokens)
          /\ Len(out[r]) <= Len(out'[r])
        BY <2>1, <2>2, RowTypes DEF InStep, TypeOK, SpecTypeOK, Through
    <3> QED
        BY <2>1, <2>2, <3>1, PrefixStays
  <2>3. CASE q # r
      BY <2>1, <2>3 DEF OwnPrefix, SameRow
  <2> QED
      BY <2>2, <2>3
<1>4. PrefixesOwn'
    BY <1>1, <1>3 DEF PrefixesOwn
<1> QED
    BY <1>1, <1>2, <1>4

LEMMA PlainRowKeeps ==
  ASSUME InStep, NEW r \in Seqs, PlainRow(r)
  PROVE  InStep'
<1> DEFINE k == Overwrite(kv[r], len[r] + 1, <<Last(out[r])>>)
           h == Append(rec[r], Last(out[r]))
<1>1. /\ phase = "plain" /\ todo # {} /\ r = Row
      /\ kv' = [kv EXCEPT ![r] = k] /\ rec' = [rec EXCEPT ![r] = h]
      /\ len' = [len EXCEPT ![r] = @ + 1]
      /\ acc' = [acc EXCEPT ![r] = Synced(r, out[r])]
      /\ seen' = [seen EXCEPT ![r] = Watermark(r, out[r])]
      /\ todo' = todo \ {r} /\ phase' = IF todo' = {} THEN "post" ELSE "plain"
      /\ UNCHANGED <<rowVars, carry, mtp, drafts>>
    BY DEF PlainRow
<1>2. PICK x \in Pick(r, SubSeq(k, 1, len[r] + 1), h, Synced(r, out[r])) :
           out' = [out EXCEPT ![r] = Append(@, x)]
    BY DEF PlainRow
<1>3. r \in todo
    BY <1>1 DEF Row
<1>4. TypeOK /\ SpecTypeOK /\ StepOK /\ RowOK(r)
    BY DEF InStep, TypeOK
<1>5. r \in Running /\ status[r] = "running" /\ ~ Ended(r) /\ ~ Carries(r) /\ carry[r] = NoToken
    BY <1>1, <1>3, <1>4 DEF StepOK, Running, Carries
<1>6. OutputOK(r) /\ MayGoOn(r) /\ RunOK(r) /\ pre[r] <= Len(out[r])
  <2>1. OutputOK(r) /\ RunOK(r)
      BY <1>4, <1>5 DEF RowOK
  <2> QED
      BY <1>4, <1>5, <2>1, NotEnded DEF OutputOK
<1>7. /\ k \in Seq(Tokens) /\ Through(k, out[r], len[r] + 1) /\ h = out[r]
      /\ SubSeq(k, 1, len[r] + 1) = out[r] /\ len[r] + 1 = Len(out[r])
    BY <1>4, <1>5, Forward
<1> HIDE DEF k, h
<1>8. /\ Synced(r, out[r]) \in Seq(Tokens) /\ Watermark(r, out[r]) \in Nat
      /\ r \in Constrained => Synced(r, out[r]) = out[r] /\ Watermark(r, out[r]) = Len(out[r])
    BY <1>4, <1>5, <1>6, SyncedType, AllIdsFacts, SyncedRight
<1>9. x \in Tokens /\ x = Greedy[r][Len(out[r]) + 1]
    BY <1>2, <1>4, <1>6, <1>7, <1>8, NextToken
<1>10. out[r] \in Seq(Tokens) /\ Len(out[r]) \in Nat
    BY <1>4, RowTypes
<1>11. /\ status'[r] = "running" /\ slot'[r] = slot[r] /\ out'[r] = Append(out[r], x) /\ pre'[r] = pre[r]
       /\ len'[r] = Len(out[r]) /\ kv'[r] = k /\ rec'[r] = out[r] /\ carry'[r] = NoToken
       /\ acc'[r] = Synced(r, out[r]) /\ seen'[r] = Watermark(r, out[r])
    BY <1>1, <1>2, <1>4, <1>5, <1>7 DEF SpecTypeOK, rowVars
<1>12. /\ OutputOK(r)' /\ out'[r] \in Seq(Tokens) /\ Len(out'[r]) = Len(out[r]) + 1
       /\ Through(out'[r], out[r], Len(out[r]))
    BY <1>4, <1>6, <1>9, <1>11, SaysNext
<1>13. \A q \in Seqs \ {r} : SameRow(q)
    BY <1>1, <1>2, <1>4 DEF SameRow, SpecTypeOK, rowVars
<1>14. RowOK(r)'
  <2>1. r \in Constrained => Len(acc'[r]) = seen'[r] /\ Through(acc'[r], out'[r], seen'[r])
      BY <1>8, <1>10, <1>11, <1>12 DEF Through
  <2>2. Through(kv'[r], out[r], Len(out[r])) /\ slot'[r] \in Slots
      BY <1>6, <1>7, <1>11 DEF RunOK
  <2>3. RunOK(r)'
      BY <1>8, <1>10, <1>11, <1>12, <2>1, <2>2, RunsOn
  <2>4. r \in Constrained => pre'[r] = 0
      BY <1>4, <1>11 DEF RowOK
  <2> QED
      BY <1>11, <1>12, <2>3, <2>4 DEF RowOK
<1>15. \A q \in Seqs : RowOK(q)'
    BY <1>13, <1>14, OthersStay
<1>16. Running' = Running /\ SlotsApart' /\ PrefixesOwn'
  <2>1. UNCHANGED <<status, slot, mtp>> /\ Len(out'[r]) \in Nat
      BY <1>1, <1>10, <1>12 DEF rowVars
  <2> QED
      BY <1>5, <1>12, <1>13, <2>1, SlotsStay
<1>17. TypeOK'
  <2>1. Append(out[r], x) \in Seq(Tokens) /\ h \in Seq(Tokens) /\ len[r] + 1 \in Nat
      BY <1>7, <1>10, <1>11, <1>12
  <2>2. /\ out' \in [Seqs -> Seq(Tokens)] /\ len' \in [Seqs -> Nat] /\ kv' \in [Seqs -> Seq(Tokens)]
        /\ rec' \in [Seqs -> Seq(Tokens)] /\ acc' \in [Seqs -> Seq(Tokens)]
        /\ seen' \in [Seqs -> Nat \cup {NoToken}]
      BY <1>1, <1>2, <1>4, <1>7, <1>8, <2>1 DEF SpecTypeOK
  <2>3. todo' \subseteq Running' /\ phase' \in {"idle", "plain", "base", "verify", "post", "raised"}
      BY <1>1, <1>4, <1>16 DEF SpecTypeOK
  <2> QED
      BY <1>1, <1>4, <2>2, <2>3 DEF TypeOK, SpecTypeOK, rowVars
<1>18. \A q \in Seqs \ {r} : (Ended(q)' <=> Ended(q)) /\ (Carries(q)' <=> Carries(q))
    BY <1>13, OthersStay
<1>19. ~ Carries(r)'
    BY <1>11 DEF Carries
<1>20. \A q \in Running' : ~ Carries(q)'
    BY <1>1, <1>4, <1>16, <1>18, <1>19 DEF StepOK, Running
<1>21. \A q \in todo' : ~ Ended(q)'
    BY <1>1, <1>4, <1>18 DEF StepOK, Running
<1>22. StepOK'
    BY <1>1, <1>4, <1>16, <1>20, <1>21 DEF StepOK
<1> QED
    BY <1>15, <1>16, <1>17, <1>22 DEF InStep

LEMMA BootstrapKeeps ==
  ASSUME InStep, NEW r \in Seqs, Bootstrap(r)
  PROVE  InStep'
<1> DEFINE k == Overwrite(kv[r], len[r] + 1, <<Last(out[r])>>)
           h == Append(rec[r], Last(out[r]))
<1>1. /\ phase = "base" /\ todo # {} /\ r = Row
      /\ kv' = [kv EXCEPT ![r] = k] /\ rec' = [rec EXCEPT ![r] = h] /\ todo' = todo \ {r}
      /\ UNCHANGED <<rowVars, walkVars, out, len, mtp, drafts, phase>>
    BY DEF Bootstrap
<1>2. PICK x \in Pick(r, SubSeq(k, 1, len[r] + 1), h, acc[r]) : carry' = [carry EXCEPT ![r] = x]
    BY DEF Bootstrap
<1>3. r \in todo
    BY <1>1 DEF Row
<1>4. TypeOK /\ SpecTypeOK /\ StepOK /\ RowOK(r)
    BY DEF InStep, TypeOK
<1>5. r \in Running /\ status[r] = "running" /\ ~ Ended(r) /\ ~ Carries(r) /\ Caught(r)
    BY <1>1, <1>3, <1>4 DEF StepOK, Running
<1>6. OutputOK(r) /\ MayGoOn(r) /\ RunOK(r) /\ StateOK(r)
  <2>1. OutputOK(r) /\ RunOK(r)
      BY <1>4, <1>5 DEF RowOK
  <2> QED
      BY <1>4, <1>5, <2>1, NotEnded DEF RunOK
<1>7. /\ k \in Seq(Tokens) /\ Through(k, out[r], len[r] + 1) /\ h = out[r]
      /\ SubSeq(k, 1, len[r] + 1) = out[r] /\ len[r] + 1 = Len(out[r])
    BY <1>4, <1>5, Forward
<1> HIDE DEF k, h
<1>8. r \in Constrained => acc[r] = out[r]
    BY <1>4, <1>5, <1>6, CaughtUp
<1>9. x \in Tokens /\ x = Greedy[r][Len(out[r]) + 1]
    BY <1>2, <1>4, <1>6, <1>7, <1>8, NextToken
<1>10. out[r] \in Seq(Tokens) /\ Len(out[r]) \in Nat
    BY <1>4, RowTypes
<1>11. /\ status'[r] = status[r] /\ slot'[r] = slot[r] /\ out'[r] = out[r] /\ pre'[r] = pre[r]
       /\ len'[r] = len[r] /\ kv'[r] = k /\ rec'[r] = out[r] /\ carry'[r] = x
       /\ acc'[r] = acc[r] /\ seen'[r] = seen[r]
    BY <1>1, <1>2, <1>4, <1>7 DEF SpecTypeOK, rowVars, walkVars
<1>12. \A q \in Seqs \ {r} : SameRow(q)
    BY <1>1, <1>2, <1>4 DEF SameRow, SpecTypeOK, rowVars, walkVars
<1>13. Carries(r)' /\ ~ Ended(r)' /\ Caught(r)'
    BY <1>5, <1>9, <1>11, SpecAssumption DEF Carries, Ended, IsFinished, Caught
<1>14. RowOK(r)'
  <2>1. Reached(r)' = Len(out[r])
      BY <1>7, <1>11, <1>13 DEF Reached
  <2>2. Through(kv'[r], out'[r], Len(out[r])) /\ Through(rec'[r], out'[r], Len(out[r]))
      BY <1>7, <1>10, <1>11 DEF Through
  <2>3. Len(out'[r]) < MaxTokens[r] /\ carry'[r] = Greedy[r][Len(out'[r]) + 1]
      BY <1>6, <1>9, <1>11 DEF MayGoOn
  <2>4. r \in Constrained => Len(acc'[r]) = seen'[r] /\ Through(acc'[r], out'[r], seen'[r])
      BY <1>6, <1>11 DEF StateOK, Through
  <2>5. StateOK(r)'
      BY <1>11, <2>1, <2>2, <2>3, <2>4 DEF StateOK
  <2>6. RunOK(r)'
      BY <1>6, <1>11, <2>5 DEF RunOK
  <2>7. OutputOK(r)' /\ (r \in Constrained => pre'[r] = 0)
      BY <1>4, <1>11 DEF RowOK, OutputOK, Through
  <2>8. status'[r] = "running"
      BY <1>5, <1>11
  <2> QED
      BY <2>6, <2>7, <2>8 DEF RowOK
<1>15. \A q \in Seqs : RowOK(q)'
    BY <1>12, <1>14, OthersStay
<1>16. Running' = Running /\ SlotsApart' /\ PrefixesOwn'
  <2>1. UNCHANGED <<status, slot, mtp>> /\ Len(out'[r]) \in Nat /\ Through(out'[r], out[r], Len(out[r]))
      BY <1>1, <1>10, <1>11 DEF rowVars, Through
  <2> QED
      BY <1>5, <1>12, <2>1, SlotsStay
<1>17. TypeOK'
  <2>1. /\ carry' \in [Seqs -> Tokens \cup {NoToken}] /\ kv' \in [Seqs -> Seq(Tokens)]
        /\ rec' \in [Seqs -> Seq(Tokens)]
      BY <1>1, <1>2, <1>4, <1>7, <1>9, <1>10 DEF SpecTypeOK
  <2>2. todo' \subseteq Running'
      BY <1>1, <1>4, <1>16 DEF SpecTypeOK
  <2> QED
      BY <1>1, <1>4, <2>1, <2>2 DEF TypeOK, SpecTypeOK, rowVars, walkVars
<1>18. \A q \in Seqs \ {r} : /\ Ended(q)' <=> Ended(q)
                             /\ Carries(q)' <=> Carries(q)
                             /\ Caught(q) => Caught(q)'
    BY <1>12, OthersStay
<1>19. \A q \in Running' : ~ Ended(q)' /\ Caught(q)' /\ (q \in todo' <=> ~ Carries(q)')
    BY <1>1, <1>4, <1>13, <1>16, <1>18 DEF StepOK, Running
<1>20. StepOK'
    BY <1>1, <1>4, <1>16, <1>19 DEF StepOK
<1> QED
    BY <1>15, <1>16, <1>17, <1>20 DEF InStep

LEMMA NoProposalRowKeeps ==
  ASSUME InStep, NEW r \in Seqs, NoProposalRow(r)
  PROVE  InStep'
<1> DEFINE x == carry[r]
<1>1. /\ phase = "verify" /\ todo # {} /\ r = Row
      /\ out' = [out EXCEPT ![r] = Append(@, x)] /\ len' = [len EXCEPT ![r] = @ + 1]
      /\ carry' = [carry EXCEPT ![r] = NoToken] /\ acc' = [acc EXCEPT ![r] = Walk(@, <<x>>)]
      /\ seen' = [seen EXCEPT ![r] = Watermark(r, out[r]) + 1]
      /\ todo' = todo \ {r} /\ phase' = IF todo' = {} THEN "post" ELSE "verify"
      /\ UNCHANGED <<rowVars, kv, rec, mtp, drafts>>
    BY DEF NoProposalRow
<1>2. r \in todo
    BY <1>1 DEF Row
<1>3. TypeOK /\ SpecTypeOK /\ StepOK /\ RowOK(r)
    BY DEF InStep, TypeOK
<1>4. r \in Running /\ status[r] = "running" /\ ~ Ended(r) /\ Carries(r) /\ Caught(r)
    BY <1>1, <1>2, <1>3 DEF StepOK, Running
<1>5. OutputOK(r) /\ MayGoOn(r) /\ RunOK(r) /\ StateOK(r) /\ pre[r] <= Len(out[r])
  <2>1. OutputOK(r) /\ RunOK(r)
      BY <1>3, <1>4 DEF RowOK
  <2> QED
      BY <1>3, <1>4, <2>1, NotEnded DEF RunOK, OutputOK
<1>6. out[r] \in Seq(Tokens) /\ Len(out[r]) \in Nat /\ acc[r] \in Seq(Tokens) /\ rec[r] \in Seq(Tokens)
    BY <1>3, RowTypes
<1>7. x \in Tokens /\ x = Greedy[r][Len(out[r]) + 1]
    BY <1>3, <1>4, <1>5 DEF StateOK, Carries, SpecTypeOK
<1>8. Reached(r) = Len(out[r]) /\ len[r] + 1 = Len(out[r])
    BY <1>4, <1>5 DEF Reached, RunOK
<1>9. Through(kv[r], out[r], Len(out[r])) /\ rec[r] = out[r]
    BY <1>5, <1>6, <1>8, SameTokens DEF StateOK
<1>10. r \in Constrained => acc[r] = out[r] /\ Watermark(r, out[r]) = Len(out[r])
  <2>1. r \in Constrained => pre[r] = 0
      BY <1>3 DEF RowOK
  <2> QED
      BY <1>3, <1>4, <1>5, <1>6, <2>1, CaughtUp, AllIdsFacts
<1>11. Watermark(r, out[r]) \in Nat /\ <<x>> \in Seq(Tokens) /\ Walk(acc[r], <<x>>) \in Seq(Tokens)
    BY <1>3, <1>5, <1>6, <1>7, AllIdsFacts, Single, WalkType
<1> HIDE DEF x
<1>12. /\ status'[r] = "running" /\ slot'[r] = slot[r] /\ out'[r] = Append(out[r], x) /\ pre'[r] = pre[r]
       /\ len'[r] = Len(out[r]) /\ kv'[r] = kv[r] /\ rec'[r] = out[r] /\ carry'[r] = NoToken
       /\ acc'[r] = Walk(acc[r], <<x>>) /\ seen'[r] = Watermark(r, out[r]) + 1
    BY <1>1, <1>3, <1>4, <1>8, <1>9 DEF SpecTypeOK, rowVars
<1>13. /\ OutputOK(r)' /\ out'[r] \in Seq(Tokens) /\ Len(out'[r]) = Len(out[r]) + 1
       /\ Through(out'[r], out[r], Len(out[r]))
    BY <1>3, <1>5, <1>7, <1>12, SaysNext
<1>14. \A q \in Seqs \ {r} : SameRow(q)
    BY <1>1, <1>3 DEF SameRow, SpecTypeOK, rowVars
<1>15. RunOK(r)'
  <2>1. CASE x = Eos
    <3>1. Last(out'[r]) = Eos /\ out'[r] # <<>>
        BY <1>6, <1>7, <1>12, <1>13, <2>1, AppendFacts DEF Last
    <3>2. Ended(r)'
        BY <3>1 DEF Ended, IsFinished
    <3> QED
        BY <1>5, <1>6, <1>11, <1>12, <1>13, <3>2 DEF RunOK
  <2>2. CASE x # Eos
    <3>1. ASSUME r \in Constrained PROVE Len(acc'[r]) = seen'[r] /\ Through(acc'[r], out'[r], seen'[r])
      <4> DEFINE o == out'[r]
                 m == out[r]
                 toks == <<x>>
      <4>1. toks \in Seq(Tokens) /\ Len(toks) = 1 /\ toks[1] = x
          BY <1>7, Single
      <4>2. /\ o \in Seq(Tokens) /\ Len(o) = Len(m) + 1 /\ o[Len(m) + 1] = x
            /\ \A i \in 1..Len(m) : o[i] = m[i]
          BY <1>6, <1>7, <1>12, AppendFacts
      <4>3. m \in Seq(Tokens) /\ Len(m) \in Nat /\ \A i \in 1..Len(m) : m[i] # Eos
          BY <1>5, <1>6 DEF MayGoOn
      <4>4. Through(o, Greedy[r], Len(o)) /\ Len(o) <= MaxTokens[r]
          BY <1>13 DEF OutputOK
      <4> HIDE DEF o, m, toks
      <4>5. \A i \in 1..Len(o) : i \in 1..Len(m) \/ i = Len(m) + 1
          BY <4>2, <4>3
      <4>6. \A i \in 1..Len(o) : o[i] # Eos
          BY <2>2, <4>2, <4>3, <4>5
      <4>7. Through(m, o, Len(m)) /\ Len(o) = Len(m) + Len(toks)
            /\ \A i \in 1..Len(toks) : toks[i] = o[Len(m) + i]
          BY <4>1, <4>2, <4>3 DEF Through
      <4>8. Walk(m, toks) = o
          BY <3>1, <4>1, <4>2, <4>3, <4>4, <4>6, <4>7, WalkFollows
      <4>9. acc'[r] = out'[r]
          BY <1>10, <1>12, <3>1, <4>8 DEF m, o, toks
      <4>10. seen'[r] = Len(out'[r]) /\ Len(out'[r]) \in Nat
          BY <1>6, <1>10, <1>12, <1>13, <3>1
      <4> QED
          BY <4>9, <4>10 DEF Through
    <3>2. slot'[r] \in Slots /\ seen'[r] \in Nat /\ Through(kv'[r], out[r], Len(out[r]))
        BY <1>5, <1>9, <1>11, <1>12 DEF RunOK
    <3> QED
        BY <1>6, <1>12, <1>13, <3>1, <3>2, RunsOn
  <2> QED
      BY <2>1, <2>2
<1>16. RowOK(r)'
  <2>1. r \in Constrained => pre'[r] = 0
      BY <1>3, <1>12 DEF RowOK
  <2> QED
      BY <1>12, <1>13, <1>15, <2>1 DEF RowOK
<1>17. \A q \in Seqs : RowOK(q)'
    BY <1>14, <1>16, OthersStay
<1>18. Running' = Running /\ SlotsApart' /\ PrefixesOwn'
  <2>1. UNCHANGED <<status, slot, mtp>> /\ Len(out'[r]) \in Nat
      BY <1>1, <1>6, <1>13 DEF rowVars
  <2> QED
      BY <1>4, <1>13, <1>14, <2>1, SlotsStay
<1>19. TypeOK'
  <2>1. Append(out[r], x) \in Seq(Tokens) /\ len[r] + 1 \in Nat
      BY <1>6, <1>8, <1>12, <1>13
  <2>2. /\ out' \in [Seqs -> Seq(Tokens)] /\ len' \in [Seqs -> Nat] /\ acc' \in [Seqs -> Seq(Tokens)]
        /\ seen' \in [Seqs -> Nat \cup {NoToken}] /\ carry' \in [Seqs -> Tokens \cup {NoToken}]
      BY <1>1, <1>3, <1>11, <2>1 DEF SpecTypeOK
  <2>3. todo' \subseteq Running' /\ phase' \in {"idle", "plain", "base", "verify", "post", "raised"}
      BY <1>1, <1>3, <1>18 DEF SpecTypeOK
  <2> QED
      BY <1>1, <1>3, <2>2, <2>3 DEF TypeOK, SpecTypeOK, rowVars
<1>20. \A q \in Seqs \ {r} : /\ Ended(q)' <=> Ended(q)
                             /\ Carries(q)' <=> Carries(q)
                             /\ Caught(q) => Caught(q)'
    BY <1>14, OthersStay
<1>21. \A q \in todo' : q \in Seqs \ {r} /\ ~ Ended(q)' /\ Caught(q)' /\ Carries(q)'
    BY <1>1, <1>3, <1>20 DEF StepOK, Running
<1>22. StepOK'
    BY <1>1, <1>3, <1>18, <1>21 DEF StepOK
<1> QED
    BY <1>17, <1>18, <1>19, <1>22 DEF InStep

\* The base token and the first t drafts of a row.
Fed(r, t) == <<carry[r]>> \o SubSeq(drafts[r], 1, t)

\* A row the verify step has still to accept: everything stands at its outputs.
LEMMA Verifiable ==
  ASSUME SpecTypeOK, NEW r \in Seqs, RowOK(r), status[r] = "running",
         ~ Ended(r), Carries(r), Caught(r)
  PROVE  /\ OutputOK(r) /\ MayGoOn(r) /\ RunOK(r) /\ StateOK(r)
         /\ out[r] \in Seq(Tokens) /\ Len(out[r]) \in Nat /\ len[r] + 1 = Len(out[r]) /\ len[r] \in Nat
         /\ carry[r] \in Tokens /\ carry[r] = Greedy[r][Len(out[r]) + 1]
         /\ kv[r] \in Seq(Tokens) /\ Len(kv[r]) \in Nat /\ Through(kv[r], out[r], Len(out[r]))
         /\ SubSeq(kv[r], 1, len[r] + 1) = out[r] /\ rec[r] = out[r]
         /\ acc[r] \in Seq(Tokens) /\ (r \in Constrained => pre[r] = 0 /\ acc[r] = out[r])
<1>1. OutputOK(r) /\ RunOK(r) /\ StateOK(r)
    BY DEF RowOK, RunOK
<1>2. MayGoOn(r)
    BY <1>1, NotEnded
<1>3. /\ out[r] \in Seq(Tokens) /\ Len(out[r]) \in Nat /\ acc[r] \in Seq(Tokens) /\ rec[r] \in Seq(Tokens)
      /\ kv[r] \in Seq(Tokens) /\ Len(kv[r]) \in Nat /\ len[r] \in Nat
    BY RowTypes
<1>4. carry[r] \in Tokens /\ carry[r] = Greedy[r][Len(out[r]) + 1]
    BY <1>1 DEF StateOK, Carries, SpecTypeOK
<1>5. Reached(r) = Len(out[r]) /\ len[r] + 1 = Len(out[r])
    BY <1>1 DEF Reached, RunOK
<1>6. Through(kv[r], out[r], Len(out[r])) /\ rec[r] = out[r]
    BY <1>1, <1>3, <1>5, SameTokens DEF StateOK
<1>7. SubSeq(kv[r], 1, Len(out[r])) = out[r]
    BY <1>3, <1>6, SameStart
<1>8. r \in Constrained => pre[r] = 0 /\ acc[r] = out[r]
    BY <1>1, CaughtUp DEF RowOK
<1> QED
    BY <1>1, <1>2, <1>3, <1>4, <1>5, <1>6, <1>7, <1>8

\* The base token and the drafts as a list.
LEMMA FedFacts ==
  ASSUME SpecTypeOK, NEW r \in Seqs, carry[r] \in Tokens, NEW t \in 0..Len(drafts[r])
  PROVE  /\ Fed(r, t) \in Seq(Tokens) /\ Len(Fed(r, t)) = t + 1
         /\ Fed(r, t)[1] = carry[r] /\ \A i \in 1..t : Fed(r, t)[1 + i] = drafts[r][i]
<1> DEFINE b == <<carry[r]>>
           f == SubSeq(drafts[r], 1, t)
<1>1. drafts[r] \in Seq(Tokens) /\ Len(drafts[r]) \in Nat /\ t \in Nat /\ t <= Len(drafts[r])
    BY DraftFacts, SeqFacts
<1>2. b \in Seq(Tokens) /\ Len(b) = 1 /\ b[1] = carry[r]
    BY Single
<1>3. f \in Seq(Tokens) /\ Len(f) = t /\ \A i \in 1..t : f[i] = drafts[r][i]
    BY <1>1, FirstTokens
<1> HIDE DEF b, f
<1>4. /\ b \o f \in Seq(Tokens) /\ Len(b \o f) = Len(b) + Len(f)
      /\ \A i \in 1..Len(b) : (b \o f)[i] = b[i]
      /\ \A i \in 1..Len(f) : (b \o f)[Len(b) + i] = f[i]
    BY <1>2, <1>3, Joined
<1>5. /\ b \o f \in Seq(Tokens) /\ Len(b \o f) = t + 1
      /\ (b \o f)[1] = carry[r] /\ \A i \in 1..t : (b \o f)[1 + i] = drafts[r][i]
    BY <1>1, <1>2, <1>3, <1>4
<1> QED
    BY <1>5 DEF Fed, b, f

\* The truth at a verify slot is Greedy's, when what was fed up to it is.
LEMMA TruthRight ==
  ASSUME SpecTypeOK, NEW r \in Seqs, RowOK(r), status[r] = "running",
         ~ Ended(r), Carries(r), Caught(r), NEW t \in 0..Len(drafts[r]),
         Len(out[r]) + (t + 1) < MaxTokens[r],
         \A j \in 1..(t + 1) : Fed(r, t)[j] = Greedy[r][Len(out[r]) + j] /\ Fed(r, t)[j] # Eos,
         NEW x \in TruthAt(r, t)
  PROVE  x \in Tokens /\ x = Greedy[r][Len(out[r]) + (t + 1) + 1]
<1> DEFINE f == Fed(r, t)
           m == out[r]
           o == m \o f
<1>1. /\ OutputOK(r) /\ MayGoOn(r) /\ m \in Seq(Tokens) /\ Len(m) \in Nat
      /\ SubSeq(kv[r], 1, len[r] + 1) = m /\ rec[r] = m /\ (r \in Constrained => acc[r] = m)
      /\ carry[r] \in Tokens
    BY Verifiable
<1>2. f \in Seq(Tokens) /\ Len(f) = t + 1 /\ t + 1 \in Nat
    BY <1>1, FedFacts, DraftFacts
<1>3. x \in Pick(r, o, o, Walk(acc[r], f))
    BY <1>1 DEF TruthAt, Fed
<1>4. /\ \A j \in 1..(t + 1) : f[j] = Greedy[r][Len(m) + j] /\ f[j] # Eos
      /\ Len(m) + (t + 1) < MaxTokens[r]
    OBVIOUS
<1>5. Through(m, Greedy[r], Len(m)) /\ \A j \in 1..Len(m) : m[j] # Eos
    BY <1>1 DEF OutputOK, MayGoOn
<1> HIDE DEF f, m
<1>6. /\ o \in Seq(Tokens) /\ Len(o) = Len(m) + (t + 1)
      /\ \A i \in 1..Len(m) : o[i] = m[i]
      /\ \A i \in 1..(t + 1) : o[Len(m) + i] = f[i]
  <2>1. /\ o \in Seq(Tokens) /\ Len(o) = Len(m) + Len(f)
        /\ \A i \in 1..Len(m) : o[i] = m[i]
        /\ \A i \in 1..Len(f) : o[Len(m) + i] = f[i]
      BY <1>1, <1>2, Joined
  <2> HIDE DEF o
  <2> QED
      BY <1>2, <2>1
<1> HIDE DEF o
<1>7. \A i \in 1..Len(o) : i \in 1..Len(m) \/ (i - Len(m) \in 1..(t + 1) /\ i = Len(m) + (i - Len(m)))
    BY <1>1, <1>2, <1>6
<1>8. \A i \in 1..Len(o) : o[i] = Greedy[r][i] /\ o[i] # Eos
  <2> SUFFICES ASSUME NEW i \in 1..Len(o) PROVE o[i] = Greedy[r][i] /\ o[i] # Eos
      OBVIOUS
  <2>1. CASE i \in 1..Len(m)
      BY <1>5, <1>6, <2>1 DEF Through
  <2>2. CASE i - Len(m) \in 1..(t + 1) /\ i = Len(m) + (i - Len(m))
    <3>1. o[Len(m) + (i - Len(m))] = f[i - Len(m)] /\ f[i - Len(m)] = Greedy[r][Len(m) + (i - Len(m))]
          /\ f[i - Len(m)] # Eos
        BY <1>4, <1>6, <2>2
    <3> QED
        BY <2>2, <3>1
  <2> QED
      BY <1>7, <2>1, <2>2
<1>9. MaxTokens[r] \in Nat /\ MaxTokens[r] <= Len(Greedy[r]) /\ Len(Greedy[r]) \in Nat
    BY RequestTypes
<1>10. Len(o) < MaxTokens[r] /\ Len(o) <= MaxTokens[r] /\ Len(o) <= Len(Greedy[r]) /\ Len(o) \in Nat
    BY <1>1, <1>2, <1>4, <1>6, <1>9
<1>11. Through(o, Greedy[r], Len(o))
  <2>1. Len(o) <= Len(o)
      BY <1>10
  <2> QED
      BY <1>8, <1>10, <2>1, Zenon DEF Through
<1>12. r \in Constrained => Walk(acc[r], f) = o
  <2>1. Through(m, o, Len(m)) /\ Len(o) = Len(m) + Len(f) /\ \A i \in 1..Len(f) : f[i] = o[Len(m) + i]
      BY <1>1, <1>2, <1>6 DEF Through
  <2>2. r \in Constrained => Walk(m, f) = o
      BY <1>1, <1>2, <1>6, <1>8, <1>10, <1>11, <2>1, WalkFollows
  <2> QED
      BY <1>1, <2>2
<1>13. x \in Tokens /\ x = Greedy[r][Len(o) + 1]
  <2> DEFINE w == Walk(acc[r], f)
             h == o
  <2>1. x \in Pick(r, o, h, w) /\ (r \in Constrained => w = o) /\ (Recurrent => h = o)
      BY <1>3, <1>12
  <2> HIDE DEF w, h
  <2>2. o \in Seq(Tokens) /\ Through(o, Greedy[r], Len(o)) /\ Len(o) < MaxTokens[r]
      BY <1>6, <1>10, <1>11
  <2>3. Pick(r, o, h, w) = {Greedy[r][Len(o) + 1]} /\ Greedy[r][Len(o) + 1] \in Tokens
      BY <2>1, <2>2, PickRight
  <2> QED
      BY <2>1, <2>3
<1> QED
    BY <1>6, <1>13 DEF m

\* What the accept loop accepts is Greedy's, up to the budget and the first
\* end of sequence.
LEMMA AcceptedRight ==
  ASSUME SpecTypeOK, NEW r \in Seqs, RowOK(r), status[r] = "running",
         ~ Ended(r), Carries(r), Caught(r), NEW n \in 0..Len(drafts[r]),
         \A t \in 1..n : drafts[r][t] \in TruthAt(r, t - 1),
         NEW i \in 1..(n + 1), Len(out[r]) + i <= MaxTokens[r],
         \A j \in 1..(i - 1) : Fed(r, n)[j] # Eos
  PROVE  Fed(r, n)[i] = Greedy[r][Len(out[r]) + i]
<1> DEFINE f == Fed(r, n)
           L == Len(out[r])
           bad == {j \in 1..i : f[j] # Greedy[r][L + j]}
<1>1. L \in Nat /\ carry[r] \in Tokens /\ carry[r] = Greedy[r][L + 1]
    BY Verifiable
<1>2. Len(drafts[r]) \in Nat /\ n \in Nat /\ i \in Nat /\ i <= n + 1 /\ MaxTokens[r] \in Nat
    BY DraftFacts, SpecAssumption, RequestTypes
<1>3. /\ f \in Seq(Tokens) /\ Len(f) = n + 1 /\ f[1] = carry[r]
      /\ \A j \in 1..n : f[1 + j] = drafts[r][j]
    BY <1>1, FedFacts
<1> HIDE DEF f
<1>4. bad = {}
  <2> SUFFICES ASSUME bad # {} PROVE FALSE
      OBVIOUS
  <2>1. bad \in SUBSET (0..i) /\ 0 \notin bad
      OBVIOUS
  <2> HIDE DEF bad
  <2>2. PICK k \in 1..i : k \in bad /\ \A j \in bad : k <= j
      BY <1>2, <2>1, FirstBad
  <2>3. f[k] # Greedy[r][L + k] /\ \A j \in 1..(k - 1) : f[j] = Greedy[r][L + j]
    <3>1. \A j \in 1..(k - 1) : j \in 1..i /\ j \notin bad
        BY <1>2, <2>2
    <3> QED
        BY <2>2, <3>1 DEF bad
  <2>4. k # 1
      BY <1>1, <1>3, <2>3
  <2> DEFINE t == k - 2
  <2>5. /\ t \in Nat /\ t + 1 \in 1..n /\ (t + 1) - 1 = t /\ t \in 0..Len(drafts[r]) /\ k = 1 + (t + 1)
        /\ L + (t + 1) < MaxTokens[r] /\ t <= n
    <3> DEFINE b == MaxTokens[r]
               d == Len(drafts[r])
    <3>1. L \in Nat /\ n \in Nat /\ b \in Nat /\ d \in Nat /\ n <= d /\ k \in 2..i /\ i <= n + 1 /\ L + i <= b
        BY <1>1, <1>2, <2>2, <2>4
    <3> HIDE DEF L, b, d
    <3>2. /\ t \in Nat /\ t + 1 \in 1..n /\ (t + 1) - 1 = t /\ t \in 0..d /\ k = 1 + (t + 1)
          /\ L + (t + 1) < b /\ t <= n
        BY <1>2, <3>1
    <3> QED
        BY <3>2 DEF b, d
  <2> HIDE DEF t
  <2>6. drafts[r][t + 1] \in TruthAt(r, t)
    <3>1. drafts[r][t + 1] \in TruthAt(r, (t + 1) - 1)
        BY <2>5
    <3> QED
        BY <2>5, <3>1
  <2>7. /\ Len(Fed(r, t)) = t + 1 /\ Fed(r, t)[1] = carry[r]
        /\ \A j \in 1..t : Fed(r, t)[1 + j] = drafts[r][j]
      BY <1>1, <2>5, FedFacts
  <2>8. ASSUME NEW j \in 1..(t + 1) PROVE Fed(r, t)[j] = f[j]
    <3>1. CASE j = 1
        BY <1>3, <2>7, <3>1
    <3>2. CASE j # 1
      <4>1. j - 1 \in 1..t /\ j - 1 \in 1..n /\ j = 1 + (j - 1)
          BY <1>2, <2>5, <3>2
      <4>2. Fed(r, t)[1 + (j - 1)] = drafts[r][j - 1] /\ f[1 + (j - 1)] = drafts[r][j - 1]
          BY <1>3, <2>7, <4>1
      <4> QED
          BY <4>1, <4>2
    <3> QED
        BY <3>1, <3>2
  <2>9. \A j \in 1..(t + 1) : Fed(r, t)[j] = Greedy[r][L + j] /\ Fed(r, t)[j] # Eos
    <3>1. \A j \in 1..(t + 1) : j \in 1..(k - 1) /\ j \in 1..(i - 1)
        BY <1>2, <2>2, <2>5
    <3> QED
        BY <2>3, <2>8, <3>1 DEF f
  <2>10. drafts[r][t + 1] = Greedy[r][L + (t + 1) + 1]
      BY <2>5, <2>6, <2>9, TruthRight
  <2>11. f[k] = drafts[r][t + 1] /\ L + (t + 1) + 1 = L + k
    <3>1. f[1 + (t + 1)] = drafts[r][t + 1]
        BY <1>3, <2>5
    <3>2. k = 1 + (t + 1) /\ t \in Nat /\ L \in Nat
        BY <1>1, <2>5
    <3> HIDE DEF L
    <3>3. L + (t + 1) + 1 = L + k
        BY <3>2
    <3> QED
        BY <3>1, <3>2, <3>3
  <2> QED
      BY <2>3, <2>10, <2>11
<1>5. i \in 1..i
    BY <1>2
<1>6. f[i] = Greedy[r][L + i]
    BY <1>4, <1>5
<1> QED
    BY <1>6 DEF f

\* What a row emits in a verify step is Greedy's, and the row has ended if any
\* of what was accepted is cut off.
LEMMA EmitRight ==
  ASSUME SpecTypeOK, NEW r \in Seqs, RowOK(r), status[r] = "running",
         ~ Ended(r), Carries(r), Caught(r), NEW n \in 0..Len(drafts[r]),
         \A t \in 1..n : drafts[r][t] \in TruthAt(r, t - 1)
  PROVE  LET e == TruncateEmit(r, Fed(r, n))
             o == out[r] \o e
         IN /\ e \in Seq(Tokens) /\ Len(e) \in 1..(n + 1)
            /\ o \in Seq(Tokens) /\ Len(o) = Len(out[r]) + Len(e) /\ Len(o) <= MaxTokens[r]
            /\ Through(o, out[r], Len(out[r])) /\ Through(o, Greedy[r], Len(o))
            /\ \A i \in 1..Len(e) : o[Len(out[r]) + i] = e[i] /\ e[i] = Fed(r, n)[i]
            /\ \A i \in 1..(Len(o) - 1) : o[i] # Eos
            /\ Len(e) < n + 1 => IsFinished(r, o)
<1> DEFINE f == Fed(r, n)
           m == out[r]
           e == TruncateEmit(r, f)
           o == m \o e
<1>1. /\ OutputOK(r) /\ MayGoOn(r) /\ m \in Seq(Tokens) /\ Len(m) \in Nat /\ carry[r] \in Tokens
    BY Verifiable
<1>2. Len(drafts[r]) \in Nat /\ n \in Nat /\ MaxTokens[r] \in Nat /\ Len(Greedy[r]) \in Nat
      /\ MaxTokens[r] <= Len(Greedy[r])
    BY DraftFacts, SpecAssumption, RequestTypes
<1>3. f \in Seq(Tokens) /\ Len(f) = n + 1 /\ f # <<>>
  <2>1. f \in Seq(Tokens) /\ Len(f) = n + 1
      BY <1>1, FedFacts
  <2> HIDE DEF f
  <2> QED
      BY <1>2, <2>1, EmptySeq
<1>4. Len(m) < MaxTokens[r] /\ Through(m, Greedy[r], Len(m)) /\ \A i \in 1..Len(m) : m[i] # Eos
    BY <1>1 DEF MayGoOn, OutputOK
<1>5. ASSUME NEW i \in 1..(n + 1), Len(m) + i <= MaxTokens[r], \A j \in 1..(i - 1) : f[j] # Eos
      PROVE  f[i] = Greedy[r][Len(m) + i]
    BY <1>5, AcceptedRight
<1>6. /\ e \in Seq(Tokens) /\ Len(e) \in 1..Len(f) /\ Len(m) + Len(e) <= MaxTokens[r]
      /\ \A i \in 1..Len(e) : e[i] = f[i]
      /\ \A i \in 1..(Len(e) - 1) : f[i] # Eos
      /\ Len(e) < Len(f) => Len(m) + Len(e) = MaxTokens[r] \/ f[Len(e)] = Eos
  <2>1. m \in Seq(Tokens) /\ Len(m) < MaxTokens[r] /\ f \in Seq(Tokens) /\ f # <<>>
      BY <1>1, <1>3, <1>4
  <2> HIDE DEF f
  <2> QED
      BY <2>1, Truncated
<1> HIDE DEF f, m, e
<1>8. Len(e) \in Nat /\ Len(e) \in 1..(n + 1)
    BY <1>3, <1>6
<1>9. /\ o \in Seq(Tokens) /\ Len(o) = Len(m) + Len(e)
      /\ \A i \in 1..Len(m) : o[i] = m[i]
      /\ \A i \in 1..Len(e) : o[Len(m) + i] = e[i]
    BY <1>1, <1>6, Joined
<1> HIDE DEF o
<1>10. ASSUME NEW i \in 1..Len(e) PROVE f[i] = Greedy[r][Len(m) + i]
  <2>1. i \in 1..(n + 1) /\ Len(m) + i <= MaxTokens[r] /\ \A j \in 1..(i - 1) : j \in 1..(Len(e) - 1)
      BY <1>1, <1>2, <1>6, <1>8
  <2> QED
      BY <1>5, <1>6, <2>1
<1>11. \A i \in 1..Len(o) : i \in 1..Len(m) \/ (i - Len(m) \in 1..Len(e) /\ i = Len(m) + (i - Len(m)))
    BY <1>1, <1>8, <1>9
<1>12. ASSUME NEW i \in 1..Len(o) PROVE o[i] = Greedy[r][i] /\ (i <= Len(o) - 1 => o[i] # Eos)
  <2>1. CASE i \in 1..Len(m)
      BY <1>4, <1>9, <2>1 DEF Through
  <2>2. CASE i - Len(m) \in 1..Len(e) /\ i = Len(m) + (i - Len(m))
    <3> DEFINE j == i - Len(m)
    <3>1. j \in 1..Len(e) /\ i = Len(m) + j /\ (i <= Len(o) - 1 => j \in 1..(Len(e) - 1))
        BY <1>1, <1>8, <1>9, <2>2
    <3> HIDE DEF j
    <3>2. o[Len(m) + j] = e[j] /\ e[j] = f[j] /\ f[j] = Greedy[r][Len(m) + j]
        BY <1>6, <1>9, <1>10, <3>1
    <3>3. i <= Len(o) - 1 => f[j] # Eos
        BY <1>6, <3>1
    <3> QED
        BY <3>1, <3>2, <3>3
  <2> QED
      BY <1>11, <2>1, <2>2
<1>13. Len(o) \in Nat /\ Len(o) <= MaxTokens[r] /\ Len(o) <= Len(Greedy[r]) /\ Len(m) <= Len(o)
    BY <1>1, <1>2, <1>6, <1>8, <1>9
<1>14. Through(o, Greedy[r], Len(o))
    BY <1>12, <1>13 DEF Through
<1>15. Through(o, m, Len(m))
    BY <1>1, <1>9, <1>13 DEF Through
<1>16. \A i \in 1..(Len(o) - 1) : o[i] # Eos
    BY <1>12, <1>13
<1>17. ASSUME Len(e) < n + 1 PROVE IsFinished(r, o)
  <2>1. CASE Len(m) + Len(e) = MaxTokens[r]
      BY <1>9, <1>13, <2>1 DEF IsFinished
  <2>2. CASE f[Len(e)] = Eos
    <3>1. o[Len(o)] = Eos
      <4>1. Len(e) \in 1..Len(e)
          BY <1>8
      <4>2. o[Len(m) + Len(e)] = e[Len(e)] /\ e[Len(e)] = f[Len(e)]
          BY <1>6, <1>9, <4>1
      <4> QED
          BY <1>9, <2>2, <4>2
    <3>2. o # <<>>
        BY <1>1, <1>8, <1>9, EmptySeq
    <3> QED
        BY <3>1, <3>2 DEF IsFinished, Last
  <2> QED
      BY <1>3, <1>6, <1>17, <2>1, <2>2
<1> QED
    BY <1>6, <1>8, <1>9, <1>13, <1>14, <1>15, <1>16, <1>17 DEF f, m, e, o

\* The pads behind a draft that is shorter than the longest.
Pads(r) == [i \in 1..(VerifyWidth - 1 - Len(drafts[r])) |-> CHOOSE x \in Tokens : TRUE]

\* What a row emits, and its outputs with it: Greedy goes on to say it.
Emitted(r, n, e, o) ==
  /\ e \in Seq(Tokens) /\ Len(e) \in 1..(n + 1) /\ o = out[r] \o e
  /\ o \in Seq(Tokens) /\ Len(o) = Len(out[r]) + Len(e) /\ Len(o) <= MaxTokens[r]
  /\ Through(o, out[r], Len(out[r])) /\ Through(o, Greedy[r], Len(o))
  /\ \A i \in 1..Len(e) : o[Len(out[r]) + i] = e[i] /\ e[i] = Fed(r, n)[i]
  /\ \A i \in 1..(Len(o) - 1) : o[i] # Eos
  /\ Len(e) < n + 1 => IsFinished(r, o)

\* What the verify forward writes for a row.
Written(r) == <<carry[r]>> \o drafts[r] \o Pads(r)

LEMMA WrittenFacts ==
  ASSUME SpecTypeOK, AnyDraft, NEW r \in Seqs, carry[r] \in Tokens, NEW n \in 0..Len(drafts[r])
  PROVE  /\ Written(r) \in Seq(Tokens) /\ n + 1 <= Len(Written(r))
         /\ \A i \in 1..(n + 1) : Written(r)[i] = Fed(r, n)[i]
<1> DEFINE b == <<carry[r]>>
           d == drafts[r]
           p == Pads(r)
<1>1. d \in Seq(Tokens) /\ Len(d) \in 0..SpecK /\ Len(d) \in Nat /\ n \in Nat /\ n <= Len(d)
    BY DraftFacts, SpecAssumption
<1>2. b \in Seq(Tokens) /\ Len(b) = 1 /\ b[1] = carry[r]
    BY Single
<1>3. p \in Seq(Tokens)
  <2> DEFINE k == VerifyWidth - 1 - Len(d)
             c == CHOOSE x \in Tokens : TRUE
  <2>1. k \in Int
      BY <1>1, WidthBound, SpecAssumption
  <2>2. c \in Tokens
      BY SpecAssumption
  <2> HIDE DEF k, c
  <2>3. PICK j \in Nat : 1..k = 1..j
    <3>1. CASE k >= 0
        BY <2>1, <3>1
    <3>2. CASE k < 0
      <4>1. 1..k = 1..0
          BY <2>1, <3>2
      <4> QED
          BY <4>1
    <3> QED
        BY <2>1, <3>1, <3>2
  <2>4. [i \in 1..k |-> c] \in [1..j -> Tokens]
      BY <2>2, <2>3
  <2>5. [i \in 1..k |-> c] \in UNION {[1..m -> Tokens] : m \in Nat}
      BY <2>3, <2>4
  <2>6. [i \in 1..k |-> c] \in Seq(Tokens)
      BY <2>5, SeqDef
  <2> QED
      BY <2>6 DEF Pads, k, c
<1>4. /\ Fed(r, n) \in Seq(Tokens) /\ Fed(r, n)[1] = carry[r]
      /\ \A i \in 1..n : Fed(r, n)[1 + i] = d[i]
    BY FedFacts
<1> HIDE DEF b, d, p
<1> DEFINE u == b \o d
<1>5. /\ u \in Seq(Tokens) /\ Len(u) = 1 + Len(d) /\ u[1] = carry[r]
      /\ \A i \in 1..Len(d) : u[1 + i] = d[i]
  <2>1. /\ u \in Seq(Tokens) /\ Len(u) = Len(b) + Len(d)
        /\ \A i \in 1..Len(b) : u[i] = b[i]
        /\ \A i \in 1..Len(d) : u[Len(b) + i] = d[i]
      BY <1>1, <1>2, Joined
  <2> HIDE DEF u
  <2> QED
      BY <1>2, <2>1
<1>6. Written(r) = u \o p
    BY DEF Written, b, d, p
<1> HIDE DEF u
<1>7. /\ Written(r) \in Seq(Tokens) /\ Len(Written(r)) = Len(u) + Len(p)
      /\ \A i \in 1..Len(u) : Written(r)[i] = u[i]
  <2>1. /\ u \o p \in Seq(Tokens) /\ Len(u \o p) = Len(u) + Len(p)
        /\ \A i \in 1..Len(u) : (u \o p)[i] = u[i]
      BY <1>3, <1>5, Joined
  <2> QED
      BY <1>6, <2>1, Zenon
<1>8. Len(p) \in Nat
    BY <1>3, SeqFacts
<1>9. ASSUME NEW i \in 1..(n + 1) PROVE Written(r)[i] = Fed(r, n)[i]
  <2>1. i \in 1..Len(u)
      BY <1>1, <1>5
  <2>2. CASE i = 1
      BY <1>4, <1>5, <1>7, <2>1, <2>2
  <2>3. CASE i # 1
    <3>1. i - 1 \in 1..n /\ i - 1 \in 1..Len(d) /\ i = 1 + (i - 1)
        BY <1>1, <2>3
    <3>2. u[1 + (i - 1)] = d[i - 1] /\ Fed(r, n)[1 + (i - 1)] = d[i - 1]
        BY <1>4, <1>5, <3>1
    <3> QED
        BY <1>7, <2>1, <3>1, <3>2
  <2> QED
      BY <2>2, <2>3
<1>10. n + 1 <= Len(Written(r))
    BY <1>1, <1>5, <1>7, <1>8
<1> QED
    BY <1>7, <1>9, <1>10

\* The accept loop of one row, its choices named.
LEMMA AcceptRowEffect ==
  ASSUME NEW r \in Seqs, AcceptRow(r)
  PROVE  \E n \in 0..Len(drafts[r]) : \E nb \in TruthAt(r, n) :
           LET e == TruncateEmit(r, Fed(r, n))
               o == out[r] \o e
               ends == Len(e) < Len(Fed(r, n)) \/ IsFinished(r, o)
           IN /\ \A t \in 1..n : drafts[r][t] \in TruthAt(r, t - 1)
              /\ out' = [out EXCEPT ![r] = o]
              /\ len' = [len EXCEPT ![r] = @ + Len(e)]
              /\ kv' = [kv EXCEPT ![r] = Overwrite(@, len[r] + 2, Written(r))]
              /\ rec' = [rec EXCEPT ![r] = CommitVerify(@, Written(r), Len(e))]
              /\ carry' = [carry EXCEPT ![r] = IF ends THEN NoToken ELSE nb]
              /\ IF ends THEN UNCHANGED walkVars
                 ELSE /\ acc'  = [acc EXCEPT ![r] = Walk(@, e)]
                      /\ seen' = [seen EXCEPT ![r] = Watermark(r, o)]
              /\ mtp' = [mtp EXCEPT ![slot[r]] = ExtendPrefix(@, len[r], e)]
    BY ZenonT(60) DEF AcceptRow, Fed, Written, Pads

\* The row after the accept loop is in step again, or has ended.
LEMMA AcceptedRow ==
  ASSUME SpecTypeOK, AnyDraft, NEW r \in Seqs, RowOK(r), status[r] = "running",
         ~ Ended(r), Carries(r), Caught(r), NEW n \in 0..Len(drafts[r]), NEW nb \in TruthAt(r, n),
         \A t \in 1..n : drafts[r][t] \in TruthAt(r, t - 1),
         NEW e, NEW o, Emitted(r, n, e, o),
         status'[r] = status[r], slot'[r] = slot[r], pre'[r] = pre[r],
         out'[r] = o, len'[r] = len[r] + Len(e),
         kv'[r] = Overwrite(kv[r], len[r] + 2, Written(r)),
         rec'[r] = CommitVerify(rec[r], Written(r), Len(e)),
         IsFinished(r, o) => carry'[r] = NoToken /\ acc'[r] = acc[r] /\ seen'[r] = seen[r],
         ~ IsFinished(r, o) => carry'[r] = nb /\ acc'[r] = Walk(acc[r], e) /\ seen'[r] = Watermark(r, o)
  PROVE  /\ RowOK(r)'
         /\ o \in Seq(Tokens) /\ len'[r] \in Nat /\ kv'[r] \in Seq(Tokens) /\ rec'[r] \in Seq(Tokens)
         /\ carry'[r] \in Tokens \cup {NoToken} /\ acc'[r] \in Seq(Tokens)
         /\ seen'[r] \in Nat \cup {NoToken} /\ e \in Seq(Tokens)
         /\ Len(o) \in Nat /\ Through(o, out[r], Len(out[r]))
<1> DEFINE m == out[r]
           f == Fed(r, n)
           W == Written(r)
<1>1. /\ OutputOK(r) /\ MayGoOn(r) /\ RunOK(r) /\ StateOK(r)
      /\ m \in Seq(Tokens) /\ Len(m) \in Nat /\ len[r] + 1 = Len(m) /\ len[r] \in Nat
      /\ carry[r] \in Tokens
      /\ kv[r] \in Seq(Tokens) /\ Len(kv[r]) \in Nat /\ Through(kv[r], m, Len(m))
      /\ rec[r] = m /\ acc[r] \in Seq(Tokens) /\ (r \in Constrained => pre[r] = 0 /\ acc[r] = m)
    BY Verifiable
<1>2. /\ e \in Seq(Tokens) /\ Len(e) \in 1..(n + 1)
      /\ o \in Seq(Tokens) /\ Len(o) = Len(m) + Len(e) /\ Len(o) <= MaxTokens[r]
      /\ Through(o, m, Len(m)) /\ Through(o, Greedy[r], Len(o))
      /\ \A i \in 1..Len(e) : o[Len(m) + i] = e[i] /\ e[i] = f[i]
      /\ \A i \in 1..(Len(o) - 1) : o[i] # Eos
      /\ Len(e) < n + 1 => IsFinished(r, o)
    BY DEF Emitted
<1>3. f \in Seq(Tokens) /\ Len(f) = n + 1 /\ n \in Nat /\ Len(e) \in Nat /\ Len(o) \in Nat /\ n + 1 \in Nat
  <2>1. f \in Seq(Tokens) /\ Len(f) = n + 1
      BY <1>1, FedFacts
  <2>2. n \in Nat
      BY DraftFacts, SpecAssumption
  <2> QED
      BY <1>2, <2>1, <2>2, SeqFacts
<1>5. /\ W \in Seq(Tokens) /\ n + 1 <= Len(W) /\ \A i \in 1..(n + 1) : W[i] = f[i]
      /\ Len(W) \in Nat
    BY <1>1, WrittenFacts, SeqFacts
<1>6. /\ kv'[r] \in Seq(Tokens) /\ Len(kv'[r]) >= Len(m) + Len(W)
      /\ \A j \in 1..Len(m) : kv'[r][j] = kv[r][j]
      /\ \A j \in 1..Len(W) : kv'[r][Len(m) + j] = W[j]
  <2> DEFINE i == len[r] + 2
  <2>1. i \in Nat \ {0} /\ i - 1 = Len(m) /\ i <= Len(kv[r]) + 1
    <3> DEFINE a == len[r]
               b == Len(kv[r])
               c == Len(m)
    <3>1. c <= b
        BY <1>1 DEF Through
    <3>2. a \in Nat /\ b \in Nat /\ c \in Nat /\ a + 1 = c /\ i = a + 2
        BY <1>1
    <3> HIDE DEF a, b, c, i
    <3>3. i \in Nat \ {0} /\ i - 1 = c /\ i <= b + 1
        BY <3>1, <3>2
    <3> QED
        BY <3>3 DEF b, c
  <2> HIDE DEF i, W
  <2>2. /\ Overwrite(kv[r], i, W) \in Seq(Tokens) /\ Len(Overwrite(kv[r], i, W)) >= i - 1 + Len(W)
        /\ \A j \in 1..(i - 1) : Overwrite(kv[r], i, W)[j] = kv[r][j]
        /\ \A j \in 1..Len(W) : Overwrite(kv[r], i, W)[i - 1 + j] = W[j]
      BY <1>1, <1>5, <2>1, Overwritten
  <2>3. kv'[r] = Overwrite(kv[r], i, W)
      BY DEF i, W
  <2> QED
      BY <2>1, <2>2, <2>3
<1>7. /\ SubSeq(W, 1, Len(e)) \in Seq(Tokens) /\ Len(SubSeq(W, 1, Len(e))) = Len(e)
      /\ \A i \in 1..Len(e) : SubSeq(W, 1, Len(e))[i] = W[i]
  <2>1. Len(e) <= Len(W)
      BY <1>2, <1>3, <1>5
  <2> HIDE DEF W
  <2> QED
      BY <1>3, <1>5, <2>1, FirstTokens
<1>8. SubSeq(W, 1, Len(e)) = e
  <2> DEFINE v == SubSeq(W, 1, Len(e))
  <2>1. \A i \in 1..Len(e) : i \in 1..(n + 1)
      BY <1>2, <1>3
  <2>2. v \in Seq(Tokens) /\ Len(v) = Len(e) /\ \A i \in 1..Len(e) : v[i] = e[i]
      BY <1>2, <1>5, <1>7, <2>1
  <2> HIDE DEF v
  <2>3. v = e
      BY <1>2, <2>2, SeqEqual
  <2> QED
      BY <2>3 DEF v
<1>4. /\ Len(o) = Len(m) + Len(e) /\ len[r] + 1 = Len(m) /\ 1 <= Len(e) /\ Len(e) <= n + 1
      /\ n + 1 <= Len(W) /\ Len(o) <= MaxTokens[r]
      /\ {n, Len(m), Len(e), Len(o), Len(W), len[r]} \subseteq Nat
    BY <1>1, <1>2, <1>3, <1>5
<1>9. rec'[r] = o
  <2>1. o = m \o e
      BY DEF Emitted
  <2>2. rec'[r] = rec[r] \o SubSeq(W, 1, Len(e))
      BY DEF CommitVerify
  <2> HIDE DEF m, W
  <2> QED
      BY <1>1, <1>8, <2>1, <2>2, Zenon
<1>10. Watermark(r, o) \in Nat /\ (r \in Constrained => Watermark(r, o) = Len(o))
  <2>1. pre[r] <= Len(m)
      BY <1>1 DEF OutputOK
  <2> QED
      BY <1>1, <1>2, <2>1, AllIdsFacts
<1>11. Walk(acc[r], e) \in Seq(Tokens)
    BY <1>1, <1>2, WalkType
<1>12. len'[r] + 1 = Len(o) /\ len'[r] \in Nat
  <2>1. len'[r] = len[r] + Len(e)
      OBVIOUS
  <2> HIDE DEF m
  <2> DEFINE a == len[r]
             b == Len(e)
             c == Len(m)
             d == Len(o)
  <2>3. a \in Nat /\ b \in Nat /\ c \in Nat /\ d = c + b /\ a + 1 = c
      BY <1>4
  <2> HIDE DEF a, b, c, d
  <2>4. a + b \in Nat /\ a + b + 1 = d
      BY <2>3
  <2>2. len[r] + Len(e) \in Nat /\ len[r] + Len(e) + 1 = Len(o)
      BY <2>4 DEF a, b, d
  <2> QED
      BY <2>1, <2>2, Zenon
<1>13. Ended(r)' <=> IsFinished(r, o)
    BY DEF Ended, IsFinished
<1>14. OutputOK(r)'
  <2>1. pre[r] <= Len(o) /\ pre[r] \in Nat
    <3>1. pre[r] <= Len(m) /\ pre[r] \in Nat
        BY <1>1, RowTypes DEF OutputOK
    <3> QED
        BY <1>1, <1>2, <1>3, <3>1
  <2> QED
      BY <1>2, <2>1 DEF OutputOK
<1>15. ASSUME ~ IsFinished(r, o) PROVE nb \in Tokens /\ StateOK(r)'
  <2>1. /\ ~ IsFinished(r, o) /\ Len(e) = n + 1
        /\ carry'[r] = nb /\ acc'[r] = Walk(acc[r], e) /\ seen'[r] = Watermark(r, o)
      BY <1>2, <1>3, <1>15
  <2>2. Len(o) < MaxTokens[r] /\ o # <<>> /\ Last(o) # Eos
    <3>1. Len(o) < MaxTokens[r] /\ (o # <<>> => Last(o) # Eos)
        BY <1>3, <2>1, RequestTypes DEF IsFinished
    <3>2. o # <<>>
        BY <1>1, <1>2, <1>3, EmptySeq
    <3> QED
        BY <3>1, <3>2
  <2>3. \A i \in 1..Len(o) : o[i] # Eos
    <3>1. \A i \in 1..Len(o) : i \in 1..(Len(o) - 1) \/ i = Len(o)
        BY <1>3
    <3> QED
        BY <1>2, <2>2, <3>1 DEF Last
  <2>4. \A j \in 1..(n + 1) : f[j] = Greedy[r][Len(m) + j] /\ f[j] # Eos
    <3> SUFFICES ASSUME NEW j \in 1..(n + 1) PROVE f[j] = Greedy[r][Len(m) + j] /\ f[j] # Eos
        OBVIOUS
    <3>1. j \in 1..Len(e) /\ Len(m) + j \in 1..Len(o)
      <4> HIDE DEF m
      <4> QED
          BY <1>4, <2>1
    <3>2. o[Len(m) + j] = f[j]
        BY <1>2, <3>1
    <3>3. o[Len(m) + j] = Greedy[r][Len(m) + j] /\ o[Len(m) + j] # Eos
        BY <1>2, <2>3, <3>1 DEF Through
    <3> QED
        BY <3>2, <3>3
  <2>5. nb \in Tokens /\ nb = Greedy[r][Len(o) + 1]
    <3>1. Len(m) + (n + 1) < MaxTokens[r] /\ Len(m) + (n + 1) = Len(o)
        BY <1>2, <2>1, <2>2
    <3>2. nb \in Tokens /\ nb = Greedy[r][Len(m) + (n + 1) + 1]
        BY <2>4, <3>1, TruthRight
    <3> QED
        BY <3>1, <3>2
  <2>6. Carries(r)' /\ Reached(r)' = Len(o)
    <3>1. Carries(r)'
        BY <2>1, <2>5, SpecAssumption DEF Carries
    <3> QED
        BY <1>12, <3>1 DEF Reached
  <2>7. Through(kv'[r], o, Len(o))
    <3>1. Len(kv'[r]) \in Nat /\ Len(o) <= Len(kv'[r])
      <4>1. Len(kv'[r]) \in Nat
          BY <1>6, SeqFacts
      <4> QED
          BY <1>1, <1>2, <1>3, <1>5, <1>6, <4>1
    <3>2. ASSUME NEW i \in 1..Len(o) PROVE kv'[r][i] = o[i]
      <4>1. CASE i \in 1..Len(m)
          BY <1>1, <1>2, <1>6, <4>1 DEF Through
      <4>2. CASE i \notin 1..Len(m)
        <5> DEFINE j == i - Len(m)
        <5>1. j \in 1..(n + 1) /\ j \in 1..Len(e) /\ j \in 1..Len(W) /\ i = Len(m) + j
          <6> HIDE DEF m, W
          <6> QED
              BY <1>4, <2>1, <4>2
        <5> HIDE DEF j
        <5>2. kv'[r][Len(m) + j] = f[j] /\ o[Len(m) + j] = f[j]
            BY <1>2, <1>5, <1>6, <5>1
        <5> QED
            BY <5>1, <5>2
      <4> QED
          BY <4>1, <4>2
    <3> QED
        BY <1>3, <3>1, <3>2 DEF Through
  <2>8. Through(o, o, Len(o))
      BY <1>3 DEF Through
  <2>9. r \in Constrained => acc'[r] = o /\ seen'[r] = Len(o)
    <3> SUFFICES ASSUME r \in Constrained PROVE acc'[r] = o /\ seen'[r] = Len(o)
        OBVIOUS
    <3>1. /\ Through(m, o, Len(m)) /\ Len(o) = Len(m) + Len(e)
          /\ \A i \in 1..Len(e) : e[i] = o[Len(m) + i]
        BY <1>1, <1>2 DEF Through
    <3>2. acc[r] = m
        BY <1>1
    <3> HIDE DEF m
    <3>3. Walk(m, e) = o
      <4>1. /\ m \in Seq(Tokens) /\ e \in Seq(Tokens) /\ o \in Seq(Tokens)
            /\ Through(o, Greedy[r], Len(o)) /\ Len(o) <= MaxTokens[r]
          BY <1>1, <1>2
      <4> QED
          BY <2>3, <3>1, <4>1, WalkFollows
    <3> QED
        BY <1>10, <2>1, <3>2, <3>3
  <2> QED
      BY <1>9, <2>1, <2>2, <2>5, <2>6, <2>7, <2>8, <2>9 DEF StateOK
<1>16. RunOK(r)'
  <2>1. slot'[r] \in Slots /\ len'[r] + 1 = Len(out'[r])
      BY <1>1, <1>12 DEF RunOK
  <2>2. seen'[r] \in Nat
      BY <1>1, <1>10 DEF RunOK
  <2>3. Ended(r)' \/ StateOK(r)'
      BY <1>13, <1>15
  <2> QED
      BY <2>1, <2>2, <2>3 DEF RunOK
<1>17. RowOK(r)'
  <2>1. status'[r] = "running" /\ (r \in Constrained => pre'[r] = 0)
      BY <1>1
  <2> QED
      BY <1>14, <1>16, <2>1 DEF RowOK
<1>18. carry'[r] \in Tokens \cup {NoToken} /\ acc'[r] \in Seq(Tokens) /\ seen'[r] \in Nat \cup {NoToken}
    BY <1>1, <1>10, <1>11, <1>15 DEF RunOK
<1> QED
    BY <1>2, <1>3, <1>6, <1>9, <1>12, <1>17, <1>18

\* A row's own prefix grows to its own prefix, or is cleared.
LEMMA PrefixGrows ==
  ASSUME NEW r \in Seqs, NEW p \in [owner : Seqs \cup {NoToken}, toks : Seq(Tokens)],
         NEW k \in Nat, NEW m \in Seq(Tokens), Len(m) = k + 1,
         NEW e \in Seq(Tokens), NEW o \in Seq(Tokens), Len(o) = Len(m) + Len(e),
         Through(o, m, Len(m)), \A i \in 1..Len(e) : o[Len(m) + i] = e[i]
  PROVE  LET g == ExtendPrefix(p, k, e)
         IN /\ g \in [owner : Seqs \cup {NoToken}, toks : Seq(Tokens)]
            /\ (p # NoPrefix => p.owner = r /\ Through(p.toks, m, Len(p.toks)))
                 => (g # NoPrefix => g.owner = r /\ Through(g.toks, o, Len(g.toks)))
<1> DEFINE g == ExtendPrefix(p, k, e)
           t == p.toks \o e
<1>1. CASE p # NoPrefix /\ Len(p.toks) = k + 1
  <2>1. g = [p EXCEPT !.toks = t]
      BY <1>1 DEF ExtendPrefix
  <2>2. /\ t \in Seq(Tokens) /\ Len(t) = Len(p.toks) + Len(e)
        /\ \A i \in 1..Len(p.toks) : t[i] = p.toks[i]
        /\ \A i \in 1..Len(e) : t[Len(p.toks) + i] = e[i]
      BY Joined
  <2> HIDE DEF t
  <2>3. g \in [owner : Seqs \cup {NoToken}, toks : Seq(Tokens)] /\ g.owner = p.owner /\ g.toks = t
      BY <2>1, <2>2
  <2>4. ASSUME Through(p.toks, m, Len(p.toks)) PROVE Through(t, o, Len(t))
    <3>1. Len(e) \in Nat /\ Len(m) \in Nat /\ Len(p.toks) = Len(m) /\ Len(t) = Len(o) /\ Len(o) \in Nat
        BY <1>1, <2>2, SeqFacts
    <3>2. ASSUME NEW i \in 1..Len(t) PROVE t[i] = o[i]
      <4>1. CASE i \in 1..Len(m)
          BY <2>2, <2>4, <3>1, <4>1 DEF Through
      <4>2. CASE i \notin 1..Len(m)
        <5>1. i - Len(m) \in 1..Len(e) /\ i = Len(m) + (i - Len(m))
          <6>1. Len(t) = Len(m) + Len(e)
              BY <2>2, <3>1
          <6> QED
              BY <3>1, <4>2, <6>1
        <5>2. t[Len(m) + (i - Len(m))] = e[i - Len(m)] /\ o[Len(m) + (i - Len(m))] = e[i - Len(m)]
            BY <2>2, <3>1, <5>1
        <5> QED
            BY <5>1, <5>2
      <4> QED
          BY <4>1, <4>2
    <3> QED
        BY <3>1, <3>2 DEF Through
  <2> HIDE DEF g
  <2>5. (p # NoPrefix => p.owner = r /\ Through(p.toks, m, Len(p.toks)))
          => (g # NoPrefix => g.owner = r /\ Through(g.toks, o, Len(g.toks)))
      BY <1>1, <2>3, <2>4
  <2> QED
      BY <2>3, <2>5 DEF g
<1>2. CASE ~ (p # NoPrefix /\ Len(p.toks) = k + 1)
  <2>1. g = NoPrefix
      BY <1>2 DEF ExtendPrefix
  <2>2. NoPrefix \in [owner : Seqs \cup {NoToken}, toks : Seq(Tokens)]
      BY EmptySeq DEF NoPrefix
  <2> QED
      BY <2>1, <2>2
<1> QED
    BY <1>1, <1>2

\* The accept loop takes one row, and keeps every row in step.
LEMMA AcceptRowKeeps ==
  ASSUME InStep, NEW r \in Seqs, AcceptRow(r)
  PROVE  InStep'
<1>1. /\ phase = "verify" /\ AnyDraft /\ todo # {} /\ r = Row
      /\ todo' = todo \ {r} /\ phase' = IF todo' = {} THEN "post" ELSE "verify"
      /\ UNCHANGED <<status, slot, pre, drafts>>
    BY DEF AcceptRow, rowVars
<1>2. r \in todo
    BY <1>1 DEF Row
<1>3. TypeOK /\ SpecTypeOK /\ StepOK /\ RowOK(r)
    BY DEF InStep, TypeOK
<1>4. r \in Running /\ status[r] = "running" /\ ~ Ended(r) /\ Carries(r) /\ Caught(r)
    BY <1>1, <1>2, <1>3 DEF StepOK, Running
<1> DEFINE Taken(n, nb, e, o, ends) ==
             /\ nb \in TruthAt(r, n)
             /\ \A t \in 1..n : drafts[r][t] \in TruthAt(r, t - 1)
             /\ ends <=> Len(e) < Len(Fed(r, n)) \/ IsFinished(r, o)
             /\ out' = [out EXCEPT ![r] = o]
             /\ len' = [len EXCEPT ![r] = @ + Len(e)]
             /\ kv' = [kv EXCEPT ![r] = Overwrite(@, len[r] + 2, Written(r))]
             /\ rec' = [rec EXCEPT ![r] = CommitVerify(@, Written(r), Len(e))]
             /\ carry' = [carry EXCEPT ![r] = IF ends THEN NoToken ELSE nb]
             /\ IF ends THEN UNCHANGED walkVars
                ELSE /\ acc'  = [acc EXCEPT ![r] = Walk(@, e)]
                     /\ seen' = [seen EXCEPT ![r] = Watermark(r, o)]
             /\ mtp' = [mtp EXCEPT ![slot[r]] = ExtendPrefix(@, len[r], e)]
<1>5. \E n, nb, e, o, ends :
        n \in 0..Len(drafts[r]) /\ Taken(n, nb, e, o, ends) /\ Emitted(r, n, e, o)
  <2>1. PICK n \in 0..Len(drafts[r]) : \E nb \in TruthAt(r, n) :
          LET e == TruncateEmit(r, Fed(r, n))
              o == out[r] \o e
          IN Taken(n, nb, e, o, Len(e) < Len(Fed(r, n)) \/ IsFinished(r, o))
      BY AcceptRowEffect, Zenon
  <2> DEFINE e == TruncateEmit(r, Fed(r, n))
             o == out[r] \o e
             ends == Len(e) < Len(Fed(r, n)) \/ IsFinished(r, o)
  <2>2. PICK nb : Taken(n, nb, e, o, ends)
      BY <2>1, Zenon
  <2>3. \A t \in 1..n : drafts[r][t] \in TruthAt(r, t - 1)
      BY <2>2
  <2>4. Emitted(r, n, e, o)
    <3> HIDE DEF Taken
    <3> QED
        BY <1>3, <1>4, <2>3, EmitRight DEF Emitted
  <2> HIDE DEF Taken, e, o, ends
  <2> QED
      BY <2>2, <2>4
<1>6. PICK n, nb, e, o, ends :
        n \in 0..Len(drafts[r]) /\ Taken(n, nb, e, o, ends) /\ Emitted(r, n, e, o)
    BY <1>5
<1>7. n \in 0..Len(drafts[r]) /\ nb \in TruthAt(r, n) /\ \A t \in 1..n : drafts[r][t] \in TruthAt(r, t - 1)
    BY <1>6
<1>8. /\ out' = [out EXCEPT ![r] = o] /\ len' = [len EXCEPT ![r] = @ + Len(e)]
      /\ kv' = [kv EXCEPT ![r] = Overwrite(@, len[r] + 2, Written(r))]
      /\ rec' = [rec EXCEPT ![r] = CommitVerify(@, Written(r), Len(e))]
      /\ carry' = [carry EXCEPT ![r] = IF ends THEN NoToken ELSE nb]
      /\ IF ends THEN UNCHANGED walkVars
         ELSE /\ acc'  = [acc EXCEPT ![r] = Walk(@, e)]
              /\ seen' = [seen EXCEPT ![r] = Watermark(r, o)]
      /\ mtp' = [mtp EXCEPT ![slot[r]] = ExtendPrefix(@, len[r], e)]
    BY <1>6
<1>9. Emitted(r, n, e, o) /\ (ends <=> IsFinished(r, o))
  <2>1. Emitted(r, n, e, o) /\ (ends <=> Len(e) < Len(Fed(r, n)) \/ IsFinished(r, o))
      BY <1>6
  <2>2. Len(Fed(r, n)) = n + 1
    <3>1. carry[r] \in Tokens
        BY <1>3, <1>4, Verifiable
    <3> QED
        BY <1>3, <1>7, <3>1, FedFacts
  <2> QED
      BY <2>1, <2>2 DEF Emitted
<1> HIDE DEF Taken
<1>10. /\ status'[r] = status[r] /\ slot'[r] = slot[r] /\ pre'[r] = pre[r]
       /\ out'[r] = o /\ len'[r] = len[r] + Len(e)
       /\ kv'[r] = Overwrite(kv[r], len[r] + 2, Written(r))
       /\ rec'[r] = CommitVerify(rec[r], Written(r), Len(e))
       /\ IsFinished(r, o) => carry'[r] = NoToken /\ acc'[r] = acc[r] /\ seen'[r] = seen[r]
       /\ ~ IsFinished(r, o) => carry'[r] = nb /\ acc'[r] = Walk(acc[r], e) /\ seen'[r] = Watermark(r, o)
  <2>1. status'[r] = status[r] /\ slot'[r] = slot[r] /\ pre'[r] = pre[r]
      BY <1>1
  <2>2. out'[r] = o
      BY <1>3, <1>8 DEF SpecTypeOK
  <2>3. len'[r] = len[r] + Len(e)
      BY <1>3, <1>8 DEF SpecTypeOK
  <2>4. kv'[r] = Overwrite(kv[r], len[r] + 2, Written(r))
      BY <1>3, <1>8 DEF SpecTypeOK
  <2>5. rec'[r] = CommitVerify(rec[r], Written(r), Len(e))
      BY <1>3, <1>8 DEF SpecTypeOK
  <2>6. ASSUME ends PROVE carry'[r] = NoToken /\ acc'[r] = acc[r] /\ seen'[r] = seen[r]
    <3>1. carry' = [carry EXCEPT ![r] = NoToken] /\ UNCHANGED walkVars
        BY <1>8, <2>6, Zenon
    <3> QED
        BY <1>3, <3>1 DEF SpecTypeOK, walkVars
  <2>7. ASSUME ~ ends PROVE carry'[r] = nb /\ acc'[r] = Walk(acc[r], e) /\ seen'[r] = Watermark(r, o)
    <3>1. /\ carry' = [carry EXCEPT ![r] = nb] /\ acc' = [acc EXCEPT ![r] = Walk(@, e)]
          /\ seen' = [seen EXCEPT ![r] = Watermark(r, o)]
        BY <1>8, <2>7, Zenon
    <3> QED
        BY <1>3, <3>1 DEF SpecTypeOK
  <2>8. ends <=> IsFinished(r, o)
      BY <1>9
  <2> QED
      BY <2>1, <2>2, <2>3, <2>4, <2>5, <2>6, <2>7, <2>8, Zenon
<1>11. /\ RowOK(r)'
       /\ o \in Seq(Tokens) /\ len'[r] \in Nat /\ kv'[r] \in Seq(Tokens) /\ rec'[r] \in Seq(Tokens)
       /\ carry'[r] \in Tokens \cup {NoToken} /\ acc'[r] \in Seq(Tokens)
       /\ seen'[r] \in Nat \cup {NoToken} /\ e \in Seq(Tokens)
       /\ Len(o) \in Nat /\ Through(o, out[r], Len(out[r]))
    BY <1>1, <1>3, <1>4, <1>7, <1>9, <1>10, AcceptedRow, SMTT(30)
<1>12. \A q \in Seqs \ {r} : SameRow(q)
  <2> SUFFICES ASSUME NEW q \in Seqs \ {r} PROVE SameRow(q)
      OBVIOUS
  <2>1. /\ out'[q] = out[q] /\ len'[q] = len[q] /\ kv'[q] = kv[q] /\ rec'[q] = rec[q]
        /\ carry'[q] = carry[q]
      BY <1>3, <1>8 DEF SpecTypeOK
  <2>2. acc'[q] = acc[q] /\ seen'[q] = seen[q]
      BY <1>3, <1>8 DEF SpecTypeOK, walkVars
  <2> QED
      BY <1>1, <2>1, <2>2 DEF SameRow
<1>13. \A q \in Seqs : RowOK(q)'
    BY <1>11, <1>12, OthersStay
<1>14. Running' = Running /\ Running \subseteq Seqs
    BY <1>1 DEF Running
<1>15. SlotsApart'
    BY <1>1, <1>14 DEF InStep, SlotsApart
<1>16. \A q \in Running : slot[q] \in Slots /\ (slot[q] = slot[r] => q = r)
    BY <1>4, <1>14 DEF InStep, RowOK, RunOK, Running, SlotsApart
<1>17. /\ Len(o) = Len(out[r]) + Len(e) /\ Through(o, out[r], Len(out[r]))
       /\ \A i \in 1..Len(e) : o[Len(out[r]) + i] = e[i]
    BY <1>9 DEF Emitted
<1>18. /\ out[r] \in Seq(Tokens) /\ len[r] \in Nat /\ Len(out[r]) = len[r] + 1
       /\ mtp[slot[r]] \in [owner : Seqs \cup {NoToken}, toks : Seq(Tokens)]
  <2>1. out[r] \in Seq(Tokens) /\ len[r] \in Nat /\ len[r] + 1 = Len(out[r])
      BY <1>3, <1>4, Verifiable
  <2> QED
      BY <1>3, <1>4, <1>16, <2>1 DEF TypeOK
<1> DEFINE g == ExtendPrefix(mtp[slot[r]], len[r], e)
<1>19. /\ g \in [owner : Seqs \cup {NoToken}, toks : Seq(Tokens)]
       /\ (mtp[slot[r]] # NoPrefix => mtp[slot[r]].owner = r /\ Through(mtp[slot[r]].toks, out[r], Len(mtp[slot[r]].toks)))
            => (g # NoPrefix => g.owner = r /\ Through(g.toks, o, Len(g.toks)))
    BY <1>11, <1>17, <1>18, PrefixGrows
<1>20. mtp' = [mtp EXCEPT ![slot[r]] = g]
    BY <1>8
<1> HIDE DEF g
<1>21. ASSUME Unprimed = FALSE, NEW q \in Running' PROVE OwnPrefix(q)'
  <2>1. q \in Running /\ OwnPrefix(q) /\ q \in Seqs
      BY <1>14, <1>21 DEF InStep, PrefixesOwn
  <2>2. CASE q = r
    <3>1. mtp'[slot'[r]] = g /\ out'[r] = o
        BY <1>3, <1>4, <1>10, <1>16, <1>20 DEF TypeOK
    <3>2. g # NoPrefix => g.owner = r /\ Through(g.toks, o, Len(g.toks))
        BY <1>19, <2>1, <2>2 DEF OwnPrefix
    <3> QED
        BY <2>2, <3>1, <3>2 DEF OwnPrefix
  <2>3. CASE q # r
    <3>1. SameRow(q) /\ mtp'[slot[q]] = mtp[slot[q]]
        BY <1>3, <1>12, <1>16, <1>20, <2>1, <2>3 DEF TypeOK
    <3> QED
        BY <2>1, <3>1 DEF OwnPrefix, SameRow
  <2> QED
      BY <2>2, <2>3
<1>22. PrefixesOwn'
    BY <1>21 DEF PrefixesOwn
<1>23. TypeOK'
  <2>1. mtp' \in [Slots -> [owner : Seqs \cup {NoToken}, toks : Seq(Tokens)]]
      BY <1>3, <1>19, <1>20 DEF TypeOK
  <2>2. \A s \in Slots : mtp'[s].owner \in Seqs \cup {NoToken} /\ mtp'[s].toks \in Seq(Tokens)
      BY <2>1
  <2>3. /\ out' \in [Seqs -> Seq(Tokens)] /\ len' \in [Seqs -> Nat]
        /\ kv' \in [Seqs -> Seq(Tokens)] /\ rec' \in [Seqs -> Seq(Tokens)]
        /\ carry' \in [Seqs -> Tokens \cup {NoToken}]
    <3>1. /\ DOMAIN out' = Seqs /\ DOMAIN len' = Seqs /\ DOMAIN kv' = Seqs /\ DOMAIN rec' = Seqs
          /\ DOMAIN carry' = Seqs
        BY <1>3, <1>8 DEF SpecTypeOK
    <3> QED
      <4>1. out' \in [Seqs -> Seq(Tokens)]
          BY <1>3, <1>8, <1>11 DEF SpecTypeOK
      <4>2. len' \in [Seqs -> Nat]
          BY <1>3, <1>8, <1>10, <1>11 DEF SpecTypeOK
      <4>3. kv' \in [Seqs -> Seq(Tokens)]
          BY <1>3, <1>8, <1>10, <1>11 DEF SpecTypeOK
      <4>4. rec' \in [Seqs -> Seq(Tokens)]
          BY <1>3, <1>8, <1>10, <1>11 DEF SpecTypeOK
      <4>5. carry' \in [Seqs -> Tokens \cup {NoToken}]
        <5> DEFINE c == IF ends THEN NoToken ELSE nb
        <5>1. carry' = [carry EXCEPT ![r] = c]
            BY <1>8
        <5> HIDE DEF c
        <5>2. carry'[r] = c
            BY <1>3, <5>1 DEF SpecTypeOK
        <5>3. c \in Tokens \cup {NoToken}
            BY <1>11, <5>2
        <5> QED
            BY <1>3, <5>1, <5>3 DEF SpecTypeOK
      <4> QED
          BY <4>1, <4>2, <4>3, <4>4, <4>5
  <2>4. acc' \in [Seqs -> Seq(Tokens)] /\ seen' \in [Seqs -> Nat \cup {NoToken}]
    <3>1. CASE ends
        BY <1>3, <1>8, <3>1 DEF SpecTypeOK, walkVars
    <3>2. CASE ~ ends
        BY <1>3, <1>8, <1>10, <1>11, <3>2 DEF SpecTypeOK
    <3> QED
        BY <3>1, <3>2
  <2>5. todo' \subseteq Running' /\ phase' \in {"idle", "plain", "base", "verify", "post", "raised"}
      BY <1>1, <1>3, <1>14 DEF SpecTypeOK
  <2> QED
      BY <1>1, <1>3, <2>1, <2>2, <2>3, <2>4, <2>5 DEF TypeOK, SpecTypeOK
<1>24. \A q \in Seqs \ {r} : /\ Ended(q)' <=> Ended(q)
                             /\ Carries(q)' <=> Carries(q)
                             /\ Caught(q) => Caught(q)'
    BY <1>12, OthersStay
<1>25. \A q \in todo' : q \in Seqs \ {r} /\ ~ Ended(q)' /\ Caught(q)' /\ Carries(q)'
    BY <1>1, <1>3, <1>14, <1>24 DEF StepOK
<1>26. StepOK'
    BY <1>1, <1>3, <1>14, <1>25 DEF StepOK
<1> QED
    BY <1>13, <1>15, <1>22, <1>23, <1>26 DEF InStep

-----------------------------------------------------------------------------
(* The theorems.                                                           *)

\* Every step keeps every row in step.
LEMMA NextKeeps ==
  ASSUME Granted, InStep, [Next]_vars
  PROVE  InStep'
<1>1. CASE BeginPlain
    BY <1>1, BeginPlainKeeps
<1>2. CASE BeginSpec
    BY <1>2, BeginSpecKeeps
<1>3. CASE Propose
    BY <1>3, ProposeKeeps
<1>4. CASE VerifyRaises
    BY <1>4, VerifyRaisesKeeps
<1>5. CASE Postprocess
    BY <1>5, PostprocessKeeps
<1>6. CASE Done \/ UNCHANGED vars
    BY <1>6, StutterKeeps DEF Done
<1>7. ASSUME NEW r \in Seqs, Prefill(r) PROVE InStep'
    BY <1>7, PrefillKeeps
<1>8. ASSUME NEW r \in Seqs, PlainRow(r) PROVE InStep'
    BY <1>8, PlainRowKeeps
<1>9. ASSUME NEW r \in Seqs, Bootstrap(r) PROVE InStep'
    BY <1>9, BootstrapKeeps
<1>10. ASSUME NEW r \in Seqs, NoProposalRow(r) PROVE InStep'
    BY <1>10, NoProposalRowKeeps
<1>11. ASSUME NEW r \in Seqs, AcceptRow(r) PROVE InStep'
    BY <1>11, AcceptRowKeeps
<1>12. ASSUME NEW r \in Seqs, Preempt(r) PROVE InStep'
    BY <1>12, PreemptKeeps
<1>13. ASSUME NEW r \in Seqs, Cancel(r) PROVE InStep'
    BY <1>13, CancelKeeps
<1> QED
    BY <1>1, <1>2, <1>3, <1>4, <1>5, <1>6, <1>7, <1>8, <1>9, <1>10, <1>11, <1>12, <1>13 DEF Next

\* Every row's K/V, recurrent state, base token, matcher and draft prefix
\* stay in step with what the row has said.
THEOREM RowsInStep ==
  ASSUME Granted
  PROVE  Spec => []InStep
<1>1. Init => InStep
    BY InitInStep
<1>2. InStep /\ [Next]_vars => InStep'
    BY NextKeeps
<1> QED
    BY <1>1, <1>2, PTL DEF Spec

\* What agrees with the whole of a list has the list as a prefix.
LEMMA StartIsPrefix ==
  ASSUME NEW s \in Seq(Tokens), NEW t \in Seq(Tokens), Through(t, s, Len(s))
  PROVE  IsPrefix(s, t)
<1>1. SubSeq(t, 1, Len(s)) = s
    BY SameStart
<1>2. Through(s, s, Len(s))
    BY SeqFacts DEF Through
<1>3. SubSeq(s, 1, Len(s)) = s
    BY <1>2, SameStart
<1>4. Len(s) <= Len(t)
    BY DEF Through
<1> QED
    BY <1>1, <1>3, <1>4 DEF IsPrefix

\* What follows Greedy[r] within the budget, and stops at the first end of
\* sequence, is the start of what plain greedy decoding emits.
LEMMA StartOfPlain ==
  ASSUME Granted, NEW r \in Seqs, NEW o \in Seq(Tokens), Len(o) <= MaxTokens[r],
         Through(o, Greedy[r], Len(o)), \A i \in 1..(Len(o) - 1) : o[i] # Eos
  PROVE  IsPrefix(o, PlainOutput(r))
<1> DEFINE cap == IF MaxTokens[r] < Window THEN MaxTokens[r] ELSE Window
           kept == SubSeq(Greedy[r], 1, cap)
           Stops(i) == /\ i = cap \/ kept[i] = Eos
                       /\ \A j \in 1..(i - 1) : kept[j] # Eos
           at == {i \in 1..cap : i = cap \/ kept[i] = Eos}
           k == CHOOSE i \in 1..cap : Stops(i)
<1>1. /\ Greedy[r] \in Seq(Tokens) /\ Len(Greedy[r]) \in Nat /\ MaxTokens[r] \in Nat \ {0}
      /\ MaxTokens[r] <= Len(Greedy[r]) /\ MaxTokens[r] <= Window /\ Window \in Nat
    BY RequestTypes, SpecAssumption DEF Granted
<1>2. cap = MaxTokens[r] /\ cap \in Nat \ {0} /\ cap <= Len(Greedy[r])
    BY <1>1
<1> HIDE DEF cap
<1>3. kept \in Seq(Tokens) /\ Len(kept) = cap /\ \A i \in 1..cap : kept[i] = Greedy[r][i]
    BY <1>1, <1>2, FirstTokens
<1> HIDE DEF kept
<1>4. \E i \in 1..cap : Stops(i)
  <2>1. at \in SUBSET Nat /\ cap \in at /\ \A i \in at : i \in 1..cap
      BY <1>2
  <2>2. PICK i \in at : \A j \in at : i <= j
    <3> HIDE DEF at
    <3> QED
        BY <2>1, LeastExists
  <2>3. i \in 1..cap /\ (i = cap \/ kept[i] = Eos)
      BY <2>2
  <2>4. ASSUME NEW j \in 1..(i - 1) PROVE kept[j] # Eos
    <3>1. j \in 1..cap /\ ~ (i <= j)
        BY <1>2, <2>3
    <3> QED
        BY <2>2, <3>1
  <2> QED
      BY <2>3, <2>4
<1>5. k \in 1..cap /\ Stops(k)
    BY <1>4
<1>6. PlainOutput(r) = SubSeq(kept, 1, k)
    BY DEF PlainOutput, k, kept, cap
<1>7. (k = cap \/ kept[k] = Eos) /\ k \in Nat /\ k <= cap
    BY <1>2, <1>5
<1> HIDE DEF k
<1> DEFINE p == SubSeq(kept, 1, k)
<1>8. p \in Seq(Tokens) /\ Len(p) = k /\ \A i \in 1..k : p[i] = kept[i]
    BY <1>3, <1>7, FirstTokens
<1> HIDE DEF p
<1>9. Len(o) \in Nat /\ Len(o) <= cap
    BY <1>2, SeqFacts
<1>10. Len(o) <= k
  <2> SUFFICES ASSUME ~ (Len(o) <= k) PROVE FALSE
      OBVIOUS
  <2>1. kept[k] = Eos /\ k \in 1..(Len(o) - 1) /\ k \in 1..Len(o)
      BY <1>5, <1>7, <1>9
  <2>2. o[k] = Eos
      BY <1>3, <1>5, <2>1 DEF Through
  <2> QED
      BY <2>1, <2>2
<1>11. Through(p, o, Len(o))
  <2> SUFFICES ASSUME NEW i \in 1..Len(o) PROVE p[i] = o[i]
      BY <1>8, <1>9, <1>10 DEF Through
  <2>1. i \in 1..k /\ i \in 1..cap
      BY <1>2, <1>7, <1>9, <1>10
  <2> QED
      BY <1>3, <1>8, <2>1 DEF Through
<1>12. IsPrefix(o, p)
    BY <1>8, <1>11, StartIsPrefix
<1> QED
    BY <1>6, <1>12 DEF p

\* Whatever is drafted, accepted, truncated or preempted, a greedy request's
\* outputs are a prefix of what plain greedy decoding of it emits.
THEOREM SpeculationInvisible ==
  ASSUME Granted
  PROVE  Spec => []OutputIsGreedy
<1>1. ASSUME InStep PROVE OutputIsGreedy
  <2> SUFFICES ASSUME NEW r \in Seqs PROVE IsPrefix(out[r], PlainOutput(r))
      BY DEF OutputIsGreedy
  <2>1. OutputOK(r) /\ SpecTypeOK
      BY <1>1 DEF InStep, RowOK, TypeOK
  <2>2. out[r] \in Seq(Tokens)
      BY <2>1, RowTypes
  <2> QED
      BY <2>1, <2>2, StartOfPlain DEF OutputOK
<1>2. Spec => []InStep
    BY RowsInStep
<1> QED
    BY <1>1, <1>2, PTL

\* The verify forward asks for more positions than a block table can name only
\* when a request is within the longest draft of the end of its table.
THEOREM RaisesNearTableEnd ==
  ASSUME Granted
  PROVE  Spec => []RaisesOnlyNearEnd
<1>1. ASSUME InStep PROVE RaisesOnlyNearEnd
    BY <1>1 DEF InStep, StepOK, NearEnd, RaisesOnlyNearEnd
<1>2. Spec => []InStep
    BY RowsInStep
<1> QED
    BY <1>1, <1>2, PTL

\* Between two steps a running row's K/V and recurrent state stand for exactly
\* the tokens it has committed: no rejected draft has stayed in either.
LEMMA CommittedState ==
  ASSUME InStep
  PROVE  StateCommitted
<1> SUFFICES ASSUME phase = "idle", NEW r \in Running
             PROVE  LET k == len[r] + (IF carry[r] = NoToken THEN 0 ELSE 1)
                    IN /\ len[r] + 1 = Len(out[r])
                       /\ SubSeq(kv[r], 1, k) = SubSeq(out[r], 1, k)
                       /\ rec[r] = SubSeq(out[r], 1, k)
    BY DEF StateCommitted
<1> DEFINE k == Reached(r)
           s == SubSeq(out[r], 1, k)
           t == SubSeq(kv[r], 1, k)
<1>1. r \in Seqs /\ SpecTypeOK /\ RunOK(r) /\ StateOK(r)
    BY DEF InStep, TypeOK, StepOK, RowOK, RunOK, Running
<1>2. /\ out[r] \in Seq(Tokens) /\ kv[r] \in Seq(Tokens) /\ rec[r] \in Seq(Tokens)
      /\ Len(out[r]) \in Nat /\ len[r] \in Nat /\ len[r] + 1 = Len(out[r])
    BY <1>1, RowTypes DEF RunOK
<1>3. k \in Nat /\ k = len[r] + (IF carry[r] = NoToken THEN 0 ELSE 1)
    BY <1>2 DEF Reached, Carries
<1>4. /\ Through(kv[r], out[r], k) /\ Len(rec[r]) = k /\ Through(rec[r], out[r], k)
    BY <1>1 DEF StateOK
<1> HIDE DEF k
<1>5. s \in Seq(Tokens) /\ Len(s) = k /\ \A i \in 1..k : s[i] = out[r][i]
    BY <1>2, <1>3, <1>4, FirstTokens DEF Through
<1>6. t \in Seq(Tokens) /\ Len(t) = k /\ \A i \in 1..k : t[i] = kv[r][i]
    BY <1>2, <1>3, <1>4, FirstTokens DEF Through
<1> HIDE DEF s, t
<1>7. t = s
  <2>1. \A i \in 1..k : kv[r][i] = out[r][i]
      BY <1>4 DEF Through
  <2>2. \A i \in 1..k : t[i] = s[i]
      BY <1>5, <1>6, <2>1
  <2> QED
      BY <1>5, <1>6, <2>2, SeqEqual
<1>8. rec[r] = s
  <2> DEFINE h == rec[r]
  <2>1. h \in Seq(Tokens) /\ Len(h) = k /\ \A i \in 1..k : h[i] = out[r][i]
      BY <1>2, <1>4 DEF Through
  <2> HIDE DEF h
  <2>2. h = s
      BY <1>5, <2>1, SeqEqual
  <2> QED
      BY <2>2 DEF h
<1>9. /\ len[r] + 1 = Len(out[r])
      /\ SubSeq(kv[r], 1, k) = SubSeq(out[r], 1, k)
      /\ rec[r] = SubSeq(out[r], 1, k)
    BY <1>2, <1>7, <1>8 DEF s, t
<1> QED
    BY <1>3, <1>9, Zenon

\* What a row carries from step to step, its K/V, recurrent state, matcher and
\* draft prefix, is in step with its committed tokens, when every prefill
\* primes the draft head.
THEOREM SpecState ==
  ASSUME Granted, Unprimed = FALSE
  PROVE  Spec => []SpecInv
<1>1. ASSUME InStep PROVE SpecInv
  <2>1. SpecTypeOK /\ StateCommitted
      BY <1>1, CommittedState DEF InStep, TypeOK
  <2>2. MatcherInSync
    <3> SUFFICES ASSUME phase = "idle", NEW r \in Constrained \cap Running
                 PROVE  Len(acc[r]) = seen[r] - pre[r]
        BY DEF MatcherInSync
    <3>1. RowOK(r) /\ RunOK(r) /\ StateOK(r)
        BY <1>1 DEF InStep, StepOK, RowOK, RunOK, Running
    <3>2. Len(acc[r]) = seen[r] /\ pre[r] = 0 /\ seen[r] \in Nat
        BY <3>1 DEF StateOK, RowOK, RunOK
    <3> QED
        BY <3>2
  <2>3. MtpAuthoritative
    <3> SUFFICES ASSUME NEW r \in Running, mtp[slot[r]] # NoPrefix
                 PROVE  mtp[slot[r]].owner = r /\ IsPrefix(mtp[slot[r]].toks, out[r])
        BY DEF MtpAuthoritative
    <3> DEFINE p == mtp[slot[r]]
    <3>1. p.owner = r /\ Through(p.toks, out[r], Len(p.toks))
        BY <1>1 DEF InStep, PrefixesOwn, OwnPrefix
    <3>2. out[r] \in Seq(Tokens) /\ p.toks \in Seq(Tokens)
      <4>1. r \in Seqs /\ slot[r] \in Slots /\ SpecTypeOK
          BY <1>1 DEF InStep, TypeOK, RowOK, RunOK, Running
      <4> QED
          BY <4>1, RowTypes DEF SpecTypeOK
    <3>3. Through(out[r], p.toks, Len(p.toks))
        BY <3>1, <3>2 DEF Through
    <3> QED
        BY <3>1, <3>2, <3>3, StartIsPrefix
  <2> QED
      BY <2>1, <2>2, <2>3 DEF SpecInv
<1>2. Spec => []InStep
    BY RowsInStep
<1> QED
    BY <1>1, <1>2, PTL
=============================================================================
