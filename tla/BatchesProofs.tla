----------------------------- MODULE BatchesProofs -----------------------------
(***************************************************************************)
(* Theorems about api/batches.py, for any number of calls, uploads, lines, *)
(* streams and executor threads: a finished batch answers its input line   *)
(* by line from finished generations, and its file stays readable for as   *)
(* long as the store promises.                                             *)
(***************************************************************************)
EXTENDS Batches, QueueLemmas

LineKinds == {"good", "bad", "cut"}
Reached == {"draining", "completed", "raised"}

\* The bad lines among the first n of a file.
BadBefore(kinds, n) == {i \in 1..n : kinds[i] = "bad"}

\* The store holds the newest of the files ever put, and what is put once stays
\* counted.
StoreOK ==
  /\ puts \in Seq(Uploads \cup Calls)
  /\ files = Kept(puts)
  /\ \A c \in batches : c \in Range(puts)

\* A call works on the lines of its own input file, from its submission on.
CallsOK ==
  /\ call \in [Calls -> {"new", "refused"} \cup Reached]
  /\ batches = {c \in Calls : call[c] = "completed"}
  /\ DOMAIN jobs = Calls /\ DOMAIN at = Calls /\ DOMAIN made = Calls
  /\ DOMAIN out = Calls /\ failed \in [Calls -> Nat]
  /\ \A c \in Calls :
       /\ jobs[c] \in Seq(LineKinds)
       /\ at[c] \in 1..(Len(jobs[c]) + 1)
       /\ made[c] \in [1..Len(jobs[c]) -> 0..Items]
       /\ call[c] \in Reached => jobs[c] = Lines[Input[c]]
       /\ call[c] \notin Reached => jobs[c] = <<>>
       /\ call[c] = "completed" => at[c] = Len(jobs[c]) + 1

\* The output has one line for each line the call is through with, in their order,
\* and the count of failures is theirs.
AnswersOK ==
  \A c \in Calls :
    /\ out[c] = [i \in 1..(at[c] - 1) |-> [of |-> i, error |-> jobs[c][i] = "bad"]]
    /\ failed[c] = Cardinality(BadBefore(jobs[c], at[c] - 1))
    /\ \A i \in 1..(at[c] - 1) : jobs[c][i] # "bad" => made[c][i] = Items

\* What a call has read belongs to the line it is at: nobody reads ahead of the
\* worker, reads on after Done, or waits for a line that has no queue.
AwaitsItem(w) ==
  w \in Calls => call[w] = "draining" /\ at[w] <= Len(jobs[w]) /\ jobs[w][at[w]] # "bad"
ReadsOK ==
  /\ read \in [Calls \cup Streams -> 0..Items] /\ fed \in [Streams -> 0..Items]
  /\ executor \in Seq(Calls \cup Streams) /\ IsInjective(executor)
  /\ \A w \in Range(executor) : read[w] < Items /\ AwaitsItem(w)
  /\ \A c \in Calls : read[c] > 0 =>
       /\ at[c] <= Len(jobs[c]) /\ jobs[c][at[c]] # "bad"
       /\ read[c] <= made[c][at[c]]

BatchInv == StoreOK /\ CallsOK /\ AnswersOK /\ ReadsOK

-----------------------------------------------------------------------------
(* The file store *)

\* What Kept leaves of a sequence: its end.
LEMMA KeptFacts ==
  ASSUME NEW T, NEW s \in Seq(T)
  PROVE  /\ Kept(s) \in Seq(T) /\ Len(s) \in Nat
         /\ Len(Kept(s)) = IF Len(s) > MaxFiles THEN MaxFiles ELSE Len(s)
         /\ \A i \in 1..Len(Kept(s)) : Kept(s)[i] = s[Len(s) - Len(Kept(s)) + i]
<1>1. Len(s) \in Nat /\ DOMAIN s = 1..Len(s) /\ \A i \in 1..Len(s) : s[i] \in T
    BY SeqFacts
<1>2. MaxFiles \in Nat \ {0}
    BY BatchesAssumption
<1>3. CASE Len(s) > MaxFiles
  <2> DEFINE a == Len(s) - MaxFiles + 1
             k == SubSeq(s, a, Len(s))
  <2>1. a \in 1..(Len(s) + 1) /\ a <= Len(s) /\ Len(s) \in (a - 1)..Len(s)
      BY <1>1, <1>2, <1>3
  <2>2. \A i \in a..Len(s) : s[i] \in T
      BY <1>1, <1>2, <1>3
  <2>3. /\ k \in Seq(T) /\ Len(k) = IF a <= Len(s) THEN Len(s) - a + 1 ELSE 0
        /\ \A i \in 1..(Len(s) - a + 1) : k[i] = s[a + i - 1]
      BY <1>1, <2>1, <2>2, SubSeqProperties
  <2>4. Len(s) - a + 1 = MaxFiles /\ \A i \in 1..MaxFiles : a + i - 1 = Len(s) - MaxFiles + i
      BY <1>1, <1>2
  <2>5. Len(k) = MaxFiles /\ \A i \in 1..MaxFiles : k[i] = s[Len(s) - MaxFiles + i]
      BY <2>1, <2>3, <2>4
  <2>6. Kept(s) = k
      BY <1>3 DEF Kept
  <2> QED
      BY <1>1, <1>3, <2>3, <2>5, <2>6
<1>4. CASE ~ (Len(s) > MaxFiles)
  <2>1. Kept(s) = s
      BY <1>4 DEF Kept
  <2>2. \A i \in 1..Len(s) : Len(s) - Len(s) + i = i
      BY <1>1
  <2> QED
      BY <1>1, <1>4, <2>1, <2>2
<1> QED
    BY <1>3, <1>4

\* Dropping the oldest at each put leaves the same files as dropping them at the end.
LEMMA KeptOfKept ==
  ASSUME NEW T, NEW s \in Seq(T), NEW f \in T
  PROVE  Kept(Append(Kept(s), f)) = Kept(Append(s, f))
<1> DEFINE k == Kept(s)
           a == Append(k, f)
           b == Append(s, f)
<1>1. MaxFiles \in Nat \ {0}
    BY BatchesAssumption
<1>2. /\ k \in Seq(T) /\ Len(s) \in Nat
      /\ Len(k) = IF Len(s) > MaxFiles THEN MaxFiles ELSE Len(s)
      /\ \A i \in 1..Len(k) : k[i] = s[Len(s) - Len(k) + i]
    BY KeptFacts
<1> HIDE DEF k
<1>0. Len(k) \in Nat /\ Len(k) <= Len(s) /\ Len(s) \in Nat
  <2>1. Len(s) \in Nat /\ Len(k) = IF Len(s) > MaxFiles THEN MaxFiles ELSE Len(s)
      BY <1>2
  <2> QED
      BY <1>1, <2>1
<1>3. /\ a \in Seq(T) /\ Len(a) = Len(k) + 1
      /\ \A i \in 1..Len(k) : a[i] = k[i]
      /\ a[Len(k) + 1] = f
    BY <1>2, AppendFacts
<1>4. /\ b \in Seq(T) /\ Len(b) = Len(s) + 1
      /\ \A i \in 1..Len(s) : b[i] = s[i]
      /\ b[Len(s) + 1] = f
    BY AppendFacts
<1> HIDE DEF a, b
<1>5. /\ Kept(a) \in Seq(T) /\ Len(Kept(a)) = IF Len(a) > MaxFiles THEN MaxFiles ELSE Len(a)
      /\ \A i \in 1..Len(Kept(a)) : Kept(a)[i] = a[Len(a) - Len(Kept(a)) + i]
    BY <1>3, KeptFacts
<1>6. /\ Kept(b) \in Seq(T) /\ Len(Kept(b)) = IF Len(b) > MaxFiles THEN MaxFiles ELSE Len(b)
      /\ \A i \in 1..Len(Kept(b)) : Kept(b)[i] = b[Len(b) - Len(Kept(b)) + i]
    BY <1>4, KeptFacts
<1>7. Len(Kept(a)) = Len(Kept(b)) /\ Len(Kept(a)) \in Nat
    BY <1>1, <1>2, <1>3, <1>4, <1>5, <1>6
<1>8. \A i \in 1..Len(k) : a[i] = b[Len(s) - Len(k) + i]
  <2> SUFFICES ASSUME NEW i \in 1..Len(k) PROVE a[i] = b[Len(s) - Len(k) + i]
      OBVIOUS
  <2>1. Len(s) - Len(k) + i \in 1..Len(s)
      BY <1>1, <1>2
  <2> QED
      BY <1>2, <1>3, <1>4, <2>1
<1>9. \A i \in 1..Len(a) : a[i] = b[Len(s) - Len(k) + i]
  <2> SUFFICES ASSUME NEW i \in 1..Len(a) PROVE a[i] = b[Len(s) - Len(k) + i]
      OBVIOUS
  <2>1. i \in 1..Len(k) \/ i = Len(k) + 1
      BY <1>0, <1>3
  <2>2. i = Len(k) + 1 => Len(s) - Len(k) + i = Len(s) + 1
      BY <1>0
  <2> QED
      BY <1>3, <1>4, <1>8, <2>1, <2>2
<1>10. ASSUME NEW i \in 1..Len(Kept(a)) PROVE Kept(a)[i] = Kept(b)[i]
  <2> DEFINE n == Len(Kept(a))
             j == Len(a) - n + i
  <2>1. n \in Nat /\ i \in 1..n /\ n <= Len(a) /\ Len(a) \in Nat
    <3>1. Len(a) = Len(k) + 1 /\ n = IF Len(a) > MaxFiles THEN MaxFiles ELSE Len(a)
        BY <1>3, <1>5
    <3> QED
        BY <1>0, <1>1, <1>10, <3>1
  <2>2. j \in 1..Len(a) /\ Len(s) - Len(k) + j = Len(b) - n + i
    <3> HIDE DEF n
    <3>1. Len(a) = Len(k) + 1 /\ Len(b) = Len(s) + 1
        BY <1>3, <1>4
    <3> QED
        BY <1>0, <2>1, <3>1
  <2>3. Kept(a)[i] = a[j] /\ a[j] = b[Len(s) - Len(k) + j]
      BY <1>5, <1>9, <1>10, <2>2
  <2>4. Kept(b)[i] = b[Len(b) - n + i]
      BY <1>6, <1>7, <1>10
  <2> QED
      BY <2>2, <2>3, <2>4
<1>11. Kept(a) = Kept(b)
    BY <1>5, <1>6, <1>7, <1>10, SeqEqual
<1> QED
    BY <1>11 DEF a, b, k

\* A file that few others were put after is among the newest.
LEMMA KeptWhileNew ==
  ASSUME NEW T, puts \in Seq(T), NEW f \in Range(puts), PutAfter(f) < MaxFiles
  PROVE  f \in Range(Kept(puts))
<1>1. MaxFiles \in Nat \ {0}
    BY BatchesAssumption
<1>2. PICK j \in 1..Len(puts) : puts[j] = f
    BY SeqFacts
<1>3. /\ Kept(puts) \in Seq(T) /\ Len(puts) \in Nat /\ DOMAIN puts = 1..Len(puts)
      /\ Len(Kept(puts)) = IF Len(puts) > MaxFiles THEN MaxFiles ELSE Len(puts)
      /\ \A i \in 1..Len(Kept(puts)) : Kept(puts)[i] = puts[Len(puts) - Len(Kept(puts)) + i]
    BY KeptFacts, LenProperties
<1> DEFINE later == {i \in DOMAIN puts : \E k \in 1..(i - 1) : puts[k] = f}
<1>4. IsFiniteSet(later) /\ Cardinality(later) = PutAfter(f)
  <2>1. IsFiniteSet(1..Len(puts)) /\ later \in SUBSET (1..Len(puts))
      BY <1>3, FS_Interval
  <2>2. IsFiniteSet(later)
      BY <2>1, FS_Subset
  <2> QED
      BY <2>2 DEF PutAfter
<1>5. (j + 1)..Len(puts) \in SUBSET later
  <2> SUFFICES ASSUME NEW i \in (j + 1)..Len(puts) PROVE i \in later
      OBVIOUS
  <2>1. i \in 1..Len(puts) /\ j \in 1..(i - 1)
      BY <1>2, <1>3
  <2> QED
      BY <1>2, <1>3, <2>1
<1> HIDE DEF later
<1>6. Len(puts) - j < MaxFiles
  <2>1. Cardinality((j + 1)..Len(puts)) <= PutAfter(f)
      BY <1>4, <1>5, FS_Subset
  <2>2. Cardinality((j + 1)..Len(puts)) = IF j + 1 > Len(puts) THEN 0 ELSE Len(puts) - (j + 1) + 1
    <3>1. j + 1 \in Int /\ Len(puts) \in Int
        BY <1>2, <1>3
    <3> QED
        BY <3>1, FS_Interval
  <2>3. PutAfter(f) \in Nat
      BY <1>4, FS_CardinalityType
  <2> DEFINE n == PutAfter(f)
             m == Cardinality((j + 1)..Len(puts))
  <2>4. n \in Nat /\ n < MaxFiles /\ m <= n /\ m = IF j + 1 > Len(puts) THEN 0 ELSE Len(puts) - (j + 1) + 1
      BY <2>1, <2>2, <2>3
  <2>5. Len(puts) \in Nat /\ j \in 1..Len(puts)
      BY <1>2, <1>3
  <2> HIDE DEF n, m
  <2> QED
      BY <1>1, <2>4, <2>5
<1> DEFINE i == j - (Len(puts) - Len(Kept(puts)))
<1>7. i \in 1..Len(Kept(puts)) /\ Len(puts) - Len(Kept(puts)) + i = j
  <2> DEFINE n == Len(puts)
             m == Len(Kept(puts))
  <2>1. n \in Nat /\ j \in 1..n /\ m = IF n > MaxFiles THEN MaxFiles ELSE n
      BY <1>2, <1>3
  <2>2. n - j < MaxFiles
      BY <1>6
  <2> HIDE DEF n, m
  <2>3. j - (n - m) \in 1..m /\ n - m + (j - (n - m)) = j
      BY <1>1, <2>1, <2>2
  <2> QED
      BY <2>3 DEF n, m
<1>8. Kept(puts)[i] = f
    BY <1>2, <1>3, <1>7
<1> QED
    BY <1>3, <1>7, <1>8, SeqFacts

-----------------------------------------------------------------------------
(* Counting the lines that failed to build *)

LEMMA BadFacts ==
  ASSUME NEW kinds, NEW n \in Nat
  PROVE  /\ IsFiniteSet(BadBefore(kinds, n))
         /\ Cardinality(BadBefore(kinds, n)) \in 0..n
         /\ Cardinality(BadBefore(kinds, n + 1)) =
              Cardinality(BadBefore(kinds, n)) + (IF kinds[n + 1] = "bad" THEN 1 ELSE 0)
<1>1. IsFiniteSet(1..n) /\ Cardinality(1..n) = n
    BY FS_Interval
<1>2. BadBefore(kinds, n) \in SUBSET (1..n)
    BY DEF BadBefore
<1>3. /\ IsFiniteSet(BadBefore(kinds, n)) /\ Cardinality(BadBefore(kinds, n)) \in Nat
      /\ Cardinality(BadBefore(kinds, n)) <= n
    BY <1>1, <1>2, FS_Subset, FS_CardinalityType
<1>4. n + 1 \notin BadBefore(kinds, n)
    BY DEF BadBefore
<1>5. CASE kinds[n + 1] = "bad"
  <2>1. BadBefore(kinds, n + 1) = BadBefore(kinds, n) \cup {n + 1}
      BY <1>5 DEF BadBefore
  <2> QED
      BY <1>3, <1>4, <1>5, <2>1, FS_AddElement
<1>6. CASE kinds[n + 1] # "bad"
  <2>1. BadBefore(kinds, n + 1) = BadBefore(kinds, n)
      BY <1>6 DEF BadBefore
  <2> QED
      BY <1>3, <1>6, <2>1
<1> QED
    BY <1>3, <1>5, <1>6

LEMMA NoneBad == \A kinds : Cardinality(BadBefore(kinds, 0)) = 0
  <1>1. \A kinds : BadBefore(kinds, 0) = {}
      BY DEF BadBefore
  <1> QED
      BY <1>1, FS_EmptySet

\* One more output line.
LEMMA NextLine ==
  ASSUME NEW kinds, NEW n \in Nat
  PROVE  LET upTo(m) == [i \in 1..m |-> [of |-> i, error |-> kinds[i] = "bad"]]
         IN  Append(upTo(n), [of |-> n + 1, error |-> kinds[n + 1] = "bad"]) = upTo(n + 1)
<1> DEFINE T == [of : Nat, error : BOOLEAN]
           a == [i \in 1..n |-> [of |-> i, error |-> kinds[i] = "bad"]]
           b == [i \in 1..(n + 1) |-> [of |-> i, error |-> kinds[i] = "bad"]]
           x == [of |-> n + 1, error |-> kinds[n + 1] = "bad"]
<1>1. a \in Seq(T) /\ Len(a) = n /\ \A i \in 1..n : a[i] = [of |-> i, error |-> kinds[i] = "bad"]
    OBVIOUS
<1>2. b \in Seq(T) /\ Len(b) = n + 1 /\ \A i \in 1..(n + 1) : b[i] = [of |-> i, error |-> kinds[i] = "bad"]
    OBVIOUS
<1>3. x \in T
    OBVIOUS
<1>4. b[n + 1] = x
    BY <1>2
<1> HIDE DEF a, b, x, T
<1>5. /\ Append(a, x) \in Seq(T) /\ Len(Append(a, x)) = n + 1
      /\ \A i \in 1..n : Append(a, x)[i] = a[i]
      /\ Append(a, x)[n + 1] = x
    BY <1>1, <1>3, AppendFacts
<1>6. \A i \in 1..(n + 1) : i \in 1..n \/ i = n + 1
    OBVIOUS
<1>7. \A i \in 1..n : a[i] = b[i]
    BY <1>1, <1>2
<1>8. Append(a, x) = b
    BY <1>2, <1>4, <1>5, <1>6, <1>7, SeqEqual
<1> QED
    BY <1>8 DEF a, b, x

-----------------------------------------------------------------------------
(* The actions keep the invariant *)

LEMMA InitBatch == Init => BatchInv
<1> SUFFICES ASSUME Init PROVE BatchInv
    OBVIOUS
<1>1. <<>> \in Seq(Uploads \cup Calls) /\ <<>> \in Seq(LineKinds) /\ <<>> \in Seq(Calls \cup Streams)
    OBVIOUS
<1>2. Len(<<>>) = 0 /\ \A T : \A s \in Seq(T) : Len(s) = 0 => s = <<>>
    BY EmptySeq
<1>3. StoreOK
  <2>1. Kept(<<>>) = <<>>
      BY <1>2, BatchesAssumption DEF Kept
  <2> QED
      BY <1>1, <2>1 DEF Init, StoreOK
<1>4. <<>> \in [1..0 -> 0..Items] /\ <<>> = [i \in 1..0 |-> [of |-> i, error |-> <<>>[i] = "bad"]]
    OBVIOUS
<1>5. CallsOK
    BY <1>1, <1>2, <1>4 DEF Init, CallsOK, Reached
<1>6. AnswersOK
  <2> SUFFICES ASSUME NEW c \in Calls
               PROVE  /\ out[c] = [i \in 1..(at[c] - 1) |-> [of |-> i, error |-> jobs[c][i] = "bad"]]
                      /\ failed[c] = Cardinality(BadBefore(jobs[c], at[c] - 1))
                      /\ \A i \in 1..(at[c] - 1) : jobs[c][i] # "bad" => made[c][i] = Items
      BY DEF AnswersOK
  <2>1. at[c] - 1 = 0 /\ out[c] = <<>> /\ jobs[c] = <<>> /\ failed[c] = 0
      BY DEF Init
  <2>2. \A i \in 1..0 : FALSE
      OBVIOUS
  <2> QED
      BY <1>4, <2>1, <2>2, NoneBad
<1>7. ReadsOK
  <2>1. IsInjective(<<>>) /\ Range(<<>>) = {}
      BY DEF IsInjective, Range
  <2>2. 0 \in 0..Items
      BY BatchesAssumption
  <2> QED
      BY <1>1, <2>1, <2>2 DEF Init, ReadsOK
<1> QED
    BY <1>3, <1>5, <1>6, <1>7 DEF BatchInv

\* A put keeps the store the newest of the files.
LEMMA PutFacts ==
  ASSUME StoreOK, NEW f \in Uploads \cup Calls, Put(f)
  PROVE  /\ puts' \in Seq(Uploads \cup Calls) /\ files' = Kept(puts')
         /\ Range(puts') = Range(puts) \cup {f}
<1>1. puts \in Seq(Uploads \cup Calls)
    BY DEF StoreOK
<1>2. files' = Kept(Append(puts, f))
    BY <1>1, KeptOfKept DEF StoreOK, Put
<1> QED
    BY <1>1, <1>2, AppendFacts DEF Put

\* Where a call that has lines left is.
LEMMA LineFacts ==
  ASSUME CallsOK, NEW c \in Calls, Draining(c)
  PROVE  /\ Len(jobs[c]) \in Nat /\ at[c] \in 1..Len(jobs[c])
         /\ at[c] - 1 \in Nat /\ (at[c] - 1) + 1 = at[c]
         /\ jobs[c][at[c]] \in LineKinds /\ made[c][at[c]] \in 0..Items
<1>1. jobs[c] \in Seq(LineKinds) /\ at[c] \in 1..(Len(jobs[c]) + 1) /\ at[c] <= Len(jobs[c])
    BY DEF CallsOK, Draining
<1>2. Len(jobs[c]) \in Nat /\ at[c] \in 1..Len(jobs[c])
    BY <1>1, LenProperties
<1> QED
    BY <1>1, <1>2, SeqFacts DEF CallsOK

LEMMA CreateFileKeeps == BatchInv /\ (\E f \in Uploads : CreateFile(f)) => BatchInv'
<1> SUFFICES ASSUME BatchInv, NEW f \in Uploads, CreateFile(f) PROVE BatchInv'
    OBVIOUS
<1> USE DEF BatchInv
<1>1. StoreOK'
    BY PutFacts DEF StoreOK, CreateFile
<1>2. CallsOK' /\ AnswersOK'
    BY DEF CallsOK, AnswersOK, CreateFile, callVars
<1>3. ReadsOK'
    BY DEF ReadsOK, AwaitsItem, CreateFile, callVars
<1> QED
    BY <1>1, <1>2, <1>3

LEMMA NoSuchFileKeeps == BatchInv /\ (\E c \in Calls : NoSuchFile(c)) => BatchInv'
<1> SUFFICES ASSUME BatchInv, NEW c \in Calls, NoSuchFile(c) PROVE BatchInv'
    OBVIOUS
<1> USE DEF BatchInv
<1>1. StoreOK'
    BY DEF StoreOK, NoSuchFile
<1>2. CallsOK'
    BY DEF CallsOK, NoSuchFile, Reached
<1>3. AnswersOK'
    BY DEF AnswersOK, NoSuchFile
<1>4. ReadsOK'
    BY DEF ReadsOK, CallsOK, AwaitsItem, NoSuchFile
<1> QED
    BY <1>1, <1>2, <1>3, <1>4

LEMMA SubmitJobsKeeps == BatchInv /\ (\E c \in Calls : SubmitJobs(c)) => BatchInv'
<1> SUFFICES ASSUME BatchInv, NEW c \in Calls, SubmitJobs(c) PROVE BatchInv'
    OBVIOUS
<1> USE DEF BatchInv
<1>1. StoreOK'
    BY DEF StoreOK, SubmitJobs
<1> DEFINE lines == Lines[Input[c]]
<1>2. lines \in Seq(LineKinds) /\ Len(lines) \in Nat /\ DOMAIN lines = 1..Len(lines)
    BY BatchesAssumption, LenProperties DEF LineKinds
<1>3. at[c] = 1 /\ jobs[c] = <<>>
  <2>1. jobs[c] = <<>> /\ at[c] \in 1..(Len(jobs[c]) + 1)
      BY DEF CallsOK, SubmitJobs, Reached
  <2>2. Len(<<>>) = 0
      OBVIOUS
  <2> QED
      BY <2>1, <2>2
<1>4. [i \in 1..Len(lines) |-> 0] \in [1..Len(lines) -> 0..Items]
    BY BatchesAssumption
<1>5. /\ call' = [call EXCEPT ![c] = "draining"] /\ jobs' = [jobs EXCEPT ![c] = lines]
      /\ made' = [made EXCEPT ![c] = [i \in 1..Len(lines) |-> 0]]
      /\ UNCHANGED <<at, out, failed, read, fed, executor, batches>> /\ call[c] = "new"
    BY <1>2 DEF SubmitJobs
<1>6. CallsOK'
  <2>1. 1 \in 1..(Len(lines) + 1)
      BY <1>2
  <2> HIDE DEF lines
  <2>2. ASSUME NEW d \in Calls
        PROVE  /\ jobs'[d] \in Seq(LineKinds) /\ at'[d] \in 1..(Len(jobs'[d]) + 1)
               /\ made'[d] \in [1..Len(jobs'[d]) -> 0..Items]
               /\ call'[d] \in Reached => jobs'[d] = Lines[Input[d]]
               /\ call'[d] \notin Reached => jobs'[d] = <<>>
               /\ call'[d] = "completed" => at'[d] = Len(jobs'[d]) + 1
    <3>1. CASE d = c
        BY <1>2, <1>3, <1>4, <1>5, <2>1, <3>1 DEF CallsOK, Reached, lines
    <3>2. CASE d # c
        BY <1>5, <3>2 DEF CallsOK
    <3> QED
        BY <3>1, <3>2
  <2>3. /\ call' \in [Calls -> {"new", "refused"} \cup Reached]
        /\ batches' = {d \in Calls : call'[d] = "completed"}
        /\ DOMAIN jobs' = Calls /\ DOMAIN at' = Calls /\ DOMAIN made' = Calls
        /\ DOMAIN out' = Calls /\ failed' \in [Calls -> Nat]
      BY <1>5 DEF CallsOK, Reached
  <2> QED
      BY <2>2, <2>3 DEF CallsOK
<1>7. AnswersOK'
  <2> HIDE DEF lines
  <2> SUFFICES ASSUME NEW d \in Calls
               PROVE  /\ out'[d] = [i \in 1..(at'[d] - 1) |-> [of |-> i, error |-> jobs'[d][i] = "bad"]]
                      /\ failed'[d] = Cardinality(BadBefore(jobs'[d], at'[d] - 1))
                      /\ \A i \in 1..(at'[d] - 1) : jobs'[d][i] # "bad" => made'[d][i] = Items
      BY DEF AnswersOK
  <2>1. CASE d = c
    <3>1. at[c] - 1 = 0 /\ at'[d] - 1 = 0
        BY <1>3, <1>5, <2>1
    <3>2. out[c] = [i \in 1..0 |-> [of |-> i, error |-> jobs[c][i] = "bad"]] /\ failed[c] = 0
        BY <3>1, NoneBad DEF AnswersOK
    <3>3. out[c] = [i \in 1..0 |-> [of |-> i, error |-> jobs'[c][i] = "bad"]]
        BY <3>2
    <3>4. \A i \in 1..0 : FALSE
        OBVIOUS
    <3> QED
        BY <1>5, <2>1, <3>1, <3>2, <3>3, <3>4, NoneBad
  <2>2. CASE d # c
      BY <1>5, <2>2 DEF AnswersOK, CallsOK
  <2> QED
      BY <2>1, <2>2
<1>8. ReadsOK'
  <2> HIDE DEF lines
  <2>1. \A w \in Range(executor) : w # c
      BY <1>5 DEF ReadsOK, AwaitsItem
  <2>2. ~ (read[c] > 0)
    <3>1. Len(<<>>) = 0
        OBVIOUS
    <3> QED
        BY <1>3, <3>1 DEF ReadsOK
  <2> QED
      BY <1>5, <2>1, <2>2 DEF ReadsOK, AwaitsItem, CallsOK
<1> QED
    BY <1>1, <1>6, <1>7, <1>8

\* An answered line, its failure counted, moves the call on to the next one.
LEMMA AnswerFacts ==
  ASSUME BatchInv, NEW c \in Calls, Draining(c), NEW bad \in BOOLEAN,
         bad <=> jobs[c][at[c]] = "bad", ~ bad => made[c][at[c]] = Items,
         out' = [out EXCEPT ![c] = Append(@, [of |-> at[c], error |-> bad])],
         failed' = [failed EXCEPT ![c] = @ + (IF bad THEN 1 ELSE 0)],
         at' = [at EXCEPT ![c] = @ + 1],
         UNCHANGED <<call, jobs, made, batches>>
  PROVE  CallsOK' /\ AnswersOK' /\ at'[c] = at[c] + 1
<1> USE DEF BatchInv
<1>1. /\ Len(jobs[c]) \in Nat /\ at[c] \in 1..Len(jobs[c])
      /\ at[c] - 1 \in Nat /\ (at[c] - 1) + 1 = at[c]
    BY LineFacts
<1>2. at'[c] = at[c] + 1 /\ at'[c] \in 1..(Len(jobs[c]) + 1) /\ at'[c] - 1 = at[c]
    BY <1>1 DEF CallsOK
<1>3. failed'[c] = failed[c] + (IF bad THEN 1 ELSE 0) /\ failed'[c] \in Nat
    BY DEF CallsOK
<1>4. CallsOK'
  <2>1. ASSUME NEW d \in Calls
        PROVE  /\ jobs'[d] \in Seq(LineKinds) /\ at'[d] \in 1..(Len(jobs'[d]) + 1)
               /\ made'[d] \in [1..Len(jobs'[d]) -> 0..Items]
               /\ call'[d] \in Reached => jobs'[d] = Lines[Input[d]]
               /\ call'[d] \notin Reached => jobs'[d] = <<>>
               /\ call'[d] = "completed" => at'[d] = Len(jobs'[d]) + 1
    <3>1. CASE d = c
        BY <1>2, <3>1 DEF CallsOK, Draining
    <3>2. CASE d # c
        BY <3>2 DEF CallsOK
    <3> QED
        BY <3>1, <3>2
  <2>2. /\ call' \in [Calls -> {"new", "refused"} \cup Reached]
        /\ batches' = {d \in Calls : call'[d] = "completed"}
        /\ DOMAIN jobs' = Calls /\ DOMAIN at' = Calls /\ DOMAIN made' = Calls
        /\ DOMAIN out' = Calls
      BY DEF CallsOK
  <2>3. failed' \in [Calls -> Nat]
      BY <1>3 DEF CallsOK
  <2> QED
      BY <2>1, <2>2, <2>3 DEF CallsOK
<1>5. AnswersOK'
  <2> SUFFICES ASSUME NEW d \in Calls
               PROVE  /\ out'[d] = [i \in 1..(at'[d] - 1) |-> [of |-> i, error |-> jobs'[d][i] = "bad"]]
                      /\ failed'[d] = Cardinality(BadBefore(jobs'[d], at'[d] - 1))
                      /\ \A i \in 1..(at'[d] - 1) : jobs'[d][i] # "bad" => made'[d][i] = Items
      BY DEF AnswersOK
  <2>0. jobs' = jobs /\ made' = made
      OBVIOUS
  <2>1. CASE d = c
    <3>1. out'[c] = Append(out[c], [of |-> at[c], error |-> jobs[c][at[c]] = "bad"])
      <4>1. bad = (jobs[c][at[c]] = "bad")
          OBVIOUS
      <4> QED
          BY <4>1 DEF CallsOK
    <3>2. /\ out[c] = [i \in 1..(at[c] - 1) |-> [of |-> i, error |-> jobs[c][i] = "bad"]]
          /\ failed[c] = Cardinality(BadBefore(jobs[c], at[c] - 1))
          /\ \A i \in 1..(at[c] - 1) : jobs[c][i] # "bad" => made[c][i] = Items
        BY DEF AnswersOK
    <3>3. out'[c] = [i \in 1..at[c] |-> [of |-> i, error |-> jobs[c][i] = "bad"]]
      <4>1. LET upTo(m) == [i \in 1..m |-> [of |-> i, error |-> jobs[c][i] = "bad"]]
            IN  Append(upTo(at[c] - 1), [of |-> (at[c] - 1) + 1, error |-> jobs[c][(at[c] - 1) + 1] = "bad"])
                  = upTo((at[c] - 1) + 1)
          BY <1>1, NextLine
      <4> QED
          BY <1>1, <3>1, <3>2, <4>1
    <3>4. failed'[c] = Cardinality(BadBefore(jobs[c], at[c]))
      <4>1. Cardinality(BadBefore(jobs[c], (at[c] - 1) + 1)) =
              Cardinality(BadBefore(jobs[c], at[c] - 1)) + (IF jobs[c][(at[c] - 1) + 1] = "bad" THEN 1 ELSE 0)
          BY <1>1, BadFacts
      <4> QED
          BY <1>1, <1>3, <3>2, <4>1
    <3>5. \A i \in 1..at[c] : jobs[c][i] # "bad" => made[c][i] = Items
      <4>1. \A i \in 1..at[c] : i \in 1..(at[c] - 1) \/ i = at[c]
          BY <1>1
      <4> QED
          BY <3>2, <4>1
    <3> QED
        BY <1>2, <2>0, <2>1, <3>3, <3>4, <3>5
  <2>2. CASE d # c
    <3>1. out'[d] = out[d] /\ at'[d] = at[d] /\ failed'[d] = failed[d]
        BY <2>2 DEF CallsOK
    <3>2. /\ out[d] = [i \in 1..(at[d] - 1) |-> [of |-> i, error |-> jobs[d][i] = "bad"]]
          /\ failed[d] = Cardinality(BadBefore(jobs[d], at[d] - 1))
          /\ \A i \in 1..(at[d] - 1) : jobs[d][i] # "bad" => made[d][i] = Items
        BY DEF AnswersOK
    <3> QED
        BY <2>0, <3>1, <3>2
  <2> QED
      BY <2>1, <2>2
<1> QED
    BY <1>2, <1>4, <1>5
LEMMA ErrorLineKeeps == BatchInv /\ (\E c \in Calls : ErrorLine(c)) => BatchInv'
<1> SUFFICES ASSUME BatchInv, NEW c \in Calls, ErrorLine(c) PROVE BatchInv'
    OBVIOUS
<1> USE DEF BatchInv
<1>1. CallsOK' /\ AnswersOK' /\ at'[c] = at[c] + 1
  <2>1. failed' = [failed EXCEPT ![c] = @ + (IF TRUE THEN 1 ELSE 0)]
      BY DEF ErrorLine
  <2> QED
      BY <2>1, AnswerFacts DEF ErrorLine
<1>2. StoreOK'
    BY DEF StoreOK, ErrorLine
<1>3. ReadsOK'
  <2>1. ~ (read[c] > 0) /\ \A w \in Range(executor) : w # c
      BY DEF ReadsOK, AwaitsItem, ErrorLine
  <2> QED
      BY <2>1 DEF ReadsOK, AwaitsItem, ErrorLine, CallsOK
<1> QED
    BY <1>1, <1>2, <1>3

LEMMA OutputLineKeeps == BatchInv /\ (\E c \in Calls : OutputLine(c)) => BatchInv'
<1> SUFFICES ASSUME BatchInv, NEW c \in Calls, OutputLine(c) PROVE BatchInv'
    OBVIOUS
<1> USE DEF BatchInv
<1>1. made[c][at[c]] = Items
  <2>1. Items \in Nat \ {0} /\ read[c] = Items
      BY BatchesAssumption DEF OutputLine
  <2>2. Items <= made[c][at[c]] /\ made[c][at[c]] \in 0..Items
      BY <2>1, LineFacts DEF ReadsOK, OutputLine
  <2> QED
      BY <2>1, <2>2
<1>2. CallsOK' /\ AnswersOK' /\ at'[c] = at[c] + 1
  <2>1. failed' = [failed EXCEPT ![c] = @ + (IF FALSE THEN 1 ELSE 0)]
    <3>1. failed \in [Calls -> Nat] /\ failed' = failed
        BY DEF OutputLine, CallsOK
    <3> QED
        BY <3>1
  <2> QED
      BY <1>1, <2>1, AnswerFacts DEF OutputLine
<1>3. StoreOK'
    BY DEF StoreOK, OutputLine
<1>4. ReadsOK'
  <2>1. read[c] = Items /\ Items \in Nat \ {0} /\ read' = [read EXCEPT ![c] = 0] /\ c \in DOMAIN read
      BY BatchesAssumption DEF OutputLine, ReadsOK
  <2>2. \A w \in Range(executor) : w # c
      BY <2>1 DEF ReadsOK
  <2>3. read' \in [Calls \cup Streams -> 0..Items]
      BY <2>1 DEF ReadsOK
  <2>4. \A w \in Range(executor) : read'[w] < Items /\ AwaitsItem(w)'
    <3> SUFFICES ASSUME NEW w \in Range(executor) PROVE read'[w] < Items /\ AwaitsItem(w)'
        OBVIOUS
    <3>1. read[w] < Items /\ AwaitsItem(w) /\ w # c
        BY <2>2 DEF ReadsOK
    <3>2. w \in Calls => at'[w] = at[w]
        BY <3>1 DEF OutputLine, CallsOK
    <3>3. read'[w] = read[w]
        BY <2>1, <3>1 DEF ReadsOK
    <3> QED
        BY <3>1, <3>2, <3>3 DEF AwaitsItem, OutputLine
  <2>5. ASSUME NEW d \in Calls, read'[d] > 0
        PROVE  at'[d] <= Len(jobs[d]) /\ jobs[d][at'[d]] # "bad" /\ read'[d] <= made[d][at'[d]]
    <3>1. d # c
        BY <2>1, <2>5
    <3>2. read'[d] = read[d] /\ at'[d] = at[d]
        BY <2>1, <3>1 DEF OutputLine, CallsOK, ReadsOK
    <3> QED
        BY <2>5, <3>2 DEF ReadsOK
  <2> QED
      BY <2>3, <2>4, <2>5 DEF ReadsOK, OutputLine
<1> QED
    BY <1>2, <1>3, <1>4

LEMMA BodyRaisesKeeps == BatchInv /\ (\E c \in Calls : BodyRaises(c)) => BatchInv'
<1> SUFFICES ASSUME BatchInv, NEW c \in Calls, BodyRaises(c) PROVE BatchInv'
    OBVIOUS
<1> USE DEF BatchInv
<1>1. StoreOK'
    BY DEF StoreOK, BodyRaises
<1>2. CallsOK' /\ AnswersOK'
    BY DEF CallsOK, AnswersOK, BodyRaises, Draining, Reached
<1>3. ReadsOK'
  <2>1. \A w \in Range(executor) : w # c
      BY BatchesAssumption DEF ReadsOK, BodyRaises
  <2> QED
      BY <2>1 DEF ReadsOK, AwaitsItem, BodyRaises, CallsOK
<1> QED
    BY <1>1, <1>2, <1>3

LEMMA CompleteKeeps == BatchInv /\ (\E c \in Calls : Complete(c)) => BatchInv'
<1> SUFFICES ASSUME BatchInv, NEW c \in Calls, Complete(c) PROVE BatchInv'
    OBVIOUS
<1> USE DEF BatchInv
<1>1. /\ puts' \in Seq(Uploads \cup Calls) /\ files' = Kept(puts')
      /\ Range(puts') = Range(puts) \cup {c}
    BY PutFacts DEF Complete
<1>2. StoreOK'
    BY <1>1 DEF StoreOK, Complete
<1>3. at[c] = Len(jobs[c]) + 1
  <2>1. Len(jobs[c]) \in Nat /\ at[c] \in 1..(Len(jobs[c]) + 1) /\ at[c] > Len(jobs[c])
      BY LenProperties DEF CallsOK, Complete
  <2> QED
      BY <2>1
<1>4. CallsOK' /\ AnswersOK'
  <2>1. /\ call' = [call EXCEPT ![c] = "completed"] /\ batches' = batches \cup {c}
        /\ call[c] = "draining" /\ UNCHANGED <<jobs, at, out, failed, made>>
      BY DEF Complete
  <2>2. AnswersOK'
      BY <2>1 DEF AnswersOK
  <2>3. call' \in [Calls -> {"new", "refused"} \cup Reached]
      BY <2>1 DEF CallsOK, Reached
  <2>4. batches' = {d \in Calls : call'[d] = "completed"}
      BY <2>1 DEF CallsOK
  <2>5. ASSUME NEW d \in Calls
        PROVE  /\ call'[d] \in Reached => jobs[d] = Lines[Input[d]]
               /\ call'[d] \notin Reached => jobs[d] = <<>>
               /\ call'[d] = "completed" => at[d] = Len(jobs[d]) + 1
      BY <1>3, <2>1 DEF CallsOK, Reached
  <2> QED
      BY <2>1, <2>2, <2>3, <2>4, <2>5 DEF CallsOK
<1>5. ReadsOK'
  <2>1. Len(jobs[c]) \in Nat
      BY LenProperties DEF CallsOK
  <2>2. \A w \in Range(executor) : w # c
      BY <1>3, <2>1 DEF ReadsOK, AwaitsItem
  <2> QED
      BY <2>2 DEF ReadsOK, AwaitsItem, Complete, CallsOK
<1> QED
    BY <1>2, <1>4, <1>5

\* Who comes to wait on the executor waits for an item of its own.
LEMMA WaitFacts ==
  ASSUME BatchInv, NEW w \in Calls \cup Streams, AwaitsItem(w), read[w] < Items,
         w \notin Range(executor), executor' = Append(executor, w),
         UNCHANGED <<puts, files, callVars, made, read, fed, batches>>
  PROVE  BatchInv'
<1> USE DEF BatchInv
<1>1. StoreOK'
    BY DEF StoreOK
<1>2. CallsOK' /\ AnswersOK'
    BY DEF CallsOK, AnswersOK, callVars
<1>3. /\ executor' \in Seq(Calls \cup Streams) /\ IsInjective(executor')
      /\ Range(executor') = Range(executor) \cup {w}
    BY AppendFacts DEF ReadsOK
<1>4. ReadsOK'
    BY <1>3 DEF ReadsOK, AwaitsItem, callVars
<1> QED
    BY <1>1, <1>2, <1>4

LEMMA AwaitKeeps ==
  BatchInv /\ ((\E c \in Calls : AwaitItem(c)) \/ (\E s \in Streams : AwaitStream(s))) => BatchInv'
<1>1. ASSUME BatchInv, NEW c \in Calls, AwaitItem(c) PROVE BatchInv'
  <2>1. AwaitsItem(c)
      BY <1>1 DEF AwaitItem, AwaitsItem, Draining
  <2> QED
      BY <1>1, <2>1, WaitFacts DEF AwaitItem
<1>2. ASSUME BatchInv, NEW s \in Streams, AwaitStream(s) PROVE BatchInv'
  <2>1. AwaitsItem(s)
      BY BatchesAssumption DEF AwaitsItem
  <2> QED
      BY <1>2, <2>1, WaitFacts DEF AwaitStream
<1> QED
    BY <1>1, <1>2

LEMMA GetItemKeeps == BatchInv /\ (\E w \in Calls \cup Streams : GetItem(w)) => BatchInv'
<1> SUFFICES ASSUME BatchInv, NEW w \in Calls \cup Streams, GetItem(w) PROVE BatchInv'
    OBVIOUS
<1> USE DEF BatchInv
<1>1. StoreOK' /\ CallsOK' /\ AnswersOK'
    BY DEF StoreOK, CallsOK, AnswersOK, GetItem, callVars
<1>2. executor \in Seq(Calls \cup Streams) /\ IsInjective(executor) /\ w \in Range(executor)
    BY SeqFacts DEF ReadsOK, GetItem, OnThread
<1>3. /\ executor' \in Seq(Calls \cup Streams) /\ IsInjective(executor')
      /\ Range(executor') = Range(executor) \ {w}
    BY <1>2, RemoveFacts DEF GetItem
<1>4. /\ read \in [Calls \cup Streams -> 0..Items] /\ read' = [read EXCEPT ![w] = @ + 1]
      /\ read[w] < Items /\ AwaitsItem(w) /\ Items \in Nat
    BY <1>2, BatchesAssumption DEF ReadsOK, GetItem
<1>5. read' \in [Calls \cup Streams -> 0..Items]
    BY <1>4
<1>6. w \in Calls => read'[w] <= made[w][at[w]]
  <2> SUFFICES ASSUME w \in Calls PROVE read'[w] <= made[w][at[w]]
      OBVIOUS
  <2>1. Draining(w)
      BY <1>4 DEF AwaitsItem, Draining
  <2>2. made[w][at[w]] \in 0..Items /\ made[w][at[w]] > read[w]
      BY <2>1, LineFacts DEF GetItem, Available
  <2>3. read'[w] = read[w] + 1 /\ read[w] \in 0..Items
      BY <1>4
  <2> QED
      BY <1>4, <2>2, <2>3
<1>7. UNCHANGED <<call, jobs, at, made, fed>>
    BY DEF GetItem, callVars
<1>8. \A v \in Range(executor') : read'[v] < Items /\ AwaitsItem(v)'
    BY <1>3, <1>4, <1>7 DEF ReadsOK, AwaitsItem
<1>9. \A c \in Calls : read'[c] > 0 => at[c] <= Len(jobs[c]) /\ jobs[c][at[c]] # "bad" /\ read'[c] <= made[c][at[c]]
    BY <1>4, <1>6 DEF ReadsOK, AwaitsItem
<1>10. ReadsOK'
    BY <1>3, <1>5, <1>7, <1>8, <1>9 DEF ReadsOK
<1> QED
    BY <1>1, <1>10

LEMMA FeedKeeps == BatchInv /\ (\E w \in Calls \cup Streams : Feed(w)) => BatchInv'
<1> SUFFICES ASSUME BatchInv, NEW w \in Calls \cup Streams, Feed(w) PROVE BatchInv'
    OBVIOUS
<1> USE DEF BatchInv
<1>1. StoreOK'
    BY DEF StoreOK, Feed
<1>2. UNCHANGED <<call, jobs, at, out, failed, read, executor, batches>> /\ Items \in Nat
    BY BatchesAssumption DEF Feed, callVars
<1>3. CASE w \in Streams /\ fed[w] < Items /\ fed' = [fed EXCEPT ![w] = @ + 1] /\ UNCHANGED made
  <2>1. CallsOK' /\ AnswersOK'
      BY <1>2, <1>3 DEF CallsOK, AnswersOK
  <2>2. fed' \in [Streams -> 0..Items]
      BY <1>2, <1>3 DEF ReadsOK
  <2>3. ReadsOK'
      BY <1>2, <1>3, <2>2 DEF ReadsOK, AwaitsItem
  <2> QED
      BY <1>1, <2>1, <2>3
<1>4. ASSUME w \in Calls, NEW i \in DOMAIN jobs[w], jobs[w][i] # "bad", made[w][i] < Items,
             made' = [made EXCEPT ![w][i] = @ + 1], UNCHANGED fed
      PROVE  BatchInv'
  <2>1. /\ made[w] \in [1..Len(jobs[w]) -> 0..Items] /\ i \in 1..Len(jobs[w])
        /\ DOMAIN made = Calls
      BY <1>4, LenProperties DEF CallsOK
  <2>2. made'[w] = [made[w] EXCEPT ![i] = @ + 1] /\ \A d \in Calls : d # w => made'[d] = made[d]
      BY <1>4, <2>1
  <2>3. /\ made'[w] \in [1..Len(jobs[w]) -> 0..Items] /\ DOMAIN made' = Calls
        /\ made'[w][i] = made[w][i] + 1 /\ \A j \in 1..Len(jobs[w]) : j # i => made'[w][j] = made[w][j]
      BY <1>2, <1>4, <2>1, <2>2
  <2>4. CallsOK'
    <3>1. \A d \in Calls : made'[d] \in [1..Len(jobs[d]) -> 0..Items]
        BY <2>2, <2>3 DEF CallsOK
    <3> QED
        BY <1>2, <2>3, <3>1 DEF CallsOK
  <2>5. \A d \in Calls : \A j \in 1..Len(jobs[d]) : made[d][j] = Items => made'[d][j] = Items
      BY <1>2, <1>4, <2>1, <2>2, <2>3 DEF CallsOK
  <2>6. \A d \in Calls : \A j \in 1..(at[d] - 1) : j \in 1..Len(jobs[d])
    <3> SUFFICES ASSUME NEW d \in Calls PROVE \A j \in 1..(at[d] - 1) : j \in 1..Len(jobs[d])
        OBVIOUS
    <3>1. Len(jobs[d]) \in Nat /\ at[d] \in 1..(Len(jobs[d]) + 1)
        BY LenProperties DEF CallsOK
    <3> QED
        BY <3>1
  <2>7. AnswersOK'
    <3>1. \A d \in Calls : \A j \in 1..(at[d] - 1) : jobs[d][j] # "bad" => made'[d][j] = Items
        BY <2>5, <2>6 DEF AnswersOK
    <3> QED
        BY <1>2, <3>1 DEF AnswersOK
  <2>8. ASSUME NEW d \in Calls, read[d] > 0 PROVE read[d] <= made'[d][at[d]]
    <3>1. /\ at[d] <= Len(jobs[d]) /\ read[d] <= made[d][at[d]] /\ read[d] \in Nat
        BY <1>2, <2>8 DEF ReadsOK
    <3>2. Len(jobs[d]) \in Nat /\ at[d] \in 1..(Len(jobs[d]) + 1) /\ made[d] \in [1..Len(jobs[d]) -> 0..Items]
        BY LenProperties DEF CallsOK
    <3>3. at[d] \in 1..Len(jobs[d]) /\ made[d][at[d]] \in Nat
        BY <1>2, <3>1, <3>2
    <3>4. made'[d][at[d]] = made[d][at[d]] \/ made'[d][at[d]] = made[d][at[d]] + 1
        BY <2>2, <2>3, <3>3
    <3> QED
        BY <3>1, <3>3, <3>4
  <2>9. ReadsOK'
      BY <1>2, <1>4, <2>8 DEF ReadsOK, AwaitsItem
  <2> QED
      BY <1>1, <2>4, <2>7, <2>9
<1> QED
    BY <1>3, <1>4 DEF Feed

LEMMA BatchStutters == BatchInv /\ UNCHANGED vars => BatchInv'
  BY DEF BatchInv, StoreOK, CallsOK, AnswersOK, ReadsOK, AwaitsItem, vars, callVars

-----------------------------------------------------------------------------
(* What the invariant says *)

LEMMA BatchInvSafe == BatchInv => BatchSafe
<1> SUFFICES ASSUME BatchInv PROVE BatchSafe
    OBVIOUS
<1> USE DEF BatchInv
<1>1. \A c \in Calls : /\ Len(jobs[c]) \in Nat /\ DOMAIN jobs[c] = 1..Len(jobs[c])
                       /\ at[c] \in 1..(Len(jobs[c]) + 1)
    BY LenProperties DEF CallsOK
<1>2. \A c \in Calls : /\ DOMAIN out[c] = 1..(at[c] - 1) /\ Len(out[c]) = at[c] - 1
                       /\ \A i \in DOMAIN out[c] : out[c][i] = [of |-> i, error |-> jobs[c][i] = "bad"]
  <2> SUFFICES ASSUME NEW c \in Calls
               PROVE  /\ DOMAIN out[c] = 1..(at[c] - 1) /\ Len(out[c]) = at[c] - 1
                      /\ \A i \in DOMAIN out[c] : out[c][i] = [of |-> i, error |-> jobs[c][i] = "bad"]
      OBVIOUS
  <2> DEFINE n == at[c] - 1
             lines == [i \in 1..n |-> [of |-> i, error |-> jobs[c][i] = "bad"]]
  <2>1. n \in Nat /\ out[c] = lines
      BY <1>1 DEF AnswersOK
  <2>2. Len(lines) = n /\ DOMAIN lines = 1..n
      BY <2>1
  <2> QED
      BY <2>1, <2>2
<1>3. \A c \in Calls : failed[c] = Cardinality(BadBefore(jobs[c], at[c] - 1)) /\ failed[c] \in 0..Len(jobs[c])
  <2> SUFFICES ASSUME NEW c \in Calls
               PROVE  failed[c] = Cardinality(BadBefore(jobs[c], at[c] - 1)) /\ failed[c] \in 0..Len(jobs[c])
      OBVIOUS
  <2>1. at[c] - 1 \in Nat /\ at[c] - 1 <= Len(jobs[c]) /\ Len(jobs[c]) \in Nat
      BY <1>1
  <2>2. failed[c] = Cardinality(BadBefore(jobs[c], at[c] - 1))
      BY DEF AnswersOK
  <2>3. Cardinality(BadBefore(jobs[c], at[c] - 1)) \in 0..(at[c] - 1)
      BY <2>1, BadFacts
  <2> QED
      BY <2>1, <2>2, <2>3
<1>4. BatchesTypeOK
  <2>1. Range(files) \subseteq Range(puts) /\ Range(puts) \subseteq Uploads \cup Calls /\ Len(files) <= MaxFiles
    <3>1. /\ puts \in Seq(Uploads \cup Calls) /\ files = Kept(puts) /\ MaxFiles \in Nat
        BY BatchesAssumption DEF StoreOK
    <3>2. /\ files \in Seq(Uploads \cup Calls) /\ Len(puts) \in Nat
          /\ Len(files) = IF Len(puts) > MaxFiles THEN MaxFiles ELSE Len(puts)
          /\ \A i \in 1..Len(files) : files[i] = puts[Len(puts) - Len(files) + i]
        BY <3>1, KeptFacts
    <3>3. \A i \in 1..Len(files) : Len(puts) - Len(files) + i \in 1..Len(puts)
        BY <3>1, <3>2
    <3>4. \A f \in Range(files) : \E i \in 1..Len(files) : files[i] = f
        BY <3>2, SeqFacts
    <3>5. Range(files) \subseteq Range(puts)
      <4>1. \A i \in 1..Len(puts) : puts[i] \in Range(puts)
          BY <3>1, SeqFacts
      <4>2. \A i \in 1..Len(files) : files[i] \in Range(puts)
          BY <3>2, <3>3, <4>1
      <4> QED
          BY <3>4, <4>2
    <3> QED
        BY <3>1, <3>2, <3>5, SeqFacts
  <2>2. \A c \in Calls : /\ at[c] \in 1..(Len(jobs[c]) + 1) /\ DOMAIN made[c] = DOMAIN jobs[c]
                         /\ \A i \in DOMAIN out[c] : out[c][i].of \in DOMAIN jobs[c]
    <3>1. \A c \in Calls : \A i \in DOMAIN out[c] : out[c][i].of = i /\ i \in DOMAIN jobs[c]
      <4> SUFFICES ASSUME NEW c \in Calls, NEW i \in DOMAIN out[c] PROVE out[c][i].of = i /\ i \in DOMAIN jobs[c]
          OBVIOUS
      <4>1. out[c][i] = [of |-> i, error |-> jobs[c][i] = "bad"] /\ i \in 1..(at[c] - 1)
          BY <1>2
      <4>2. Len(jobs[c]) \in Nat /\ DOMAIN jobs[c] = 1..Len(jobs[c]) /\ at[c] \in 1..(Len(jobs[c]) + 1)
          BY <1>1
      <4>3. i \in 1..Len(jobs[c])
          BY <4>1, <4>2
      <4> QED
          BY <4>1, <4>2, <4>3
    <3>2. \A c \in Calls : DOMAIN made[c] = DOMAIN jobs[c]
        BY <1>1 DEF CallsOK
    <3> QED
        BY <1>1, <3>1, <3>2
  <2>3. Range(executor) \subseteq Calls \cup Streams
      BY SeqFacts DEF ReadsOK
  <2>4. call \in [Calls -> {"new", "refused", "draining", "completed", "raised"}] /\ batches \subseteq Calls
      BY DEF CallsOK, Reached
  <2> QED
      BY <1>3, <2>1, <2>2, <2>3, <2>4 DEF BatchesTypeOK, ReadsOK
<1>5. OutputMatchesInput
  <2> SUFFICES ASSUME NEW c \in batches
               PROVE  /\ Len(out[c]) = Len(Lines[Input[c]])
                      /\ \A i \in DOMAIN Lines[Input[c]] :
                           out[c][i] = [of |-> i, error |-> Lines[Input[c]][i] = "bad"]
                      /\ failed[c] = Cardinality({i \in DOMAIN Lines[Input[c]] : Lines[Input[c]][i] = "bad"})
      BY DEF OutputMatchesInput
  <2>1. c \in Calls /\ jobs[c] = Lines[Input[c]] /\ at[c] = Len(jobs[c]) + 1
      BY DEF CallsOK, Reached
  <2>2. at[c] - 1 = Len(jobs[c]) /\ DOMAIN jobs[c] = 1..Len(jobs[c])
      BY <1>1, <2>1
  <2>3. {i \in DOMAIN jobs[c] : jobs[c][i] = "bad"} = BadBefore(jobs[c], at[c] - 1)
      BY <2>2 DEF BadBefore
  <2>4. Len(out[c]) = Len(jobs[c])
      BY <1>2, <2>1, <2>2
  <2>5. \A i \in DOMAIN jobs[c] : out[c][i] = [of |-> i, error |-> jobs[c][i] = "bad"]
      BY <1>2, <2>1, <2>2
  <2>6. failed[c] = Cardinality({i \in DOMAIN jobs[c] : jobs[c][i] = "bad"})
      BY <1>3, <2>1, <2>3
  <2> QED
      BY <2>1, <2>4, <2>5, <2>6
<1>6. OutputIsFinal
  <2> SUFFICES ASSUME NEW c \in Calls, NEW i \in DOMAIN out[c], ~ out[c][i].error
               PROVE  made[c][out[c][i].of] = Items
      BY DEF OutputIsFinal
  <2>1. out[c][i] = [of |-> i, error |-> jobs[c][i] = "bad"] /\ i \in 1..(at[c] - 1)
      BY <1>2
  <2>2. jobs[c][i] # "bad"
    <3> SUFFICES ASSUME jobs[c][i] = "bad" PROVE FALSE
        OBVIOUS
    <3>1. out[c][i] = [of |-> i, error |-> TRUE]
        BY <2>1
    <3> QED
        BY <3>1
  <2>3. out[c][i].of = i
      BY <2>1
  <2> QED
      BY <2>1, <2>2, <2>3 DEF AnswersOK
<1>7. OutputReadable
    BY KeptWhileNew DEF OutputReadable, StoreOK
<1> QED
    BY <1>4, <1>5, <1>6, <1>7 DEF BatchSafe

LEMMA StepBatch == BatchInv /\ [Next]_vars => BatchInv'
<1> SUFFICES ASSUME BatchInv, [Next]_vars PROVE BatchInv'
    OBVIOUS
<1>1. CASE \E f \in Uploads : CreateFile(f)
    BY <1>1, CreateFileKeeps
<1>2. CASE \E c \in Calls : SubmitJobs(c)
    BY <1>2, SubmitJobsKeeps
<1>3. CASE \E c \in Calls : NoSuchFile(c)
    BY <1>3, NoSuchFileKeeps
<1>4. CASE \E c \in Calls : ErrorLine(c)
    BY <1>4, ErrorLineKeeps
<1>5. CASE (\E c \in Calls : AwaitItem(c)) \/ (\E s \in Streams : AwaitStream(s))
    BY <1>5, AwaitKeeps
<1>6. CASE \E c \in Calls : OutputLine(c)
    BY <1>6, OutputLineKeeps
<1>7. CASE \E c \in Calls : BodyRaises(c)
    BY <1>7, BodyRaisesKeeps
<1>8. CASE \E c \in Calls : Complete(c)
    BY <1>8, CompleteKeeps
<1>9. CASE \E w \in Calls \cup Streams : GetItem(w)
    BY <1>9, GetItemKeeps
<1>10. CASE \E w \in Calls \cup Streams : Feed(w)
    BY <1>10, FeedKeeps
<1>11. CASE UNCHANGED vars
    BY <1>11, BatchStutters
<1> QED
    BY <1>1, <1>2, <1>3, <1>4, <1>5, <1>6, <1>7, <1>8, <1>9, <1>10, <1>11 DEF Next, Handler

\* Whatever order the worker, the executor and the other calls take their steps
\* in, a finished batch answers its input file line by line, with an error line
\* for exactly the lines that failed to build and a count that agrees, from
\* finished generations; and its file can be read until MaxFiles others were put.
THEOREM BatchesSafe == Spec => []BatchSafe
<1>1. Spec => []BatchInv
    BY InitBatch, StepBatch, PTL DEF Spec
<1> QED
    BY <1>1, BatchInvSafe, PTL
=============================================================================
