------------------------------ MODULE QueueLemmas ------------------------------
(***************************************************************************)
(* Facts about the lists and deques of the engine, as sequences: what an   *)
(* append, a popleft, an extend and a remove leave in them, in what order, *)
(* and that none of them makes an element appear twice.                    *)
(***************************************************************************)
EXTENDS Integers, Sequences, SequencesExt, FiniteSetTheorems, SequenceTheorems, TLAPS

\* Every element of t stands in s, and t keeps the order of s.
KeepsOrder(t, s) ==
  \A i, j \in DOMAIN t : i < j =>
    \E k, l \in DOMAIN s : k < l /\ t[i] = s[k] /\ t[j] = s[l]

\* A nonempty set of naturals has a least element.
LEMMA LeastExists ==
  ASSUME NEW S \in SUBSET Nat, S # {}
  PROVE  \E m \in S : \A n \in S : m <= n
<1>1. PICK m \in S : \A n \in S : <<n, m>> \notin OpToRel(<, Nat)
    BY NatLessThanWellFounded, WFMin
<1>2. \A n \in S : ~ (n < m)
    BY <1>1 DEF OpToRel
<1> QED
    BY <1>2

\* The elements of a sequence are its values at its positions.
LEMMA SeqFacts ==
  ASSUME NEW T, NEW s \in Seq(T)
  PROVE  /\ Len(s) \in Nat /\ DOMAIN s = 1..Len(s)
         /\ \A i \in 1..Len(s) : s[i] \in T /\ s[i] \in Range(s)
         /\ Range(s) \subseteq T
         /\ \A x \in Range(s) : \E i \in 1..Len(s) : s[i] = x
<1>1. Len(s) \in Nat /\ DOMAIN s = 1..Len(s)
    BY LenProperties
<1>2. \A i \in 1..Len(s) : s[i] \in T
    BY <1>1, ElementOfSeq
<1> QED
    BY <1>1, <1>2 DEF Range

\* append
LEMMA AppendFacts ==
  ASSUME NEW T, NEW s \in Seq(T), NEW x \in T
  PROVE  /\ Append(s, x) \in Seq(T) /\ Len(Append(s, x)) = Len(s) + 1
         /\ Append(s, x) # <<>>
         /\ DOMAIN Append(s, x) = 1..(Len(s) + 1)
         /\ \A i \in 1..Len(s) : Append(s, x)[i] = s[i]
         /\ Append(s, x)[Len(s) + 1] = x
         /\ Range(Append(s, x)) = Range(s) \cup {x}
         /\ IsInjective(s) /\ x \notin Range(s) => IsInjective(Append(s, x))
<1>1. /\ Append(s, x) \in Seq(T) /\ Len(Append(s, x)) = Len(s) + 1
      /\ \A i \in 1..Len(s) : Append(s, x)[i] = s[i]
      /\ Append(s, x)[Len(s) + 1] = x
    BY AppendProperties
<1>2. Len(s) \in Nat /\ DOMAIN s = 1..Len(s)
    BY LenProperties
<1>3. DOMAIN Append(s, x) = 1..(Len(s) + 1) /\ Append(s, x) # <<>>
    BY <1>1, <1>2, LenProperties
<1>4. Range(Append(s, x)) = Range(s) \cup {x}
    BY <1>1, <1>2, <1>3 DEF Range
<1>5. ASSUME IsInjective(s), x \notin Range(s) PROVE IsInjective(Append(s, x))
    BY <1>1, <1>2, <1>3, <1>5 DEF Range, IsInjective
<1> QED
    BY <1>1, <1>3, <1>4, <1>5

\* popleft
LEMMA TailFacts ==
  ASSUME NEW T, NEW s \in Seq(T), s # <<>>
  PROVE  /\ Head(s) \in T /\ Head(s) \in Range(s) /\ Head(s) = s[1]
         /\ Tail(s) \in Seq(T) /\ Len(Tail(s)) = Len(s) - 1 /\ Len(s) > 0
         /\ DOMAIN Tail(s) = 1..(Len(s) - 1)
         /\ \A i \in 1..(Len(s) - 1) : Tail(s)[i] = s[i + 1] /\ i + 1 \in DOMAIN s
         /\ Range(s) = {Head(s)} \cup Range(Tail(s))
         /\ KeepsOrder(Tail(s), s)
         /\ IsInjective(s) => IsInjective(Tail(s)) /\ Range(Tail(s)) = Range(s) \ {Head(s)}
<1>1. /\ Head(s) \in T /\ Tail(s) \in Seq(T) /\ Len(Tail(s)) = Len(s) - 1
      /\ \A i \in 1..Len(Tail(s)) : Tail(s)[i] = s[i + 1]
    BY HeadTailProperties
<1>2. Len(s) \in Nat /\ DOMAIN s = 1..Len(s) /\ Len(s) > 0
    BY LenProperties, EmptySeq
<1>3. DOMAIN Tail(s) = 1..(Len(s) - 1)
    BY <1>1, LenProperties
<1>4. Head(s) = s[1]
    OBVIOUS
<1>5. \A i \in 1..(Len(s) - 1) : Tail(s)[i] = s[i + 1] /\ i + 1 \in DOMAIN s
    BY <1>1, <1>2
<1>6. \A i \in DOMAIN s : i # 1 => i - 1 \in 1..(Len(s) - 1) /\ s[i] = Tail(s)[i - 1]
    BY <1>2, <1>5
<1>7. Range(s) = {Head(s)} \cup Range(Tail(s))
  <2>1. 1 \in DOMAIN s
      BY <1>2
  <2>2. Range(s) \subseteq {Head(s)} \cup Range(Tail(s))
      BY <1>3, <1>4, <1>6 DEF Range
  <2>3. {Head(s)} \cup Range(Tail(s)) \subseteq Range(s)
      BY <1>3, <1>4, <1>5, <2>1 DEF Range
  <2> QED
      BY <2>2, <2>3
<1>8. KeepsOrder(Tail(s), s)
  <2> DEFINE u == Tail(s)
  <2>1. ASSUME NEW i \in DOMAIN u, NEW j \in DOMAIN u, i < j
        PROVE  \E k, l \in DOMAIN s : k < l /\ u[i] = s[k] /\ u[j] = s[l]
    <3>1. i \in 1..(Len(s) - 1) /\ j \in 1..(Len(s) - 1)
        BY <1>3
    <3>2. i + 1 \in DOMAIN s /\ j + 1 \in DOMAIN s /\ i + 1 < j + 1
        BY <1>2, <1>5, <2>1, <3>1
    <3> QED
        BY <1>5, <3>1, <3>2
  <2> HIDE DEF u
  <2>2. KeepsOrder(u, s)
      BY <2>1 DEF KeepsOrder
  <2> QED
      BY <2>2 DEF u
<1>9. ASSUME IsInjective(s) PROVE IsInjective(Tail(s)) /\ Range(Tail(s)) = Range(s) \ {Head(s)}
  <2>1. IsInjective(Tail(s))
      BY <1>2, <1>3, <1>5, <1>9 DEF IsInjective
  <2>2. ASSUME NEW i \in 1..(Len(s) - 1), Tail(s)[i] = Head(s) PROVE FALSE
    <3>1. i + 1 \in DOMAIN s /\ 1 \in DOMAIN s /\ s[i + 1] = s[1] /\ i + 1 # 1
        BY <1>2, <1>4, <1>5, <2>2
    <3> QED
        BY <1>9, <3>1 DEF IsInjective
  <2>3. Head(s) \notin Range(Tail(s))
      BY <1>3, <2>2 DEF Range
  <2> QED
      BY <1>7, <2>1, <2>3
<1> QED
    BY <1>1, <1>2, <1>3, <1>4, <1>5, <1>7, <1>8, <1>9

\* extend
LEMMA ConcatFacts ==
  ASSUME NEW T, NEW s \in Seq(T), NEW t \in Seq(T)
  PROVE  /\ s \o t \in Seq(T) /\ Len(s \o t) = Len(s) + Len(t)
         /\ Range(s \o t) = Range(s) \cup Range(t)
         /\ IsInjective(s) /\ IsInjective(t) /\ Range(s) \cap Range(t) = {} => IsInjective(s \o t)
<1>1. /\ s \o t \in Seq(T) /\ Len(s \o t) = Len(s) + Len(t)
      /\ \A i \in 1..(Len(s) + Len(t)) : (s \o t)[i] = IF i <= Len(s) THEN s[i] ELSE t[i - Len(s)]
    BY ConcatProperties
<1>2. /\ Len(s) \in Nat /\ DOMAIN s = 1..Len(s) /\ Len(t) \in Nat /\ DOMAIN t = 1..Len(t)
      /\ DOMAIN (s \o t) = 1..(Len(s) + Len(t))
    BY <1>1, LenProperties
<1>3. Range(s \o t) = Range(s) \cup Range(t)
    BY RangeConcatenation
<1>4. ASSUME IsInjective(s), IsInjective(t), Range(s) \cap Range(t) = {},
             NEW i \in 1..(Len(s) + Len(t)), NEW j \in 1..(Len(s) + Len(t)), (s \o t)[i] = (s \o t)[j]
      PROVE  i = j
  <2>1. /\ i <= Len(s) => i \in DOMAIN s /\ (s \o t)[i] = s[i]
        /\ i > Len(s) => i - Len(s) \in DOMAIN t /\ (s \o t)[i] = t[i - Len(s)]
        /\ j <= Len(s) => j \in DOMAIN s /\ (s \o t)[j] = s[j]
        /\ j > Len(s) => j - Len(s) \in DOMAIN t /\ (s \o t)[j] = t[j - Len(s)]
      BY <1>1, <1>2
  <2>2. CASE i <= Len(s) /\ j <= Len(s)
      BY <1>4, <2>1, <2>2 DEF IsInjective
  <2>3. CASE i > Len(s) /\ j > Len(s)
    <3>1. i - Len(s) = j - Len(s)
        BY <1>4, <2>1, <2>3 DEF IsInjective
    <3> QED
        BY <1>2, <3>1
  <2>4. CASE i <= Len(s) /\ j > Len(s)
      BY <1>4, <2>1, <2>4 DEF Range
  <2>5. CASE i > Len(s) /\ j <= Len(s)
      BY <1>4, <2>1, <2>5 DEF Range
  <2> QED
      BY <1>2, <2>2, <2>3, <2>4, <2>5
<1> QED
    BY <1>1, <1>2, <1>3, <1>4 DEF IsInjective

\* remove
LEMMA RemoveFacts ==
  ASSUME NEW T, NEW s \in Seq(T), NEW x \in Range(s)
  PROVE  /\ RemoveFirst(s, x) \in Seq(T)
         /\ Len(RemoveFirst(s, x)) = Len(s) - 1
         /\ Range(RemoveFirst(s, x)) \subseteq Range(s)
         /\ Range(s) \subseteq Range(RemoveFirst(s, x)) \cup {x}
         /\ KeepsOrder(RemoveFirst(s, x), s)
         /\ IsInjective(s) => /\ IsInjective(RemoveFirst(s, x))
                              /\ Range(RemoveFirst(s, x)) = Range(s) \ {x}
<1> DEFINE places == {i \in 1..Len(s) : s[i] = x}
           k == CHOOSE i \in places : \A j \in places : i <= j
           front == SubSeq(s, 1, k - 1)
           rest == SubSeq(s, k + 1, Len(s))
           t == RemoveFirst(s, x)
           from(i) == IF i < k THEN i ELSE i + 1
<1>1. Len(s) \in Nat /\ DOMAIN s = 1..Len(s) /\ \A i \in 1..Len(s) : s[i] \in T
    BY SeqFacts
<1>2. k \in places
  <2>1. places # {} /\ places \in SUBSET Nat
      BY <1>1, SeqFacts
  <2> QED
      BY <2>1, LeastExists
<1>3. t = front \o rest
  <2>1. \E i \in 1..Len(s) : s[i] = x
      BY SeqFacts
  <2> QED
      BY <2>1 DEF RemoveFirst, SelectInSeq, RemoveAt, Min
<1> HIDE DEF k, t
<1>4. k \in 1..Len(s) /\ k \in Nat /\ s[k] = x
    BY <1>1, <1>2
<1>5. /\ front \in Seq(T) /\ Len(front) = k - 1
      /\ \A i \in 1..(k - 1) : front[i] = s[i]
  <2>1. 1 \in 1..(Len(s) + 1) /\ k - 1 \in (1 - 1)..Len(s)
      BY <1>1, <1>4
  <2>2. /\ front \in Seq(T) /\ Len(front) = (k - 1) - 1 + 1
        /\ \A i \in 1..((k - 1) - 1 + 1) : front[i] = s[1 + i - 1]
      BY <1>1, <1>4, <2>1, SubSeqProperties
  <2> QED
      BY <1>4, <2>2
<1>6. /\ rest \in Seq(T) /\ Len(rest) = Len(s) - k
      /\ \A i \in 1..(Len(s) - k) : rest[i] = s[k + i]
  <2>1. k + 1 \in 1..(Len(s) + 1) /\ Len(s) \in ((k + 1) - 1)..Len(s)
      BY <1>1, <1>4
  <2>2. \A i \in (k + 1)..Len(s) : s[i] \in T
      BY <1>1, <1>4
  <2>3. /\ rest \in Seq(T) /\ Len(rest) = IF k + 1 <= Len(s) THEN Len(s) - (k + 1) + 1 ELSE 0
        /\ \A i \in 1..(Len(s) - (k + 1) + 1) : rest[i] = s[(k + 1) + i - 1]
      BY <1>1, <1>4, <2>2, SubSeqProperties
  <2>4. k \in Nat /\ Len(s) \in Nat /\ k <= Len(s) /\ Len(s) - (k + 1) + 1 = Len(s) - k
      BY <1>1, <1>4
  <2>5. Len(rest) = Len(s) - k
    <3>1. CASE k + 1 <= Len(s)
        BY <2>3, <2>4, <3>1
    <3>2. CASE k = Len(s)
      <4>1. ~ (k + 1 <= Len(s)) /\ Len(s) - k = 0
          BY <2>4, <3>2
      <4> QED
          BY <2>3, <4>1
    <3>3. k \in Nat /\ Len(s) \in Nat /\ k <= Len(s)
        BY <2>4
    <3> QED
        BY <3>1, <3>2, <3>3
  <2>6. ASSUME NEW i \in 1..(Len(s) - k) PROVE rest[i] = s[k + i]
    <3>1. i \in 1..(Len(s) - (k + 1) + 1) /\ (k + 1) + i - 1 = k + i
        BY <2>4
    <3>2. rest[i] = s[(k + 1) + i - 1]
        BY <2>3, <3>1
    <3> QED
        BY <3>1, <3>2
  <2> QED
      BY <2>3, <2>5, <2>6
<1> HIDE DEF front, rest
<1>7. /\ t \in Seq(T) /\ Len(t) = Len(s) - 1 /\ DOMAIN t = 1..(Len(s) - 1)
      /\ \A i \in 1..(Len(s) - 1) : t[i] = IF i <= k - 1 THEN front[i] ELSE rest[i - (k - 1)]
  <2>1. /\ t \in Seq(T) /\ Len(t) = Len(front) + Len(rest)
        /\ \A i \in 1..(Len(front) + Len(rest)) :
             t[i] = IF i <= Len(front) THEN front[i] ELSE rest[i - Len(front)]
      BY <1>3, <1>5, <1>6, ConcatProperties
  <2>2. Len(front) + Len(rest) = Len(s) - 1
      BY <1>1, <1>4, <1>5, <1>6
  <2> QED
      BY <1>5, <2>1, <2>2, LenProperties
<1>8. \A i \in 1..(Len(s) - 1) : from(i) \in 1..Len(s) /\ from(i) # k /\ t[i] = s[from(i)]
  <2> SUFFICES ASSUME NEW i \in 1..(Len(s) - 1)
               PROVE  from(i) \in 1..Len(s) /\ from(i) # k /\ t[i] = s[from(i)]
      OBVIOUS
  <2>1. CASE i < k
    <3>1. i \in 1..(k - 1) /\ i <= k - 1
        BY <1>1, <1>4, <2>1
    <3>2. t[i] = front[i] /\ front[i] = s[i]
        BY <1>5, <1>7, <3>1
    <3>3. i \in 1..Len(s) /\ i # k
        BY <1>1, <1>4, <3>1
    <3> QED
        BY <2>1, <3>2, <3>3
  <2>2. CASE ~ (i < k)
    <3>1. /\ i - (k - 1) \in 1..(Len(s) - k) /\ ~ (i <= k - 1)
          /\ k + (i - (k - 1)) = i + 1 /\ i + 1 \in 1..Len(s) /\ i + 1 # k
        BY <1>1, <1>4, <2>2
    <3>2. t[i] = rest[i - (k - 1)] /\ rest[i - (k - 1)] = s[k + (i - (k - 1))]
        BY <1>6, <1>7, <3>1
    <3> QED
        BY <2>2, <3>1, <3>2
  <2> QED
      BY <2>1, <2>2
<1>9. \A j \in 1..Len(s) : j # k => \E i \in 1..(Len(s) - 1) : from(i) = j
  <2> SUFFICES ASSUME NEW j \in 1..Len(s), j # k
               PROVE  \E i \in 1..(Len(s) - 1) : from(i) = j
      OBVIOUS
  <2>1. CASE j < k
    <3>1. j \in 1..(Len(s) - 1) /\ from(j) = j
        BY <1>1, <1>4, <2>1
    <3> QED
        BY <3>1
  <2>2. CASE j > k
    <3>1. j - 1 \in 1..(Len(s) - 1) /\ from(j - 1) = j
        BY <1>1, <1>4, <2>2
    <3> QED
        BY <3>1
  <2> QED
      BY <1>1, <1>4, <2>1, <2>2
<1>10. Range(t) \subseteq Range(s)
    BY <1>1, <1>7, <1>8 DEF Range
<1>11. Range(s) \subseteq Range(t) \cup {x}
  <2> SUFFICES ASSUME NEW j \in 1..Len(s), j # k PROVE s[j] \in Range(t)
      BY <1>1, <1>4 DEF Range
  <2>1. PICK i \in 1..(Len(s) - 1) : from(i) = j
      BY <1>9
  <2> QED
      BY <1>7, <1>8, <2>1 DEF Range
<1>12. \A i, j \in 1..(Len(s) - 1) : i < j => from(i) < from(j)
    BY <1>1, <1>4
<1>13. KeepsOrder(t, s)
  <2>1. ASSUME NEW i \in DOMAIN t, NEW j \in DOMAIN t, i < j
        PROVE  \E a, b \in DOMAIN s : a < b /\ t[i] = s[a] /\ t[j] = s[b]
    <3>1. from(i) \in DOMAIN s /\ from(j) \in DOMAIN s /\ t[i] = s[from(i)] /\ t[j] = s[from(j)]
        BY <1>1, <1>7, <1>8
    <3>2. from(i) < from(j)
        BY <1>7, <1>12, <2>1
    <3> HIDE DEF from
    <3> QED
        BY <3>1, <3>2
  <2> QED
      BY <2>1 DEF KeepsOrder
<1>14. ASSUME IsInjective(s) PROVE IsInjective(t) /\ Range(t) = Range(s) \ {x}
  <2>1. \A i, j \in 1..(Len(s) - 1) : from(i) = from(j) => i = j
      BY <1>1, <1>4
  <2>2. IsInjective(t)
    <3> SUFFICES ASSUME NEW i \in 1..(Len(s) - 1), NEW j \in 1..(Len(s) - 1), t[i] = t[j]
                 PROVE  i = j
        BY <1>7 DEF IsInjective
    <3>1. from(i) = from(j)
        BY <1>1, <1>8, <1>14 DEF IsInjective
    <3> QED
        BY <2>1, <3>1
  <2>3. x \notin Range(t)
    <3> SUFFICES ASSUME NEW i \in 1..(Len(s) - 1), t[i] = x PROVE FALSE
        BY <1>7 DEF Range
    <3>1. from(i) \in DOMAIN s /\ k \in DOMAIN s /\ s[from(i)] = s[k] /\ from(i) # k
        BY <1>1, <1>4, <1>8
    <3> QED
        BY <1>14, <3>1 DEF IsInjective
  <2> QED
      BY <1>10, <1>11, <2>2, <2>3
<1> QED
    BY <1>7, <1>10, <1>11, <1>13, <1>14 DEF t

\* A sequence has at least as many positions as elements.
LEMMA RangeCount ==
  ASSUME NEW T, NEW s \in Seq(T)
  PROVE  IsFiniteSet(Range(s)) /\ Cardinality(Range(s)) \in Nat /\ Cardinality(Range(s)) <= Len(s)
<1>1. Len(s) \in Nat /\ DOMAIN s = 1..Len(s) /\ s \in [1..Len(s) -> T]
    BY LenProperties
<1>2. IsFiniteSet(1..Len(s)) /\ Cardinality(1..Len(s)) = Len(s)
    BY <1>1, FS_Interval
<1>3. [i \in 1..Len(s) |-> s[i]] \in Surjection(1..Len(s), Range(s))
    BY <1>1 DEF Surjection, Range
<1> QED
    BY <1>2, <1>3, FS_Surjection, FS_CardinalityType

\* Induction over 0..n, for a set of its numbers.
LEMMA StepwiseAll ==
  ASSUME NEW n \in Nat, NEW good \in SUBSET (0..n), 0 \in good,
         \A i \in 1..n : i - 1 \in good => i \in good
  PROVE  good = 0..n
<1> DEFINE bad == (0..n) \ good
<1>1. SUFFICES ASSUME bad # {} PROVE FALSE
    OBVIOUS
<1>4. bad \in SUBSET Nat
    OBVIOUS
<1> HIDE DEF bad
<1>2. PICK m \in bad : \A k \in bad : m <= k
    BY <1>1, <1>4, LeastExists
<1> USE DEF bad
<1>3. m \in 1..n /\ m - 1 \in 0..n /\ ~ (m <= m - 1)
    OBVIOUS
<1> QED
    BY <1>2, <1>3

\* What a function defined by recursion over 0..n computes exists: from x on,
\* step i leads from w[i - 1] to w[i].
Iterated(w, n, S, x, f) ==
  w \in [0..n -> S] /\ w[0] = x /\ \A i \in 1..n : w[i] = f[i][w[i - 1]]

LEMMA Iterates ==
  ASSUME NEW n \in Nat, NEW S, NEW x \in S, NEW f \in [1..n -> [S -> S]]
  PROVE  \E w : Iterated(w, n, S, x, f)
<1> DEFINE Runs(w, k) == /\ w \in [0..k -> S] /\ w[0] = x
                         /\ \A i \in 1..k : w[i] = f[i][w[i - 1]]
           can == {k \in 0..n : \E w : Runs(w, k)}
<1>1. 0 \in can
  <2>1. Runs([i \in 0..0 |-> x], 0)
      OBVIOUS
  <2> HIDE DEF Runs
  <2> QED
      BY <2>1
<1>2. ASSUME NEW k \in 1..n, k - 1 \in can PROVE k \in can
  <2>1. PICK w : Runs(w, k - 1)
      BY <1>2
  <2> DEFINE u == [i \in 0..k |-> IF i = k THEN f[k][w[k - 1]] ELSE w[i]]
  <2>2. w[k - 1] \in S /\ \A i \in 0..(k - 1) : w[i] \in S
      BY <2>1
  <2>3. f[k][w[k - 1]] \in S
      BY <2>2
  <2>4. u \in [0..k -> S] /\ u[0] = x
      BY <2>1, <2>2, <2>3
  <2>5. ASSUME NEW i \in 1..k PROVE u[i] = f[i][u[i - 1]]
    <3>1. u[i - 1] = w[i - 1]
        OBVIOUS
    <3>2. CASE i = k
        BY <3>1, <3>2
    <3>3. CASE i # k
      <4>1. i \in 1..(k - 1) /\ u[i] = w[i]
          BY <3>3
      <4> QED
          BY <2>1, <3>1, <4>1
    <3> QED
        BY <3>2, <3>3
  <2>6. Runs(u, k)
      BY <2>4, <2>5
  <2> HIDE DEF u, Runs
  <2> QED
      BY <2>6
<1> HIDE DEF Runs
<1>3. can = 0..n
  <2> HIDE DEF can
  <2>1. can \in SUBSET (0..n)
      BY DEF can
  <2> QED
      BY <1>1, <1>2, <2>1, StepwiseAll
<1>4. n \in can
  <2> HIDE DEF can
  <2>1. n \in 0..n
      OBVIOUS
  <2> QED
      BY <1>3, <2>1
<1> QED
    BY <1>4 DEF Runs, Iterated

\* Popping the last k elements of a list, the last one first.
StackLeft(s, k) == SubSeq(s, 1, Len(s) - k)
StackTop(s, k) == [i \in 1..k |-> s[Len(s) + 1 - i]]

LEMMA PopFacts ==
  ASSUME NEW T, NEW s \in Seq(T), NEW k \in 0..Len(s)
  PROVE  /\ StackLeft(s, k) \in Seq(T) /\ Len(StackLeft(s, k)) = Len(s) - k
         /\ \A i \in 1..(Len(s) - k) : StackLeft(s, k)[i] = s[i]
         /\ StackTop(s, k) \in Seq(T) /\ Len(StackTop(s, k)) = k
         /\ Range(s) = Range(StackLeft(s, k)) \cup Range(StackTop(s, k))
         /\ IsInjective(s) => /\ IsInjective(StackLeft(s, k)) /\ IsInjective(StackTop(s, k))
                              /\ Range(StackLeft(s, k)) \cap Range(StackTop(s, k)) = {}
<1> DEFINE n == Len(s)
           front == SubSeq(s, 1, n - k)
           popped == [i \in 1..k |-> s[n + 1 - i]]
<1>1. n \in Nat /\ DOMAIN s = 1..n /\ (\A i \in 1..n : s[i] \in T) /\ k \in 0..n
    BY SeqFacts
<1> HIDE DEF n
<1>2. front \in Seq(T) /\ Len(front) = n - k /\ \A i \in 1..(n - k) : front[i] = s[i]
  <2>1. \A i \in 1..(n - k) : s[i] \in T
      BY <1>1
  <2>2. /\ front \in Seq(T) /\ Len(front) = IF 1 <= n - k THEN n - k - 1 + 1 ELSE 0
        /\ \A i \in 1..(n - k - 1 + 1) : front[i] = s[1 + i - 1]
      BY <1>1, <2>1, SubSeqProperties
  <2>3. n - k \in Nat
      BY <1>1
  <2> HIDE DEF front
  <2> DEFINE m == n - k
  <2>4. m \in Nat /\ Len(front) = (IF 1 <= m THEN m - 1 + 1 ELSE 0)
        /\ \A i \in 1..(m - 1 + 1) : front[i] = s[1 + i - 1]
      BY <2>2, <2>3
  <2> HIDE DEF m
  <2>5. Len(front) = m
      BY <2>4
  <2>6. ASSUME NEW i \in 1..m PROVE front[i] = s[i]
    <3>1. i \in 1..(m - 1 + 1) /\ 1 + i - 1 = i
        BY <2>4
    <3>2. front[i] = s[1 + i - 1]
        BY <2>4, <3>1
    <3> QED
        BY <3>1, <3>2
  <2> QED
      BY <2>2, <2>5, <2>6 DEF m
<1>3. \A i \in 1..k : n + 1 - i \in 1..n /\ popped[i] = s[n + 1 - i]
    BY <1>1
<1>4. popped \in Seq(T) /\ Len(popped) = k /\ DOMAIN popped = 1..k
  <2>1. \A i \in 1..k : s[n + 1 - i] \in T
      BY <1>1, <1>3
  <2>2. k \in Nat
      BY <1>1
  <2>3. popped \in Seq(T)
      BY <2>1, <2>2, IsASeq
  <2>4. DOMAIN popped = 1..k
      OBVIOUS
  <2>5. Len(popped) \in Nat /\ DOMAIN popped = 1..Len(popped)
      BY <2>3, LenProperties
  <2> HIDE DEF popped
  <2>6. Len(popped) = k
      BY <2>2, <2>4, <2>5
  <2> QED
      BY <2>3, <2>4, <2>6
<1>5. DOMAIN front = 1..(n - k)
    BY <1>2, LenProperties
<1> HIDE DEF front, popped
<1>6. \A i \in 1..n : (i \in 1..(n - k)) \/ (n + 1 - i \in 1..k /\ popped[n + 1 - i] = s[i])
  <2> SUFFICES ASSUME NEW i \in 1..n, i \notin 1..(n - k) PROVE n + 1 - i \in 1..k /\ popped[n + 1 - i] = s[i]
      OBVIOUS
  <2>1. n + 1 - i \in 1..k /\ n + 1 - (n + 1 - i) = i
      BY <1>1
  <2> QED
      BY <1>3, <2>1
<1>7. Range(s) = Range(front) \cup Range(popped)
  <2>1. Range(s) \subseteq Range(front) \cup Range(popped)
      BY <1>1, <1>2, <1>4, <1>5, <1>6 DEF Range
  <2>2. Range(front) \subseteq Range(s)
    <3>1. 1..(n - k) \subseteq 1..n
        BY <1>1
    <3> QED
        BY <1>1, <1>2, <1>5, <3>1 DEF Range
  <2>3. Range(popped) \subseteq Range(s)
      BY <1>1, <1>3, <1>4 DEF Range
  <2> QED
      BY <2>1, <2>2, <2>3
<1>8. ASSUME IsInjective(s)
      PROVE  /\ IsInjective(front) /\ IsInjective(popped)
             /\ Range(front) \cap Range(popped) = {}
  <2>0. 1..(n - k) \subseteq 1..n
      BY <1>1
  <2>1. IsInjective(front)
      BY <1>1, <1>2, <1>5, <1>8, <2>0 DEF IsInjective
  <2>2. ASSUME NEW i \in 1..k, NEW j \in 1..k, popped[i] = popped[j] PROVE i = j
    <3>1. n + 1 - i = n + 1 - j
        BY <1>1, <1>3, <1>8, <2>2 DEF IsInjective
    <3> QED
        BY <1>1, <3>1
  <2>3. ASSUME NEW i \in 1..(n - k), NEW j \in 1..k, front[i] = popped[j] PROVE FALSE
    <3>1. i = n + 1 - j
        BY <1>1, <1>2, <1>3, <1>8, <2>0, <2>3 DEF IsInjective
    <3> QED
        BY <1>1, <3>1
  <2>4. IsInjective(popped)
      BY <1>4, <2>2 DEF IsInjective
  <2>5. Range(front) \cap Range(popped) = {}
      BY <1>4, <1>5, <2>3 DEF Range
  <2> QED
      BY <2>1, <2>4, <2>5
<1> QED
  <2>1. /\ front \in Seq(T) /\ Len(front) = n - k
        /\ \A i \in 1..(n - k) : front[i] = s[i]
        /\ popped \in Seq(T) /\ Len(popped) = k
        /\ Range(s) = Range(front) \cup Range(popped)
        /\ IsInjective(s) => /\ IsInjective(front) /\ IsInjective(popped)
                             /\ Range(front) \cap Range(popped) = {}
      BY <1>2, <1>4, <1>7, <1>8
  <2> QED
      BY <2>1 DEF front, popped, n, StackLeft, StackTop
=============================================================================
