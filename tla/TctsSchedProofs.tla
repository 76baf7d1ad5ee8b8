--------------------------- MODULE TctsSchedProofs ---------------------------
(***************************************************************************)
(* The list discipline of the scheduler, proved for any tasks, priorities, *)
(* objects and timeouts.  The lemmas about lists come first, then those    *)
(* about the operators that move tasks between lists, then the inductive   *)
(* invariant.  The second part is about the order of the lists, in the     *)
(* same sequence.                                                          *)
(***************************************************************************)
EXTENDS TctsSched, WellFoundedInduction, SequenceTheorems, TLAPS

-----------------------------------------------------------------------------
(* Lists: sequences without repetition.                                      *)

LEMMA NatSetMin ==
  ASSUME NEW S, S \subseteq Nat, S # {}
  PROVE  \E x \in S : \A y \in S : x <= y
<1>1. \E x \in S : \A y \in S : ~(<<y, x>> \in OpToRel(<, Nat))
  BY NatLessThanWellFounded, WFMin
<1>2. PICK x \in S : \A y \in S : ~(y < x)
  BY <1>1 DEF OpToRel
<1> QED
  BY <1>2

LEMMA NatIntervalMax ==
  ASSUME NEW n \in Nat, NEW S, S \subseteq 1..n, S # {}
  PROVE  \E x \in S : \A y \in S : x >= y
<1> DEFINE D == {n - x : x \in S}
<1>0. \A x \in S : x \in Nat /\ n - x \in Nat
  OBVIOUS
<1>1. D \subseteq Nat /\ D # {}
  BY <1>0
<1>2. PICK d \in D : \A e \in D : d <= e
  BY <1>1, NatSetMin
<1>3. PICK x \in S : d = n - x
  OBVIOUS
<1>4. \A y \in S : n - x <= n - y
  BY <1>2, <1>3
<1> QED
  BY <1>0, <1>4

\* What InsertAt is, place by place.
LEMMA InsertAtIs ==
  ASSUME NEW S, NEW s, s \in Seq(S), NEW e \in S, NEW k \in 1..Len(s) + 1
  PROVE  /\ InsertAt(s, k, e) \in Seq(S)
         /\ DOMAIN InsertAt(s, k, e) = 1..Len(s) + 1
         /\ \A i \in 1..Len(s) + 1 :
              InsertAt(s, k, e)[i] = IF i < k THEN s[i] ELSE IF i = k THEN e ELSE s[i - 1]
<1> DEFINE n == Len(s)
           before == SubSeq(s, 1, k - 1)
           one == <<e>>
           behind == SubSeq(s, k, n)
           r == (before \o one) \o behind
<1>0. s \in Seq(S) /\ n \in Nat /\ DOMAIN s = 1..n /\ k \in 1..n + 1
  OBVIOUS
<1> HIDE DEF n
<1>1. before \in Seq(S) /\ Len(before) = k - 1 /\ \A i \in 1..k - 1 : before[i] = s[i]
  BY <1>0, SubSeqProperties DEF n
<1>2. /\ behind \in Seq(S) /\ Len(behind) = n - k + 1
      /\ \A i \in 1..n - k + 1 : behind[i] = s[k + i - 1]
  BY <1>0, SubSeqProperties DEF n
<1>3. one \in Seq(S) /\ Len(one) = 1 /\ one[1] = e
  OBVIOUS
<1> HIDE DEF before, behind, one
<1>4. /\ before \o one \in Seq(S) /\ Len(before \o one) = k
      /\ \A i \in 1..k : (before \o one)[i] = IF i < k THEN s[i] ELSE e
  <2>1. /\ before \o one \in Seq(S)
        /\ Len(before \o one) = Len(before) + Len(one)
        /\ \A i \in 1..Len(before) + Len(one) :
             (before \o one)[i] = IF i <= Len(before) THEN before[i] ELSE one[i - Len(before)]
    BY <1>1, <1>3, ConcatProperties
  <2>2. k \in Int /\ Len(before) + Len(one) = k
    BY <1>0, <1>1, <1>3
  <2>3. \A i \in 1..k : i < k => (before \o one)[i] = s[i]
    BY <1>1, <2>1, <2>2
  <2>4. (before \o one)[k] = e
    <3>1. k - Len(before) = 1 /\ ~(k <= Len(before)) /\ k \in 1..Len(before) + Len(one)
      BY <1>0, <1>1, <2>2
    <3> QED
      BY <1>3, <2>1, <3>1
  <2> QED
    BY <1>0, <2>1, <2>2, <2>3, <2>4
<1>5. /\ r \in Seq(S) /\ Len(r) = n + 1 /\ DOMAIN r = 1..n + 1
      /\ \A i \in 1..n + 1 : r[i] = IF i < k THEN s[i] ELSE IF i = k THEN e ELSE s[i - 1]
  <2> DEFINE first == before \o one
  <2>0. first \in Seq(S) /\ Len(first) = k /\ r = first \o behind
    BY <1>4
  <2> HIDE DEF first, r
  <2>1. /\ r \in Seq(S) /\ Len(r) = n + 1
        /\ \A i \in 1..n + 1 : r[i] = IF i <= k THEN first[i] ELSE behind[i - k]
    <3>1. /\ r \in Seq(S) /\ Len(r) = Len(first) + Len(behind)
          /\ \A i \in 1..Len(first) + Len(behind) :
               r[i] = IF i <= Len(first) THEN first[i] ELSE behind[i - Len(first)]
      BY <1>2, <2>0, ConcatProperties
    <3>2. Len(first) + Len(behind) = n + 1
      BY <1>0, <1>2, <2>0
    <3> QED
      BY <2>0, <3>1, <3>2
  <2>2. \A i \in 1..n + 1 : i > k => behind[i - k] = s[i - 1]
    BY <1>0, <1>2
  <2>3. DOMAIN r = 1..n + 1
    BY <2>1, <1>0
  <2>4. \A i \in 1..n + 1 : r[i] = IF i < k THEN s[i] ELSE IF i = k THEN e ELSE s[i - 1]
    <3> TAKE i \in 1..n + 1
    <3>1. CASE i <= k
      <4>1. i \in 1..k /\ r[i] = first[i]
        BY <3>1, <1>0, <2>1
      <4> QED
        BY <3>1, <4>1, <1>0, <1>4 DEF first
    <3>2. CASE i > k
      BY <3>2, <1>0, <2>1, <2>2
    <3> QED
      BY <3>1, <3>2, <1>0
  <2> QED
    BY <2>1, <2>3, <2>4
<1>6. InsertAt(s, k, e) = r
  BY DEF InsertAt, before, one, behind, n
<1> HIDE DEF r
<1> QED
  BY <1>5, <1>6 DEF n

LEMMA InsertAtList ==
  ASSUME NEW S, NEW s, IsListOf(s, S), NEW e \in S, e \notin ToSet(s),
         NEW k \in 1..Len(s) + 1
  PROVE  IsListOf(InsertAt(s, k, e), S) /\ ToSet(InsertAt(s, k, e)) = ToSet(s) \cup {e}
<1> DEFINE n == Len(s)
           r == InsertAt(s, k, e)
<1>0. s \in Seq(S) /\ n \in Nat /\ DOMAIN s = 1..n /\ k \in 1..n + 1
  BY DEF IsListOf
<1>1. /\ r \in Seq(S) /\ DOMAIN r = 1..n + 1
      /\ \A i \in 1..n + 1 : r[i] = IF i < k THEN s[i] ELSE IF i = k THEN e ELSE s[i - 1]
  <2>1. s \in Seq(S) /\ k \in 1..Len(s) + 1
    BY <1>0
  <2> HIDE DEF r, n
  <2>2. /\ InsertAt(s, k, e) \in Seq(S) /\ DOMAIN InsertAt(s, k, e) = 1..Len(s) + 1
        /\ \A i \in 1..Len(s) + 1 :
             InsertAt(s, k, e)[i] = IF i < k THEN s[i] ELSE IF i = k THEN e ELSE s[i - 1]
    BY <2>1, InsertAtIs
  <2> QED
    BY <2>2, Zenon DEF r, n
<1>2. /\ \A i \in 1..n : s[i] # e
      /\ \A i, j \in 1..n : s[i] = s[j] => i = j
  BY <1>0 DEF ToSet, IsListOf
<1> HIDE DEF r, n
<1>3. \A i, j \in DOMAIN r : r[i] = r[j] => i = j
  <2> SUFFICES ASSUME NEW i \in 1..n + 1, NEW j \in 1..n + 1, i < j, r[i] = r[j]
               PROVE  FALSE
    BY <1>0, <1>1
  <2>1. CASE j < k
    BY <2>1, <1>0, <1>1, <1>2
  <2>2. CASE j = k
    BY <2>2, <1>0, <1>1, <1>2
  <2>3. CASE i = k
    BY <2>3, <1>0, <1>1, <1>2
  <2>4. CASE i < k /\ j > k
    <3>1. r[i] = s[i] /\ r[j] = s[j - 1] /\ i \in 1..n /\ j - 1 \in 1..n /\ i # j - 1
      BY <2>4, <1>0, <1>1
    <3> QED
      BY <3>1, <1>2
  <2>5. CASE i > k
    <3>1. /\ r[i] = s[i - 1] /\ r[j] = s[j - 1] /\ i - 1 \in 1..n /\ j - 1 \in 1..n
          /\ i - 1 # j - 1
      BY <2>5, <1>0, <1>1
    <3> QED
      BY <3>1, <1>2
  <2> QED
    BY <2>1, <2>2, <2>3, <2>4, <2>5, <1>0
<1>4. ToSet(r) = ToSet(s) \cup {e}
  <2>1. ToSet(r) \subseteq ToSet(s) \cup {e}
    BY <1>0, <1>1 DEF ToSet
  <2>2. e \in ToSet(r)
    BY <1>0, <1>1 DEF ToSet
  <2>3. \A i \in 1..n : s[i] \in ToSet(r)
    <3> TAKE i \in 1..n
    <3>1. CASE i < k
      <4>1. i \in DOMAIN r /\ r[i] = s[i]
        BY <3>1, <1>0, <1>1
      <4> QED
        BY <4>1 DEF ToSet
    <3>2. CASE i >= k
      <4>1. i + 1 \in DOMAIN r /\ r[i + 1] = s[i]
        BY <3>2, <1>0, <1>1
      <4> QED
        BY <4>1 DEF ToSet
    <3> QED
      BY <3>1, <3>2, <1>0
  <2> QED
    BY <2>1, <2>2, <2>3, <1>0 DEF ToSet
<1> QED
  BY <1>1, <1>3, <1>4 DEF IsListOf, r

\* TCBFifoAddPrio inserts t behind the last task that is at least as urgent.
LEMMA TCBFifoAddPrioIs ==
  ASSUME NEW S, NEW s \in Seq(S), NEW t, NEW prio
  PROVE  \E k \in 0..Len(s) :
           /\ TCBFifoAddPrio(s, t, prio) = InsertAt(s, 1 + k, t)
           /\ k > 0 => prio[s[k]] <= prio[t]
           /\ \A i \in 1..Len(s) : i > k => ~(prio[s[i]] <= prio[t])
<1> DEFINE I == {i \in 1..Len(s) : prio[s[i]] <= prio[t]}
           k == IF I # {} THEN Max(I) ELSE 0
<1>1. Len(s) \in Nat
  OBVIOUS
<1>2. /\ k \in 0..Len(s)
      /\ k > 0 => k \in I
      /\ \A i \in I : i <= k
  <2>1. CASE I = {}
    BY <1>1, <2>1
  <2>2. CASE I # {}
    <3>1. I \subseteq 1..Len(s)
      OBVIOUS
    <3> HIDE DEF I
    <3>2. \E x \in I : \A y \in I : x >= y
      BY <1>1, <2>2, <3>1, NatIntervalMax
    <3>3. Max(I) \in I /\ \A y \in I : Max(I) >= y
      BY <3>2 DEF Max
    <3>4. k = Max(I)
      BY <2>2
    <3>5. Max(I) \in 1..Len(s)
      BY <3>1, <3>3
    <3> QED
      BY <1>1, <3>1, <3>3, <3>4, <3>5
  <2> QED
    BY <2>1, <2>2
<1>3. TCBFifoAddPrio(s, t, prio) = InsertAt(s, 1 + k, t)
  BY DEF TCBFifoAddPrio, SelectLastInSeq
<1> HIDE DEF k
<1>4. \A i \in 1..Len(s) : i > k => ~(prio[s[i]] <= prio[t])
  BY <1>1, <1>2
<1> QED
  BY <1>2, <1>3, <1>4

LEMMA TCBFifoAddPrioList ==
  ASSUME NEW S, NEW s, IsListOf(s, S), NEW t \in S, t \notin ToSet(s), NEW prio
  PROVE  /\ IsListOf(TCBFifoAddPrio(s, t, prio), S)
         /\ ToSet(TCBFifoAddPrio(s, t, prio)) = ToSet(s) \cup {t}
<1>1. s \in Seq(S) /\ Len(s) \in Nat
  BY DEF IsListOf
<1>2. PICK k \in 0..Len(s) : TCBFifoAddPrio(s, t, prio) = InsertAt(s, 1 + k, t)
  BY <1>1, TCBFifoAddPrioIs
<1>3. 1 + k \in 1..Len(s) + 1
  BY <1>1
<1> QED
  BY <1>2, <1>3, InsertAtList

\* What RemoveFirst is, place by place.
LEMMA RemoveFirstIs ==
  ASSUME NEW S, NEW s, s \in Seq(S), NEW t
  PROVE  \/ t \notin ToSet(s) /\ RemoveFirst(s, t) = s
         \/ \E k \in 1..Len(s) :
              /\ s[k] = t
              /\ RemoveFirst(s, t) \in Seq(S)
              /\ DOMAIN RemoveFirst(s, t) = 1..Len(s) - 1
              /\ \A i \in 1..Len(s) - 1 :
                   RemoveFirst(s, t)[i] = IF i < k THEN s[i] ELSE s[i + 1]
<1> DEFINE n == Len(s)
           I == {i \in 1..n : s[i] = t}
<1>0. s \in Seq(S) /\ n \in Nat /\ DOMAIN s = 1..n
  OBVIOUS
<1>1. CASE I = {}
  BY <1>0, <1>1 DEF RemoveFirst, ToSet
<1>2. CASE I # {}
  <2> DEFINE k == Min(I)
             r == SubSeq(s, 1, k - 1) \o SubSeq(s, k + 1, n)
  <2>1. k \in 1..n /\ s[k] = t
    <3>1. I \subseteq Nat
      OBVIOUS
    <3> HIDE DEF I
    <3>2. \E x \in I : \A y \in I : x <= y
      BY <1>2, <3>1, NatSetMin
    <3>3. k \in I
      BY <3>2 DEF Min
    <3> QED
      BY <3>3 DEF I
  <2>2. RemoveFirst(s, t) = r
    BY <1>2 DEF RemoveFirst, RemoveAt, SelectInSeq
  <2> HIDE DEF k, n
  <2> DEFINE before == SubSeq(s, 1, k - 1)
             behind == SubSeq(s, k + 1, n)
  <2>3. before \in Seq(S) /\ Len(before) = k - 1 /\ \A i \in 1..k - 1 : before[i] = s[i]
    BY <1>0, <2>1, SubSeqProperties DEF n
  <2>4. /\ behind \in Seq(S) /\ Len(behind) = n - k
        /\ \A i \in 1..n - k : behind[i] = s[k + i]
    <3>1. \A i \in k + 1..n : s[i] \in S
      BY <1>0, <2>1
    <3>2. /\ SubSeq(s, k + 1, n) \in Seq(S)
          /\ Len(SubSeq(s, k + 1, n)) = IF k + 1 <= n THEN n - (k + 1) + 1 ELSE 0
          /\ \A i \in 1..n - (k + 1) + 1 : SubSeq(s, k + 1, n)[i] = s[(k + 1) + i - 1]
      BY <1>0, <2>1, <3>1, SubSeqProperties
    <3>3. \A i \in Int : (k + 1) + i - 1 = k + i
      BY <2>1
    <3>4. n - (k + 1) + 1 = n - k /\ (k + 1 <= n \/ n - k = 0)
      BY <1>0, <2>1
    <3>5. behind \in Seq(S) /\ Len(behind) = n - k
      BY <3>2, <3>4 DEF behind
    <3>6. \A i \in 1..n - k : behind[i] = s[k + i]
      <4> SUFFICES ASSUME NEW i \in 1..n - k PROVE SubSeq(s, k + 1, n)[i] = s[k + i]
        BY DEF behind
      <4>1. i \in 1..n - (k + 1) + 1 /\ i \in Int
        BY <1>0, <2>1, <3>4
      <4>2. SubSeq(s, k + 1, n)[i] = s[(k + 1) + i - 1]
        BY <3>2, <4>1
      <4> QED
        BY <3>3, <4>1, <4>2
    <3> QED
      BY <3>5, <3>6
  <2> HIDE DEF before, behind
  <2>5. /\ r \in Seq(S) /\ Len(r) = n - 1
        /\ \A i \in 1..n - 1 : r[i] = IF i <= k - 1 THEN before[i] ELSE behind[i - (k - 1)]
    <3> r = before \o behind
      BY DEF before, behind
    <3> QED
      BY <1>0, <2>1, <2>3, <2>4, ConcatProperties
  <2>6. DOMAIN r = 1..n - 1 /\ \A i \in 1..n - 1 : r[i] = IF i < k THEN s[i] ELSE s[i + 1]
    <3>1. \A i \in 1..n - 1 : i >= k => behind[i - (k - 1)] = s[i + 1]
      BY <1>0, <2>1, <2>4
    <3> HIDE DEF r
    <3>2. DOMAIN r = 1..n - 1
      BY <1>0, <2>1, <2>5
    <3>3. \A i \in 1..n - 1 : i < k => r[i] = s[i]
      BY <1>0, <2>1, <2>3, <2>5
    <3>4. \A i \in 1..n - 1 : i >= k => r[i] = s[i + 1]
      BY <1>0, <2>1, <2>5, <3>1
    <3> QED
      BY <1>0, <2>1, <3>2, <3>3, <3>4
  <2> HIDE DEF r
  <2> QED
    BY <2>1, <2>2, <2>5, <2>6 DEF n
<1> QED
  BY <1>1, <1>2

LEMMA RemoveFirstList ==
  ASSUME NEW S, NEW s, IsListOf(s, S), NEW t
  PROVE  IsListOf(RemoveFirst(s, t), S) /\ ToSet(RemoveFirst(s, t)) = ToSet(s) \ {t}
<1> DEFINE n == Len(s)
           r == RemoveFirst(s, t)
<1>0. s \in Seq(S) /\ n \in Nat /\ DOMAIN s = 1..n
  BY DEF IsListOf
<1>1. CASE t \notin ToSet(s) /\ r = s
  BY <1>1
<1>2. ASSUME NEW k \in 1..n, s[k] = t, r \in Seq(S), DOMAIN r = 1..n - 1,
             \A i \in 1..n - 1 : r[i] = IF i < k THEN s[i] ELSE s[i + 1]
      PROVE  IsListOf(r, S) /\ ToSet(r) = ToSet(s) \ {t}
  <2>1. \A i, j \in 1..n : s[i] = s[j] => i = j
    BY <1>0 DEF IsListOf, n
  <2> HIDE DEF r, n
  <2>2. \A i, j \in DOMAIN r : r[i] = r[j] => i = j
    <3> SUFFICES ASSUME NEW i \in 1..n - 1, NEW j \in 1..n - 1, i < j, r[i] = r[j]
                 PROVE  FALSE
      BY <1>0, <1>2
    <3> DEFINE place(x) == IF x < k THEN x ELSE x + 1
    <3>1. place(i) \in 1..n /\ place(j) \in 1..n /\ place(i) # place(j)
      BY <1>0, <1>2
    <3>2. r[i] = s[place(i)] /\ r[j] = s[place(j)]
      BY <1>2, <3>1
    <3> QED
      BY <2>1, <3>1, <3>2
  <2>3. ToSet(r) = ToSet(s) \ {t}
    <3>1. ToSet(r) \subseteq ToSet(s) \ {t}
      <4>1. \A i \in 1..n - 1 : (i < k => i \in 1..n) /\ (i >= k => i + 1 \in 1..n)
        BY <1>0, <1>2
      <4>2. \A i \in 1..n - 1 : \E j \in 1..n : j # k /\ r[i] = s[j]
        BY <1>0, <1>2, <4>1
      <4> QED
        BY <1>0, <1>2, <2>1, <4>2 DEF ToSet
    <3>2. \A i \in 1..n : s[i] # t => s[i] \in ToSet(r)
      <4> SUFFICES ASSUME NEW i \in 1..n, s[i] # t PROVE s[i] \in ToSet(r)
        OBVIOUS
      <4>1. CASE i < k
        <5>1. i \in DOMAIN r /\ r[i] = s[i]
          BY <4>1, <1>0, <1>2
        <5> QED
          BY <5>1 DEF ToSet
      <4>2. CASE i > k
        <5>1. i - 1 \in DOMAIN r /\ r[i - 1] = s[i]
          BY <4>2, <1>0, <1>2
        <5> QED
          BY <5>1 DEF ToSet
      <4> QED
        BY <4>1, <4>2, <1>0, <1>2
    <3> QED
      BY <3>1, <3>2, <1>0 DEF ToSet
  <2> QED
    BY <1>2, <2>2, <2>3 DEF IsListOf
<1> QED
  BY <1>0, <1>1, <1>2, RemoveFirstIs

LEMMA AppendList ==
  ASSUME NEW S, NEW s, IsListOf(s, S), NEW t \in S, t \notin ToSet(s)
  PROVE  IsListOf(Append(s, t), S) /\ ToSet(Append(s, t)) = ToSet(s) \cup {t}
<1>0. s \in Seq(S) /\ Len(s) \in Nat /\ DOMAIN s = 1..Len(s)
  BY DEF IsListOf
<1> DEFINE r == Append(s, t)
<1>1. r \in Seq(S) /\ DOMAIN r = 1..Len(s) + 1 /\ r[Len(s) + 1] = t
      /\ \A i \in 1..Len(s) : r[i] = s[i]
  BY <1>0
<1> HIDE DEF r
<1>2. \A i, j \in DOMAIN r : r[i] = r[j] => i = j
  BY <1>0, <1>1 DEF IsListOf, ToSet
<1>3. ToSet(r) = ToSet(s) \cup {t}
  <2>1. ToSet(r) \subseteq ToSet(s) \cup {t}
    BY <1>0, <1>1 DEF ToSet
  <2>2. \A i \in 1..Len(s) : s[i] \in ToSet(r)
    BY <1>0, <1>1 DEF ToSet
  <2>3. t \in ToSet(r)
    BY <1>0, <1>1 DEF ToSet
  <2> QED
    BY <2>1, <2>2, <2>3, <1>0 DEF ToSet
<1> QED
  BY <1>1, <1>2, <1>3 DEF IsListOf, r

LEMMA HeadTailList ==
  ASSUME NEW S, NEW s, IsListOf(s, S), s # <<>>
  PROVE  /\ Head(s) \in ToSet(s)
         /\ IsListOf(Tail(s), S)
         /\ ToSet(Tail(s)) = ToSet(s) \ {Head(s)}
<1>0. s \in Seq(S) /\ Len(s) \in Nat \ {0} /\ DOMAIN s = 1..Len(s)
  BY DEF IsListOf
<1> DEFINE r == Tail(s)
<1>1. r \in Seq(S) /\ DOMAIN r = 1..Len(s) - 1 /\ \A i \in 1..Len(s) - 1 : r[i] = s[i + 1]
  BY <1>0
<1>2. Head(s) = s[1] /\ 1 \in DOMAIN s
  BY <1>0
<1> HIDE DEF r
<1>3. \A i, j \in DOMAIN r : r[i] = r[j] => i = j
  <2>1. \A i \in DOMAIN r : i + 1 \in DOMAIN s
    BY <1>0, <1>1
  <2> QED
    BY <1>0, <1>1, <2>1 DEF IsListOf
<1>4. ToSet(r) = ToSet(s) \ {s[1]}
  <2>1. ToSet(r) \subseteq ToSet(s) \ {s[1]}
    BY <1>0, <1>1 DEF ToSet, IsListOf
  <2>2. \A i \in 1..Len(s) : i # 1 => s[i] = r[i - 1] /\ i - 1 \in DOMAIN r
    BY <1>0, <1>1
  <2>3. \A x \in ToSet(s) \ {s[1]} : x \in ToSet(r)
    BY <2>2, <1>0 DEF ToSet
  <2> QED
    BY <2>1, <2>3
<1> QED
  BY <1>1, <1>2, <1>3, <1>4 DEF IsListOf, r, ToSet

LEMMA EmptyList ==
  ASSUME NEW S, NEW s, IsListOf(s, S)
  PROVE  /\ s = <<>> <=> ToSet(s) = {}
         /\ ToSet(s) \subseteq S
<1>0. s \in Seq(S) /\ Len(s) \in Nat /\ DOMAIN s = 1..Len(s)
  BY DEF IsListOf
<1>1. s # <<>> => 1 \in DOMAIN s
  BY <1>0
<1>2. s = <<>> => ToSet(s) = {}
  BY DEF ToSet
<1>3. s # <<>> => ToSet(s) # {}
  BY <1>1 DEF ToSet
<1>4. \A i \in DOMAIN s : s[i] \in S
  BY <1>0
<1> QED
  BY <1>2, <1>3, <1>4 DEF ToSet

-----------------------------------------------------------------------------
(* Moving tasks between lists.                                               *)

ListsOK(L) ==
  /\ L \in [ready : Seq(TCB), wait : Seq(Task), fifo : [Object -> Seq(Task)]]
  /\ IsListOf(L.ready, TCB)
  /\ IsListOf(L.wait, Task)
  /\ \A o \in Object : IsListOf(L.fifo[o], Task)

\* M is L after the tasks in set go have become ready.
Moved(L, M, go) ==
  /\ ListsOK(M)
  /\ ToSet(M.ready) = ToSet(L.ready) \cup go
  /\ ToSet(M.wait) = ToSet(L.wait) \ go
  /\ \A o \in Object : ToSet(M.fifo[o]) = ToSet(L.fifo[o]) \ {t \in go : waitOn[t] = o}

LEMMA AddTaskToReadyListOK ==
  ASSUME NEW L, ListsOK(L), NEW t \in TCB, t \notin ToSet(L.ready), NEW prio
  PROVE  LET M == [L EXCEPT !.ready = TCBFifoAddPrio(@, t, prio)]
         IN  /\ ListsOK(M)
             /\ ToSet(M.ready) = ToSet(L.ready) \cup {t}
             /\ M.wait = L.wait
             /\ M.fifo = L.fifo
<1> DEFINE r == TCBFifoAddPrio(L.ready, t, prio)
<1>1. IsListOf(r, TCB) /\ ToSet(r) = ToSet(L.ready) \cup {t}
  BY TCBFifoAddPrioList DEF ListsOK
<1> HIDE DEF r
<1>2. r \in Seq(TCB)
  BY <1>1 DEF IsListOf
<1>3. [L EXCEPT !.ready = r] = [ready |-> r, wait |-> L.wait, fifo |-> L.fifo]
  BY DEF ListsOK
<1>4. ListsOK([ready |-> r, wait |-> L.wait, fifo |-> L.fifo])
  BY <1>1, <1>2 DEF ListsOK
<1> QED
  BY <1>1, <1>3, <1>4 DEF r

LEMMA WaitToReadyMoves ==
  ASSUME NEW L, ListsOK(L), NEW t \in Task, t \notin ToSet(L.ready)
  PROVE  Moved(L, WaitToReady(L, t), {t})
<1> DEFINE w == WaitListRemove(L.wait, t)
           f == [o \in Object |-> IF o = waitOn[t] THEN TCBFifoRemoveMiddle(L.fifo[o], t)
                                  ELSE L.fifo[o]]
           K == [ready |-> L.ready, wait |-> w, fifo |-> f]
<1>1. IsListOf(w, Task) /\ ToSet(w) = ToSet(L.wait) \ {t}
  BY RemoveFirstList DEF ListsOK, WaitListRemove
<1>2. \A o \in Object : IsListOf(f[o], Task)
                        /\ ToSet(f[o]) = ToSet(L.fifo[o]) \ {x \in {t} : waitOn[x] = o}
  <2> TAKE o \in Object
  <2>1. /\ IsListOf(L.fifo[o], Task)
        /\ IsListOf(TCBFifoRemoveMiddle(L.fifo[o], t), Task)
        /\ ToSet(TCBFifoRemoveMiddle(L.fifo[o], t)) = ToSet(L.fifo[o]) \ {t}
    BY RemoveFirstList DEF ListsOK, TCBFifoRemoveMiddle
  <2> QED
    BY <2>1
<1>3. WaitToReady(L, t) = [K EXCEPT !.ready = TCBFifoAddPrio(@, t, nPrio)]
  BY DEF WaitToReady, AddTaskToReadyList
<1>4. \A o \in Object : f[o] \in Seq(Task)
  BY <1>2 DEF IsListOf
<1>5. f \in [Object -> Seq(Task)]
  BY <1>4
<1> HIDE DEF w, f
<1>6. ListsOK(K)
  <2>1. w \in Seq(Task)
    BY <1>1 DEF IsListOf
  <2> QED
    BY <1>1, <1>2, <1>5, <2>1 DEF ListsOK
<1>7. /\ ListsOK(WaitToReady(L, t))
      /\ ToSet(WaitToReady(L, t).ready) = ToSet(L.ready) \cup {t}
      /\ WaitToReady(L, t).wait = w
      /\ WaitToReady(L, t).fifo = f
  BY <1>3, <1>6, AddTaskToReadyListOK DEF TCB
<1> QED
  BY <1>1, <1>2, <1>7 DEF Moved

LEMMA MovedTwice ==
  ASSUME NEW L, NEW M, NEW N, NEW A, NEW B, Moved(L, M, A), Moved(M, N, B)
  PROVE  Moved(L, N, A \cup B)
  BY DEF Moved

\* One step of the pass over a list.
PassStep(lists, t, go) == IF t \in go THEN WaitToReady(lists, t) ELSE lists

\* f holds the lists after each step of the pass.
IsPass(f, lists, walk, go) ==
  f = [i \in 0..Len(walk) |->
         IF i = 0 THEN lists ELSE PassStep(f[i - 1], walk[i], go)]

\* The recursive function of WaitToReadyAll exists.
LEMMA WaitToReadyAllRec ==
  ASSUME NEW lists, NEW walk \in Seq(Task), NEW go
  PROVE  \E f : /\ IsPass(f, lists, walk, go)
                /\ WaitToReadyAll(lists, walk, go) = f[Len(walk)]
<1> DEFINE Fn(n, f) == [i \in 0..n |->
                          IF i = 0 THEN lists ELSE PassStep(f[i - 1], walk[i], go)]
           Bad == {n \in Nat : n <= Len(walk) /\ ~\E f : f = Fn(n, f)}
<1>0. Len(walk) \in Nat
  OBVIOUS
<1>1. Bad = {}
  <2> SUFFICES ASSUME Bad # {} PROVE FALSE
    OBVIOUS
  <2>0. \A n : n \in Bad <=> n \in Nat /\ n <= Len(walk) /\ ~\E f : f = Fn(n, f)
    OBVIOUS
  <2>1. PICK n \in Bad : \A y \in Bad : n <= y
    <3>1. Bad \subseteq Nat
      BY <2>0
    <3> HIDE DEF Bad
    <3> QED
      BY <3>1, NatSetMin
  <2> HIDE DEF Bad
  <2>2. n \in Nat /\ n <= Len(walk) /\ ~\E f : f = Fn(n, f)
    BY <2>0, <2>1
  <2>3. CASE n = 0
    <3> DEFINE f0 == [i \in 0..0 |-> lists]
    <3>1. f0 = Fn(0, f0)
      OBVIOUS
    <3> QED
      BY <2>2, <2>3, <3>1
  <2>4. CASE n # 0
    <3>1. n - 1 \in Nat /\ n - 1 \notin Bad /\ n - 1 <= Len(walk)
      <4> HIDE DEF Fn
      <4>1. n - 1 \in Nat /\ ~(n <= n - 1) /\ n - 1 <= Len(walk)
        BY <1>0, <2>2, <2>4
      <4> QED
        BY <2>1, <4>1
    <3>2. PICK g : g = Fn(n - 1, g)
      BY <3>1, <2>0
    <3> DEFINE h == [i \in 0..n |-> IF i = n THEN PassStep(g[n - 1], walk[n], go) ELSE g[i]]
    <3>3. \A i \in 0..n :
            h[i] = IF i = 0 THEN lists ELSE PassStep(h[i - 1], walk[i], go)
      <4> TAKE i \in 0..n
      <4>1. CASE i = n
        BY <4>1, <2>2, <2>4
      <4>2. CASE i # n
        <5>1. h[i] = g[i] /\ i \in 0..n - 1
          BY <4>2, <2>2
        <5>2. g[i] = IF i = 0 THEN lists ELSE PassStep(g[i - 1], walk[i], go)
          BY <5>1, <3>2
        <5>3. i # 0 => h[i - 1] = g[i - 1]
          BY <5>1, <2>2
        <5> QED
          BY <5>1, <5>2, <5>3
      <4> QED
        BY <4>1, <4>2
    <3>4. h = Fn(n, h)
      BY <3>3
    <3> QED
      BY <3>4, <2>2
  <2> QED
    BY <2>3, <2>4
<1>2. \E f : f = Fn(Len(walk), f)
  BY <1>0, <1>1
<1>3. WaitToReadyAll(lists, walk, go) = (CHOOSE f : f = Fn(Len(walk), f))[Len(walk)]
  BY Zenon DEF WaitToReadyAll, PassStep
<1> QED
  BY <1>2, <1>3 DEF IsPass

\* The tasks that the first i steps of a pass have made ready.
PassDone(walk, go, i) == {walk[j] : j \in 1..i} \cap go

LEMMA PassMoves ==
  ASSUME NEW L, ListsOK(L), NEW walk, IsListOf(walk, Task), NEW go,
         go \cap ToSet(L.ready) = {}, NEW f, IsPass(f, L, walk, go),
         NEW n \in 0..Len(walk)
  PROVE  Moved(L, f[n], PassDone(walk, go, n))
<1>0. walk \in Seq(Task) /\ Len(walk) \in Nat /\ DOMAIN walk = 1..Len(walk)
  BY DEF IsListOf
<1>1. f[0] = L /\ \A i \in 1..Len(walk) : f[i] = PassStep(f[i - 1], walk[i], go)
  BY <1>0 DEF IsPass
<1> DEFINE Done(i) == PassDone(walk, go, i)
           Bad == {i \in 0..Len(walk) : ~Moved(L, f[i], Done(i))}
<1>2. Bad = {}
  <2> SUFFICES ASSUME Bad # {} PROVE FALSE
    OBVIOUS
  <2>0. \A i : i \in Bad <=> i \in 0..Len(walk) /\ ~Moved(L, f[i], Done(i))
    OBVIOUS
  <2>1. PICK i \in Bad : \A y \in Bad : i <= y
    <3>1. Bad \subseteq Nat
      BY <2>0, <1>0
    <3> HIDE DEF Bad
    <3> QED
      BY <3>1, NatSetMin
  <2> HIDE DEF Bad
  <2>2. i \in 0..Len(walk) /\ ~Moved(L, f[i], Done(i))
    BY <2>0, <2>1
  <2>3. CASE i = 0
    <3>1. Done(0) = {}
      BY DEF PassDone
    <3>2. Moved(L, L, {})
      BY DEF Moved
    <3> QED
      BY <2>2, <2>3, <3>1, <3>2, <1>1
  <2>4. CASE i # 0
    <3> HIDE DEF Done
    <3>1. i \in 1..Len(walk) /\ i - 1 \in 0..Len(walk) /\ ~(i <= i - 1)
      BY <1>0, <2>2, <2>4
    <3>2. Moved(L, f[i - 1], Done(i - 1))
      BY <2>0, <2>1, <3>1
    <3>3. f[i] = PassStep(f[i - 1], walk[i], go)
      BY <1>1, <3>1
    <3>4. Done(i) = Done(i - 1) \cup ({walk[i]} \cap go)
      <4>1. \A j : j \in 1..i <=> j \in 1..i - 1 \/ j = i
        BY <1>0, <3>1
      <4> QED
        BY <4>1 DEF Done, PassDone
    <3>5. CASE walk[i] \notin go
      <4>1. Done(i) = Done(i - 1) /\ f[i] = f[i - 1]
        BY <3>3, <3>4, <3>5 DEF PassStep
      <4> QED
        BY <2>2, <3>2, <4>1
    <3>6. CASE walk[i] \in go
      <4>1. walk[i] \in Task
        BY <1>0, <3>1
      <4>2. walk[i] \notin Done(i - 1)
        <5>1. \A j \in 1..i - 1 : walk[j] # walk[i]
          BY <1>0, <3>1 DEF IsListOf
        <5> QED
          BY <5>1 DEF Done, PassDone
      <4>3. ListsOK(f[i - 1]) /\ walk[i] \notin ToSet(f[i - 1].ready)
        BY <3>2, <3>6, <4>2 DEF Moved
      <4>4. Moved(f[i - 1], WaitToReady(f[i - 1], walk[i]), {walk[i]})
        BY <4>1, <4>3, WaitToReadyMoves
      <4>5. Moved(L, WaitToReady(f[i - 1], walk[i]), Done(i - 1) \cup {walk[i]})
        BY <3>2, <4>4, MovedTwice
      <4>6. Done(i) = Done(i - 1) \cup {walk[i]} /\ f[i] = WaitToReady(f[i - 1], walk[i])
        BY <3>3, <3>4, <3>6 DEF PassStep
      <4> QED
        BY <2>2, <4>5, <4>6
    <3> QED
      BY <3>5, <3>6
  <2> QED
    BY <2>3, <2>4
<1> HIDE DEF Done
<1>3. Moved(L, f[n], Done(n))
  BY <1>2
<1> QED
  BY <1>3 DEF Done

LEMMA WaitToReadyAllMoves ==
  ASSUME NEW L, ListsOK(L), NEW walk, IsListOf(walk, Task), NEW go,
         go \subseteq ToSet(walk), go \cap ToSet(L.ready) = {}
  PROVE  Moved(L, WaitToReadyAll(L, walk, go), go)
<1>0. walk \in Seq(Task) /\ Len(walk) \in Nat /\ DOMAIN walk = 1..Len(walk)
  BY DEF IsListOf
<1>1. PICK f : /\ IsPass(f, L, walk, go)
               /\ WaitToReadyAll(L, walk, go) = f[Len(walk)]
  BY <1>0, WaitToReadyAllRec
<1>2. Len(walk) \in 0..Len(walk)
  BY <1>0
<1>3. Moved(L, f[Len(walk)], PassDone(walk, go, Len(walk)))
  BY <1>1, <1>2, PassMoves
<1>4. PassDone(walk, go, Len(walk)) = go
  BY <1>0 DEF ToSet, PassDone
<1> QED
  BY <1>1, <1>3, <1>4

-----------------------------------------------------------------------------
(* The inductive invariant.  Placed: a task that is in use has the CPU or is *)
(* on one of the two lists.  Queued: the FIFOs, the wait pointers and the    *)
(* WaitList agree.  Both are stated of any lists, so that they can be shown  *)
(* of the lists in the middle of a call, when nobody has the CPU.            *)

Placed(L, run, state) ==
  /\ ListsOK(L)
  /\ ToSet(L.ready) \cap ToSet(L.wait) = {}
  /\ run \notin ToSet(L.ready) \cup ToSet(L.wait)
  /\ state \in [TCB -> TaskState]
  /\ \A t \in TCB : state[t] # "NOT_IN_USE" <=>
                      t = run \/ t \in ToSet(L.ready) \/ t \in ToSet(L.wait)

Queued(L, on, ticks) ==
  /\ on \in [TCB -> Object \cup {NULL}]
  /\ ticks \in [TCB -> Timeout]
  /\ \A t \in TCB, o \in Object :
       t \in ToSet(L.fifo[o]) <=> (on[t] = o /\ t \in ToSet(L.wait))
  /\ \A t \in TCB : t \notin ToSet(L.wait) => on[t] = NULL /\ ticks[t] = 0

SchedInv ==
  /\ bIsSchedLocked \in BOOLEAN
  /\ RunningTask \in TCB \cup {NULL}
  /\ bIsSchedLocked => RunningTask = NULL
  /\ nPrio \in [TCB -> Nat]
  /\ nReturnCode \in [TCB -> ReturnCode]
  /\ Placed(Lists, RunningTask, State)
  /\ Queued(Lists, waitOn, dTimeoutTicks)

\* What ListsOK says of the sets of tasks on the lists.
LEMMA ListMembers ==
  ASSUME NEW L, ListsOK(L)
  PROVE  /\ ToSet(L.ready) \subseteq TCB
         /\ ToSet(L.wait) \subseteq Task
         /\ \A o \in Object : ToSet(L.fifo[o]) \subseteq Task
         /\ Task \subseteq TCB /\ TCBIdle \in TCB /\ NULL \notin TCB
  BY EmptyList, NullAssumption DEF ListsOK, TCB

\* From lists on which everybody is and nobody has the CPU, TaskSchedule makes
\* a state of the invariant.
LEMMA TaskSchedulePlaces ==
  ASSUME NEW L, NEW st, Placed(L, NULL, st), TaskSchedule(L, st)
  PROVE  /\ RunningTask' \in TCB \cup {NULL}
         /\ Placed(Lists', RunningTask', State')
         /\ Lists'.wait = L.wait
         /\ Lists'.fifo = L.fifo
<1> DEFINE new == GetReadyTask(L.ready)
           r == IF L.ready = <<>> THEN L.ready ELSE Tail(L.ready)
<1>1. /\ ListsOK(L) /\ L \in [ready : Seq(TCB), wait : Seq(Task), fifo : [Object -> Seq(Task)]]
      /\ IsListOf(L.ready, TCB)
  BY DEF Placed, ListsOK
<1>2. /\ RunningTask' = new
      /\ State' = IF new \in TCB /\ new # RunningTask THEN [st EXCEPT ![new] = "RUNNING"] ELSE st
      /\ Lists' = [ready |-> r, wait |-> L.wait, fifo |-> L.fifo]
  BY <1>1 DEF TaskSchedule, SetLists, Lists
<1>3. CASE L.ready = <<>>
  <2>1. new = NULL /\ r = <<>> /\ ToSet(L.ready) = {} /\ r = L.ready /\ NULL \notin TCB
    BY <1>1, <1>3, EmptyList, ListMembers DEF GetReadyTask
  <2>2. Lists' = L /\ State' = st
    BY <1>1, <1>2, <2>1
  <2> QED
    BY <1>2, <2>1, <2>2
<1>4. CASE L.ready # <<>>
  <2>1. /\ new \in ToSet(L.ready)
        /\ IsListOf(r, TCB)
        /\ ToSet(r) = ToSet(L.ready) \ {new}
    BY <1>1, <1>4, HeadTailList DEF GetReadyTask
  <2>2. new \in TCB /\ new # NULL /\ r \in Seq(TCB)
    BY <1>1, <2>1, ListMembers DEF IsListOf
  <2> HIDE DEF new, r
  <2>3. ListsOK(Lists')
    BY <1>1, <1>2, <2>1, <2>2 DEF ListsOK
  <2>4. State' \in [TCB -> TaskState] /\ \A t \in TCB : State'[t] # "NOT_IN_USE" <=> st[t] # "NOT_IN_USE"
    <3>1. st \in [TCB -> TaskState] /\ st[new] # "NOT_IN_USE"
      BY <2>1, <2>2 DEF Placed
    <3> QED
      BY <1>2, <2>2, <3>1 DEF TaskState
  <2>5. \A t \in TCB : st[t] # "NOT_IN_USE" <=>
                         t = NULL \/ t \in ToSet(L.ready) \/ t \in ToSet(L.wait)
    BY DEF Placed
  <2>6. NULL \notin TCB /\ ToSet(L.ready) \cap ToSet(L.wait) = {}
    BY <1>1, ListMembers DEF Placed
  <2> QED
    BY <1>2, <2>1, <2>2, <2>3, <2>4, <2>5, <2>6 DEF Placed
<1> QED
  BY <1>3, <1>4

\* The same for Reschedule, which puts the running task on the ReadyList first.
LEMMA ReschedulePlaces ==
  ASSUME NEW L, NEW st, Placed(L, RunningTask, st), RunningTask \in TCB, Reschedule(L, st)
  PROVE  /\ RunningTask' \in TCB \cup {NULL}
         /\ Placed(Lists', RunningTask', State')
         /\ Lists'.wait = L.wait
         /\ Lists'.fifo = L.fifo
<1> DEFINE M == AddTaskToReadyList(L, RunningTask)
           new == [st EXCEPT ![RunningTask] = "READY"]
<1>1. ListsOK(L) /\ RunningTask \notin ToSet(L.ready) /\ RunningTask \notin ToSet(L.wait)
  BY DEF Placed
<1>2. /\ ListsOK(M) /\ M.wait = L.wait /\ M.fifo = L.fifo
      /\ ToSet(M.ready) = ToSet(L.ready) \cup {RunningTask}
  BY <1>1, AddTaskToReadyListOK DEF AddTaskToReadyList
<1>3. NULL \notin TCB /\ ToSet(L.ready) \subseteq TCB /\ ToSet(L.wait) \subseteq TCB
  BY <1>1, ListMembers
<1>4. new \in [TCB -> TaskState]
      /\ \A t \in TCB : new[t] # "NOT_IN_USE" <=> t = RunningTask \/ st[t] # "NOT_IN_USE"
  BY DEF Placed, TaskState
<1>5. TaskSchedule(M, new)
  BY DEF Reschedule
<1> HIDE DEF M, new
<1>6. Placed(M, NULL, new)
  BY <1>1, <1>2, <1>3, <1>4 DEF Placed
<1> QED
  BY <1>2, <1>5, <1>6, TaskSchedulePlaces

\* Queued depends on the WaitList and the FIFOs only.
LEMMA QueuedSameLists ==
  ASSUME NEW L, NEW M, NEW on, NEW ticks, Queued(L, on, ticks),
         M.wait = L.wait, M.fifo = L.fifo
  PROVE  Queued(M, on, ticks)
  BY DEF Queued

LEMMA ListsFields ==
  /\ Lists.ready = ReadyList /\ Lists.wait = WaitList /\ Lists.fifo = Fifo
  /\ Lists'.ready = ReadyList' /\ Lists'.wait = WaitList' /\ Lists'.fifo = Fifo'
  BY DEF Lists

\* The running task, which is on no list, blocks on object o or on none (NULL).
LEMMA BlockListsPlaces ==
  ASSUME SchedInv, NEW t \in Task, t = RunningTask, NEW o \in Object \cup {NULL},
         NEW ticks \in Timeout
  PROVE  /\ Placed(BlockLists(t, o), NULL, [State EXCEPT ![t] = "WAITING"])
         /\ Queued(BlockLists(t, o), [waitOn EXCEPT ![t] = o],
                   [dTimeoutTicks EXCEPT ![t] = ticks])
<1> DEFINE w == AddTaskToWaitList(WaitList, t)
           f == IF o = NULL THEN Fifo ELSE [Fifo EXCEPT ![o] = TCBFifoAddPrio(@, t, nPrio)]
           M == BlockLists(t, o)
<1>1. /\ ListsOK(Lists) /\ IsListOf(ReadyList, TCB) /\ IsListOf(WaitList, Task)
      /\ Fifo \in [Object -> Seq(Task)] /\ ReadyList \in Seq(TCB)
      /\ \A x \in Object : IsListOf(Fifo[x], Task)
  BY ListsFields DEF SchedInv, Placed, ListsOK
<1>2. /\ NULL \notin TCB /\ NULL \notin Object /\ t \in TCB /\ Task \subseteq TCB
      /\ ToSet(ReadyList) \subseteq TCB /\ ToSet(WaitList) \subseteq Task
      /\ \A x \in Object : ToSet(Fifo[x]) \subseteq Task
  BY <1>1, ListMembers, ListsFields, NullAssumption DEF TCB
<1>3. /\ ToSet(ReadyList) \cap ToSet(WaitList) = {}
      /\ t \notin ToSet(ReadyList) /\ t \notin ToSet(WaitList)
      /\ State \in [TCB -> TaskState]
      /\ \A x \in TCB : State[x] # "NOT_IN_USE" <=>
                          x = t \/ x \in ToSet(ReadyList) \/ x \in ToSet(WaitList)
  BY ListsFields DEF SchedInv, Placed
<1>4. /\ waitOn \in [TCB -> Object \cup {NULL}] /\ dTimeoutTicks \in [TCB -> Timeout]
      /\ \A x \in TCB, y \in Object :
           x \in ToSet(Fifo[y]) <=> (waitOn[x] = y /\ x \in ToSet(WaitList))
      /\ \A x \in TCB : x \notin ToSet(WaitList) => waitOn[x] = NULL /\ dTimeoutTicks[x] = 0
  BY ListsFields DEF SchedInv, Queued
<1>5. IsListOf(w, Task) /\ ToSet(w) = ToSet(WaitList) \cup {t} /\ w \in Seq(Task)
  BY <1>1, <1>3, AppendList DEF AddTaskToWaitList, IsListOf
<1>6. \A x \in Object : t \notin ToSet(Fifo[x])
  BY <1>2, <1>3, <1>4
<1>7. /\ f \in [Object -> Seq(Task)]
      /\ \A x \in Object :
           /\ IsListOf(f[x], Task)
           /\ ToSet(f[x]) = IF x = o THEN ToSet(Fifo[x]) \cup {t} ELSE ToSet(Fifo[x])
  <2>1. CASE o = NULL
    BY <1>1, <1>2, <2>1
  <2>2. CASE o # NULL
    <3> DEFINE q == TCBFifoAddPrio(Fifo[o], t, nPrio)
    <3>1. IsListOf(q, Task) /\ ToSet(q) = ToSet(Fifo[o]) \cup {t} /\ o \in Object
      BY <1>1, <1>6, <2>2, TCBFifoAddPrioList
    <3> HIDE DEF q
    <3>2. q \in Seq(Task)
      BY <3>1 DEF IsListOf
    <3>3. f = [Fifo EXCEPT ![o] = q]
      BY <2>2 DEF q
    <3> QED
      BY <1>1, <3>1, <3>2, <3>3
  <2> QED
    BY <2>1, <2>2
<1>8. M.ready = ReadyList /\ M.wait = w /\ M.fifo = f /\ M = [ready |-> ReadyList, wait |-> w, fifo |-> f]
  BY DEF BlockLists
<1> HIDE DEF w, f, M
<1>9. ListsOK(M)
  BY <1>1, <1>5, <1>7, <1>8 DEF ListsOK
<1>10. Placed(M, NULL, [State EXCEPT ![t] = "WAITING"])
  <2> DEFINE st == [State EXCEPT ![t] = "WAITING"]
  <2>1. st \in [TCB -> TaskState] /\ \A x \in TCB : st[x] = IF x = t THEN "WAITING" ELSE State[x]
    BY <1>3, <1>2 DEF TaskState
  <2> HIDE DEF st
  <2>2. \A x \in TCB : st[x] # "NOT_IN_USE" <=>
                         x = NULL \/ x \in ToSet(M.ready) \/ x \in ToSet(M.wait)
    BY <1>2, <1>3, <1>5, <1>8, <2>1
  <2>3. NULL \notin ToSet(M.ready) \cup ToSet(M.wait)
        /\ ToSet(M.ready) \cap ToSet(M.wait) = {}
    BY <1>2, <1>3, <1>5, <1>8
  <2> QED
    BY <1>9, <2>1, <2>2, <2>3 DEF Placed, st
<1>11. Queued(M, [waitOn EXCEPT ![t] = o], [dTimeoutTicks EXCEPT ![t] = ticks])
  <2> DEFINE on == [waitOn EXCEPT ![t] = o]
             d == [dTimeoutTicks EXCEPT ![t] = ticks]
  <2>1. on \in [TCB -> Object \cup {NULL}] /\ \A x \in TCB : on[x] = IF x = t THEN o ELSE waitOn[x]
    BY <1>2, <1>4
  <2>2. d \in [TCB -> Timeout] /\ \A x \in TCB : d[x] = IF x = t THEN ticks ELSE dTimeoutTicks[x]
    BY <1>2, <1>4
  <2> HIDE DEF on, d
  <2>3. \A x \in TCB, y \in Object :
          x \in ToSet(M.fifo[y]) <=> (on[x] = y /\ x \in ToSet(M.wait))
    BY <1>2, <1>3, <1>4, <1>5, <1>6, <1>7, <1>8, <2>1
  <2>4. \A x \in TCB : x \notin ToSet(M.wait) => on[x] = NULL /\ d[x] = 0
    BY <1>4, <1>5, <1>8, <2>1, <2>2
  <2> QED
    BY <2>1, <2>2, <2>3, <2>4 DEF Queued, on, d
<1> QED
  BY <1>10, <1>11 DEF M

\* A set of waiting tasks becomes ready: the running task keeps the CPU.
LEMMA MovedPlaces ==
  ASSUME SchedInv, NEW go, go \subseteq ToSet(WaitList), NEW M, Moved(Lists, M, go),
         NEW d \in [TCB -> Timeout],
         \A t \in go : d[t] = 0,
         \A t \in TCB \ ToSet(WaitList) : d[t] = dTimeoutTicks[t]
  PROVE  /\ Placed(M, RunningTask, StateAfterWait(go))
         /\ Queued(M, [t \in TCB |-> IF t \in go THEN NULL ELSE waitOn[t]], d)
<1>1. /\ ListsOK(Lists) /\ ListsOK(M)
      /\ ToSet(M.ready) = ToSet(ReadyList) \cup go
      /\ ToSet(M.wait) = ToSet(WaitList) \ go
      /\ \A o \in Object : ToSet(M.fifo[o]) = ToSet(Fifo[o]) \ {t \in go : waitOn[t] = o}
  BY ListsFields DEF SchedInv, Placed, Moved
<1>2. ToSet(ReadyList) \subseteq TCB /\ ToSet(WaitList) \subseteq TCB /\ NULL \notin Object
  BY <1>1, ListMembers, ListsFields, NullAssumption
<1>3. /\ ToSet(ReadyList) \cap ToSet(WaitList) = {}
      /\ RunningTask \notin ToSet(ReadyList) \cup ToSet(WaitList)
      /\ State \in [TCB -> TaskState]
      /\ \A x \in TCB : State[x] # "NOT_IN_USE" <=>
                          x = RunningTask \/ x \in ToSet(ReadyList) \/ x \in ToSet(WaitList)
  BY ListsFields DEF SchedInv, Placed
<1>4. /\ waitOn \in [TCB -> Object \cup {NULL}]
      /\ \A x \in TCB, y \in Object :
           x \in ToSet(Fifo[y]) <=> (waitOn[x] = y /\ x \in ToSet(WaitList))
      /\ \A x \in TCB : x \notin ToSet(WaitList) => waitOn[x] = NULL /\ dTimeoutTicks[x] = 0
  BY ListsFields DEF SchedInv, Queued
<1>5. Placed(M, RunningTask, StateAfterWait(go))
  <2>1. StateAfterWait(go) \in [TCB -> TaskState]
        /\ \A x \in TCB : StateAfterWait(go)[x] = IF x \in go THEN "READY" ELSE State[x]
    BY <1>3 DEF StateAfterWait, TaskState
  <2>2. \A x \in TCB : StateAfterWait(go)[x] # "NOT_IN_USE" <=>
                         x = RunningTask \/ x \in ToSet(M.ready) \/ x \in ToSet(M.wait)
    BY <1>1, <1>3, <2>1
  <2>3. ToSet(M.ready) \cap ToSet(M.wait) = {} /\ RunningTask \notin ToSet(M.ready) \cup ToSet(M.wait)
    BY <1>1, <1>3
  <2> QED
    BY <1>1, <2>1, <2>2, <2>3 DEF Placed
<1>6. Queued(M, [t \in TCB |-> IF t \in go THEN NULL ELSE waitOn[t]], d)
  <2> DEFINE on == [t \in TCB |-> IF t \in go THEN NULL ELSE waitOn[t]]
  <2>1. on \in [TCB -> Object \cup {NULL}] /\ \A x \in TCB : on[x] = IF x \in go THEN NULL ELSE waitOn[x]
    BY <1>4
  <2> HIDE DEF on
  <2>2. \A x \in TCB, y \in Object :
          x \in ToSet(M.fifo[y]) <=> (on[x] = y /\ x \in ToSet(M.wait))
    BY <1>1, <1>2, <1>4, <2>1
  <2>3. \A x \in TCB : x \notin ToSet(M.wait) => on[x] = NULL /\ d[x] = 0
    BY <1>1, <1>4, <2>1
  <2> QED
    BY <2>1, <2>2, <2>3 DEF Queued, on
<1> QED
  BY <1>5, <1>6

-----------------------------------------------------------------------------
(* Every action of the scheduler preserves the invariant.                    *)

LEMMA SchedInitInv == SchedInit => SchedInv
<1> SUFFICES ASSUME SchedInit PROVE SchedInv
  OBVIOUS
<1>1. /\ Lists = [ready |-> <<TCBIdle>>, wait |-> <<>>, fifo |-> [o \in Object |-> <<>>]]
      /\ TCBIdle \in TCB /\ NULL \notin TCB /\ 0 \in Timeout
  BY NullAssumption, TimeoutAssumption DEF SchedInit, Lists, TCB, Timeout, OS_WAIT_INFINITE
<1>2. /\ IsListOf(<<TCBIdle>>, TCB) /\ ToSet(<<TCBIdle>>) = {TCBIdle}
      /\ IsListOf(<<>>, Task) /\ ToSet(<<>>) = {}
  BY <1>1 DEF IsListOf, ToSet
<1>3. ListsOK(Lists)
  BY <1>1, <1>2 DEF ListsOK
<1>4. Placed(Lists, RunningTask, State)
  BY <1>1, <1>2, <1>3 DEF SchedInit, Placed, TaskState
<1>5. Queued(Lists, waitOn, dTimeoutTicks)
  BY <1>1, <1>2 DEF SchedInit, Queued
<1>6. nPrio \in [TCB -> Nat] /\ nReturnCode \in [TCB -> ReturnCode]
  BY PriorityAssumption DEF SchedInit, ReturnCode
<1> QED
  BY <1>4, <1>5, <1>6 DEF SchedInit, SchedInv

LEMMA CreateInv ==
  ASSUME SchedInv, NEW t \in Task, NEW p \in Priority, OS_TaskCreate(t, p)
  PROVE  SchedInv'
<1> DEFINE withNew == [Lists EXCEPT !.ready = TCBFifoAddPrio(@, t, nPrio')]
           state == [State EXCEPT ![t] = "READY"]
<1>1. /\ ListsOK(Lists) /\ State \in [TCB -> TaskState]
      /\ t \in TCB /\ NULL \notin TCB /\ Task \subseteq TCB
      /\ t # RunningTask /\ t \notin ToSet(ReadyList) /\ t \notin ToSet(WaitList)
  BY ListMembers, ListsFields DEF SchedInv, Placed, OS_TaskCreate
<1>2. /\ ListsOK(withNew) /\ withNew.wait = WaitList /\ withNew.fifo = Fifo
      /\ ToSet(withNew.ready) = ToSet(ReadyList) \cup {t}
  BY <1>1, AddTaskToReadyListOK, ListsFields
<1>3. state \in [TCB -> TaskState] /\ \A x \in TCB : state[x] = IF x = t THEN "READY" ELSE State[x]
  BY <1>1 DEF TaskState
<1> HIDE DEF withNew, state
<1>4. Placed(withNew, RunningTask, state)
  BY <1>1, <1>2, <1>3, ListsFields DEF SchedInv, Placed
<1>5. /\ waitOn' = waitOn /\ dTimeoutTicks' = dTimeoutTicks
      /\ nPrio' \in [TCB -> Nat] /\ nReturnCode' \in [TCB -> ReturnCode]
  <2>1. waitOn[t] = NULL /\ dTimeoutTicks[t] = 0
    BY <1>1, ListsFields DEF SchedInv, Queued
  <2> QED
    BY <1>1, <2>1, PriorityAssumption
       DEF SchedInv, Queued, OS_TaskCreate, ReturnCode
<1>6. Queued(withNew, waitOn', dTimeoutTicks')
  BY <1>2, <1>5, QueuedSameLists, ListsFields DEF SchedInv
<1>7. bIsSchedLocked' = bIsSchedLocked
  BY DEF OS_TaskCreate
<1>8. CASE bIsSchedLocked
  <2>1. SetLists(withNew) /\ State' = state /\ RunningTask' = RunningTask
    BY <1>8 DEF OS_TaskCreate, withNew, state
  <2>2. Lists' = [ready |-> withNew.ready, wait |-> withNew.wait, fifo |-> withNew.fifo]
    BY <2>1 DEF SetLists, Lists
  <2>3. Lists' = withNew
    BY <1>2, <2>2 DEF ListsOK
  <2> QED
    BY <1>4, <1>5, <1>6, <1>7, <2>1, <2>3 DEF SchedInv
<1>9. CASE ~bIsSchedLocked
  <2> DEFINE withBoth == [withNew EXCEPT !.ready = TCBFifoAddPrio(@, RunningTask, nPrio')]
             both == [state EXCEPT ![RunningTask] = "READY"]
  <2>1. RunningTask \in TCB
    BY <1>1, <1>9 DEF OS_TaskCreate, Caller
  <2>2. RunningTask \notin ToSet(withNew.ready) /\ RunningTask \notin ToSet(withNew.wait)
    BY <1>4 DEF Placed
  <2>3. /\ ListsOK(withBoth) /\ withBoth.wait = withNew.wait /\ withBoth.fifo = withNew.fifo
        /\ ToSet(withBoth.ready) = ToSet(withNew.ready) \cup {RunningTask}
    BY <1>2, <2>1, <2>2, AddTaskToReadyListOK
  <2>4. both \in [TCB -> TaskState]
        /\ \A x \in TCB : both[x] = IF x = RunningTask THEN "READY" ELSE state[x]
    BY <1>3, <2>1 DEF TaskState
  <2>5. TaskSchedule(withBoth, both)
    BY <1>9 DEF OS_TaskCreate, withNew, state
  <2> HIDE DEF withBoth, both
  <2>6. Placed(withBoth, NULL, both)
    <3>1. NULL \notin ToSet(withBoth.ready) /\ NULL \notin ToSet(withBoth.wait)
      BY <1>1, <2>3, ListMembers
    <3>2. \A x \in TCB : both[x] # "NOT_IN_USE" <=>
                           x = NULL \/ x \in ToSet(withBoth.ready) \/ x \in ToSet(withBoth.wait)
      BY <1>1, <1>4, <2>3, <2>4 DEF Placed
    <3> QED
      BY <1>4, <2>2, <2>3, <2>4, <3>1, <3>2 DEF Placed
  <2>7. /\ RunningTask' \in TCB \cup {NULL}
        /\ Placed(Lists', RunningTask', State')
        /\ Lists'.wait = withNew.wait /\ Lists'.fifo = withNew.fifo
    BY <2>3, <2>5, <2>6, TaskSchedulePlaces
  <2>8. Queued(Lists', waitOn', dTimeoutTicks')
    BY <1>6, <2>7, QueuedSameLists
  <2> QED
    BY <1>5, <1>7, <1>9, <2>7, <2>8 DEF SchedInv
<1> QED
  BY <1>8, <1>9 DEF SchedInv

LEMMA StartInv == ASSUME SchedInv, OS_Start PROVE SchedInv'
<1>1. Placed(Lists, NULL, State) /\ TaskSchedule(Lists, State)
  BY DEF SchedInv, OS_Start
<1>2. /\ RunningTask' \in TCB \cup {NULL} /\ Placed(Lists', RunningTask', State')
      /\ Lists'.wait = Lists.wait /\ Lists'.fifo = Lists.fifo
  BY <1>1, TaskSchedulePlaces
<1>3. Queued(Lists', waitOn', dTimeoutTicks')
  BY <1>2, QueuedSameLists DEF SchedInv, OS_Start
<1> QED
  BY <1>2, <1>3 DEF SchedInv, OS_Start

LEMMA YieldInv == ASSUME SchedInv, OS_TaskYield(RunningTask) PROVE SchedInv'
<1>1. Placed(Lists, RunningTask, State) /\ Reschedule(Lists, State) /\ RunningTask \in TCB
  BY DEF SchedInv, OS_TaskYield
<1>2. /\ RunningTask' \in TCB \cup {NULL} /\ Placed(Lists', RunningTask', State')
      /\ Lists'.wait = Lists.wait /\ Lists'.fifo = Lists.fifo
  BY <1>1, ReschedulePlaces
<1>3. Queued(Lists', waitOn', dTimeoutTicks')
  BY <1>2, QueuedSameLists DEF SchedInv, OS_TaskYield
<1>4. ~bIsSchedLocked
  BY <1>1, ListMembers DEF SchedInv, Placed
<1> QED
  BY <1>2, <1>3, <1>4 DEF SchedInv, OS_TaskYield

\* Who calls an OS function is an application task, and the scheduler runs.
LEMMA CallerRuns ==
  ASSUME SchedInv, NEW t, Caller(t)
  PROVE  t \in Task /\ t \in TCB /\ t = RunningTask /\ ~bIsSchedLocked
  BY NullAssumption DEF SchedInv, Caller, TCB

LEMMA ExitInv == ASSUME SchedInv, OS_TaskExit(RunningTask) PROVE SchedInv'
<1> DEFINE t == RunningTask
           st == [State EXCEPT ![t] = "NOT_IN_USE"]
<1>1. t \in TCB /\ ~bIsSchedLocked /\ TaskSchedule(Lists, st)
  BY CallerRuns DEF OS_TaskExit
<1>2. Placed(Lists, NULL, st)
  <2>1. /\ st \in [TCB -> TaskState]
        /\ \A x \in TCB : st[x] = IF x = t THEN "NOT_IN_USE" ELSE State[x]
    BY <1>1 DEF SchedInv, Placed, TaskState
  <2>2. NULL \notin TCB /\ NULL \notin ToSet(Lists.ready) /\ NULL \notin ToSet(Lists.wait)
    BY ListMembers DEF SchedInv, Placed
  <2> HIDE DEF st
  <2> QED
    BY <2>1, <2>2 DEF SchedInv, Placed
<1>3. /\ RunningTask' \in TCB \cup {NULL} /\ Placed(Lists', RunningTask', State')
      /\ Lists'.wait = Lists.wait /\ Lists'.fifo = Lists.fifo
  BY <1>1, <1>2, TaskSchedulePlaces
<1>4. Queued(Lists', waitOn', dTimeoutTicks')
  BY <1>3, QueuedSameLists DEF SchedInv, OS_TaskExit
<1> QED
  BY <1>1, <1>3, <1>4 DEF SchedInv, OS_TaskExit

LEMMA ChangePriorityInv ==
  ASSUME SchedInv, NEW p \in Priority, OS_TaskChangePriority(RunningTask, p)
  PROVE  SchedInv'
<1>1. Lists' = Lists
  BY DEF OS_TaskChangePriority, Lists
<1>2. nPrio' \in [TCB -> Nat]
  BY PriorityAssumption DEF SchedInv, OS_TaskChangePriority
<1> QED
  BY <1>1, <1>2 DEF SchedInv, OS_TaskChangePriority

LEMMA WakeupInv ==
  ASSUME SchedInv, NEW target \in Task, OS_TaskWakeup(RunningTask, target)
  PROVE  SchedInv'
<1>1. Lists' = Lists
  BY DEF OS_TaskWakeup, Lists
<1>2. Queued(Lists, waitOn, dTimeoutTicks')
  <2>1. 0 \in Timeout /\ dTimeoutTicks \in [TCB -> Timeout]
    BY TimeoutAssumption DEF SchedInv, Queued, Timeout, OS_WAIT_INFINITE
  <2>2. /\ dTimeoutTicks' \in [TCB -> Timeout]
        /\ \A x \in TCB : dTimeoutTicks'[x] = dTimeoutTicks[x] \/ dTimeoutTicks'[x] = 0
    BY <2>1 DEF OS_TaskWakeup, TCB
  <2> QED
    BY <2>2 DEF SchedInv, Queued
<1> QED
  BY <1>1, <1>2 DEF SchedInv, OS_TaskWakeup

LEMMA WaitForObjectInv ==
  ASSUME SchedInv, NEW o \in Object, NEW ticks \in Timeout,
         Caller(RunningTask), WaitForObject(RunningTask, o, ticks)
  PROVE  SchedInv'
<1> DEFINE t == RunningTask
<1>1. t \in Task /\ t \in TCB /\ ~bIsSchedLocked
  BY CallerRuns
<1>2. /\ Placed(BlockLists(t, o), NULL, [State EXCEPT ![t] = "WAITING"])
      /\ Queued(BlockLists(t, o), waitOn', dTimeoutTicks')
  BY <1>1, BlockListsPlaces DEF WaitForObject
<1>3. /\ RunningTask' \in TCB \cup {NULL} /\ Placed(Lists', RunningTask', State')
      /\ Queued(Lists', waitOn', dTimeoutTicks')
  BY <1>2, TaskSchedulePlaces, QueuedSameLists DEF WaitForObject
<1>4. nReturnCode' \in [TCB -> ReturnCode]
  BY DEF SchedInv, WaitForObject, ReturnCode
<1> QED
  BY <1>1, <1>3, <1>4 DEF SchedInv, WaitForObject

LEMMA TimeDlyInv ==
  ASSUME SchedInv, NEW ticks \in Timeout, OS_TimeDly(RunningTask, ticks)
  PROVE  SchedInv'
<1> DEFINE t == RunningTask
<1>1. t \in Task /\ t \in TCB /\ ~bIsSchedLocked
  BY CallerRuns DEF OS_TimeDly
<1>2. waitOn \in [TCB -> Object \cup {NULL}] /\ waitOn[t] = NULL
  BY <1>1 DEF SchedInv, Placed, Queued
<1>3. [waitOn EXCEPT ![t] = NULL] = waitOn'
  BY <1>1, <1>2 DEF OS_TimeDly
<1>4. /\ Placed(BlockLists(t, NULL), NULL, [State EXCEPT ![t] = "WAITING"])
      /\ Queued(BlockLists(t, NULL), [waitOn EXCEPT ![t] = NULL],
                [dTimeoutTicks EXCEPT ![t] = ticks])
  BY <1>1, BlockListsPlaces
<1>5. /\ RunningTask' \in TCB \cup {NULL} /\ Placed(Lists', RunningTask', State')
      /\ Queued(Lists', waitOn', dTimeoutTicks')
  BY <1>3, <1>4, TaskSchedulePlaces, QueuedSameLists DEF OS_TimeDly
<1> QED
  BY <1>1, <1>5 DEF SchedInv, OS_TimeDly

LEMMA HandleWaitListInv == ASSUME SchedInv, HandleWaitList PROVE SchedInv'
<1> DEFINE M == WaitToReadyAll(Lists, WaitList, Expired)
<1>1. /\ ListsOK(Lists) /\ IsListOf(WaitList, Task)
      /\ ToSet(ReadyList) \cap ToSet(WaitList) = {} /\ ToSet(WaitList) \subseteq TCB
  BY ListsFields, ListMembers DEF SchedInv, Placed, ListsOK
<1>2. Expired \subseteq ToSet(WaitList) /\ \A t \in Expired : TicksAfter(t) = 0
  BY DEF Expired
<1>3. Moved(Lists, M, Expired)
  BY <1>1, <1>2, WaitToReadyAllMoves, ListsFields
<1>4. dTimeoutTicks' \in [TCB -> Timeout]
  <2>1. \A t \in TCB : dTimeoutTicks[t] \in Timeout /\ TicksAfter(t) \in Timeout
    <3> TAKE t \in TCB
    <3>1. dTimeoutTicks[t] \in Timeout
      BY DEF SchedInv, Queued
    <3> QED
      BY <3>1, TimeoutAssumption DEF TicksAfter, Timeout, OS_WAIT_INFINITE
  <2> QED
    BY <2>1 DEF HandleWaitList
<1>5. /\ \A t \in Expired : dTimeoutTicks'[t] = 0
      /\ \A t \in TCB \ ToSet(WaitList) : dTimeoutTicks'[t] = dTimeoutTicks[t]
  BY <1>1, <1>2 DEF HandleWaitList
<1>6. SetLists(M) /\ State' = StateAfterWait(Expired) /\ RunningTask' = RunningTask
      /\ waitOn' = [t \in TCB |-> IF t \in Expired THEN NULL ELSE waitOn[t]]
  BY DEF HandleWaitList
<1> HIDE DEF M
<1>7. Lists' = M
  <2>1. Lists' = [ready |-> M.ready, wait |-> M.wait, fifo |-> M.fifo]
    BY <1>6 DEF SetLists, Lists
  <2> QED
    BY <1>3, <2>1 DEF Moved, ListsOK
<1>8. Placed(Lists', RunningTask', State') /\ Queued(Lists', waitOn', dTimeoutTicks')
  BY <1>2, <1>3, <1>4, <1>5, <1>6, <1>7, MovedPlaces
<1>9. nReturnCode' \in [TCB -> ReturnCode]
  BY DEF SchedInv, HandleWaitList, ReturnCode
<1> QED
  BY <1>6, <1>8, <1>9 DEF SchedInv, HandleWaitList

LEMMA SchedNextInv == ASSUME SchedInv, SchedNext PROVE SchedInv'
<1>1. CASE OS_Start
  BY <1>1, StartInv
<1>2. CASE OS_TaskYield(RunningTask)
  BY <1>2, YieldInv
<1>3. CASE OS_TaskExit(RunningTask)
  BY <1>3, ExitInv
<1>4. CASE \E t \in Task, p \in Priority : OS_TaskCreate(t, p)
  BY <1>4, CreateInv
<1>5. CASE \E p \in Priority : OS_TaskChangePriority(RunningTask, p)
  BY <1>5, ChangePriorityInv
<1>6. CASE \E t \in Task : OS_TaskWakeup(RunningTask, t)
  BY <1>6, WakeupInv
<1>7. CASE \E ticks \in Timeout : OS_TimeDly(RunningTask, ticks)
  BY <1>7, TimeDlyInv
<1>8. CASE HandleWaitList
  BY <1>8, HandleWaitListInv
<1> QED
  BY <1>1, <1>2, <1>3, <1>4, <1>5, <1>6, <1>7, <1>8 DEF SchedNext, SchedTaskNext

LEMMA SchedStutterInv == ASSUME SchedInv, UNCHANGED schedVars PROVE SchedInv'
<1>1. Lists' = Lists
  BY DEF schedVars, Lists
<1> QED
  BY <1>1 DEF schedVars, SchedInv

-----------------------------------------------------------------------------
(* What the invariant says in the terms of TctsSched.                        *)

LEMMA SchedInvMeans ==
  ASSUME SchedInv
  PROVE  TypeOK /\ TaskInOnePlace /\ WaiterOnBothLists /\ NoStaleWait
<1>1. TypeOK
  BY ListsFields DEF SchedInv, Placed, Queued, ListsOK, TypeOK
<1>2. TaskInOnePlace
  BY ListsFields DEF SchedInv, Placed, TaskInOnePlace, Places
<1>3. WaiterOnBothLists /\ NoStaleWait
  BY ListsFields DEF SchedInv, Queued, WaiterOnBothLists, NoStaleWait
<1> QED
  BY <1>1, <1>2, <1>3

-----------------------------------------------------------------------------
(* The waiters of an object, and what makes them ready.                      *)

\* The waiters of an object are the tasks whose wait pointer names it.
LEMMA QueuedWaiters ==
  ASSUME NEW L, NEW on, NEW ticks, ListsOK(L), Queued(L, on, ticks), NEW o \in Object
  PROVE  /\ ToSet(L.fifo[o]) = {t \in TCB : on[t] = o}
         /\ L.fifo[o] = <<>> <=> \A t \in TCB : on[t] # o
         /\ {t \in TCB : on[t] = o} \subseteq ToSet(L.wait)
<1>1. ToSet(L.fifo[o]) \subseteq TCB /\ NULL \notin Object
  BY ListMembers, NullAssumption
<1>2. ToSet(L.fifo[o]) = {t \in TCB : on[t] = o} /\ {t \in TCB : on[t] = o} \subseteq ToSet(L.wait)
  BY <1>1 DEF Queued
<1>3. L.fifo[o] = <<>> <=> ToSet(L.fifo[o]) = {}
  BY EmptyList DEF ListsOK
<1> QED
  BY <1>2, <1>3

\* The same in every state of the invariant.
LEMMA ObjectWaiters ==
  ASSUME SchedInv, NEW o \in Object
  PROVE  /\ ToSet(Fifo[o]) = {t \in TCB : waitOn[t] = o}
         /\ Fifo[o] = <<>> <=> \A t \in TCB : waitOn[t] # o
         /\ ToSet(Fifo[o]) \subseteq ToSet(WaitList)
         /\ ToSet(Fifo[o]) \subseteq Task
         /\ IsListOf(Fifo[o], Task)
<1>1. ListsOK(Lists) /\ Queued(Lists, waitOn, dTimeoutTicks)
  BY DEF SchedInv, Placed
<1>2. Lists.fifo[o] = Fifo[o] /\ Lists.wait = WaitList
  BY ListsFields
<1>3. IsListOf(Fifo[o], Task)
  BY <1>1, <1>2 DEF ListsOK
<1>4. /\ ToSet(Lists.fifo[o]) = {t \in TCB : waitOn[t] = o}
      /\ Lists.fifo[o] = <<>> <=> \A t \in TCB : waitOn[t] # o
      /\ {t \in TCB : waitOn[t] = o} \subseteq ToSet(Lists.wait)
  BY <1>1, QueuedWaiters
<1>5. ToSet(Fifo[o]) \subseteq Task
  BY <1>3, EmptyList
<1> QED
  BY <1>2, <1>3, <1>4, <1>5

\* The fields of the tasks that a signal, a reset or a delete makes ready.
LEMMA ClearWaitFields ==
  ASSUME SchedInv, NEW go, NEW c \in ReturnCode, ClearWait(go, [x \in go |-> c])
  PROVE  /\ waitOn' = [t \in TCB |-> IF t \in go THEN NULL ELSE waitOn[t]]
         /\ dTimeoutTicks' \in [TCB -> Timeout]
         /\ \A t \in TCB : dTimeoutTicks'[t] = IF t \in go THEN 0 ELSE dTimeoutTicks[t]
         /\ nReturnCode' \in [TCB -> ReturnCode]
<1>1. dTimeoutTicks \in [TCB -> Timeout] /\ 0 \in Timeout /\ nReturnCode \in [TCB -> ReturnCode]
  BY TimeoutAssumption DEF SchedInv, Queued, Timeout, OS_WAIT_INFINITE
<1> QED
  BY <1>1 DEF ClearWait

\* Waiters made ready from a task that then reschedules, or without a switch.
LEMMA WakeInv ==
  ASSUME SchedInv, NEW go, go \subseteq ToSet(WaitList), NEW M, Moved(Lists, M, go),
         NEW c \in ReturnCode, ClearWait(go, [x \in go |-> c]),
         UNCHANGED <<bIsSchedLocked, nPrio>>,
         \/ RunningTask \in Task /\ Reschedule(M, StateAfterWait(go))
         \/ SetLists(M) /\ State' = StateAfterWait(go) /\ UNCHANGED RunningTask
  PROVE  SchedInv'
<1>1. /\ waitOn' = [t \in TCB |-> IF t \in go THEN NULL ELSE waitOn[t]]
      /\ dTimeoutTicks' \in [TCB -> Timeout]
      /\ \A t \in TCB : dTimeoutTicks'[t] = IF t \in go THEN 0 ELSE dTimeoutTicks[t]
      /\ nReturnCode' \in [TCB -> ReturnCode]
  BY ClearWaitFields
<1>2. ToSet(WaitList) \subseteq TCB
  BY ListMembers, ListsFields DEF SchedInv, Placed
<1>3. Placed(M, RunningTask, StateAfterWait(go)) /\ Queued(M, waitOn', dTimeoutTicks')
  <2>1. \A t \in go : dTimeoutTicks'[t] = 0
    BY <1>1, <1>2
  <2>2. \A t \in TCB \ ToSet(WaitList) : dTimeoutTicks'[t] = dTimeoutTicks[t]
    BY <1>1
  <2> QED
    BY <1>1, <2>1, <2>2, MovedPlaces
<1>4. CASE RunningTask \in Task /\ Reschedule(M, StateAfterWait(go))
  <2>1. RunningTask \in TCB /\ ~bIsSchedLocked
    BY <1>4, NullAssumption DEF SchedInv, TCB
  <2>2. /\ RunningTask' \in TCB \cup {NULL} /\ Placed(Lists', RunningTask', State')
        /\ Lists'.wait = M.wait /\ Lists'.fifo = M.fifo
    BY <1>3, <1>4, <2>1, ReschedulePlaces
  <2>3. Queued(Lists', waitOn', dTimeoutTicks')
    BY <1>3, <2>2, QueuedSameLists
  <2> QED
    BY <1>1, <2>1, <2>2, <2>3 DEF SchedInv
<1>5. CASE SetLists(M) /\ State' = StateAfterWait(go) /\ UNCHANGED RunningTask
  <2>1. Lists' = [ready |-> M.ready, wait |-> M.wait, fifo |-> M.fifo]
    BY <1>5 DEF SetLists, Lists
  <2>2. Lists' = M
    BY <2>1 DEF Moved, ListsOK
  <2> QED
    BY <1>1, <1>3, <1>5, <2>2 DEF SchedInv
<1> QED
  BY <1>4, <1>5

\* What an action of the scheduler may do to a wait: end it with a timeout.
LEMMA SchedStepWaits ==
  ASSUME SchedInv, SchedNext
  PROVE  \A t \in TCB :
           /\ waitOn'[t] = waitOn[t] \/ waitOn'[t] = NULL
           /\ waitOn[t] # NULL /\ waitOn'[t] = NULL => nReturnCode'[t] = "TIMEOUT"
           /\ waitOn[t] # NULL /\ waitOn'[t] # NULL => nReturnCode'[t] = nReturnCode[t]
<1>1. /\ waitOn \in [TCB -> Object \cup {NULL}] /\ nReturnCode \in [TCB -> ReturnCode]
      /\ Task \subseteq TCB
  BY DEF SchedInv, Queued, TCB
<1>2. CASE HandleWaitList
  BY <1>1, <1>2 DEF HandleWaitList
<1>3. CASE \E t \in Task, p \in Priority : OS_TaskCreate(t, p)
  <2>1. PICK t \in Task, p \in Priority : OS_TaskCreate(t, p)
    BY <1>3
  <2>2. waitOn[t] = NULL
    BY <1>1, <2>1, ListsFields DEF SchedInv, Placed, Queued, OS_TaskCreate
  <2> QED
    BY <1>1, <2>1, <2>2 DEF OS_TaskCreate
<1>4. CASE UNCHANGED <<waitOn, nReturnCode>>
  BY <1>1, <1>4
<1> QED
  BY <1>2, <1>3, <1>4
     DEF SchedNext, SchedTaskNext, OS_Start, OS_TaskYield, OS_TaskExit,
         OS_TaskChangePriority, OS_TaskWakeup, OS_TimeDly

-----------------------------------------------------------------------------
(* The order of lists: what each operation on a list does to Ahead.          *)

\* No task is ahead of a more urgent one.
Sorted(s, prio) == \A a, b \in ToSet(s) : Ahead(s, a, b) => prio[a] <= prio[b]

LEMMA AheadIn ==
  ASSUME NEW s, NEW a, NEW b, Ahead(s, a, b)
  PROVE  a \in ToSet(s) /\ b \in ToSet(s)
  BY DEF Ahead, ToSet

\* On a list, what is ahead is ahead of something else, and not behind it too.
LEMMA AheadStrict ==
  ASSUME NEW S, NEW s, IsListOf(s, S), NEW a, NEW b, Ahead(s, a, b)
  PROVE  a # b /\ ~Ahead(s, b, a)
<1>0. s \in Seq(S) /\ Len(s) \in Nat /\ DOMAIN s = 1..Len(s)
  BY DEF IsListOf
<1>1. PICK i \in DOMAIN s, j \in DOMAIN s : i < j /\ s[i] = a /\ s[j] = b
  BY DEF Ahead
<1>2. \A x, y \in DOMAIN s : s[x] = s[y] => x = y
  BY DEF IsListOf
<1> QED
  BY <1>0, <1>1, <1>2 DEF Ahead

LEMMA InsertAtOrder ==
  ASSUME NEW S, NEW s, IsListOf(s, S), NEW e \in S, NEW k \in 1..Len(s) + 1,
         NEW a, NEW b
  PROVE  Ahead(InsertAt(s, k, e), a, b) <=>
           \/ Ahead(s, a, b)
           \/ b = e /\ \E i \in 1..Len(s) : i < k /\ a = s[i]
           \/ a = e /\ \E i \in 1..Len(s) : i >= k /\ b = s[i]
<1> DEFINE n == Len(s)
           r == InsertAt(s, k, e)
<1>0. s \in Seq(S) /\ n \in Nat /\ DOMAIN s = 1..n /\ k \in 1..n + 1 /\ k \in Int
  BY DEF IsListOf
<1>1. /\ DOMAIN r = 1..n + 1
      /\ \A i \in 1..n + 1 : r[i] = IF i < k THEN s[i] ELSE IF i = k THEN e ELSE s[i - 1]
  BY <1>0, InsertAtIs
<1> HIDE DEF n, r
<1> DEFINE place(i) == IF i < k THEN i ELSE i + 1
<1>2. \A i \in 1..n : place(i) \in 1..n + 1 /\ r[place(i)] = s[i]
  <2> TAKE i \in 1..n
  <2>1. CASE i < k
    BY <1>0, <1>1, <2>1
  <2>2. CASE ~(i < k)
    <3>1. i + 1 \in 1..n + 1 /\ ~(i + 1 < k) /\ i + 1 # k /\ (i + 1) - 1 = i
      BY <1>0, <2>2
    <3> QED
      BY <1>1, <2>2, <3>1
  <2> QED
    BY <2>1, <2>2
<1>3. k \in 1..n + 1 /\ r[k] = e
  BY <1>0, <1>1
<1>4. ASSUME Ahead(s, a, b) PROVE Ahead(r, a, b)
  <2>1. PICK i \in 1..n, j \in 1..n : i < j /\ s[i] = a /\ s[j] = b
    BY <1>0, <1>4 DEF Ahead
  <2>2. place(i) < place(j)
    BY <1>0, <2>1
  <2> HIDE DEF place
  <2> QED
    BY <1>1, <1>2, <2>1, <2>2 DEF Ahead
<1>5. ASSUME b = e, NEW i \in 1..n, i < k, a = s[i] PROVE Ahead(r, a, b)
  <2>1. i \in 1..n + 1 /\ r[i] = a
    BY <1>0, <1>1, <1>5
  <2> QED
    BY <1>1, <1>3, <1>5, <2>1 DEF Ahead
<1>6. ASSUME a = e, NEW i \in 1..n, i >= k, b = s[i] PROVE Ahead(r, a, b)
  <2>1. i + 1 \in 1..n + 1 /\ r[i + 1] = b /\ k < i + 1
    <3>1. i + 1 \in 1..n + 1 /\ ~(i + 1 < k) /\ i + 1 # k /\ (i + 1) - 1 = i /\ k < i + 1
      BY <1>0, <1>6
    <3> QED
      BY <1>1, <1>6, <3>1
  <2> QED
    BY <1>1, <1>3, <1>6, <2>1 DEF Ahead
<1>7. ASSUME Ahead(r, a, b)
      PROVE  \/ Ahead(s, a, b)
             \/ b = e /\ \E i \in 1..n : i < k /\ a = s[i]
             \/ a = e /\ \E i \in 1..n : i >= k /\ b = s[i]
  <2>1. PICK i \in 1..n + 1, j \in 1..n + 1 : i < j /\ r[i] = a /\ r[j] = b
    BY <1>1, <1>7 DEF Ahead
  <2>2. CASE j = k
    <3>1. i \in 1..n /\ i < k /\ a = s[i] /\ b = e
      BY <1>0, <1>1, <2>1, <2>2
    <3> QED
      BY <3>1
  <2>3. CASE i = k
    <3>1. j - 1 \in 1..n /\ j - 1 >= k /\ b = s[j - 1] /\ a = e
      BY <1>0, <1>1, <2>1, <2>3
    <3> QED
      BY <3>1
  <2>4. CASE j < k
    <3>1. i \in 1..n /\ j \in 1..n /\ s[i] = a /\ s[j] = b
      BY <1>0, <1>1, <2>1, <2>4
    <3> QED
      BY <1>0, <2>1, <3>1 DEF Ahead
  <2>5. CASE i > k
    <3>1. i - 1 \in 1..n /\ j - 1 \in 1..n /\ i - 1 < j - 1 /\ s[i - 1] = a /\ s[j - 1] = b
      BY <1>0, <1>1, <2>1, <2>5
    <3> QED
      BY <1>0, <3>1 DEF Ahead
  <2>6. CASE i < k /\ j > k
    <3>1. i \in 1..n /\ j - 1 \in 1..n /\ i < j - 1 /\ s[i] = a /\ s[j - 1] = b
      BY <1>0, <1>1, <2>1, <2>6
    <3> QED
      BY <1>0, <3>1 DEF Ahead
  <2> QED
    BY <1>0, <2>2, <2>3, <2>4, <2>5, <2>6
<1> QED
  BY <1>4, <1>5, <1>6, <1>7 DEF n, r

LEMMA RemoveFirstOrder ==
  ASSUME NEW S, NEW s, IsListOf(s, S), NEW t, NEW a, NEW b
  PROVE  Ahead(RemoveFirst(s, t), a, b) <=> Ahead(s, a, b) /\ a # t /\ b # t
<1> DEFINE n == Len(s)
           r == RemoveFirst(s, t)
<1>0. s \in Seq(S) /\ n \in Nat /\ DOMAIN s = 1..n
  BY DEF IsListOf
<1>1. CASE t \notin ToSet(s) /\ r = s
  BY <1>1, AheadIn
<1>2. ASSUME NEW k \in 1..n, s[k] = t, DOMAIN r = 1..n - 1,
             \A i \in 1..n - 1 : r[i] = IF i < k THEN s[i] ELSE s[i + 1]
      PROVE  Ahead(r, a, b) <=> Ahead(s, a, b) /\ a # t /\ b # t
  <2>1. \A i, j \in 1..n : s[i] = s[j] => i = j
    BY <1>0 DEF IsListOf, n
  <2> HIDE DEF r, n
  <2> DEFINE place(i) == IF i < k THEN i ELSE i - 1
             back(i) == IF i < k THEN i ELSE i + 1
  <2>2. ASSUME Ahead(s, a, b), a # t, b # t PROVE Ahead(r, a, b)
    <3>1. PICK i \in 1..n, j \in 1..n : i < j /\ s[i] = a /\ s[j] = b
      BY <1>0, <2>2 DEF Ahead
    <3>2. i # k /\ j # k
      BY <1>2, <2>2, <3>1
    <3>3. /\ place(i) \in 1..n - 1 /\ place(j) \in 1..n - 1 /\ place(i) < place(j)
          /\ r[place(i)] = s[i] /\ r[place(j)] = s[j]
      BY <1>0, <1>2, <3>1, <3>2
    <3> HIDE DEF place
    <3> QED
      BY <1>2, <3>1, <3>3 DEF Ahead
  <2>3. ASSUME Ahead(r, a, b) PROVE Ahead(s, a, b) /\ a # t /\ b # t
    <3>1. PICK i \in 1..n - 1, j \in 1..n - 1 : i < j /\ r[i] = a /\ r[j] = b
      BY <1>2, <2>3 DEF Ahead
    <3>2. /\ back(i) \in 1..n /\ back(j) \in 1..n /\ back(i) < back(j)
          /\ back(i) # k /\ back(j) # k
      BY <1>0, <1>2, <3>1
    <3>3. r[i] = s[back(i)] /\ r[j] = s[back(j)]
      BY <1>2
    <3> HIDE DEF back
    <3>4. s[back(i)] # t /\ s[back(j)] # t
      BY <1>2, <2>1, <3>2
    <3> QED
      BY <1>0, <3>1, <3>2, <3>3, <3>4 DEF Ahead
  <2> QED
    BY <2>2, <2>3
<1> QED
  BY <1>0, <1>1, <1>2, RemoveFirstIs

LEMMA AppendOrder ==
  ASSUME NEW S, NEW s, IsListOf(s, S), NEW t \in S, NEW a, NEW b
  PROVE  Ahead(Append(s, t), a, b) <=> Ahead(s, a, b) \/ (b = t /\ a \in ToSet(s))
<1> DEFINE n == Len(s)
           r == Append(s, t)
<1>0. s \in Seq(S) /\ n \in Nat /\ DOMAIN s = 1..n
  BY DEF IsListOf
<1>1. DOMAIN r = 1..n + 1 /\ r[n + 1] = t /\ \A i \in 1..n : r[i] = s[i]
  BY <1>0
<1>2. a \in ToSet(s) <=> \E i \in 1..n : s[i] = a
  BY <1>0 DEF ToSet
<1> HIDE DEF n, r
<1>3. ASSUME Ahead(r, a, b) PROVE Ahead(s, a, b) \/ (b = t /\ \E i \in 1..n : s[i] = a)
  <2>1. PICK i \in 1..n + 1, j \in 1..n + 1 : i < j /\ r[i] = a /\ r[j] = b
    BY <1>1, <1>3 DEF Ahead
  <2>2. i \in 1..n /\ s[i] = a
    BY <1>0, <1>1, <2>1
  <2>3. CASE j = n + 1
    BY <1>1, <2>1, <2>2, <2>3
  <2>4. CASE j # n + 1
    <3>1. j \in 1..n /\ s[j] = b
      BY <1>0, <1>1, <2>1, <2>4
    <3> QED
      BY <1>0, <2>1, <2>2, <3>1 DEF Ahead
  <2> QED
    BY <2>3, <2>4
<1>4. ASSUME Ahead(s, a, b) PROVE Ahead(r, a, b)
  <2>1. PICK i \in 1..n, j \in 1..n : i < j /\ s[i] = a /\ s[j] = b
    BY <1>0, <1>4 DEF Ahead
  <2>2. i \in 1..n + 1 /\ j \in 1..n + 1 /\ r[i] = a /\ r[j] = b
    BY <1>0, <1>1, <2>1
  <2> QED
    BY <1>1, <2>1, <2>2 DEF Ahead
<1>5. ASSUME b = t, NEW i \in 1..n, s[i] = a PROVE Ahead(r, a, b)
  <2>1. i \in 1..n + 1 /\ n + 1 \in 1..n + 1 /\ i < n + 1 /\ r[i] = a
    BY <1>0, <1>1, <1>5
  <2> QED
    BY <1>1, <1>5, <2>1 DEF Ahead
<1> QED
  BY <1>2, <1>3, <1>4, <1>5 DEF r

LEMMA HeadTailOrder ==
  ASSUME NEW S, NEW s, IsListOf(s, S), s # <<>>, NEW a, NEW b
  PROVE  /\ Ahead(Tail(s), a, b) <=> Ahead(s, a, b) /\ a # Head(s)
         /\ b \in ToSet(Tail(s)) => Ahead(s, Head(s), b)
<1> DEFINE n == Len(s)
           r == Tail(s)
<1>0. s \in Seq(S) /\ n \in Nat \ {0} /\ DOMAIN s = 1..n
  BY DEF IsListOf
<1>1. DOMAIN r = 1..n - 1 /\ \A i \in 1..n - 1 : r[i] = s[i + 1]
  BY <1>0
<1>2. Head(s) = s[1] /\ 1 \in 1..n
  BY <1>0
<1>3. \A i, j \in 1..n : s[i] = s[j] => i = j
  BY <1>0 DEF IsListOf
<1> HIDE DEF n, r
<1>4. ASSUME Ahead(s, a, b), a # s[1] PROVE Ahead(r, a, b)
  <2>1. PICK i \in 1..n, j \in 1..n : i < j /\ s[i] = a /\ s[j] = b
    BY <1>0, <1>4 DEF Ahead
  <2>2. i # 1
    BY <1>4, <2>1
  <2>3. /\ i - 1 \in 1..n - 1 /\ j - 1 \in 1..n - 1 /\ i - 1 < j - 1
        /\ r[i - 1] = a /\ r[j - 1] = b
    BY <1>0, <1>1, <2>1, <2>2
  <2> QED
    BY <1>1, <2>3 DEF Ahead
<1>5. ASSUME Ahead(r, a, b) PROVE Ahead(s, a, b) /\ a # s[1]
  <2>1. PICK i \in 1..n - 1, j \in 1..n - 1 : i < j /\ r[i] = a /\ r[j] = b
    BY <1>1, <1>5 DEF Ahead
  <2>2. /\ i + 1 \in 1..n /\ j + 1 \in 1..n /\ i + 1 < j + 1 /\ i + 1 # 1
        /\ s[i + 1] = a /\ s[j + 1] = b
    BY <1>0, <1>1, <2>1
  <2> QED
    BY <1>0, <1>2, <1>3, <2>2 DEF Ahead
<1>6. ASSUME b \in ToSet(r) PROVE Ahead(s, s[1], b)
  <2>1. PICK i \in 1..n - 1 : r[i] = b
    BY <1>1, <1>6 DEF ToSet
  <2>2. i + 1 \in 1..n /\ 1 < i + 1 /\ s[i + 1] = b
    BY <1>0, <1>1, <2>1
  <2> QED
    BY <1>0, <1>2, <2>2 DEF Ahead
<1> QED
  BY <1>2, <1>4, <1>5, <1>6 DEF r

\* Where TCBFifoAddPrio puts t: behind everybody who is at least as urgent.
LEMMA TCBFifoAddPrioOrder ==
  ASSUME NEW S, NEW s, IsListOf(s, S), NEW t \in S, t \notin ToSet(s), NEW prio,
         \A x \in S : prio[x] \in Nat
  PROVE  LET r == TCBFifoAddPrio(s, t, prio)
         IN  /\ \A a, b \in ToSet(s) : Ahead(r, a, b) <=> Ahead(s, a, b)
             /\ \A a \in ToSet(s) : prio[a] <= prio[t] => Ahead(r, a, t)
             /\ Sorted(s, prio) => Sorted(r, prio)
<1> DEFINE n == Len(s)
           r == TCBFifoAddPrio(s, t, prio)
<1>0. s \in Seq(S) /\ n \in Nat /\ DOMAIN s = 1..n
  BY DEF IsListOf
<1>1. PICK k \in 0..n :
        /\ r = InsertAt(s, 1 + k, t)
        /\ k > 0 => prio[s[k]] <= prio[t]
        /\ \A i \in 1..n : i > k => ~(prio[s[i]] <= prio[t])
  BY <1>0, TCBFifoAddPrioIs
<1>2. \A a, b : Ahead(r, a, b) <=>
        \/ Ahead(s, a, b)
        \/ b = t /\ \E i \in 1..n : i < 1 + k /\ a = s[i]
        \/ a = t /\ \E i \in 1..n : i >= 1 + k /\ b = s[i]
  <2>1. 1 + k \in 1..n + 1
    BY <1>0, <1>1
  <2> QED
    BY <1>1, <2>1, InsertAtOrder
<1>3. ToSet(r) = ToSet(s) \cup {t}
  BY TCBFifoAddPrioList
<1> HIDE DEF n, r
<1>4. \A a, b \in ToSet(s) : Ahead(r, a, b) <=> Ahead(s, a, b)
  BY <1>2
<1>5. \A i \in 1..n : s[i] \in S /\ s[i] \in ToSet(s) /\ prio[s[i]] \in Nat
  BY <1>0 DEF ToSet
<1>6. \A a \in ToSet(s) : prio[a] <= prio[t] => Ahead(r, a, t)
  <2> TAKE a \in ToSet(s)
  <2> HAVE prio[a] <= prio[t]
  <2>1. PICK i \in 1..n : s[i] = a
    BY <1>0 DEF ToSet
  <2>2. ~(i > k)
    BY <1>1, <2>1
  <2>3. i < 1 + k
    BY <1>0, <1>1, <2>2
  <2> QED
    BY <1>2, <2>1, <2>3
<1>7. ASSUME Sorted(s, prio) PROVE Sorted(r, prio)
  <2>1. \A i \in 1..n : i < 1 + k => prio[s[i]] <= prio[t]
    <3> TAKE i \in 1..n
    <3> HAVE i < 1 + k
    <3>1. k > 0 /\ i <= k /\ k \in 1..n
      BY <1>0, <1>1
    <3>2. CASE i = k
      BY <1>1, <3>1, <3>2
    <3>3. CASE i < k
      <4>1. Ahead(s, s[i], s[k])
        BY <1>0, <3>1, <3>3 DEF Ahead
      <4>2. prio[s[i]] <= prio[s[k]]
        BY <1>5, <1>7, <3>1, <4>1 DEF Sorted
      <4> QED
        BY <1>1, <1>5, <3>1, <4>2
    <3> QED
      BY <3>1, <3>2, <3>3
  <2>2. \A i \in 1..n : i >= 1 + k => prio[t] <= prio[s[i]]
    BY <1>0, <1>1, <1>5
  <2>3. \A a, b : Ahead(s, a, b) => prio[a] <= prio[b]
    BY <1>7, AheadIn DEF Sorted
  <2> QED
    BY <1>2, <2>1, <2>2, <2>3 DEF Sorted
<1> QED
  BY <1>4, <1>6, <1>7 DEF r

\* q comes from s: who is on both keeps its place among the others, who is new
\* is behind those that are at least as urgent, and q is sorted if s is.
OrderKept(s, q, prio) ==
  /\ \A a, b \in ToSet(q) : Ahead(s, a, b) => Ahead(q, a, b)
  /\ \A a \in ToSet(s) \cap ToSet(q), b \in ToSet(q) \ ToSet(s) :
       prio[a] <= prio[b] => Ahead(q, a, b)
  /\ Sorted(s, prio) => Sorted(q, prio)

\* q has no order that s has not.
Trimmed(s, q) == \A a, b \in ToSet(q) : Ahead(q, a, b) => Ahead(s, a, b)

LEMMA OrderKeptSelf == ASSUME NEW s, NEW prio PROVE OrderKept(s, s, prio)
  BY DEF OrderKept

LEMMA OrderKeptAdd ==
  ASSUME NEW S, NEW s, IsListOf(s, S), NEW t \in S, t \notin ToSet(s), NEW prio,
         \A x \in S : prio[x] \in Nat
  PROVE  OrderKept(s, TCBFifoAddPrio(s, t, prio), prio)
<1> DEFINE r == TCBFifoAddPrio(s, t, prio)
<1>1. ToSet(r) = ToSet(s) \cup {t}
  BY TCBFifoAddPrioList
<1>2. /\ \A a, b \in ToSet(s) : Ahead(r, a, b) <=> Ahead(s, a, b)
      /\ \A a \in ToSet(s) : prio[a] <= prio[t] => Ahead(r, a, t)
      /\ Sorted(s, prio) => Sorted(r, prio)
  BY TCBFifoAddPrioOrder
<1> HIDE DEF r
<1>3. \A a, b : Ahead(s, a, b) => a \in ToSet(s) /\ b \in ToSet(s)
  BY AheadIn
<1> QED
  BY <1>1, <1>2, <1>3 DEF OrderKept, r

LEMMA OrderKeptRemove ==
  ASSUME NEW S, NEW s, IsListOf(s, S), NEW t, NEW prio
  PROVE  /\ OrderKept(s, RemoveFirst(s, t), prio)
         /\ Trimmed(s, RemoveFirst(s, t))
<1> DEFINE r == RemoveFirst(s, t)
<1>1. ToSet(r) = ToSet(s) \ {t}
  BY RemoveFirstList
<1>2. \A a, b : Ahead(r, a, b) <=> Ahead(s, a, b) /\ a # t /\ b # t
  BY RemoveFirstOrder
<1> HIDE DEF r
<1> QED
  BY <1>1, <1>2 DEF OrderKept, Trimmed, Sorted, r

LEMMA OrderKeptTail ==
  ASSUME NEW S, NEW s, IsListOf(s, S), s # <<>>, NEW prio
  PROVE  OrderKept(s, Tail(s), prio)
<1> DEFINE r == Tail(s)
<1>1. ToSet(r) = ToSet(s) \ {Head(s)}
  BY HeadTailList
<1>2. \A a, b : Ahead(r, a, b) <=> Ahead(s, a, b) /\ a # Head(s)
  BY HeadTailOrder
<1> HIDE DEF r
<1> QED
  BY <1>1, <1>2 DEF OrderKept, Sorted, r

LEMMA OrderKeptTwice ==
  ASSUME NEW s, NEW q, NEW r, NEW prio, OrderKept(s, q, prio), OrderKept(q, r, prio),
         ToSet(s) \cap ToSet(r) \subseteq ToSet(q)
  PROVE  OrderKept(s, r, prio)
<1>1. \A a, b \in ToSet(r) : Ahead(s, a, b) => Ahead(r, a, b)
  <2> TAKE a, b \in ToSet(r)
  <2> HAVE Ahead(s, a, b)
  <2>1. a \in ToSet(q) /\ b \in ToSet(q)
    BY AheadIn
  <2> QED
    BY <2>1 DEF OrderKept
<1>2. \A a \in ToSet(s) \cap ToSet(r), b \in ToSet(r) \ ToSet(s) :
        prio[a] <= prio[b] => Ahead(r, a, b)
  BY DEF OrderKept
<1>3. Sorted(s, prio) => Sorted(r, prio)
  BY DEF OrderKept
<1> QED
  BY <1>1, <1>2, <1>3 DEF OrderKept

-----------------------------------------------------------------------------
(* The order of the lists when tasks become ready.                           *)

InOrder(L, M, prio) ==
  /\ OrderKept(L.ready, M.ready, prio)
  /\ Trimmed(L.wait, M.wait)
  /\ \A o \in Object : OrderKept(L.fifo[o], M.fifo[o], prio)

LEMMA InOrderTwice ==
  ASSUME NEW L, NEW M, NEW N, NEW A, NEW B, NEW prio, Moved(L, M, A), Moved(M, N, B),
         InOrder(L, M, prio), InOrder(M, N, prio)
  PROVE  InOrder(L, N, prio)
<1>1. OrderKept(L.ready, N.ready, prio)
  <2>1. ToSet(L.ready) \cap ToSet(N.ready) \subseteq ToSet(M.ready)
    BY DEF Moved
  <2> QED
    BY <2>1, OrderKeptTwice DEF InOrder
<1>2. Trimmed(L.wait, N.wait)
  BY DEF Moved, InOrder, Trimmed
<1>3. ASSUME NEW o \in Object PROVE OrderKept(L.fifo[o], N.fifo[o], prio)
  <2>1. ToSet(L.fifo[o]) \cap ToSet(N.fifo[o]) \subseteq ToSet(M.fifo[o])
    BY DEF Moved
  <2>2. OrderKept(L.fifo[o], M.fifo[o], prio) /\ OrderKept(M.fifo[o], N.fifo[o], prio)
    BY DEF InOrder
  <2> QED
    BY <2>1, <2>2, OrderKeptTwice
<1> QED
  BY <1>1, <1>2, <1>3 DEF InOrder

LEMMA WaitToReadyOrder ==
  ASSUME NEW L, ListsOK(L), NEW t \in Task, t \notin ToSet(L.ready), nPrio \in [TCB -> Nat]
  PROVE  InOrder(L, WaitToReady(L, t), nPrio)
<1> DEFINE w == WaitListRemove(L.wait, t)
           f == [o \in Object |-> IF o = waitOn[t] THEN TCBFifoRemoveMiddle(L.fifo[o], t)
                                  ELSE L.fifo[o]]
           r == TCBFifoAddPrio(L.ready, t, nPrio)
           M == WaitToReady(L, t)
<1>1. M.ready = r /\ M.wait = w /\ M.fifo = f
  BY DEF WaitToReady, AddTaskToReadyList
<1>2. OrderKept(L.ready, r, nPrio)
  <2>1. t \in TCB /\ IsListOf(L.ready, TCB) /\ \A x \in TCB : nPrio[x] \in Nat
    BY DEF TCB, ListsOK
  <2> QED
    BY <2>1, OrderKeptAdd
<1>3. Trimmed(L.wait, w)
  BY OrderKeptRemove DEF WaitListRemove, ListsOK
<1>4. ASSUME NEW o \in Object PROVE OrderKept(L.fifo[o], f[o], nPrio)
  <2>1. CASE o = waitOn[t]
    <3>1. IsListOf(L.fifo[o], Task)
      BY DEF ListsOK
    <3>2. OrderKept(L.fifo[o], TCBFifoRemoveMiddle(L.fifo[o], t), nPrio)
      BY <3>1, OrderKeptRemove DEF TCBFifoRemoveMiddle
    <3> QED
      BY <2>1, <3>2
  <2>2. CASE o # waitOn[t]
    BY <2>2, OrderKeptSelf
  <2> QED
    BY <2>1, <2>2
<1> HIDE DEF r, w, f, M
<1> QED
  BY <1>1, <1>2, <1>3, <1>4 DEF InOrder, M

\* After i steps of a pass the tasks of the walk that became ready are on the
\* ReadyList in the order of the walk, unless the later one is more urgent.
WalkOrder(L, walk, go, i) ==
  \A j, k \in 1..i :
    j < k /\ walk[j] \in go /\ walk[k] \in go /\ nPrio[walk[j]] <= nPrio[walk[k]]
      => Ahead(L.ready, walk[j], walk[k])

LEMMA PassOrder ==
  ASSUME NEW L, ListsOK(L), NEW walk, IsListOf(walk, Task), NEW go,
         go \cap ToSet(L.ready) = {}, NEW f, IsPass(f, L, walk, go),
         nPrio \in [TCB -> Nat], NEW n \in 0..Len(walk)
  PROVE  InOrder(L, f[n], nPrio) /\ WalkOrder(f[n], walk, go, n)
<1>0. walk \in Seq(Task) /\ Len(walk) \in Nat /\ DOMAIN walk = 1..Len(walk)
  BY DEF IsListOf
<1>1. f[0] = L /\ \A i \in 1..Len(walk) : f[i] = PassStep(f[i - 1], walk[i], go)
  BY <1>0 DEF IsPass
<1> DEFINE Fine(i) == InOrder(L, f[i], nPrio) /\ WalkOrder(f[i], walk, go, i)
           Bad == {i \in 0..Len(walk) : ~Fine(i)}
<1>2. Bad = {}
  <2> SUFFICES ASSUME Bad # {} PROVE FALSE
    OBVIOUS
  <2>0. \A i : i \in Bad <=> i \in 0..Len(walk) /\ ~Fine(i)
    OBVIOUS
  <2>1. PICK i \in Bad : \A y \in Bad : i <= y
    <3>1. Bad \subseteq Nat
      BY <2>0, <1>0
    <3> HIDE DEF Bad
    <3> QED
      BY <3>1, NatSetMin
  <2> HIDE DEF Bad, Fine
  <2>2. i \in 0..Len(walk) /\ ~Fine(i)
    BY <2>0, <2>1
  <2>3. CASE i = 0
    <3>1. InOrder(L, L, nPrio)
      BY OrderKeptSelf DEF InOrder, Trimmed
    <3>2. WalkOrder(L, walk, go, 0)
      BY DEF WalkOrder
    <3> QED
      BY <1>1, <2>2, <2>3, <3>1, <3>2 DEF Fine
  <2>4. CASE i # 0
    <3> DEFINE M == f[i - 1]
               N == f[i]
               t == walk[i]
    <3>1. i \in 1..Len(walk) /\ i - 1 \in 0..Len(walk) /\ ~(i <= i - 1) /\ i \in Nat
      BY <1>0, <2>2, <2>4
    <3>2. InOrder(L, M, nPrio) /\ WalkOrder(M, walk, go, i - 1)
      BY <2>0, <2>1, <3>1 DEF Fine
    <3>3. Moved(L, M, PassDone(walk, go, i - 1))
      BY <3>1, PassMoves
    <3>4. N = PassStep(M, t, go)
      BY <1>1, <3>1
    <3>5. t \in Task /\ \A j \in 1..i - 1 : walk[j] # t
      BY <1>0, <3>1 DEF IsListOf
    <3> HIDE DEF M, N, t
    <3>6. CASE t \notin go
      <4>1. N = M
        BY <3>4, <3>6 DEF PassStep
      <4>2. WalkOrder(M, walk, go, i)
        <5>1. \A j \in 1..i : j \in 1..i - 1 \/ j = i
          BY <3>1
        <5> QED
          BY <3>2, <3>6, <5>1 DEF WalkOrder, t
      <4> QED
        BY <2>2, <3>2, <4>1, <4>2 DEF Fine, N
    <3>7. CASE t \in go
      <4>1. N = WaitToReady(M, t)
        BY <3>4, <3>7 DEF PassStep
      <4>2. t \notin PassDone(walk, go, i - 1)
        BY <3>5 DEF PassDone
      <4>3. ListsOK(M) /\ t \notin ToSet(M.ready)
        BY <3>3, <3>7, <4>2 DEF Moved
      <4>4. Moved(M, N, {t}) /\ InOrder(M, N, nPrio)
        BY <3>5, <4>1, <4>3, WaitToReadyMoves, WaitToReadyOrder
      <4>5. InOrder(L, N, nPrio)
        BY <3>2, <3>3, <4>4, InOrderTwice
      <4>6. \A j \in 1..i - 1 : walk[j] \in go => walk[j] \in ToSet(M.ready)
        BY <3>3 DEF Moved, PassDone
      <4>7. WalkOrder(N, walk, go, i)
        <5> SUFFICES ASSUME NEW j \in 1..i, NEW k \in 1..i, j < k, walk[j] \in go,
                            walk[k] \in go, nPrio[walk[j]] <= nPrio[walk[k]]
                     PROVE  Ahead(N.ready, walk[j], walk[k])
          BY DEF WalkOrder
        <5>1. j \in 1..i - 1
          BY <3>1
        <5>2. ToSet(N.ready) = ToSet(M.ready) \cup {t} /\ OrderKept(M.ready, N.ready, nPrio)
          BY <4>4 DEF Moved, InOrder
        <5>3. CASE k = i
          <6>1. walk[k] = t /\ walk[j] \in ToSet(M.ready)
            BY <4>6, <5>1, <5>3 DEF t
          <6> QED
            BY <4>3, <5>2, <6>1 DEF OrderKept
        <5>4. CASE k # i
          <6>1. k \in 1..i - 1
            BY <3>1, <5>4
          <6>2. Ahead(M.ready, walk[j], walk[k])
            BY <3>2, <5>1, <6>1 DEF WalkOrder
          <6>3. walk[j] \in ToSet(N.ready) /\ walk[k] \in ToSet(N.ready)
            BY <4>6, <5>1, <5>2, <6>1
          <6> QED
            BY <5>2, <6>2, <6>3 DEF OrderKept
        <5> QED
          BY <5>3, <5>4
      <4> QED
        BY <2>2, <4>5, <4>7 DEF Fine, N
    <3> QED
      BY <3>6, <3>7
  <2> QED
    BY <2>3, <2>4
<1> HIDE DEF Fine
<1>3. Fine(n)
  BY <1>2
<1> QED
  BY <1>3 DEF Fine

\* A whole pass: whoever was on the ReadyList keeps its place, and the tasks that
\* become ready keep the order of the walk unless the later one is more urgent.
LEMMA WaitToReadyAllOrder ==
  ASSUME NEW L, ListsOK(L), NEW walk, IsListOf(walk, Task), NEW go,
         go \subseteq ToSet(walk), go \cap ToSet(L.ready) = {}, nPrio \in [TCB -> Nat]
  PROVE  /\ InOrder(L, WaitToReadyAll(L, walk, go), nPrio)
         /\ \A a, b \in go : Ahead(walk, a, b) /\ nPrio[a] <= nPrio[b]
                               => Ahead(WaitToReadyAll(L, walk, go).ready, a, b)
<1>0. walk \in Seq(Task) /\ Len(walk) \in Nat /\ DOMAIN walk = 1..Len(walk)
  BY DEF IsListOf
<1>1. PICK f : /\ IsPass(f, L, walk, go)
               /\ WaitToReadyAll(L, walk, go) = f[Len(walk)]
  BY <1>0, WaitToReadyAllRec
<1>2. Len(walk) \in 0..Len(walk)
  BY <1>0
<1>3. InOrder(L, f[Len(walk)], nPrio) /\ WalkOrder(f[Len(walk)], walk, go, Len(walk))
  BY <1>1, <1>2, PassOrder
<1>4. ASSUME NEW a \in go, NEW b \in go, Ahead(walk, a, b), nPrio[a] <= nPrio[b]
      PROVE  Ahead(f[Len(walk)].ready, a, b)
  <2>1. PICK j \in 1..Len(walk), k \in 1..Len(walk) : j < k /\ walk[j] = a /\ walk[k] = b
    BY <1>0, <1>4 DEF Ahead
  <2> QED
    BY <1>3, <1>4, <2>1 DEF WalkOrder
<1> QED
  BY <1>1, <1>3, <1>4

-----------------------------------------------------------------------------
(* The order invariant: the ReadyList and the FIFOs are sorted by priority,  *)
(* and waiters of equal priority are on a FIFO in the order in which they    *)
(* are on the WaitList.  The last part is what lets a reset, which walks the *)
(* FIFO, end waits in the order in which they began.                         *)

WaitOrder(w, q, prio) ==
  \A a, b \in ToSet(q) : prio[a] = prio[b] /\ Ahead(w, a, b) => Ahead(q, a, b)

SortedLists(L, prio) ==
  /\ Sorted(L.ready, prio)
  /\ \A o \in Object : Sorted(L.fifo[o], prio) /\ WaitOrder(L.wait, L.fifo[o], prio)

OrderInv == SortedLists(Lists, nPrio)

\* What a step may do to the lists: keep the order, and put tasks whose waits
\* end together on the ReadyList in the order in which they waited.
Orderly(L, M, prio) ==
  /\ OrderKept(L.ready, M.ready, prio)
  /\ \A o \in Object : OrderKept(L.fifo[o], M.fifo[o], prio)
  /\ \A o \in Object :
       WaitOrder(L.wait, L.fifo[o], prio) => WaitOrder(M.wait, M.fifo[o], prio)
  /\ \A a, b \in ToSet(L.wait) \cap ToSet(M.ready) :
       Ahead(L.wait, a, b) /\ prio[a] = prio[b] => Ahead(M.ready, a, b)

LEMMA OrderlySorts ==
  ASSUME NEW L, NEW M, NEW prio, Orderly(L, M, prio), SortedLists(L, prio)
  PROVE  SortedLists(M, prio)
  BY DEF Orderly, SortedLists, OrderKept

LEMMA OrderlySelf ==
  ASSUME NEW L, NEW prio, ToSet(L.ready) \cap ToSet(L.wait) = {}
  PROVE  Orderly(L, L, prio)
  BY OrderKeptSelf DEF Orderly

\* The ReadyList of M loses or gets a task that did not wait.
LEMMA OrderlyReady ==
  ASSUME NEW L, NEW M, NEW N, NEW prio, Orderly(L, M, prio),
         OrderKept(M.ready, N.ready, prio), N.wait = M.wait, N.fifo = M.fifo,
         (ToSet(L.ready) \cup ToSet(L.wait)) \cap ToSet(N.ready) \subseteq ToSet(M.ready)
  PROVE  Orderly(L, N, prio)
<1>1. OrderKept(L.ready, N.ready, prio)
  BY OrderKeptTwice DEF Orderly
<1>2. ASSUME NEW a \in ToSet(L.wait) \cap ToSet(N.ready), NEW b \in ToSet(L.wait) \cap ToSet(N.ready),
             Ahead(L.wait, a, b), prio[a] = prio[b]
      PROVE  Ahead(N.ready, a, b)
  <2>1. Ahead(M.ready, a, b)
    BY <1>2 DEF Orderly
  <2> QED
    BY <1>2, <2>1 DEF OrderKept
<1> QED
  BY <1>1, <1>2 DEF Orderly

LEMMA OrderlyAdd ==
  ASSUME NEW L, NEW M, ListsOK(M), NEW prio, Orderly(L, M, prio), NEW t \in TCB,
         t \notin ToSet(L.ready), t \notin ToSet(L.wait), t \notin ToSet(M.ready),
         \A x \in TCB : prio[x] \in Nat
  PROVE  Orderly(L, [M EXCEPT !.ready = TCBFifoAddPrio(@, t, prio)], prio)
<1> DEFINE N == [M EXCEPT !.ready = TCBFifoAddPrio(@, t, prio)]
           r == TCBFifoAddPrio(M.ready, t, prio)
<1>1. N.ready = r /\ N.wait = M.wait /\ N.fifo = M.fifo
  BY DEF ListsOK
<1>2. IsListOf(M.ready, TCB)
  BY DEF ListsOK
<1>3. OrderKept(M.ready, r, prio)
  BY <1>2, OrderKeptAdd
<1>4. ToSet(r) = ToSet(M.ready) \cup {t}
  BY <1>2, TCBFifoAddPrioList
<1> HIDE DEF N, r
<1>5. Orderly(L, N, prio)
  BY <1>1, <1>3, <1>4, OrderlyReady
<1> QED
  BY <1>5 DEF N

\* A set of waiting tasks becomes ready.
LEMMA OrderlyMoved ==
  ASSUME NEW L, NEW M, NEW go, NEW prio, Moved(L, M, go), InOrder(L, M, prio),
         ToSet(L.ready) \cap ToSet(L.wait) = {},
         \A a, b \in go : Ahead(L.wait, a, b) /\ prio[a] = prio[b] => Ahead(M.ready, a, b)
  PROVE  Orderly(L, M, prio)
<1>1. OrderKept(L.ready, M.ready, prio) /\ \A o \in Object : OrderKept(L.fifo[o], M.fifo[o], prio)
  BY DEF InOrder
<1>2. ASSUME NEW o \in Object, WaitOrder(L.wait, L.fifo[o], prio)
      PROVE  WaitOrder(M.wait, M.fifo[o], prio)
  <2> SUFFICES ASSUME NEW a \in ToSet(M.fifo[o]), NEW b \in ToSet(M.fifo[o]),
                      prio[a] = prio[b], Ahead(M.wait, a, b)
               PROVE  Ahead(M.fifo[o], a, b)
    BY DEF WaitOrder
  <2>1. a \in ToSet(L.fifo[o]) /\ b \in ToSet(L.fifo[o])
    BY DEF Moved
  <2>2. Ahead(L.wait, a, b)
    BY AheadIn DEF InOrder, Trimmed
  <2>3. Ahead(L.fifo[o], a, b)
    BY <1>2, <2>1, <2>2 DEF WaitOrder
  <2> QED
    BY <1>1, <2>3 DEF OrderKept
<1>3. ToSet(L.wait) \cap ToSet(M.ready) \subseteq go
  BY DEF Moved
<1> QED
  BY <1>1, <1>2, <1>3 DEF Orderly

\* Two tasks are needed for an order.
LEMMA OrderlyMovedOne ==
  ASSUME NEW L, ListsOK(L), NEW t \in Task, t \notin ToSet(L.ready), nPrio \in [TCB -> Nat],
         ToSet(L.ready) \cap ToSet(L.wait) = {}
  PROVE  Orderly(L, WaitToReady(L, t), nPrio)
<1> DEFINE M == WaitToReady(L, t)
<1>1. Moved(L, M, {t}) /\ InOrder(L, M, nPrio)
  BY WaitToReadyMoves, WaitToReadyOrder
<1>2. ~Ahead(L.wait, t, t)
  BY AheadStrict DEF ListsOK
<1> HIDE DEF M
<1>3. \A a, b \in {t} : Ahead(L.wait, a, b) /\ nPrio[a] = nPrio[b] => Ahead(M.ready, a, b)
  BY <1>2
<1>4. Orderly(L, M, nPrio)
  BY <1>1, <1>3, OrderlyMoved
<1> QED
  BY <1>4 DEF M

\* A pass over the WaitList, or over a FIFO that is in wait order.
LEMMA OrderlyMovedAll ==
  ASSUME NEW L, ListsOK(L), NEW walk, IsListOf(walk, Task), NEW go, go \subseteq ToSet(walk),
         ToSet(walk) \subseteq ToSet(L.wait), ToSet(L.ready) \cap ToSet(L.wait) = {},
         WaitOrder(L.wait, walk, nPrio), nPrio \in [TCB -> Nat]
  PROVE  Orderly(L, WaitToReadyAll(L, walk, go), nPrio)
<1> DEFINE M == WaitToReadyAll(L, walk, go)
<1>1. go \cap ToSet(L.ready) = {}
  OBVIOUS
<1>2. Moved(L, M, go) /\ InOrder(L, M, nPrio)
  BY <1>1, WaitToReadyAllMoves, WaitToReadyAllOrder
<1>3. \A a, b \in go : Ahead(walk, a, b) /\ nPrio[a] <= nPrio[b] => Ahead(M.ready, a, b)
  BY <1>1, WaitToReadyAllOrder
<1> HIDE DEF M
<1>4. ASSUME NEW a \in go, NEW b \in go, Ahead(L.wait, a, b), nPrio[a] = nPrio[b]
      PROVE  Ahead(M.ready, a, b)
  <2>1. Ahead(walk, a, b)
    BY <1>4 DEF WaitOrder
  <2>2. a \in TCB /\ nPrio[a] \in Nat
    BY ListMembers
  <2>3. nPrio[a] <= nPrio[b]
    BY <1>4, <2>2
  <2> QED
    BY <1>3, <2>1, <2>3
<1>5. Orderly(L, M, nPrio)
  BY <1>2, <1>4, OrderlyMoved
<1> QED
  BY <1>5 DEF M

\* The running task blocks: it is behind everybody on the WaitList, and on the
\* FIFO behind everybody of its priority.
LEMMA OrderlyBlock ==
  ASSUME SchedInv, NEW t \in Task, t = RunningTask, NEW o \in Object \cup {NULL}
  PROVE  Orderly(Lists, BlockLists(t, o), nPrio)
<1> DEFINE w == AddTaskToWaitList(WaitList, t)
           f == IF o = NULL THEN Fifo ELSE [Fifo EXCEPT ![o] = TCBFifoAddPrio(@, t, nPrio)]
           M == BlockLists(t, o)
<1>1. /\ IsListOf(WaitList, Task) /\ Fifo \in [Object -> Seq(Task)]
      /\ \A x \in Object : IsListOf(Fifo[x], Task) /\ ToSet(Fifo[x]) \subseteq ToSet(WaitList)
  BY ListsFields, ObjectWaiters DEF SchedInv, Placed, ListsOK
<1>2. /\ t \notin ToSet(WaitList) /\ ToSet(ReadyList) \cap ToSet(WaitList) = {}
      /\ \A x \in Task : nPrio[x] \in Nat
  BY ListsFields DEF SchedInv, Placed, TCB
<1>3. M.ready = ReadyList /\ M.wait = w /\ M.fifo = f
  BY DEF BlockLists
<1>4. \A a, b : Ahead(w, a, b) <=> Ahead(WaitList, a, b) \/ (b = t /\ a \in ToSet(WaitList))
  BY <1>1, AppendOrder DEF AddTaskToWaitList
<1>5. ASSUME NEW x \in Object
      PROVE  /\ OrderKept(Fifo[x], f[x], nPrio)
             /\ ToSet(f[x]) \subseteq ToSet(Fifo[x]) \cup {t}
             /\ \A a \in ToSet(Fifo[x]) :
                  t \in ToSet(f[x]) /\ nPrio[a] <= nPrio[t] => Ahead(f[x], a, t)
  <2>1. IsListOf(Fifo[x], Task) /\ t \notin ToSet(Fifo[x])
    BY <1>1, <1>2
  <2>2. CASE x # o
    <3>1. f[x] = Fifo[x]
      BY <1>1, <2>2
    <3> HIDE DEF f
    <3> QED
      BY <2>1, <3>1, OrderKeptSelf
  <2>3. CASE x = o
    <3> DEFINE q == TCBFifoAddPrio(Fifo[x], t, nPrio)
    <3>1. f[x] = q
      BY <1>1, <2>3, NullAssumption
    <3>2. OrderKept(Fifo[x], q, nPrio) /\ ToSet(q) = ToSet(Fifo[x]) \cup {t}
      BY <1>2, <2>1, OrderKeptAdd, TCBFifoAddPrioList
    <3>3. \A a \in ToSet(Fifo[x]) : nPrio[a] <= nPrio[t] => Ahead(q, a, t)
      BY <1>2, <2>1, TCBFifoAddPrioOrder
    <3> HIDE DEF f, q
    <3> QED
      BY <3>1, <3>2, <3>3
  <2> QED
    BY <2>2, <2>3
<1> HIDE DEF w, f, M
<1>6. ASSUME NEW x \in Object, WaitOrder(WaitList, Fifo[x], nPrio)
      PROVE  WaitOrder(w, f[x], nPrio)
  <2> SUFFICES ASSUME NEW a \in ToSet(f[x]), NEW b \in ToSet(f[x]),
                      nPrio[a] = nPrio[b], Ahead(w, a, b)
               PROVE  Ahead(f[x], a, b)
    BY DEF WaitOrder
  <2>1. CASE Ahead(WaitList, a, b)
    <3>1. a \in ToSet(WaitList) /\ b \in ToSet(WaitList)
      BY <2>1, AheadIn
    <3>2. a \in ToSet(Fifo[x]) /\ b \in ToSet(Fifo[x])
      BY <1>2, <1>5, <3>1
    <3>3. Ahead(Fifo[x], a, b)
      BY <1>6, <2>1, <3>2 DEF WaitOrder
    <3> QED
      BY <1>5, <3>3 DEF OrderKept
  <2>2. CASE b = t /\ a \in ToSet(WaitList)
    <3>1. a \in ToSet(Fifo[x]) /\ nPrio[a] <= nPrio[t]
      BY <1>2, <1>5, <2>2
    <3> QED
      BY <1>5, <2>2, <3>1
  <2> QED
    BY <1>4, <2>1, <2>2
<1>7. Lists.ready = ReadyList /\ Lists.wait = WaitList /\ Lists.fifo = Fifo
  BY ListsFields
<1>8. \A a, b \in ToSet(WaitList) \cap ToSet(ReadyList) : FALSE
  BY <1>2
<1>9. Orderly(Lists, M, nPrio)
  BY <1>3, <1>5, <1>6, <1>7, <1>8, OrderKeptSelf DEF Orderly
<1> QED
  BY <1>9 DEF M

-----------------------------------------------------------------------------
(* Every action of the scheduler keeps the order.                            *)

\* The priority of a task that is on a list does not change.
PriosKept ==
  /\ nPrio' \in [TCB -> Nat]
  /\ \A t \in ToSet(ReadyList) \cup ToSet(WaitList) : nPrio'[t] = nPrio[t]

\* Who gets the CPU is at least as urgent as everybody who stays ready.
UrgentStep ==
  RunningTask' # RunningTask =>
    \A t \in ToSet(ReadyList') : nPrio'[RunningTask'] <= nPrio'[t]

OrderStep == PriosKept /\ Orderly(Lists, Lists', nPrio') /\ UrgentStep

LEMMA SameListsFields ==
  ASSUME NEW M, SetLists(M)
  PROVE  Lists'.ready = M.ready /\ Lists'.wait = M.wait /\ Lists'.fifo = M.fifo
  BY DEF SetLists, Lists

LEMMA TaskScheduleOrder ==
  ASSUME NEW M, ListsOK(M), NEW st, TaskSchedule(M, st), NEW prio,
         Orderly(Lists, M, prio), Sorted(M.ready, prio)
  PROVE  /\ Orderly(Lists, Lists', prio)
         /\ \A t \in ToSet(ReadyList') : prio[RunningTask'] <= prio[t]
<1> DEFINE r == IF M.ready = <<>> THEN M.ready ELSE Tail(M.ready)
<1>1. /\ RunningTask' = GetReadyTask(M.ready)
      /\ Lists' = [ready |-> r, wait |-> M.wait, fifo |-> M.fifo]
      /\ ReadyList' = r
  BY DEF TaskSchedule, SetLists, Lists, ListsOK
<1>2. IsListOf(M.ready, TCB)
  BY DEF ListsOK
<1>3. CASE M.ready = <<>>
  <2>1. r = M.ready /\ ToSet(r) = {}
    BY <1>2, <1>3, EmptyList
  <2> HIDE DEF r
  <2> QED
    BY <1>1, <2>1 DEF Orderly
<1>4. CASE M.ready # <<>>
  <2>1. /\ r = Tail(M.ready)
        /\ OrderKept(M.ready, r, prio)
        /\ ToSet(r) \subseteq ToSet(M.ready)
        /\ Head(M.ready) \in ToSet(M.ready)
        /\ \A b \in ToSet(r) : Ahead(M.ready, Head(M.ready), b)
    BY <1>2, <1>4, OrderKeptTail, HeadTailList, HeadTailOrder
  <2> HIDE DEF r
  <2>2. Orderly(Lists, Lists', prio)
    <3> DEFINE N == Lists'
    <3>1. N.ready = r /\ N.wait = M.wait /\ N.fifo = M.fifo
      BY <1>1
    <3> HIDE DEF N
    <3>2. Orderly(Lists, N, prio)
      BY <2>1, <3>1, OrderlyReady
    <3> QED
      BY <3>2 DEF N
  <2>3. \A b \in ToSet(r) : prio[Head(M.ready)] <= prio[b]
    BY <2>1 DEF Sorted
  <2> QED
    BY <1>1, <1>4, <2>2, <2>3 DEF GetReadyTask
<1> QED
  BY <1>3, <1>4

LEMMA RescheduleOrder ==
  ASSUME SchedInv, OrderInv, RunningTask \in TCB, NEW M, ListsOK(M), NEW st,
         Reschedule(M, st), Orderly(Lists, M, nPrio), RunningTask \notin ToSet(M.ready),
         UNCHANGED nPrio
  PROVE  OrderStep
<1> DEFINE N == AddTaskToReadyList(M, RunningTask)
           new == [st EXCEPT ![RunningTask] = "READY"]
<1>1. /\ RunningTask \notin ToSet(Lists.ready) /\ RunningTask \notin ToSet(Lists.wait)
      /\ nPrio \in [TCB -> Nat] /\ \A x \in TCB : nPrio[x] \in Nat
  BY DEF SchedInv, Placed
<1>2. ListsOK(N)
  BY AddTaskToReadyListOK DEF AddTaskToReadyList
<1>3. Orderly(Lists, N, nPrio)
  BY <1>1, OrderlyAdd DEF AddTaskToReadyList
<1>4. TaskSchedule(N, new)
  BY DEF Reschedule
<1> HIDE DEF N, new
<1>5. Sorted(N.ready, nPrio)
  BY <1>3, OrderlySorts DEF OrderInv, SortedLists
<1>6. /\ Orderly(Lists, Lists', nPrio)
      /\ \A t \in ToSet(ReadyList') : nPrio[RunningTask'] <= nPrio[t]
  BY <1>2, <1>3, <1>4, <1>5, TaskScheduleOrder
<1> QED
  BY <1>1, <1>6 DEF OrderStep, PriosKept, UrgentStep

\* The same when the task that had the CPU is not put back.
LEMMA GiveUpOrder ==
  ASSUME SchedInv, OrderInv, NEW M, ListsOK(M), NEW st, TaskSchedule(M, st),
         Orderly(Lists, M, nPrio), UNCHANGED nPrio
  PROVE  OrderStep
<1>1. nPrio \in [TCB -> Nat]
  BY DEF SchedInv
<1>2. Sorted(M.ready, nPrio)
  BY OrderlySorts DEF OrderInv, SortedLists
<1>3. /\ Orderly(Lists, Lists', nPrio)
      /\ \A t \in ToSet(ReadyList') : nPrio[RunningTask'] <= nPrio[t]
  BY <1>2, TaskScheduleOrder
<1> QED
  BY <1>1, <1>3 DEF OrderStep, PriosKept, UrgentStep

\* Nothing of the order is touched.
LEMMA StutterOrder ==
  ASSUME SchedInv, UNCHANGED <<ReadyList, WaitList, Fifo, RunningTask>>, PriosKept
  PROVE  OrderStep
<1>1. Lists' = Lists /\ ToSet(Lists.ready) \cap ToSet(Lists.wait) = {}
  BY DEF SchedInv, Placed, Lists
<1>2. Orderly(Lists, Lists, nPrio')
  BY <1>1, OrderlySelf
<1> QED
  BY <1>1, <1>2 DEF OrderStep, UrgentStep

LEMMA StartOrder == ASSUME SchedInv, OrderInv, OS_Start PROVE OrderStep
<1>1. ListsOK(Lists) /\ ToSet(Lists.ready) \cap ToSet(Lists.wait) = {}
  BY DEF SchedInv, Placed
<1>2. Orderly(Lists, Lists, nPrio)
  BY <1>1, OrderlySelf
<1> QED
  BY <1>1, <1>2, GiveUpOrder DEF OS_Start

LEMMA YieldOrder == ASSUME SchedInv, OrderInv, OS_TaskYield(RunningTask) PROVE OrderStep
<1>1. /\ ListsOK(Lists) /\ ToSet(Lists.ready) \cap ToSet(Lists.wait) = {}
      /\ RunningTask \notin ToSet(Lists.ready)
  BY DEF SchedInv, Placed
<1>2. Orderly(Lists, Lists, nPrio)
  BY <1>1, OrderlySelf
<1> QED
  BY <1>1, <1>2, RescheduleOrder DEF OS_TaskYield

LEMMA ExitOrder == ASSUME SchedInv, OrderInv, OS_TaskExit(RunningTask) PROVE OrderStep
<1>1. ListsOK(Lists) /\ ToSet(Lists.ready) \cap ToSet(Lists.wait) = {}
  BY DEF SchedInv, Placed
<1>2. Orderly(Lists, Lists, nPrio)
  BY <1>1, OrderlySelf
<1> QED
  BY <1>1, <1>2, GiveUpOrder DEF OS_TaskExit

\* The lists are sorted by the new priorities too.
LEMMA StillSorted == ASSUME SchedInv, OrderInv, PriosKept PROVE SortedLists(Lists, nPrio')
<1>1. \A o \in Object : ToSet(Fifo[o]) \subseteq ToSet(WaitList)
  BY ObjectWaiters
<1>2. Lists.ready = ReadyList /\ Lists.wait = WaitList /\ Lists.fifo = Fifo
  BY ListsFields
<1>3. Sorted(ReadyList, nPrio')
  BY <1>2 DEF OrderInv, SortedLists, Sorted, PriosKept
<1>4. ASSUME NEW o \in Object
      PROVE  Sorted(Fifo[o], nPrio') /\ WaitOrder(WaitList, Fifo[o], nPrio')
  <2>1. \A t \in ToSet(Fifo[o]) : nPrio'[t] = nPrio[t]
    BY <1>1 DEF PriosKept
  <2>2. Sorted(Fifo[o], nPrio) /\ WaitOrder(WaitList, Fifo[o], nPrio)
    BY <1>2 DEF OrderInv, SortedLists
  <2> QED
    BY <2>1, <2>2 DEF Sorted, WaitOrder
<1> QED
  BY <1>2, <1>3, <1>4 DEF SortedLists

LEMMA CreateOrder ==
  ASSUME SchedInv, OrderInv, NEW t \in Task, NEW p \in Priority, OS_TaskCreate(t, p)
  PROVE  OrderStep
<1> DEFINE prio == nPrio'
           L == Lists
           withNew == [L EXCEPT !.ready = TCBFifoAddPrio(@, t, prio)]
<1>1. /\ ListsOK(L) /\ ToSet(L.ready) \cap ToSet(L.wait) = {}
      /\ t \in TCB /\ t # RunningTask /\ t \notin ToSet(L.ready) /\ t \notin ToSet(L.wait)
      /\ RunningTask \notin ToSet(L.ready) /\ RunningTask \notin ToSet(L.wait)
  BY ListMembers, ListsFields DEF SchedInv, Placed, OS_TaskCreate
<1>2. L.ready = ReadyList /\ L.wait = WaitList
  BY ListsFields
<1>3. PriosKept
  BY <1>1, <1>2, PriorityAssumption DEF SchedInv, PriosKept, OS_TaskCreate
<1>4. SortedLists(L, prio) /\ \A x \in TCB : prio[x] \in Nat
  BY <1>3, StillSorted DEF PriosKept
<1>5. CASE bIsSchedLocked
  <2>1. SetLists(withNew) /\ RunningTask' = RunningTask
    BY <1>5 DEF OS_TaskCreate
  <2> HIDE DEF prio, L
  <2>2. Orderly(L, L, prio)
    BY <1>1, OrderlySelf
  <2>3. Orderly(L, withNew, prio) /\ ListsOK(withNew)
    BY <1>1, <1>4, <2>2, OrderlyAdd, AddTaskToReadyListOK
  <2> HIDE DEF withNew
  <2>4. Lists' = withNew
    <3>1. Lists' = [ready |-> withNew.ready, wait |-> withNew.wait, fifo |-> withNew.fifo]
      BY <2>1 DEF SetLists, Lists
    <3> QED
      BY <2>3, <3>1 DEF ListsOK
  <2> QED
    BY <1>3, <2>1, <2>3, <2>4 DEF OrderStep, UrgentStep, prio, L
<1>6. CASE ~bIsSchedLocked
  <2> DEFINE withBoth == [withNew EXCEPT !.ready = TCBFifoAddPrio(@, RunningTask, prio)]
             both == [[State EXCEPT ![t] = "READY"] EXCEPT ![RunningTask] = "READY"]
  <2>1. RunningTask \in TCB /\ TaskSchedule(withBoth, both)
    BY <1>6 DEF OS_TaskCreate, Caller, TCB
  <2> HIDE DEF prio, L, both
  <2>2. Orderly(L, L, prio)
    BY <1>1, OrderlySelf
  <2>3. /\ Orderly(L, withNew, prio) /\ ListsOK(withNew)
        /\ ToSet(withNew.ready) = ToSet(L.ready) \cup {t}
    BY <1>1, <1>4, <2>2, OrderlyAdd, AddTaskToReadyListOK
  <2> HIDE DEF withNew
  <2>4. RunningTask \notin ToSet(withNew.ready)
    BY <1>1, <2>3
  <2>5. Orderly(L, withBoth, prio) /\ ListsOK(withBoth)
    BY <1>1, <1>4, <2>1, <2>3, <2>4, OrderlyAdd, AddTaskToReadyListOK
  <2> HIDE DEF withBoth
  <2>6. Sorted(withBoth.ready, prio)
    BY <1>4, <2>5, OrderlySorts DEF SortedLists
  <2>7. Orderly(Lists, withBoth, prio)
    BY <2>5 DEF L
  <2>8. /\ Orderly(Lists, Lists', prio)
        /\ \A x \in ToSet(ReadyList') : prio[RunningTask'] <= prio[x]
    BY <2>1, <2>5, <2>6, <2>7, TaskScheduleOrder
  <2> QED
    BY <1>3, <2>8 DEF OrderStep, UrgentStep, prio
<1> QED
  BY <1>5, <1>6

LEMMA ChangePriorityOrder ==
  ASSUME SchedInv, OrderInv, NEW p \in Priority, OS_TaskChangePriority(RunningTask, p)
  PROVE  OrderStep
<1>1. RunningTask \notin ToSet(ReadyList) \cup ToSet(WaitList)
  BY ListsFields DEF SchedInv, Placed
<1>2. PriosKept
  BY <1>1, PriorityAssumption, ListMembers, ListsFields
     DEF SchedInv, Placed, PriosKept, OS_TaskChangePriority
<1> QED
  BY <1>2, StutterOrder DEF OS_TaskChangePriority

LEMMA WakeupOrder ==
  ASSUME SchedInv, OrderInv, NEW target \in Task, OS_TaskWakeup(RunningTask, target)
  PROVE  OrderStep
<1>1. PriosKept
  BY DEF SchedInv, PriosKept, OS_TaskWakeup
<1> QED
  BY <1>1, StutterOrder DEF OS_TaskWakeup

\* The running task blocks, with or without an object.
LEMMA BlockOrder ==
  ASSUME SchedInv, OrderInv, NEW o \in Object \cup {NULL}, Caller(RunningTask), NEW st,
         TaskSchedule(BlockLists(RunningTask, o), st), UNCHANGED nPrio
  PROVE  OrderStep
<1>1. RunningTask \in Task
  BY CallerRuns
<1>2. Orderly(Lists, BlockLists(RunningTask, o), nPrio)
  BY <1>1, OrderlyBlock
<1>3. ListsOK(BlockLists(RunningTask, o))
  <2>1. 0 \in Timeout
    BY TimeoutAssumption DEF Timeout, OS_WAIT_INFINITE
  <2> QED
    BY <1>1, <2>1, BlockListsPlaces DEF Placed
<1> QED
  BY <1>2, <1>3, GiveUpOrder

\* Waiters become ready; the caller then reschedules or keeps the CPU.
LEMMA WakeOrder ==
  ASSUME SchedInv, OrderInv, NEW go, go \subseteq ToSet(WaitList), NEW M, Moved(Lists, M, go),
         Orderly(Lists, M, nPrio), NEW st, UNCHANGED nPrio,
         \/ RunningTask \in TCB /\ Reschedule(M, st)
         \/ SetLists(M) /\ UNCHANGED RunningTask
  PROVE  OrderStep
<1>1. CASE RunningTask \in TCB /\ Reschedule(M, st)
  <2>1. ListsOK(M) /\ RunningTask \notin ToSet(M.ready)
    BY ListsFields DEF SchedInv, Placed, Moved
  <2> QED
    BY <1>1, <2>1, RescheduleOrder
<1>2. CASE SetLists(M) /\ UNCHANGED RunningTask
  <2>1. Lists' = M
    <3>1. Lists' = [ready |-> M.ready, wait |-> M.wait, fifo |-> M.fifo]
      BY <1>2 DEF SetLists, Lists
    <3> QED
      BY <3>1 DEF Moved, ListsOK
  <2> QED
    BY <1>2, <2>1 DEF SchedInv, OrderStep, PriosKept, UrgentStep
<1> QED
  BY <1>1, <1>2

LEMMA HandleWaitListOrder == ASSUME SchedInv, OrderInv, HandleWaitList PROVE OrderStep
<1> DEFINE M == WaitToReadyAll(Lists, WaitList, Expired)
<1>1. /\ ListsOK(Lists) /\ IsListOf(WaitList, Task) /\ nPrio \in [TCB -> Nat]
      /\ ToSet(ReadyList) \cap ToSet(WaitList) = {}
  BY ListsFields DEF SchedInv, Placed, ListsOK
<1>2. Expired \subseteq ToSet(WaitList)
  BY DEF Expired
<1>3. Moved(Lists, M, Expired)
  BY <1>1, <1>2, WaitToReadyAllMoves, ListsFields
<1>4. Orderly(Lists, M, nPrio)
  <2>1. WaitOrder(WaitList, WaitList, nPrio)
    BY DEF WaitOrder
  <2> QED
    BY <1>1, <1>2, <2>1, OrderlyMovedAll, ListsFields
<1>5. SetLists(M) /\ UNCHANGED <<RunningTask, nPrio>>
  BY DEF HandleWaitList
<1> HIDE DEF M
<1> QED
  BY <1>2, <1>3, <1>4, <1>5, WakeOrder

LEMMA SchedNextOrder == ASSUME SchedInv, OrderInv, SchedNext PROVE OrderStep
<1>1. CASE OS_Start
  BY <1>1, StartOrder
<1>2. CASE OS_TaskYield(RunningTask)
  BY <1>2, YieldOrder
<1>3. CASE OS_TaskExit(RunningTask)
  BY <1>3, ExitOrder
<1>4. CASE \E t \in Task, p \in Priority : OS_TaskCreate(t, p)
  BY <1>4, CreateOrder
<1>5. CASE \E p \in Priority : OS_TaskChangePriority(RunningTask, p)
  BY <1>5, ChangePriorityOrder
<1>6. CASE \E t \in Task : OS_TaskWakeup(RunningTask, t)
  BY <1>6, WakeupOrder
<1>7. ASSUME NEW ticks \in Timeout, OS_TimeDly(RunningTask, ticks) PROVE OrderStep
  BY <1>7, BlockOrder DEF OS_TimeDly
<1>8. CASE HandleWaitList
  BY <1>8, HandleWaitListOrder
<1> QED
  BY <1>1, <1>2, <1>3, <1>4, <1>5, <1>6, <1>7, <1>8 DEF SchedNext, SchedTaskNext

LEMMA SchedStutterOrder == ASSUME SchedInv, UNCHANGED schedVars PROVE OrderStep
<1>1. PriosKept
  BY DEF SchedInv, PriosKept, schedVars
<1> QED
  BY <1>1, StutterOrder DEF schedVars

LEMMA SchedInitOrder == SchedInit => OrderInv
<1> SUFFICES ASSUME SchedInit PROVE OrderInv
  OBVIOUS
<1>1. \A s, a, b : Ahead(s, a, b) => a \in ToSet(s) /\ b \in ToSet(s)
  BY AheadIn
<1>2. ToSet(<<>>) = {} /\ ToSet(<<TCBIdle>>) = {TCBIdle}
  BY DEF ToSet
<1>3. ~Ahead(<<TCBIdle>>, TCBIdle, TCBIdle)
  BY DEF Ahead
<1>4. /\ ReadyList = <<TCBIdle>> /\ WaitList = <<>> /\ \A o \in Object : Fifo[o] = <<>>
      /\ nPrio \in [TCB -> Nat]
  BY PriorityAssumption DEF SchedInit, TCB
<1> QED
  BY <1>2, <1>3, <1>4, ListsFields DEF OrderInv, SortedLists, Sorted, WaitOrder

-----------------------------------------------------------------------------
(* What a step that keeps the order means in the terms of TctsSched.         *)

LEMMA OrderStepInv == ASSUME SchedInv, OrderInv, OrderStep PROVE OrderInv'
<1>1. SortedLists(Lists, nPrio') /\ Orderly(Lists, Lists', nPrio')
  BY StillSorted DEF OrderStep
<1>2. SortedLists(Lists', nPrio')
  BY <1>1, OrderlySorts
<1> QED
  BY <1>2 DEF OrderInv

LEMMA OrderStepQueues ==
  ASSUME OrderStep
  PROVE  \A o \in Object \cup {NULL} :
           \A a \in ToSet(Queue(o)) \cap ToSet(Queue(o)'), b \in ToSet(Queue(o)') :
             (Ahead(Queue(o), a, b) \/ (b \notin ToSet(Queue(o)) /\ nPrio'[a] <= nPrio'[b]))
               => Ahead(Queue(o)', a, b)
<1>1. \A o \in Object \cup {NULL} : OrderKept(Queue(o), Queue(o)', nPrio')
  BY NullAssumption, ListsFields DEF OrderStep, Orderly, Queue
<1> QED
  BY <1>1 DEF OrderKept

LEMMA OrderStepExpires ==
  ASSUME OrderStep
  PROVE  \A a, b \in ToSet(WaitList) \cap ToSet(ReadyList') :
           Ahead(WaitList, a, b) /\ nPrio[a] = nPrio[b] => Ahead(ReadyList', a, b)
  BY ListsFields DEF OrderStep, Orderly, PriosKept
=============================================================================
