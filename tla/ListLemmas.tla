----------------------------- MODULE ListLemmas -----------------------------
(* Facts about natural numbers and lists that the proofs of several          *)
(* components rest on: induction over the natural numbers in the form of a   *)
(* set, and what a list is after one of its elements was removed.            *)
EXTENDS Naturals, Sequences, FiniteSets, SequencesExt,
        SequenceTheorems, WellFoundedInduction, TLAPS

\* Every set of natural numbers that is not empty has a least element.
LEMMA LeastNatural ==
  ASSUME NEW T, T \subseteq Nat, T # {}
  PROVE  \E m \in T : \A k \in T : m <= k
<1> DEFINE R == OpToRel(<, Nat)
<1>1. IsWellFoundedOn(R, Nat)
  BY NatLessThanWellFounded
<1>2. \A x, y \in Nat : x < y => <<x, y>> \in R
  BY DEF OpToRel
<1> HIDE DEF R
<1>3. PICK m \in T : \A y \in T : ~ (<<y, m>> \in R)
  BY <1>1, WFMin
<1>4. ASSUME NEW k \in T
      PROVE  m <= k
<2>1. m \in Nat /\ k \in Nat
  OBVIOUS
<2>2. ~(<<k, m>> \in R)
  BY <1>3
<2>3. ~(k < m)
  BY <1>2, <2>1, <2>2
<2>4. QED
  BY <2>1, <2>3
<1>5. QED
  BY <1>4

\* Induction over the natural numbers: the set of those for which a statement
\* holds has 0 and the successor of each of its elements.
LEMMA SetInduction ==
  ASSUME NEW S, 0 \in S, \A n \in Nat : n \in S => n + 1 \in S
  PROVE  Nat \subseteq S
<1> DEFINE T == Nat \ S
<1>1. SUFFICES ASSUME T # {} PROVE FALSE
  OBVIOUS
<1>2. PICK m \in T : \A k \in T : m <= k
  BY <1>1, LeastNatural
<1>3. m # 0 
  OBVIOUS
<1>4. m - 1 \in Nat /\ ~(m <= m - 1) /\ (m - 1) + 1 = m
  BY <1>3
<1>5. m - 1 \in S
  BY <1>2, <1>4
<1>6. QED
  BY <1>4, <1>5

StepsWithin(n, V, step) == \A k \in 1..n, v \in V : step[k][v] \in V

FollowsSteps(f, n, V, first, step) ==
  /\ f \in [0..n -> V]
  /\ f[0] = first
  /\ \A k \in 1..n : f[k] = step[k][f[k - 1]]

\* A recursion along 0..n whose steps are given as functions has a solution.
LEMMA RecursionOnNaturals ==
  ASSUME NEW n \in Nat, NEW V, NEW first \in V, NEW step,
         StepsWithin(n, V, step)
  PROVE  \E f : FollowsSteps(f, n, V, first, step)
<1> DEFINE Upto(m) == \E f \in [0..m -> V] :
             f[0] = first /\ \A k \in 1..m : f[k] = step[k][f[k - 1]]
           S == {m \in Nat : m <= n => Upto(m)}
<1>1. 0 \in S
<2> DEFINE g == [k \in 0..0 |-> first]
<2>1. g \in [0..0 -> V] /\ g[0] = first /\ 1..0 = {}
  OBVIOUS
<2> HIDE DEF g
<2>2. Upto(0)
  BY <2>1
<2>3. QED
  BY <2>2
<1>2. ASSUME NEW m \in Nat, m \in S
      PROVE  m + 1 \in S
<2>1. SUFFICES ASSUME m + 1 <= n PROVE Upto(m + 1)
  OBVIOUS
<2>2. PICK f \in [0..m -> V] :
        f[0] = first /\ \A k \in 1..m : f[k] = step[k][f[k - 1]]
  BY <1>2, <2>1
<2> DEFINE g == [k \in 0..(m + 1) |-> IF k <= m THEN f[k] ELSE step[m + 1][f[m]]]
<2>3. step[m + 1][f[m]] \in V
  BY <2>1 DEF StepsWithin
<2>4. g \in [0..(m + 1) -> V]
  BY <2>3
<2>5. \A k \in 0..m : g[k] = f[k]
  OBVIOUS
<2>6. g[m + 1] = step[m + 1][f[m]]
  OBVIOUS
<2> HIDE DEF g
<2>7. g[0] = first
  BY <2>2, <2>5
<2>8. ASSUME NEW k \in 1..(m + 1) PROVE g[k] = step[k][g[k - 1]]
<3>1. CASE k = m + 1
<4>1. k - 1 = m /\ m \in 0..m
  BY <3>1
<4>2. QED
  BY <2>5, <2>6, <3>1, <4>1
<3>2. CASE k # m + 1
<4>1. k \in 1..m /\ k \in 0..m /\ k - 1 \in 0..m
  BY <3>2
<4>2. QED
  BY <2>2, <2>5, <4>1
<3>3. QED
  BY <3>1, <3>2
<2>9. QED
  BY <2>4, <2>7, <2>8
<1>3. Nat \subseteq S
<2> HIDE DEF S
<2>1. QED
  BY <1>1, <1>2, SetInduction
<1>4. Upto(n)
  BY <1>3
<1>5. QED
  BY <1>4 DEF FollowsSteps

-----------------------------------------------------------------------------
\* The list without its i-th element.
LEMMA RemoveAtElements ==
  ASSUME NEW S, NEW s \in Seq(S), NEW i \in 1..Len(s)
  PROVE  LET t == RemoveAt(s, i)
         IN /\ t \in Seq(S)
            /\ Len(t) = Len(s) - 1
            /\ \A j \in 1..Len(t) : t[j] = IF j < i THEN s[j] ELSE s[j + 1]
<1> DEFINE a == SubSeq(s, 1, i - 1)
           b == SubSeq(s, i + 1, Len(s))
<1>0. Len(s) \in Nat /\ i \in 1..Len(s) /\ i \in Int
  OBVIOUS
<1>1. a \in Seq(S) /\ Len(a) = i - 1 /\ \A j \in 1..(i - 1) : a[j] = s[j]
  BY <1>0, SubSeqProperties
<1>2. b \in Seq(S) /\ Len(b) = Len(s) - i
      /\ \A j \in 1..(Len(s) - i) : b[j] = s[i + j]
  BY <1>0, SubSeqProperties
<1>3. RemoveAt(s, i) = a \o b
  BY DEF RemoveAt
<1> HIDE DEF a, b
<1>4. /\ a \o b \in Seq(S) /\ Len(a \o b) = Len(a) + Len(b)
      /\ \A j \in 1..Len(a) + Len(b) :
           (a \o b)[j] = IF j <= Len(a) THEN a[j] ELSE b[j - Len(a)]
  BY <1>1, <1>2, ConcatProperties
<1> DEFINE t == a \o b
<1> HIDE DEF t
<1>5. Len(t) = Len(s) - 1
  BY <1>0, <1>1, <1>2, <1>4 DEF t
<1>6. ASSUME NEW j \in 1..Len(t)
      PROVE  t[j] = IF j < i THEN s[j] ELSE s[j + 1]
<2>1. j \in 1..Len(a) + Len(b) /\ t[j] = IF j <= Len(a) THEN a[j] ELSE b[j - Len(a)]
  BY <1>4, <1>5 DEF t
<2>2. CASE j < i
<3>1. j <= Len(a) /\ j \in 1..(i - 1)
  BY <1>0, <1>1, <2>2
<3>2. QED
  BY <1>1, <2>1, <2>2, <3>1
<2>3. CASE ~(j < i)
<3>1. j - Len(a) \in 1..(Len(s) - i) /\ ~(j <= Len(a)) /\ i + (j - Len(a)) = j + 1
  BY <1>0, <1>1, <1>5, <2>3
<3>2. QED
  BY <1>2, <2>1, <2>3, <3>1
<2>4. QED
  BY <2>2, <2>3
<1>7. QED
  BY <1>3, <1>4, <1>5, <1>6 DEF t

\* A list without repetitions from which e is removed has every element it had
\* but e, and still none twice.
LEMMA RemoveFirstExact ==
  ASSUME NEW S, NEW s \in Seq(S), NEW e,
         \A i, j \in 1..Len(s) : s[i] = s[j] => i = j,
         \E i \in 1..Len(s) : s[i] = e
  PROVE  LET t == RemoveFirst(s, e)
         IN  /\ t \in Seq(S)
             /\ \A i, j \in 1..Len(t) : t[i] = t[j] => i = j
             /\ \A i \in 1..Len(t) :
                  t[i] # e /\ \E j \in 1..Len(s) : s[j] = t[i]
             /\ \A j \in 1..Len(s) :
                  s[j] # e => \E i \in 1..Len(t) : t[i] = s[j]
<1>1. PICK i \in 1..Len(s) : s[i] = e
  OBVIOUS
<1> DEFINE I == {j \in 1..Len(s) : s[j] = e}
<1>2. I = {i}
  BY <1>1
<1>3. Min({i}) = i
  BY DEF Min
<1>4. RemoveFirst(s, e) = RemoveAt(s, IF I # {} THEN Min(I) ELSE 0)
  BY <1>1 DEF RemoveFirst, SelectInSeq
<1>5. RemoveFirst(s, e) = RemoveAt(s, i)
  BY <1>2, <1>3, <1>4
<1> DEFINE t == RemoveFirst(s, e)
<1>6. /\ t \in Seq(S) /\ Len(t) = Len(s) - 1
      /\ \A j \in 1..Len(t) : t[j] = IF j < i THEN s[j] ELSE s[j + 1]
  BY <1>5, RemoveAtElements
<1> HIDE DEF t
<1>7. Len(s) \in Nat /\ i \in Int
  OBVIOUS
<1>8. \A j, k \in 1..Len(t) : t[j] = t[k] => j = k
  BY <1>6, <1>7
<1>9. ASSUME NEW j \in 1..Len(t)
      PROVE  t[j] # e /\ \E k \in 1..Len(s) : s[k] = t[j]
<2>1. PICK k \in 1..Len(s) : t[j] = s[k] /\ k # i
  BY <1>6, <1>7
<2>2. QED
  BY <1>1, <2>1
<1>10. ASSUME NEW k \in 1..Len(s), s[k] # e
       PROVE  \E j \in 1..Len(t) : t[j] = s[k]
<2>1. CASE k < i
<3>1. k \in 1..Len(t) /\ t[k] = s[k]
  BY <1>6, <1>7, <2>1
<3>2. QED
  BY <3>1
<2>2. CASE k > i
<3>1. k - 1 \in 1..Len(t) /\ t[k - 1] = s[k]
  BY <1>6, <1>7, <2>2
<3>2. QED
  BY <3>1
<2>3. QED
  BY <1>1, <1>7, <1>10, <2>1, <2>2
<1>11. QED
  BY <1>6, <1>8, <1>9, <1>10 DEF t
=============================================================================
