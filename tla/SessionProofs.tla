---------------------------- MODULE SessionProofs ----------------------------
(***************************************************************************)
(* The cookies and the proxy of SessionServices, for any number of         *)
(* requests and of changes, every set of rules and every width of an int.  *)
(*                                                                         *)
(* CookiesInOrder is strengthened in three ways.  A request is in one      *)
(* place at most, of the queues of the two threads, the pipe to the client *)
(* and the client's hands (Placed), so that it is answered at most once    *)
(* and by the reply that belongs to it.  The changes in each queue are a   *)
(* run of numbers that goes on where the queue ahead of it ends, and a     *)
(* request in a queue has every change reported before it in front of it   *)
(* (Follows).  And the registry lets go of the binding before the session  *)
(* begins to end (Life).                                                   *)
(*                                                                         *)
(* After them the visited links a session stores, VisitedLinkMaster, for   *)
(* every set of links, list of sizes, number of calls and of crashes, and  *)
(* whatever memory is refused.  Neither of its theorems is inductive: a    *)
(* start takes the table from the file, wherever a crash left that, so the *)
(* file must stand for a sound table, or for none, after every single task *)
(* of those on their way to it (OnFile, Fit); and what is on its way must  *)
(* end with the table in memory, or the master must know it does not       *)
(* (FileKept).  The table has an empty slot at all times (Exact), without  *)
(* which a run is never emptied.                                           *)
(***************************************************************************)
EXTENDS SessionServices, VisitedLinkMaster, Integers, ListLemmas,
        FiniteSetTheorems, TLAPS

(* Queues. *)

Elems(q) == {q[i] : i \in 1..Len(q)}

\* The request r is in the queue q; it is so once.
In(q, r) == \E x \in Elems(q) : r \in x.request
Once(q, r) ==
  \A i, j \in 1..Len(q) : r \in q[i].request /\ r \in q[j].request => i = j

Reports(x) == x.kind \in {"emit", "event"}
Asking(x) == x.kind \in {"method", "invoke"}

\* The first n changes are ahead of the position i of the queue q, which
\* begins after the first low.
Ahead(q, low, i, n) ==
  n <= low \/ \E j \in 1..i - 1 : Reports(q[j]) /\ q[j].change = n - 1

\* The changes of q go from low to high, and a request that asks something of
\* the client has those reported before it ahead.
Follows(q, before, low, high) ==
  /\ Run(q, low, high)
  /\ \A i \in 1..Len(q), r \in Requests :
       Asking(q[i]) /\ r \in q[i].request => Ahead(q, low, i, before[r])

\* What is in a queue to which x is appended.
LEMMA Appended ==
  ASSUME NEW T, NEW q \in Seq(T), NEW x \in T
  PROVE  /\ Append(q, x) \in Seq(T) /\ Len(q) \in Nat
         /\ Len(Append(q, x)) = Len(q) + 1 /\ Append(q, x)[Len(q) + 1] = x
         /\ \A i \in 1..Len(q) : Append(q, x)[i] = q[i]
         /\ Elems(Append(q, x)) = Elems(q) \union {x}
<1> DEFINE d == Append(q, x)
<1>1. /\ d \in Seq(T) /\ Len(q) \in Nat /\ Len(d) = Len(q) + 1 /\ d[Len(q) + 1] = x
      /\ \A i \in 1..Len(q) : d[i] = q[i]
  OBVIOUS
<1> HIDE DEF d
<1>2. Elems(d) = Elems(q) \union {x}
  BY <1>1 DEF Elems
<1>3. QED
  BY <1>1, <1>2 DEF d

\* What is in a queue whose first element is taken.
LEMMA Taken ==
  ASSUME NEW T, NEW q \in Seq(T), q # <<>>
  PROVE  /\ Tail(q) \in Seq(T) /\ Head(q) = q[1] /\ Head(q) \in T
         /\ Len(q) \in Nat \ {0} /\ Len(Tail(q)) = Len(q) - 1
         /\ \A i \in 1..Len(q) - 1 : Tail(q)[i] = q[i + 1]
         /\ Elems(Tail(q)) \subseteq Elems(q) /\ Head(q) \in Elems(q)
<1> DEFINE d == Tail(q)
<1>1. /\ d \in Seq(T) /\ Head(q) = q[1] /\ Len(q) \in Nat \ {0} /\ Len(d) = Len(q) - 1
      /\ \A i \in 1..Len(q) - 1 : d[i] = q[i + 1]
      /\ q[1] \in T
  OBVIOUS
<1> HIDE DEF d
<1>2. Elems(d) \subseteq Elems(q)
  <2>1. \A i \in 1..Len(d) : i + 1 \in 1..Len(q) /\ d[i] = q[i + 1]
    BY <1>1
  <2>2. QED
    BY <2>1 DEF Elems
<1>3. q[1] \in Elems(q)
  BY <1>1 DEF Elems
<1>4. QED
  BY <1>1, <1>2, <1>3 DEF d

\* Where a request is, when a task is appended.
LEMMA AppendedIn ==
  ASSUME NEW T, NEW q \in Seq(T), NEW x \in T, NEW r
  PROVE  /\ In(Append(q, x), r) <=> In(q, r) \/ r \in x.request
         /\ Once(q, r) /\ ~(In(q, r) /\ r \in x.request) => Once(Append(q, x), r)
<1> DEFINE d == Append(q, x)
<1>1. /\ d \in Seq(T) /\ Len(q) \in Nat /\ Len(d) = Len(q) + 1 /\ d[Len(q) + 1] = x
      /\ \A i \in 1..Len(q) : d[i] = q[i]
      /\ Elems(d) = Elems(q) \union {x}
  BY Appended
<1> HIDE DEF d
<1>2. In(d, r) <=> In(q, r) \/ r \in x.request
  BY <1>1 DEF In
<1>3. ASSUME Once(q, r), ~(In(q, r) /\ r \in x.request)
      PROVE  Once(d, r)
  <2>1. SUFFICES ASSUME NEW i \in 1..Len(d), NEW j \in 1..Len(d),
                        r \in d[i].request, r \in d[j].request
                 PROVE  i = j
    BY DEF Once
  <2>2. ASSUME NEW k \in 1..Len(d), r \in d[k].request
        PROVE  k = Len(q) + 1 <=> r \in x.request
    <3>1. CASE k = Len(q) + 1
      BY <1>1, <2>2, <3>1
    <3>2. CASE k # Len(q) + 1
      <4>1. k \in 1..Len(q) /\ d[k] = q[k]
        BY <1>1, <3>2
      <4>2. In(q, r)
        BY <2>2, <4>1 DEF In, Elems
      <4>3. QED
        BY <1>3, <3>2, <4>2
    <3>3. QED
      BY <3>1, <3>2
  <2>3. CASE r \in x.request
    BY <2>1, <2>2, <2>3
  <2>4. CASE r \notin x.request
    <3>1. i \in 1..Len(q) /\ j \in 1..Len(q)
      BY <1>1, <2>1, <2>2, <2>4
    <3>2. QED
      BY <1>1, <1>3, <2>1, <3>1 DEF Once
  <2>5. QED
    BY <2>3, <2>4
<1>4. QED
  BY <1>2, <1>3 DEF d

\* And when the first is taken.
LEMMA TakenIn ==
  ASSUME NEW T, NEW q \in Seq(T), q # <<>>, NEW r
  PROVE  /\ In(q, r) <=> r \in Head(q).request \/ In(Tail(q), r)
         /\ Once(q, r) => Once(Tail(q), r) /\ ~(r \in Head(q).request /\ In(Tail(q), r))
<1> DEFINE d == Tail(q)
<1>1. /\ d \in Seq(T) /\ Head(q) = q[1] /\ Len(q) \in Nat \ {0} /\ Len(d) = Len(q) - 1
      /\ \A i \in 1..Len(q) - 1 : d[i] = q[i + 1]
      /\ Elems(d) \subseteq Elems(q) /\ Head(q) \in Elems(q)
  BY Taken
<1> HIDE DEF d
<1>2. In(q, r) <=> r \in Head(q).request \/ In(d, r)
  <2>1. ASSUME In(q, r), r \notin Head(q).request PROVE In(d, r)
    <3>1. PICK i \in 1..Len(q) : r \in q[i].request
      BY <2>1 DEF In, Elems
    <3>2. i # 1
      BY <1>1, <2>1, <3>1
    <3>3. i - 1 \in 1..Len(d) /\ d[i - 1] = q[i]
      <4>1. i - 1 \in 1..Len(q) - 1 /\ (i - 1) + 1 = i
        BY <1>1, <3>2
      <4>2. QED
        BY <1>1, <4>1
    <3>4. QED
      BY <3>1, <3>3 DEF In, Elems
  <2>2. QED
    BY <1>1, <2>1 DEF In
<1>3. ASSUME Once(q, r) PROVE Once(d, r) /\ ~(r \in Head(q).request /\ In(d, r))
  <2>1. Once(d, r)
    <3>1. SUFFICES ASSUME NEW i \in 1..Len(d), NEW j \in 1..Len(d),
                          r \in d[i].request, r \in d[j].request
                   PROVE  i = j
      BY DEF Once
    <3>2. i + 1 \in 1..Len(q) /\ j + 1 \in 1..Len(q) /\ d[i] = q[i + 1] /\ d[j] = q[j + 1]
      BY <1>1
    <3>3. i + 1 = j + 1
      BY <1>3, <3>1, <3>2 DEF Once
    <3>4. QED
      BY <3>3
  <2>2. ASSUME r \in Head(q).request, In(d, r) PROVE FALSE
    <3>1. PICK i \in 1..Len(d) : r \in d[i].request
      BY <2>2 DEF In, Elems
    <3>2. i + 1 \in 1..Len(q) /\ 1 \in 1..Len(q) /\ d[i] = q[i + 1] /\ i + 1 # 1
      BY <1>1
    <3>3. i + 1 = 1
      BY <1>1, <1>3, <2>2, <3>1, <3>2 DEF Once
    <3>4. QED
      BY <3>2, <3>3
  <2>3. QED
    BY <2>1, <2>2
<1>4. QED
  BY <1>2, <1>3 DEF d

\* The tasks that follow one another, as a relation on positions.
LEMMA RunIs ==
  ASSUME NEW T, NEW q \in Seq(T), NEW low, NEW high
  PROVE  Run(q, low, high) <=>
           /\ low <= high
           /\ {q[i].change : i \in {j \in 1..Len(q) : Reports(q[j])}} = low..high - 1
           /\ \A i, j \in 1..Len(q) : Reports(q[i]) /\ Reports(q[j]) /\ i < j =>
                q[i].change < q[j].change
<1>1. DOMAIN q = 1..Len(q)
  OBVIOUS
<1>2. QED
  BY <1>1 DEF Run, Reports

\* A task that is no change leaves the run as it is.
LEMMA OtherAppended ==
  ASSUME NEW T, NEW q \in Seq(T), NEW x \in T, NEW before,
         NEW low \in Nat, NEW high \in Nat, Follows(q, before, low, high),
         ~Reports(x),
         Asking(x) => \A r \in Requests : r \in x.request => before[r] \in Nat /\ before[r] <= high
  PROVE  Follows(Append(q, x), before, low, high)
<1> DEFINE d == Append(q, x)
<1>1. /\ d \in Seq(T) /\ Len(q) \in Nat /\ Len(d) = Len(q) + 1 /\ d[Len(q) + 1] = x
      /\ \A i \in 1..Len(q) : d[i] = q[i]
  BY Appended
<1> HIDE DEF d
<1>2. /\ low <= high
      /\ {q[i].change : i \in {j \in 1..Len(q) : Reports(q[j])}} = low..high - 1
      /\ \A i, j \in 1..Len(q) : Reports(q[i]) /\ Reports(q[j]) /\ i < j =>
           q[i].change < q[j].change
  BY RunIs DEF Follows
<1>3. \A i \in 1..Len(d) : Reports(d[i]) => i \in 1..Len(q) /\ d[i] = q[i]
  <2>1. SUFFICES ASSUME NEW i \in 1..Len(d), Reports(d[i])
                 PROVE  i \in 1..Len(q) /\ d[i] = q[i]
    OBVIOUS
  <2>2. i # Len(q) + 1
    BY <1>1, <2>1
  <2>3. i \in 1..Len(q)
    BY <1>1, <2>2
  <2>4. QED
    BY <1>1, <2>3
<1>4. {j \in 1..Len(d) : Reports(d[j])} = {j \in 1..Len(q) : Reports(q[j])}
  <2>1. \A j \in 1..Len(q) : j \in 1..Len(d)
    BY <1>1
  <2>2. QED
    BY <1>1, <1>3, <2>1
<1>5. Run(d, low, high)
  <2> DEFINE Are == {j \in 1..Len(q) : Reports(q[j])}
  <2>1. \A i \in Are : d[i] = q[i]
    BY <1>1
  <2>2. {d[i].change : i \in Are} = {q[i].change : i \in Are}
    BY <2>1
  <2>3. \A i, j \in 1..Len(d) : Reports(d[i]) /\ Reports(d[j]) /\ i < j =>
           d[i].change < d[j].change
    BY <1>2, <1>3
  <2>4. {d[i].change : i \in {j \in 1..Len(d) : Reports(d[j])}} = low..high - 1
    BY <1>2, <1>4, <2>2
  <2>5. QED
    BY <1>1, <1>2, <2>3, <2>4, RunIs
<1>6. ASSUME NEW i \in 1..Len(d), NEW r \in Requests, Asking(d[i]), r \in d[i].request
      PROVE  Ahead(d, low, i, before[r])
  <2>1. CASE i = Len(q) + 1
    <3>1. before[r] \in Nat /\ before[r] <= high
      BY <1>1, <1>6, <2>1
    <3>2. CASE before[r] <= low
      BY <3>2 DEF Ahead
    <3>3. CASE ~(before[r] <= low)
      <4>1. before[r] - 1 \in low..high - 1
        BY <3>1, <3>3
      <4>2. PICK j \in 1..Len(q) : Reports(q[j]) /\ q[j].change = before[r] - 1
        BY <1>2, <4>1
      <4>3. j \in 1..i - 1 /\ d[j] = q[j]
        BY <1>1, <2>1
      <4>4. QED
        BY <4>2, <4>3 DEF Ahead
    <3>4. QED
      BY <3>2, <3>3
  <2>2. CASE i # Len(q) + 1
    <3>1. i \in 1..Len(q) /\ d[i] = q[i]
      BY <1>1, <2>2
    <3>2. Ahead(q, low, i, before[r])
      BY <1>6, <3>1 DEF Follows
    <3>3. \A j \in 1..i - 1 : d[j] = q[j]
      BY <1>1, <3>1
    <3>4. QED
      BY <3>2, <3>3 DEF Ahead
  <2>3. QED
    BY <2>1, <2>2
<1>7. QED
  BY <1>5, <1>6 DEF Follows, d

\* The change after the last one makes the run longer.
LEMMA ChangeAppended ==
  ASSUME NEW T, NEW q \in Seq(T), NEW x \in T, NEW before,
         NEW low \in Nat, NEW high \in Nat, Follows(q, before, low, high),
         Reports(x), ~Asking(x), x.change = high
  PROVE  Follows(Append(q, x), before, low, high + 1)
<1> DEFINE d == Append(q, x)
           n == Len(q) + 1
           Are == {j \in 1..Len(q) : Reports(q[j])}
<1>1. /\ d \in Seq(T) /\ Len(q) \in Nat /\ Len(d) = n /\ d[n] = x
      /\ \A i \in 1..Len(q) : d[i] = q[i]
  BY Appended
<1> HIDE DEF d
<1>2. /\ low <= high
      /\ {q[i].change : i \in Are} = low..high - 1
      /\ \A i, j \in 1..Len(q) : Reports(q[i]) /\ Reports(q[j]) /\ i < j =>
           q[i].change < q[j].change
  BY RunIs DEF Follows
<1>3. {j \in 1..Len(d) : Reports(d[j])} = Are \union {n}
  <2>1. \A j \in 1..Len(d) : j = n \/ j \in 1..Len(q)
    BY <1>1
  <2>2. n \in 1..Len(d) /\ \A j \in 1..Len(q) : j \in 1..Len(d)
    BY <1>1
  <2> HIDE DEF n
  <2>3. QED
    BY <1>1, <2>1, <2>2
<1>4. {d[i].change : i \in Are \union {n}} = low..(high + 1) - 1
  <2>1. \A i \in Are : d[i] = q[i]
    BY <1>1
  <2>2. {d[i].change : i \in Are \union {n}} = {q[i].change : i \in Are} \union {high}
    BY <1>1, <2>1
  <2>3. (low..high - 1) \union {high} = low..(high + 1) - 1
    BY <1>2
  <2> HIDE DEF Are
  <2>4. QED
    BY <1>2, <2>2, <2>3
<1>5. ASSUME NEW i \in 1..Len(d), NEW j \in 1..Len(d), Reports(d[i]), Reports(d[j]), i < j
      PROVE  d[i].change < d[j].change
  <2>1. i \in 1..Len(q) /\ d[i] = q[i]
    BY <1>1, <1>5
  <2>2. CASE j = n
    <3>1. q[i].change \in low..high - 1
      BY <1>2, <1>5, <2>1
    <3>2. QED
      BY <1>1, <2>1, <2>2, <3>1
  <2>3. CASE j # n
    <3>1. j \in 1..Len(q) /\ d[j] = q[j]
      BY <1>1, <2>3
    <3>2. QED
      BY <1>2, <1>5, <2>1, <3>1
  <2>4. QED
    BY <2>2, <2>3
<1>6. Run(d, low, high + 1)
  <2>1. low <= high + 1 /\ {d[i].change : i \in {j \in 1..Len(d) : Reports(d[j])}} = low..(high + 1) - 1
    BY <1>2, <1>3, <1>4
  <2>2. QED
    BY <1>1, <1>5, <2>1, RunIs
<1>7. ASSUME NEW i \in 1..Len(d), NEW r \in Requests, Asking(d[i]), r \in d[i].request
      PROVE  Ahead(d, low, i, before[r])
  <2>1. i # n
    BY <1>1, <1>7
  <2>2. i \in 1..Len(q) /\ d[i] = q[i]
    BY <1>1, <2>1
  <2>3. Ahead(q, low, i, before[r])
    BY <1>7, <2>2 DEF Follows
  <2>4. \A j \in 1..i - 1 : d[j] = q[j]
    BY <1>1, <2>2
  <2>5. QED
    BY <2>3, <2>4 DEF Ahead
<1>8. QED
  BY <1>6, <1>7 DEF Follows, d

\* Who asks first has nothing ahead but what is done.
LEMMA FirstAsks ==
  ASSUME NEW T, NEW q \in Seq(T), q # <<>>, NEW before,
         NEW low \in Nat, NEW high \in Nat, Follows(q, before, low, high),
         Asking(Head(q)), NEW r \in Requests, r \in Head(q).request
  PROVE  before[r] <= low
<1>1. 1 \in 1..Len(q) /\ Head(q) = q[1]
  OBVIOUS
<1>2. Ahead(q, low, 1, before[r])
  BY <1>1 DEF Follows
<1>3. 1..1 - 1 = {}
  OBVIOUS
<1>4. QED
  BY <1>2, <1>3 DEF Ahead

\* The positions of what is left, in terms of those it had.
LEMMA TakenFollows ==
  ASSUME NEW T, NEW q \in Seq(T), q # <<>>, NEW before,
         NEW low \in Nat, NEW next \in Nat, NEW high \in Nat,
         Follows(q, before, low, high), low <= next,
         \A r \in Requests : before[r] \in Nat,
         Reports(q[1]) => q[1].change < next,
         Run(Tail(q), next, high)
  PROVE  Follows(Tail(q), before, next, high)
<1> DEFINE d == Tail(q)
<1>1. /\ Len(q) \in Nat \ {0} /\ Len(d) = Len(q) - 1
      /\ \A i \in 1..Len(q) - 1 : d[i] = q[i + 1]
  BY Taken
<1>2. Run(d, next, high)
  OBVIOUS
<1> HIDE DEF d
<1>3. ASSUME NEW i \in 1..Len(d), NEW r \in Requests, Asking(d[i]), r \in d[i].request
      PROVE  Ahead(d, next, i, before[r])
  <2>1. i + 1 \in 1..Len(q) /\ d[i] = q[i + 1]
    BY <1>1
  <2>2. Ahead(q, low, i + 1, before[r])
    BY <1>3, <2>1 DEF Follows
  <2>3. CASE before[r] <= low
    BY <2>3 DEF Ahead
  <2>4. CASE ~(before[r] <= low)
    <3>1. PICK j \in 1..(i + 1) - 1 : Reports(q[j]) /\ q[j].change = before[r] - 1
      BY <2>2, <2>4 DEF Ahead
    <3>2. CASE j = 1
      <4>1. before[r] - 1 < next
        BY <3>1, <3>2
      <4>2. before[r] <= next
        BY <4>1
      <4>3. QED
        BY <4>2 DEF Ahead
    <3>3. CASE j # 1
      <4>1. j - 1 \in 1..i - 1 /\ j - 1 \in 1..Len(q) - 1 /\ (j - 1) + 1 = j
        BY <1>1, <3>3
      <4>2. d[j - 1] = q[j]
        BY <1>1, <4>1
      <4>3. QED
        BY <3>1, <4>1, <4>2 DEF Ahead
    <3>4. QED
      BY <3>2, <3>3
  <2>5. QED
    BY <2>3, <2>4
<1>4. QED
  BY <1>2, <1>3 DEF Follows, d

\* Taking a task that is no change leaves the run as it is.
LEMMA OtherTaken ==
  ASSUME NEW T, NEW q \in Seq(T), q # <<>>, NEW before,
         NEW low \in Nat, NEW high \in Nat, Follows(q, before, low, high),
         \A r \in Requests : before[r] \in Nat,
         ~Reports(Head(q))
  PROVE  Follows(Tail(q), before, low, high)
<1> DEFINE d == Tail(q)
           Are == {j \in 1..Len(q) : Reports(q[j])}
           Left == {j \in 1..Len(d) : Reports(d[j])}
<1>1. /\ d \in Seq(T) /\ Len(q) \in Nat \ {0} /\ Len(d) = Len(q) - 1
      /\ \A i \in 1..Len(q) - 1 : d[i] = q[i + 1]
      /\ Head(q) = q[1]
  BY Taken
<1> HIDE DEF d
<1>2. /\ low <= high
      /\ {q[i].change : i \in Are} = low..high - 1
      /\ \A i, j \in 1..Len(q) : Reports(q[i]) /\ Reports(q[j]) /\ i < j =>
           q[i].change < q[j].change
  BY RunIs DEF Follows
<1>3. \A i \in 1..Len(d) : i + 1 \in 1..Len(q) /\ d[i] = q[i + 1]
  BY <1>1
<1>4. {d[i].change : i \in Left} = low..high - 1
  <2>1. \A i \in Left : i + 1 \in Are /\ d[i] = q[i + 1]
    BY <1>3
  <2>2. \A i \in Are : i - 1 \in Left /\ d[i - 1] = q[i]
    <3>1. SUFFICES ASSUME NEW i \in Are PROVE i - 1 \in Left /\ d[i - 1] = q[i]
      OBVIOUS
    <3>2. i # 1
      BY <1>1
    <3>3. i - 1 \in 1..Len(d) /\ (i - 1) + 1 = i
      BY <1>1, <3>2
    <3>4. QED
      BY <1>3, <3>3
  <2> HIDE DEF Are, Left
  <2>3. {d[i].change : i \in Left} = {q[i].change : i \in Are}
    BY <2>1, <2>2
  <2>4. QED
    BY <1>2, <2>3
<1>5. \A i, j \in 1..Len(d) : Reports(d[i]) /\ Reports(d[j]) /\ i < j =>
        d[i].change < d[j].change
  <2>1. SUFFICES ASSUME NEW i \in 1..Len(d), NEW j \in 1..Len(d), Reports(d[i]),
                        Reports(d[j]), i < j
                 PROVE  d[i].change < d[j].change
    OBVIOUS
  <2>2. i + 1 \in 1..Len(q) /\ j + 1 \in 1..Len(q) /\ i + 1 < j + 1
    BY <1>3, <2>1
  <2>3. QED
    BY <1>2, <1>3, <2>1, <2>2
<1>6. Run(d, low, high)
  BY <1>1, <1>2, <1>4, <1>5, RunIs
<1>7. QED
  BY <1>1, <1>6, TakenFollows DEF d

\* A change that is taken is the next one.
LEMMA ChangeTaken ==
  ASSUME NEW T, NEW q \in Seq(T), q # <<>>, NEW before,
         NEW low \in Nat, NEW high \in Nat, Follows(q, before, low, high),
         \A r \in Requests : before[r] \in Nat,
         Reports(Head(q))
  PROVE  /\ Head(q).change = low /\ low < high
         /\ Follows(Tail(q), before, low + 1, high)
<1> DEFINE d == Tail(q)
           Are == {j \in 1..Len(q) : Reports(q[j])}
           Left == {j \in 1..Len(d) : Reports(d[j])}
<1>1. /\ d \in Seq(T) /\ Len(q) \in Nat \ {0} /\ Len(d) = Len(q) - 1
      /\ \A i \in 1..Len(q) - 1 : d[i] = q[i + 1]
      /\ Head(q) = q[1]
  BY Taken
<1> HIDE DEF d
<1>2. /\ low <= high
      /\ {q[i].change : i \in Are} = low..high - 1
      /\ \A i, j \in 1..Len(q) : Reports(q[i]) /\ Reports(q[j]) /\ i < j =>
           q[i].change < q[j].change
  BY RunIs DEF Follows
<1>3. \A i \in 1..Len(d) : i + 1 \in 1..Len(q) /\ d[i] = q[i + 1]
  BY <1>1
<1>4. 1 \in Are /\ q[1].change \in low..high - 1
  BY <1>1, <1>2
<1>5. q[1].change = low /\ low < high
  <2>1. low \in low..high - 1
    BY <1>4
  <2>2. PICK i \in Are : q[i].change = low
    BY <1>2, <2>1
  <2>3. CASE i = 1
    BY <1>4, <2>2, <2>3
  <2>4. CASE i # 1
    <3>1. 1 < i
      BY <2>4
    <3>2. q[1].change < low
      BY <1>2, <1>4, <2>2, <3>1
    <3>3. QED
      BY <1>4, <3>2
  <2>5. QED
    BY <2>3, <2>4
<1>6. {d[i].change : i \in Left} = low + 1..high - 1
  <2>1. \A i \in Left : /\ i + 1 \in Are /\ d[i] = q[i + 1]
                        /\ low < d[i].change /\ d[i].change \in low..high - 1
    <3>1. SUFFICES ASSUME NEW i \in Left
                   PROVE  /\ i + 1 \in Are /\ d[i] = q[i + 1]
                          /\ low < d[i].change /\ d[i].change \in low..high - 1
      OBVIOUS
    <3>2. i + 1 \in Are /\ d[i] = q[i + 1] /\ 1 < i + 1
      BY <1>3
    <3>3. q[1].change < q[i + 1].change /\ q[i + 1].change \in low..high - 1
      BY <1>2, <1>4, <3>2
    <3>4. QED
      BY <1>5, <3>2, <3>3
  <2>2. \A c \in low + 1..high - 1 : \E i \in Left : d[i].change = c
    <3>1. SUFFICES ASSUME NEW c \in low + 1..high - 1
                   PROVE  \E i \in Left : d[i].change = c
      OBVIOUS
    <3>2. c \in low..high - 1 /\ c # low
      OBVIOUS
    <3>3. PICK i \in Are : q[i].change = c
      BY <1>2, <3>2
    <3>4. i # 1
      BY <1>5, <3>2, <3>3
    <3>5. i - 1 \in 1..Len(d) /\ (i - 1) + 1 = i
      BY <1>1, <3>4
    <3>6. d[i - 1] = q[i] /\ i - 1 \in Left
      BY <1>3, <3>5
    <3>7. QED
      BY <3>3, <3>6
  <2>3. \A i \in Left : d[i].change \in low + 1..high - 1
    BY <2>1
  <2> HIDE DEF Are, Left
  <2>4. QED
    BY <2>2, <2>3
<1>7. \A i, j \in 1..Len(d) : Reports(d[i]) /\ Reports(d[j]) /\ i < j =>
        d[i].change < d[j].change
  <2>1. SUFFICES ASSUME NEW i \in 1..Len(d), NEW j \in 1..Len(d), Reports(d[i]),
                        Reports(d[j]), i < j
                 PROVE  d[i].change < d[j].change
    OBVIOUS
  <2>2. i + 1 \in 1..Len(q) /\ j + 1 \in 1..Len(q) /\ i + 1 < j + 1
    BY <1>3, <2>1
  <2>3. QED
    BY <1>2, <1>3, <2>1, <2>2
<1>8. Run(d, low + 1, high)
  <2>1. low + 1 <= high /\ low + 1 \in Nat
    BY <1>5
  <2>2. QED
    BY <1>1, <1>6, <1>7, <2>1, RunIs
<1>9. Follows(d, before, low + 1, high)
  <2>1. low + 1 \in Nat /\ low <= low + 1 /\ q[1].change < low + 1
    BY <1>5
  <2>2. Run(Tail(q), low + 1, high)
    BY <1>8 DEF d
  <2>3. QED
    BY <2>1, <2>2, TakenFollows DEF d
<1>10. QED
  BY <1>1, <1>5, <1>9 DEF d

\* What matters of the requests is those that are in the queue.
LEMMA FollowsSame ==
  ASSUME NEW T, NEW q \in Seq(T), NEW before, NEW after,
         NEW low, NEW high, Follows(q, before, low, high),
         \A r \in Requests : In(q, r) => after[r] = before[r]
  PROVE  Follows(q, after, low, high)
<1>1. ASSUME NEW i \in 1..Len(q), NEW r \in Requests, r \in q[i].request
      PROVE  after[r] = before[r]
  BY <1>1 DEF In, Elems
<1>2. QED
  BY <1>1 DEF Follows

-----------------------------------------------------------------------------
(* The inductive invariant of the cookies. *)

Tasks(kinds) ==
  [kind : kinds, request : SUBSET Requests, change : Nat, answer : Nat, ok : BOOLEAN]

\* A task about a request is about one.
Shaped(x) ==
  IF x.kind \in {"method", "reply", "invoke", "callback"}
  THEN \E r \in Requests : x.request = {r} ELSE x.request = {}

UITask == {x \in Tasks({"method", "emit", "reply", "delete"}) : Shaped(x)}
IOTask == {x \in Tasks({"invoke", "event", "callback", "~resource", "~getter"}) : Shaped(x)}
Message == {x \in Tasks({"invoke", "event"}) : Shaped(x)}

Request ==
  [kind : Kinds \union {"none"}, before : Nat, ran : 0..1, answer : Nat, ok : BOOLEAN]

Before(requests) == [r \in Requests |-> requests[r].before]

CookieTypes ==
  /\ toUI \in Seq(UITask) /\ toIO \in Seq(IOTask) /\ written \in Seq(Message)
  /\ seen \in Seq(Nat) /\ opCount \in Nat /\ request \in [Requests -> Request]
  /\ \A r \in Requests : request[r].before <= opCount
  /\ invokes \subseteq Requests /\ asked \subseteq invokes
  /\ type \in Types /\ session \in {"alive", "dying", "gone"}
  /\ registered \in BOOLEAN /\ returning \in BOOLEAN /\ resource \in BOOLEAN
  /\ getter \in {"session", "released", "others", "gone"}

\* A request is in one place at most, and in none before it is made and after
\* its callback has run.
PlacedAt(r) ==
  /\ Once(toUI, r) /\ Once(toIO, r) /\ Once(written, r)
  /\ In(toUI, r) => ~In(toIO, r) /\ ~In(written, r) /\ r \notin asked
  /\ In(toIO, r) => ~In(written, r) /\ r \notin asked
  /\ In(written, r) => r \notin asked
  /\ In(written, r) => r \in invokes
  /\ request[r].kind = "none" =>
       request[r].ran = 0 /\ ~In(toUI, r) /\ ~In(toIO, r) /\ ~In(written, r) /\ r \notin asked
  /\ request[r].ran > 0 => ~In(toUI, r) /\ ~In(toIO, r) /\ ~In(written, r) /\ r \notin asked

Placed == \A r \in Requests : PlacedAt(r)

\* What a client answers, on its way to the callback.
AnsweredAt(r) ==
  /\ \A x \in Elems(toUI) : (x.kind = "reply" /\ r \in x.request /\ x.ok) =>
                              x.answer >= request[r].before
  /\ \A x \in Elems(toIO) : (x.kind = "callback" /\ r \in x.request /\ request[r].ok) =>
                              x.answer >= request[r].before
  /\ (request[r].ran > 0 /\ request[r].ok) => request[r].answer >= request[r].before

Answered == type = "client" => \A r \in Requests : AnsweredAt(r)

Flows(sent, queued) ==
  /\ Follows(written, Before(request), Len(seen), sent)
  /\ Follows(toIO, Before(request), sent, queued)
  /\ registered => Follows(toUI, Before(request), queued, opCount)

Applied ==
  /\ \A i \in 1..Len(seen) : seen[i] = i - 1
  /\ \A r \in asked : request[r].before <= Len(seen)

Flow == Applied /\ \E sent, queued \in 0..opCount : Flows(sent, queued)

\* The getter is deleted after the resource context.
GetterLast(q, there) ==
  \A i \in 1..Len(q) :
    q[i].kind = "~getter" => ~there \/ \E j \in 1..i - 1 : q[j].kind = "~resource"

Life ==
  /\ registered => session = "alive" /\ type # "system"
  /\ getter = "released" => session = "gone"
  /\ GetterLast(toIO, resource)

CookieInv == CookieTypes /\ Placed /\ Answered /\ Flow /\ Life
-----------------------------------------------------------------------------
\* The tasks there are.
LEMMA TaskTypes ==
  ASSUME NEW r \in Requests, NEW n \in Nat, NEW answer \in Nat, NEW ok \in BOOLEAN
  PROVE  /\ Method(r) \in UITask /\ Emit(n) \in UITask /\ Reply(r, answer, ok) \in UITask
         /\ Task("delete", {}, 0, 0, TRUE) \in UITask
         /\ Callback(r, answer) \in IOTask /\ Task("invoke", {r}, 0, 0, TRUE) \in IOTask
         /\ Task("event", {}, n, 0, TRUE) \in IOTask
         /\ Destroyed("~resource") \in IOTask /\ Destroyed("~getter") \in IOTask
<1>1. {r} \in SUBSET Requests /\ {} \in SUBSET Requests /\ 0 \in Nat /\ TRUE \in BOOLEAN
  OBVIOUS
<1>2. Method(r) \in UITask
  BY <1>1 DEF Method, Task, UITask, Tasks, Shaped
<1>3. Emit(n) \in UITask
  BY <1>1 DEF Emit, Task, UITask, Tasks, Shaped
<1>4. Reply(r, answer, ok) \in UITask
  BY <1>1 DEF Reply, Task, UITask, Tasks, Shaped
<1>5. Task("delete", {}, 0, 0, TRUE) \in UITask
  BY <1>1 DEF Task, UITask, Tasks, Shaped
<1>6. Callback(r, answer) \in IOTask
  BY <1>1 DEF Callback, Task, IOTask, Tasks, Shaped
<1>7. Task("invoke", {r}, 0, 0, TRUE) \in IOTask
  BY <1>1 DEF Task, IOTask, Tasks, Shaped
<1>8. Task("event", {}, n, 0, TRUE) \in IOTask
  BY <1>1 DEF Task, IOTask, Tasks, Shaped
<1>9. Destroyed("~resource") \in IOTask /\ Destroyed("~getter") \in IOTask
  BY <1>1 DEF Destroyed, Task, IOTask, Tasks, Shaped
<1>10. QED
  BY <1>2, <1>3, <1>4, <1>5, <1>6, <1>7, <1>8, <1>9

\* What a task has.
LEMMA TaskFields ==
  ASSUME NEW kinds, NEW x \in Tasks(kinds)
  PROVE  /\ x.kind \in kinds /\ x.request \subseteq Requests /\ x.change \in Nat
         /\ x.answer \in Nat /\ x.ok \in BOOLEAN
BY DEF Tasks

\* A request of a task that is about a request.
LEMMA OfTask ==
  ASSUME NEW x, Shaped(x), x.kind \in {"method", "reply", "invoke", "callback"}
  PROVE  Of(x) \in Requests /\ x.request = {Of(x)}
<1>1. PICK r \in Requests : x.request = {r}
  BY DEF Shaped
<1>2. Of(x) \in x.request
  BY <1>1 DEF Of
<1>3. QED
  BY <1>1, <1>2

\* The times at which requests are made are numbers.
LEMMA BeforeIs ==
  ASSUME CookieTypes
  PROVE  \A r \in Requests : /\ Before(request)[r] = request[r].before
                             /\ Before(request)[r] \in Nat
BY DEF CookieTypes, Before, Request

\* A queue to which other tasks are appended, and one whose first is taken,
\* keeps the order of the deletions.
LEMMA GetterAppended ==
  ASSUME NEW q \in Seq(IOTask), NEW x \in IOTask, NEW there,
         GetterLast(q, there), x.kind # "~getter"
  PROVE  GetterLast(Append(q, x), there)
<1> DEFINE d == Append(q, x)
<1>1. /\ Len(q) \in Nat /\ Len(d) = Len(q) + 1 /\ d[Len(q) + 1] = x
      /\ \A i \in 1..Len(q) : d[i] = q[i]
  BY Appended
<1> HIDE DEF d
<1>2. ASSUME NEW i \in 1..Len(d), d[i].kind = "~getter"
      PROVE  ~there \/ \E j \in 1..i - 1 : d[j].kind = "~resource"
  <2>1. i # Len(q) + 1
    BY <1>1, <1>2
  <2>2. i \in 1..Len(q) /\ d[i] = q[i]
    BY <1>1, <2>1
  <2>3. \A j \in 1..i - 1 : d[j] = q[j]
    BY <1>1, <2>2
  <2>4. QED
    BY <1>2, <2>2, <2>3 DEF GetterLast
<1>3. QED
  BY <1>2 DEF GetterLast, d

\* The order of the deletions when the first task is taken.
LEMMA GetterTaken ==
  ASSUME NEW q \in Seq(IOTask), q # <<>>, NEW there, NEW still, GetterLast(q, there),
         still => there /\ Head(q).kind # "~resource"
  PROVE  GetterLast(Tail(q), still)
<1> DEFINE d == Tail(q)
<1>1. /\ Len(q) \in Nat \ {0} /\ Len(d) = Len(q) - 1 /\ Head(q) = q[1]
      /\ \A i \in 1..Len(q) - 1 : d[i] = q[i + 1]
  BY Taken
<1> HIDE DEF d
<1>2. ASSUME NEW i \in 1..Len(d), d[i].kind = "~getter", still
      PROVE  \E j \in 1..i - 1 : d[j].kind = "~resource"
  <2>1. i + 1 \in 1..Len(q) /\ d[i] = q[i + 1]
    BY <1>1
  <2>2. PICK j \in 1..(i + 1) - 1 : q[j].kind = "~resource"
    BY <1>2, <2>1 DEF GetterLast
  <2>3. j # 1
    BY <1>1, <1>2, <2>2
  <2>4. j - 1 \in 1..i - 1 /\ j - 1 \in 1..Len(q) - 1 /\ (j - 1) + 1 = j
    BY <1>1, <2>3
  <2>5. QED
    BY <1>1, <2>2, <2>4
<1>3. QED
  BY <1>2 DEF GetterLast, d

\* The changes that are told to the client, and those who hear of them.
LEMMA CookieInvStays ==
  ASSUME CookieInv, UNCHANGED <<cookieVars, lifeVars>>
  PROVE  CookieInv'
<1>1. /\ toUI' = toUI /\ toIO' = toIO /\ written' = written /\ seen' = seen
      /\ opCount' = opCount /\ request' = request /\ invokes' = invokes
      /\ asked' = asked /\ type' = type /\ session' = session
      /\ registered' = registered /\ returning' = returning /\ resource' = resource
      /\ getter' = getter
  BY DEF cookieVars, lifeVars, queues, clientVars
<1>2. CookieTypes' /\ Placed' /\ Life'
  BY <1>1 DEF CookieInv, CookieTypes, Placed, PlacedAt, Life
<1>3. Answered' /\ Flow'
  BY <1>1 DEF CookieInv, Answered, AnsweredAt, Flow, Applied, Flows
<1>4. QED
  BY <1>2, <1>3 DEF CookieInv

\* It holds initially.
LEMMA CookieInit ==
  ASSUME SessionAssumption, SessionInit
  PROVE  CookieInv
<1>1. CookieTypes
  <2>1. Unused \in Request /\ Unused.before = 0
    BY DEF Unused, Request
  <2>2. request \in [Requests -> Request] /\ \A r \in Requests : request[r] = Unused
    BY <2>1 DEF SessionInit
  <2>3. toUI \in Seq(UITask) /\ toIO \in Seq(IOTask) /\ written \in Seq(Message) /\ seen \in Seq(Nat)
    BY DEF SessionInit
  <2>4. \A r \in Requests : request[r].before <= opCount
    BY <2>1, <2>2 DEF SessionInit
  <2>5. registered \in BOOLEAN /\ returning \in BOOLEAN /\ resource \in BOOLEAN
    BY Zenon DEF SessionInit
  <2>6. opCount \in Nat /\ invokes \subseteq Requests /\ asked \subseteq invokes
    BY DEF SessionInit
  <2>7. type \in Types /\ session \in {"alive", "dying", "gone"}
        /\ getter \in {"session", "released", "others", "gone"}
    BY DEF SessionInit
  <2>8. QED
    BY <2>2, <2>3, <2>4, <2>5, <2>6, <2>7 DEF CookieTypes
<1>2. Elems(toUI) = {} /\ Elems(toIO) = {} /\ Elems(written) = {}
  BY DEF SessionInit, Elems
<1>3. ASSUME NEW r \in Requests PROVE PlacedAt(r) /\ AnsweredAt(r)
  <2>1. request[r] = Unused
    BY DEF SessionInit
  <2>2. Len(<<>>) = 0 /\ 1..0 = {}
    OBVIOUS
  <2>3. Once(toUI, r) /\ Once(toIO, r) /\ Once(written, r)
    BY <2>2 DEF SessionInit, Once
  <2>4. ~In(toUI, r) /\ ~In(toIO, r) /\ ~In(written, r) /\ r \notin asked
    BY <1>2 DEF In, SessionInit
  <2>5. PlacedAt(r)
    BY <2>1, <2>3, <2>4 DEF PlacedAt, Unused
  <2>6. AnsweredAt(r)
    BY <1>2, <2>1 DEF AnsweredAt, Unused
  <2>7. QED
    BY <2>5, <2>6
<1>4. Follows(<<>>, Before(request), 0, 0)
  <2>1. <<>> \in Seq(UITask) /\ Len(<<>>) = 0 /\ 1..0 = {} /\ 0..0 - 1 = {}
    OBVIOUS
  <2>2. Run(<<>>, 0, 0)
    <3>1. DOMAIN <<>> = {}
      BY <2>1
    <3>2. QED
      BY <2>1, <3>1 DEF Run
  <2>3. QED
    BY <2>1, <2>2 DEF Follows
<1>5. Flow
  <2>1. Applied
    BY DEF SessionInit, Applied
  <2>2. Flows(0, 0)
    BY <1>4 DEF SessionInit, Flows
  <2>3. 0 \in 0..opCount
    BY DEF SessionInit
  <2>4. QED
    BY <2>1, <2>2, <2>3 DEF Flow
<1>6. Life
  <2>1. 1..Len(toIO) = {}
    BY DEF SessionInit
  <2>2. QED
    BY <2>1 DEF SessionInit, Life, GetterLast
<1>7. QED
  BY <1>1, <1>3, <1>5, <1>6 DEF CookieInv, Placed, Answered

-----------------------------------------------------------------------------
(* Each step keeps the invariant. *)

\* The network stack reports a change.
LEMMA CookieChange ==
  ASSUME CookieInv, NEW kind \in Changes, Change(kind)
  PROVE  CookieInv'
<1> DEFINE x == Emit(opCount)
           ui == toUI'
<1>1. /\ CookieTypes /\ Placed /\ Answered /\ Flow /\ Life
  BY DEF CookieInv
<1>2. /\ toIO' = toIO /\ returning' = returning /\ invokes' = invokes /\ request' = request
      /\ written' = written /\ seen' = seen /\ asked' = asked /\ type' = type
      /\ session' = session /\ registered' = registered /\ resource' = resource
      /\ getter' = getter
  BY DEF Change, clientVars, lifeVars
<1>3. x \in UITask /\ x.kind = "emit" /\ x.request = {} /\ x.change = opCount
  BY <1>1 DEF CookieTypes, Emit, Task, UITask, Tasks, Shaped
<1>4. ui = toUI \/ ui = Append(toUI, x)
  BY DEF Change, PostToBinding
<1>5. opCount \in Nat /\ opCount' \in Nat /\ opCount <= opCount'
  BY <1>1 DEF Change, CookieTypes
<1>6. registered => ui = Append(toUI, x) /\ opCount' = opCount + 1
  BY <1>1 DEF Change, PostToBinding, Bound, Life
<1>7. toUI \in Seq(UITask)
  BY <1>1 DEF CookieTypes
<1> HIDE DEF x
<1>8. ui \in Seq(UITask) /\ Elems(ui) \subseteq Elems(toUI) \union {x}
  <2>1. Append(toUI, x) \in Seq(UITask) /\ Elems(Append(toUI, x)) = Elems(toUI) \union {x}
    BY <1>3, <1>7, Appended
  <2>2. QED
    BY <1>4, <1>7, <2>1
<1>9. ASSUME NEW r \in Requests PROVE In(ui, r) <=> In(toUI, r)
  BY <1>3, <1>4, <1>7, AppendedIn
<1>10. ASSUME NEW r \in Requests, Once(toUI, r) PROVE Once(ui, r)
  BY <1>3, <1>4, <1>7, <1>10, AppendedIn
<1>11. CookieTypes'
  <2> HIDE DEF ui
  <2>1. toUI' \in Seq(UITask)
    BY <1>8 DEF ui
  <2>2. \A r \in Requests : request[r].before \in Nat /\ request[r].before <= opCount
    BY <1>1 DEF CookieTypes, Request
  <2>3. \A r \in Requests : request'[r].before <= opCount'
    BY <1>2, <1>5, <2>2
  <2>4. QED
    BY <1>1, <1>2, <1>5, <2>1, <2>3 DEF CookieTypes
<1>12. ASSUME NEW r \in Requests PROVE PlacedAt(r)'
  <2>1. PlacedAt(r)
    BY <1>1 DEF Placed
  <2>2. (In(toUI, r)' <=> In(toUI, r)) /\ Once(toUI, r)'
    BY <1>9, <1>10, <2>1 DEF PlacedAt
  <2>3. QED
    BY <1>2, <2>1, <2>2 DEF PlacedAt
<1>13. Answered'
  BY <1>1, <1>2, <1>3, <1>8 DEF Answered, AnsweredAt
<1>14. Flow'
  <2>1. PICK sent \in 0..opCount, queued \in 0..opCount : Flows(sent, queued)
    BY <1>1 DEF Flow
  <2>2. sent \in 0..opCount' /\ queued \in 0..opCount'
    BY <1>5
  <2>3. registered => Follows(ui, Before(request), queued, opCount')
    <3>1. Reports(x) /\ ~Asking(x) /\ queued \in Nat
      BY <1>3, <1>5 DEF Reports, Asking
    <3>2. SUFFICES ASSUME registered
                   PROVE  Follows(ui, Before(request), queued, opCount')
      OBVIOUS
    <3>3. Follows(toUI, Before(request), queued, opCount)
      BY <2>1, <3>2 DEF Flows
    <3>4. Follows(Append(toUI, x), Before(request), queued, opCount + 1)
      BY <1>3, <1>5, <1>7, <3>1, <3>3, ChangeAppended
    <3>5. QED
      BY <1>6, <3>2, <3>4
  <2>4. Flows(sent, queued)'
    BY <1>2, <2>1, <2>3 DEF Flows
  <2>5. Applied'
    BY <1>1, <1>2 DEF Flow, Applied
  <2>6. QED
    BY <2>2, <2>4, <2>5 DEF Flow
<1>15. Life'
  BY <1>1, <1>2 DEF Life
<1>16. QED
  BY <1>11, <1>12, <1>13, <1>14, <1>15 DEF CookieInv, Placed

\* A request that is made.
Made(requests, r, kind, n) == [requests EXCEPT ![r].kind = kind, ![r].before = n]

\* It is as it was but for its kind and what was reported before it.
LEMMA RequestMade ==
  ASSUME NEW requests \in [Requests -> Request], NEW r \in Requests, NEW kind \in Kinds,
         NEW n \in Nat, NEW made, made = Made(requests, r, kind, n)
  PROVE  /\ made \in [Requests -> Request]
         /\ made[r].kind = kind /\ made[r].before = n /\ made[r].ran = requests[r].ran
         /\ \A q \in Requests : q # r => made[q] = requests[q]
<1>1. \A q \in Requests : q # r => made[q] = requests[q]
  BY Zenon DEF Made
<1>2. made[r] = [[requests[r] EXCEPT !.kind = kind] EXCEPT !.before = n]
  BY DEF Made
<1> DEFINE old == requests[r]
<1>3. old \in Request
  OBVIOUS
<1> HIDE DEF old
<1>4. [old EXCEPT !.kind = kind] \in Request /\ [old EXCEPT !.kind = kind].kind = kind
      /\ [old EXCEPT !.kind = kind].ran = old.ran
  BY <1>3 DEF Request
<1> DEFINE half == [old EXCEPT !.kind = kind]
<1>5. half \in Request /\ half.kind = kind /\ half.ran = old.ran
  BY <1>4
<1> HIDE DEF half
<1>6. /\ [half EXCEPT !.before = n] \in Request /\ [half EXCEPT !.before = n].before = n
      /\ [half EXCEPT !.before = n].kind = kind /\ [half EXCEPT !.before = n].ran = old.ran
  BY <1>5 DEF Request
<1>7. made[r] = [half EXCEPT !.before = n]
  BY <1>2 DEF half, old
<1>8. DOMAIN made = Requests /\ made = [q \in Requests |-> made[q]]
  BY Zenon DEF Made
<1>9. \A q \in Requests : made[q] \in Request
  BY <1>1, <1>6, <1>7
<1>10. QED
  BY <1>1, <1>6, <1>7, <1>8, <1>9 DEF old

\* The network stack asks for cookies, or for a flush.
LEMMA CookieAsk ==
  ASSUME CookieInv, NEW r \in Requests, Ask(r)
  PROVE  CookieInv'
<1> DEFINE x == Method(r)
           y == Callback(r, 0)
           ui == toUI'
           io == toIO'
           made == request'
<1>1. /\ CookieTypes /\ Placed /\ Answered /\ Flow /\ Life
  BY DEF CookieInv
<1>2. /\ opCount' = opCount /\ returning' = returning /\ invokes' = invokes
      /\ written' = written /\ seen' = seen /\ asked' = asked /\ type' = type
      /\ session' = session /\ registered' = registered /\ resource' = resource
      /\ getter' = getter
  BY DEF Ask, clientVars, lifeVars
<1>3. /\ toUI \in Seq(UITask) /\ toIO \in Seq(IOTask) /\ written \in Seq(Message)
      /\ opCount \in Nat /\ request \in [Requests -> Request] /\ Len(seen) \in Nat
  BY <1>1 DEF CookieTypes
<1>4. /\ made \in [Requests -> Request]
      /\ made[r].kind # "none" /\ made[r].before = opCount /\ made[r].ran = request[r].ran
      /\ \A q \in Requests : q # r => made[q] = request[q]
  <2>1. PICK kind \in Kinds : made = Made(request, r, kind, opCount)
    BY DEF Ask, Made
  <2>2. kind # "none"
    BY DEF Kinds
  <2> HIDE DEF made
  <2>3. /\ made \in [Requests -> Request]
        /\ made[r].kind = kind /\ made[r].before = opCount /\ made[r].ran = request[r].ran
        /\ \A q \in Requests : q # r => made[q] = request[q]
    BY <1>3, <2>1, RequestMade
  <2>4. QED
    BY <2>2, <2>3
<1>5. request[r].kind = "none"
  BY DEF Ask
<1>6. /\ x \in UITask /\ x.kind = "method" /\ x.request = {r}
      /\ y \in IOTask /\ y.kind = "callback" /\ y.request = {r}
  <2>1. 0 \in Nat /\ TRUE \in BOOLEAN
    OBVIOUS
  <2>2. x \in UITask /\ y \in IOTask
    BY <2>1, TaskTypes
  <2>3. QED
    BY <2>2 DEF Method, Callback, Task
<1>7. \/ ui = toUI /\ io = toIO
      \/ ui = toUI /\ io = Append(toIO, y) /\ type # "client"
      \/ ui = Append(toUI, x) /\ io = toIO
  BY DEF Ask, PostToBinding
<1> HIDE DEF x, y, ui, io, made
<1>8. /\ ui \in Seq(UITask) /\ Elems(ui) \subseteq Elems(toUI) \union {x}
      /\ io \in Seq(IOTask) /\ Elems(io) \subseteq Elems(toIO) \union {y}
      /\ type = "client" => io = toIO
  <2>1. /\ Append(toUI, x) \in Seq(UITask) /\ Elems(Append(toUI, x)) = Elems(toUI) \union {x}
    BY <1>3, <1>6, Appended
  <2>2. /\ Append(toIO, y) \in Seq(IOTask) /\ Elems(Append(toIO, y)) = Elems(toIO) \union {y}
    BY <1>3, <1>6, Appended
  <2>3. QED
    BY <1>3, <1>7, <2>1, <2>2
<1>9. PlacedAt(r) /\ ~In(toUI, r) /\ ~In(toIO, r) /\ ~In(written, r) /\ r \notin asked
      /\ request[r].ran = 0
  BY <1>1, <1>5 DEF Placed, PlacedAt
<1>10. ~(In(ui, r) /\ In(io, r))
  BY <1>3, <1>6, <1>7, <1>9, AppendedIn
<1>11. ASSUME NEW q \in Requests
       PROVE  /\ Once(toUI, q) => Once(ui, q)
              /\ Once(toIO, q) => Once(io, q)
              /\ q # r => (In(ui, q) <=> In(toUI, q)) /\ (In(io, q) <=> In(toIO, q))
  <2>1. ~(In(toUI, q) /\ q \in x.request) /\ ~(In(toIO, q) /\ q \in y.request)
    BY <1>6, <1>9
  <2>2. CASE ui = toUI /\ io = toIO
    BY <2>2
  <2>3. CASE ui = toUI /\ io = Append(toIO, y)
    BY <1>3, <1>6, <2>1, <2>3, AppendedIn
  <2>4. CASE ui = Append(toUI, x) /\ io = toIO
    BY <1>3, <1>6, <2>1, <2>4, AppendedIn
  <2>5. QED
    BY <1>7, <2>2, <2>3, <2>4
<1>12. CookieTypes'
  <2>1. \A q \in Requests : made[q].before <= opCount
    <3>1. \A q \in Requests : request[q].before <= opCount
      BY <1>1 DEF CookieTypes
    <3>2. made[r].before <= opCount
      BY <1>3, <1>4
    <3>3. QED
      BY <1>4, <3>1, <3>2
  <2>2. QED
    BY <1>1, <1>2, <1>4, <1>8, <2>1 DEF CookieTypes, ui, io, made
<1>13. ASSUME NEW q \in Requests PROVE PlacedAt(q)'
  <2>1. PlacedAt(q)
    BY <1>1 DEF Placed
  <2>2. CASE q = r
    BY <1>2, <1>4, <1>9, <1>10, <1>11, <2>2 DEF PlacedAt, ui, io, made
  <2>3. CASE q # r
    BY <1>2, <1>4, <1>11, <2>1, <2>3 DEF PlacedAt, ui, io, made
  <2>4. QED
    BY <2>2, <2>3
<1>14. Answered'
  <2>1. SUFFICES ASSUME type = "client", NEW q \in Requests PROVE AnsweredAt(q)'
    BY <1>2 DEF Answered
  <2>2. AnsweredAt(q)
    BY <1>1, <2>1 DEF Answered
  <2>3. CASE q = r
    <3>1. \A z \in Elems(ui) : z.kind = "reply" => q \notin z.request
      <4>1. \A z \in Elems(toUI) : q \notin z.request
        BY <1>9, <2>3 DEF In
      <4>2. QED
        BY <1>6, <1>8, <4>1
    <3>2. \A z \in Elems(io) : q \notin z.request
      BY <1>8, <1>9, <2>1, <2>3 DEF In
    <3>3. made[q].ran = 0
      BY <1>4, <1>9, <2>3
    <3>4. QED
      BY <3>1, <3>2, <3>3 DEF AnsweredAt, ui, io, made
  <2>4. CASE q # r
    <3>1. made[q] = request[q]
      BY <1>4, <2>4
    <3>2. \A z \in Elems(ui) : z.kind = "reply" => z \in Elems(toUI)
      BY <1>6, <1>8
    <3>3. io = toIO
      BY <1>8, <2>1
    <3>4. QED
      BY <2>2, <3>1, <3>2, <3>3 DEF AnsweredAt, ui, io, made
  <2>5. QED
    BY <2>3, <2>4
<1>15. Flow'
  <2>1. PICK sent \in 0..opCount, queued \in 0..opCount : Flows(sent, queued)
    BY <1>1 DEF Flow
  <2> DEFINE before == Before(request)
             after == Before(made)
  <2>2. /\ \A q \in Requests : q # r => after[q] = before[q]
        /\ \A q \in Requests : after[q] \in Nat
        /\ after[r] = opCount
    BY <1>3, <1>4 DEF Before, Request
  <2>3. /\ Follows(written, before, Len(seen), sent) /\ Follows(toIO, before, sent, queued)
        /\ registered => Follows(toUI, before, queued, opCount)
    BY <2>1 DEF Flows
  <2> HIDE DEF before, after
  <2>4. \A q \in Requests : In(toUI, q) \/ In(toIO, q) \/ In(written, q) => after[q] = before[q]
    BY <1>9, <2>2
  <2>5. Follows(written, after, Len(seen), sent)
    BY <1>3, <2>3, <2>4, FollowsSame
  <2>6. Follows(toIO, after, sent, queued)
    BY <1>3, <2>3, <2>4, FollowsSame
  <2>7. sent \in Nat /\ queued \in Nat
    BY <1>3
  <2>8. Follows(io, after, sent, queued)
    <3>1. ~Reports(y) /\ ~Asking(y)
      BY <1>6 DEF Reports, Asking
    <3>2. Follows(Append(toIO, y), after, sent, queued)
      BY <1>3, <1>6, <2>6, <2>7, <3>1, OtherAppended
    <3>3. QED
      BY <1>7, <2>6, <3>2
  <2>9. ASSUME registered PROVE Follows(ui, after, queued, opCount)
    <3>1. Follows(toUI, after, queued, opCount)
      BY <1>3, <2>3, <2>4, <2>9, FollowsSame
    <3>2. ~Reports(x) /\ \A q \in Requests : q \in x.request => after[q] \in Nat /\ after[q] <= opCount
      BY <1>3, <1>6, <2>2 DEF Reports
    <3>3. Follows(Append(toUI, x), after, queued, opCount)
      BY <1>3, <1>6, <2>7, <3>1, <3>2, OtherAppended
    <3>4. QED
      BY <1>7, <3>1, <3>3
  <2>10. Flows(sent, queued)'
    BY <1>2, <2>5, <2>8, <2>9 DEF Flows, after, made, ui, io
  <2>11. Applied'
    BY <1>1, <1>2, <1>4, <1>9 DEF Flow, Applied, CookieTypes, made
  <2>12. QED
    BY <1>2, <2>10, <2>11 DEF Flow
<1>16. Life'
  <2>1. GetterLast(io, resource)
    <3>1. GetterLast(toIO, resource)
      BY <1>1 DEF Life
    <3>2. GetterLast(Append(toIO, y), resource)
      BY <1>3, <1>6, <3>1, GetterAppended
    <3>3. QED
      BY <1>7, <3>1, <3>2
  <2>2. QED
    BY <1>1, <1>2, <2>1 DEF Life, io
<1>17. QED
  BY <1>12, <1>13, <1>14, <1>15, <1>16 DEF CookieInv, Placed

\* What a task of the UI thread posts to the IO thread, if anything.
Posts(task, y) ==
  /\ y.request \subseteq task.request /\ y.kind # "~getter"
  /\ task.kind = "method" => y.kind = "invoke"
  /\ task.kind = "emit" => y.kind = "event" /\ y.change = task.change
  /\ task.kind = "reply" => y.kind = "callback" /\ y.answer = task.answer
  /\ task.kind = "delete" => y.kind = "~resource"

\* A task of the UI thread posts at most one task, and which one.
LEMMA PostsTask ==
  ASSUME CookieInv, UIThread
  PROVE  \E y \in IOTask :
           /\ Posts(Head(toUI), y)
           /\ toIO' = toIO \/ toIO' = Append(toIO, y)
           /\ Head(toUI).kind \in {"method", "emit"} =>
                toIO' = IF registered THEN Append(toIO, y) ELSE toIO
           /\ Head(toUI).kind = "delete" => toIO' = toIO
<1> DEFINE task == Head(toUI)
           io == toIO'
<1>1. toUI \in Seq(UITask) /\ toUI # <<>>
  BY DEF CookieInv, CookieTypes, UIThread
<1>2. task \in UITask
  BY <1>1, Taken
<1>3. /\ task.kind \in {"method", "emit", "reply", "delete"} /\ Shaped(task)
      /\ task.change \in Nat /\ task.answer \in Nat
  BY <1>2, TaskFields DEF UITask
<1>4. /\ task.kind = "method" => io = InvokeStore(task)
      /\ task.kind = "emit" => io = EmitChange(task)
      /\ task.kind = "reply" => io = RunCallback(task)
      /\ task.kind = "delete" => io = toIO
  BY <1>3 DEF UIThread
<1> HIDE DEF task, io
<1>5. CASE task.kind = "method"
  <2>1. Of(task) \in Requests /\ task.request = {Of(task)}
    BY <1>3, <1>5, OfTask
  <2> DEFINE y == Task("invoke", task.request, 0, 0, TRUE)
  <2>2. y \in IOTask
    <3>1. 0 \in Nat /\ TRUE \in BOOLEAN
      OBVIOUS
    <3>2. QED
      BY <2>1, <3>1, TaskTypes
  <2>3. Posts(task, y)
    BY <1>5 DEF Posts, Task
  <2>4. io = IF registered THEN Append(toIO, y) ELSE toIO
    BY <1>4, <1>5 DEF InvokeStore, SendToRemote
  <2> HIDE DEF y
  <2>5. QED
    BY <1>5, <2>2, <2>3, <2>4 DEF io, task
<1>6. CASE task.kind = "emit"
  <2> DEFINE y == Task("event", {}, task.change, 0, TRUE)
  <2>1. y \in IOTask
    BY <1>3 DEF Task, IOTask, Tasks, Shaped
  <2>2. Posts(task, y)
    BY <1>6 DEF Posts, Task
  <2>3. io = IF registered THEN Append(toIO, y) ELSE toIO
    BY <1>4, <1>6 DEF EmitChange, SendToRemote
  <2> HIDE DEF y
  <2>4. QED
    BY <1>6, <2>1, <2>2, <2>3 DEF io, task
<1>7. CASE task.kind = "reply"
  <2>1. Of(task) \in Requests /\ task.request = {Of(task)}
    BY <1>3, <1>7, OfTask
  <2> DEFINE y == Callback(Of(task), task.answer)
  <2>2. y \in IOTask
    <3>1. 0 \in Nat /\ TRUE \in BOOLEAN
      OBVIOUS
    <3>2. QED
      BY <1>3, <2>1, <3>1, TaskTypes
  <2>3. Posts(task, y)
    BY <1>7, <2>1 DEF Posts, Callback, Task
  <2>4. io = toIO \/ io = Append(toIO, y)
    BY <1>4, <1>7 DEF RunCallback
  <2> HIDE DEF y
  <2>5. QED
    BY <1>7, <2>2, <2>3, <2>4 DEF io, task
<1>8. CASE task.kind = "delete"
  <2> DEFINE y == Destroyed("~resource")
  <2>1. y \in IOTask
    BY DEF Destroyed, Task, IOTask, Tasks, Shaped
  <2>2. Posts(task, y)
    BY <1>8 DEF Posts, Destroyed, Task
  <2> HIDE DEF y
  <2>3. QED
    BY <1>4, <1>8, <2>1, <2>2 DEF io, task
<1>9. QED
  BY <1>3, <1>5, <1>6, <1>7, <1>8

\* What comes of the requests.
Answers(requests, r, ok) == [requests EXCEPT ![r].ok = ok]

\* An answer changes a request in nothing but its error.
LEMMA RequestAnswered ==
  ASSUME NEW requests \in [Requests -> Request], NEW r \in Requests, NEW ok \in BOOLEAN,
         NEW made, made = Answers(requests, r, ok)
  PROVE  /\ made \in [Requests -> Request]
         /\ made[r].kind = requests[r].kind /\ made[r].before = requests[r].before
         /\ made[r].ran = requests[r].ran /\ made[r].answer = requests[r].answer
         /\ made[r].ok = ok
         /\ \A q \in Requests : q # r => made[q] = requests[q]
<1>1. \A q \in Requests : q # r => made[q] = requests[q]
  BY Zenon DEF Answers
<1> DEFINE old == requests[r]
<1>2. made[r] = [old EXCEPT !.ok = ok]
  BY DEF Answers
<1>3. old \in Request
  OBVIOUS
<1> HIDE DEF old
<1> DEFINE new == [old EXCEPT !.ok = ok]
<1>4. new \in Request
  BY <1>3 DEF Request
<1>5. new.kind = old.kind /\ new.before = old.before /\ new.ran = old.ran
      /\ new.answer = old.answer /\ new.ok = ok
  BY <1>3 DEF Request
<1>6. made[r] = new
  BY <1>2
<1> HIDE DEF new
<1>7. DOMAIN made = Requests /\ made = [q \in Requests |-> made[q]]
  BY Zenon DEF Answers
<1>8. \A q \in Requests : made[q] \in Request
  BY <1>1, <1>4, <1>6
<1>9. QED
  BY <1>1, <1>5, <1>6, <1>7, <1>8 DEF old

\* The UI thread runs a task.
LEMMA CookieUIThread ==
  ASSUME CookieInv, UIThread
  PROVE  CookieInv'
<1> DEFINE task == Head(toUI)
           ui == toUI'
           io == toIO'
           made == request'
<1>1. /\ CookieTypes /\ Placed /\ Answered /\ Flow /\ Life
  BY DEF CookieInv
<1>2. /\ opCount' = opCount /\ returning' = returning
      /\ written' = written /\ seen' = seen /\ asked' = asked /\ type' = type
      /\ resource' = resource /\ getter' = getter /\ ui = Tail(toUI) /\ toUI # <<>>
      /\ registered' = (registered /\ task.kind # "delete")
  BY DEF UIThread, clientVars
<1>3. /\ toUI \in Seq(UITask) /\ toIO \in Seq(IOTask) /\ written \in Seq(Message)
      /\ opCount \in Nat /\ request \in [Requests -> Request] /\ Len(seen) \in Nat
  BY <1>1 DEF CookieTypes
<1>4. PICK y \in IOTask :
        /\ Posts(task, y) /\ (io = toIO \/ io = Append(toIO, y))
        /\ task.kind \in {"method", "emit"} => io = IF registered THEN Append(toIO, y) ELSE toIO
        /\ task.kind = "delete" => io = toIO
  BY PostsTask
<1>5. task \in UITask /\ task \in Elems(toUI) /\ ui \in Seq(UITask)
      /\ Elems(ui) \subseteq Elems(toUI)
  BY <1>2, <1>3, Taken
<1>6. /\ task.kind \in {"method", "emit", "reply", "delete"} /\ Shaped(task)
      /\ task.request \subseteq Requests /\ task.ok \in BOOLEAN
      /\ task.change \in Nat /\ task.answer \in Nat
  BY <1>5, TaskFields DEF UITask
<1>7. /\ made \in [Requests -> Request]
      /\ \A q \in Requests : /\ made[q].kind = request[q].kind
                             /\ made[q].before = request[q].before
                             /\ made[q].ran = request[q].ran
                             /\ made[q].answer = request[q].answer
                             /\ q \notin task.request => made[q] = request[q]
                             /\ task.kind = "reply" /\ q \in task.request => made[q].ok = task.ok
                             /\ task.kind # "reply" => made[q] = request[q]
  <2>1. CASE task.kind = "reply"
    <3>1. Of(task) \in Requests /\ task.request = {Of(task)}
      BY <1>6, <2>1, OfTask
    <3>2. made = Answers(request, Of(task), task.ok)
      BY <2>1 DEF UIThread, Answers
    <3> DEFINE r == Of(task)
    <3> HIDE DEF made, r, task
    <3>3. /\ made \in [Requests -> Request]
          /\ made[r].kind = request[r].kind /\ made[r].before = request[r].before
          /\ made[r].ran = request[r].ran /\ made[r].answer = request[r].answer
          /\ made[r].ok = task.ok
          /\ \A q \in Requests : q # r => made[q] = request[q]
      BY <1>3, <1>6, <3>1, <3>2, RequestAnswered DEF r
    <3>4. task.request = {r}
      BY <3>1 DEF r
    <3>5. QED
      BY <2>1, <3>3, <3>4
  <2>2. CASE task.kind # "reply"
    <3>1. made = request
      BY <2>2 DEF UIThread
    <3>2. QED
      BY <1>3, <2>2, <3>1
  <2>3. QED
    BY <2>1, <2>2
<1>8. invokes' \subseteq invokes /\ invokes \subseteq invokes' \union task.request
  BY DEF UIThread
<1>9. registered' \in BOOLEAN /\ (registered' => registered)
      /\ (registered' => task.kind # "delete")
  BY <1>2, Zenon
<1>10. session' = session \/ (session = "alive" /\ session' = "dying" /\ ~registered')
  BY DEF UIThread, LetGo, Held
<1>11. ASSUME NEW q \in Requests
       PROVE  /\ In(toUI, q) <=> q \in task.request \/ In(ui, q)
              /\ Once(toUI, q) => Once(ui, q) /\ ~(q \in task.request /\ In(ui, q))
  BY <1>2, <1>3, TakenIn
<1> HIDE DEF task, ui, io, made
<1>12. y.request \subseteq task.request /\ y.kind # "~getter"
  BY <1>4 DEF Posts
<1>13. ASSUME NEW q \in Requests, q \in task.request
       PROVE  /\ ~In(toIO, q) /\ ~In(written, q) /\ q \notin asked /\ request[q].ran = 0
              /\ ~In(ui, q) /\ request[q].kind # "none"
  <2>1. PlacedAt(q) /\ In(toUI, q)
    BY <1>1, <1>11, <1>13 DEF Placed
  <2>2. request[q].ran \in 0..1
    BY <1>3 DEF Request
  <2>3. QED
    BY <1>11, <1>13, <2>1, <2>2 DEF PlacedAt
<1>14. ASSUME NEW q \in Requests
       PROVE  /\ In(io, q) => In(toIO, q) \/ q \in task.request
              /\ Once(toIO, q) => Once(io, q)
  <2>1. ~(In(toIO, q) /\ q \in y.request)
    BY <1>12, <1>13
  <2>2. CASE io = toIO
    BY <2>2
  <2>3. CASE io = Append(toIO, y)
    BY <1>3, <1>12, <2>1, <2>3, AppendedIn
  <2>4. QED
    BY <1>4, <2>2, <2>3
<1>15. io \in Seq(IOTask) /\ Elems(io) \subseteq Elems(toIO) \union {y}
  <2>1. Append(toIO, y) \in Seq(IOTask) /\ Elems(Append(toIO, y)) = Elems(toIO) \union {y}
    BY <1>3, Appended
  <2>2. QED
    BY <1>3, <1>4, <2>1
<1>16. CookieTypes'
  <2>1. \A q \in Requests : made[q].before <= opCount
    BY <1>1, <1>7 DEF CookieTypes
  <2>2. asked \subseteq invokes'
    <3>1. asked \subseteq invokes /\ invokes \subseteq Requests
      BY <1>1 DEF CookieTypes
    <3>2. QED
      BY <1>8, <1>13, <3>1
  <2>3. invokes' \subseteq Requests
    BY <1>1, <1>8 DEF CookieTypes
  <2>4. session' \in {"alive", "dying", "gone"}
    BY <1>1, <1>10 DEF CookieTypes
  <2>5. QED
    BY <1>1, <1>2, <1>5, <1>7, <1>9, <1>15, <2>1, <2>2, <2>3, <2>4 DEF CookieTypes, ui, io, made
<1>17. ASSUME NEW q \in Requests PROVE PlacedAt(q)'
  <2>1. PlacedAt(q)
    BY <1>1 DEF Placed
  <2>2. /\ Once(ui, q) /\ Once(io, q) /\ (In(ui, q) => In(toUI, q) /\ q \notin task.request)
        /\ (In(io, q) => In(toIO, q) \/ q \in task.request)
    BY <1>11, <1>14, <2>1 DEF PlacedAt
  <2>3. In(written, q) => q \in invokes'
    BY <1>8, <1>13, <2>1 DEF PlacedAt
  <2>4. made[q].kind = request[q].kind /\ made[q].ran = request[q].ran
    BY <1>7
  <2>5. CASE q \in task.request
    <3>1. ~In(ui, q) /\ ~In(written, q) /\ q \notin asked /\ request[q].kind # "none"
          /\ ~(request[q].ran > 0)
      BY <1>13, <2>5
    <3>2. QED
      BY <1>2, <2>1, <2>2, <2>4, <3>1 DEF PlacedAt, ui, io, made
  <2>6. CASE q \notin task.request
    BY <1>2, <2>1, <2>2, <2>3, <2>4, <2>6 DEF PlacedAt, ui, io, made
  <2>7. QED
    BY <2>5, <2>6
<1>18. Answered'
  <2>1. SUFFICES ASSUME type = "client", NEW q \in Requests PROVE AnsweredAt(q)'
    BY <1>2 DEF Answered
  <2>2. AnsweredAt(q)
    BY <1>1, <2>1 DEF Answered
  <2>3. made[q].before = request[q].before /\ made[q].ran = request[q].ran
        /\ made[q].answer = request[q].answer
    BY <1>7
  <2>4. \A z \in Elems(ui) : (z.kind = "reply" /\ q \in z.request /\ z.ok) =>
                               z.answer >= made[q].before
    BY <1>5, <2>2, <2>3 DEF AnsweredAt
  <2>5. CASE q \in task.request
    <3>1. \A z \in Elems(toIO) : q \notin z.request
      BY <1>13, <2>5 DEF In
    <3>2. ASSUME y.kind = "callback", made[q].ok PROVE y.answer >= made[q].before
      <4>1. task.kind = "reply" /\ y.answer = task.answer
        BY <1>4, <1>6, <3>2 DEF Posts
      <4>2. task.ok
        BY <1>7, <2>5, <3>2, <4>1
      <4>3. task.answer >= request[q].before
        BY <1>5, <2>2, <2>5, <4>1, <4>2 DEF AnsweredAt
      <4>4. QED
        BY <2>3, <4>1, <4>3
    <3>3. \A z \in Elems(io) : (z.kind = "callback" /\ q \in z.request /\ made[q].ok) =>
                                 z.answer >= made[q].before
      BY <1>15, <3>1, <3>2
    <3>4. ~(made[q].ran > 0)
      BY <1>13, <2>3, <2>5
    <3>5. QED
      BY <2>4, <3>3, <3>4 DEF AnsweredAt, ui, io, made
  <2>6. CASE q \notin task.request
    <3>1. q \notin y.request /\ made[q] = request[q]
      BY <1>7, <1>12, <2>6
    <3>2. \A z \in Elems(io) : (z.kind = "callback" /\ q \in z.request /\ made[q].ok) =>
                                 z.answer >= made[q].before
      BY <1>15, <2>2, <3>1 DEF AnsweredAt
    <3>3. (made[q].ran > 0 /\ made[q].ok) => made[q].answer >= made[q].before
      BY <2>2, <3>1 DEF AnsweredAt
    <3>4. QED
      BY <2>4, <3>2, <3>3 DEF AnsweredAt, ui, io, made
  <2>7. QED
    BY <2>5, <2>6
<1>19. Flow'
  <2>1. PICK sent \in 0..opCount, queued \in 0..opCount : Flows(sent, queued)
    BY <1>1 DEF Flow
  <2> DEFINE before == Before(request)
  <2>2. Before(made) = before /\ \A r \in Requests : before[r] \in Nat
    BY <1>3, <1>7 DEF Before, Request
  <2>3. /\ Follows(written, before, Len(seen), sent) /\ Follows(toIO, before, sent, queued)
        /\ registered => Follows(toUI, before, queued, opCount)
    BY <2>1 DEF Flows
  <2> HIDE DEF before
  <2>4. sent \in Nat /\ queued \in Nat
    BY <1>3
  <2>5. Applied'
    BY <1>1, <1>2, <1>7 DEF Flow, Applied, CookieTypes, made
  <2>6. \E after \in 0..opCount :
          Follows(io, before, sent, after) /\ (registered' => Follows(ui, before, after, opCount))
    <3>1. CASE task.kind = "delete"
      BY <1>4, <1>9, <2>3, <3>1
    <3>2. CASE task.kind \in {"method", "emit"} /\ ~registered
      BY <1>4, <1>9, <2>3, <3>2
    <3>3. CASE task.kind = "reply"
      <4>1. ~Reports(task) /\ ~Reports(y) /\ ~Asking(y)
        BY <1>4, <3>3 DEF Posts, Reports, Asking
      <4>2. Follows(Append(toIO, y), before, sent, queued)
        BY <1>3, <2>3, <2>4, <4>1, OtherAppended
      <4>3. ASSUME registered PROVE Follows(ui, before, queued, opCount)
        <5>1. Follows(toUI, before, queued, opCount)
          BY <2>3, <4>3
        <5>2. Follows(Tail(toUI), before, queued, opCount)
          BY <1>2, <1>3, <2>2, <2>4, <4>1, <5>1, OtherTaken DEF task
        <5>3. QED
          BY <1>2, <5>2
      <4>4. QED
        BY <1>4, <1>9, <2>3, <4>2, <4>3
    <3>4. CASE task.kind = "method" /\ registered
      <4>1. Follows(toUI, before, queued, opCount)
        BY <2>3, <3>4
      <4>2. ~Reports(task) /\ Asking(task) /\ ~Reports(y)
        BY <1>4, <3>4 DEF Posts, Reports, Asking
      <4>3. ASSUME NEW q \in Requests, q \in task.request PROVE before[q] <= queued
        BY <1>2, <1>3, <2>4, <4>1, <4>2, <4>3, FirstAsks DEF task
      <4>4. \A q \in Requests : q \in y.request => before[q] \in Nat /\ before[q] <= queued
        BY <1>12, <2>2, <4>3
      <4>5. Follows(Append(toIO, y), before, sent, queued)
        BY <1>3, <2>3, <2>4, <4>2, <4>4, OtherAppended
      <4>6. Follows(Tail(toUI), before, queued, opCount)
        BY <1>2, <1>3, <2>2, <2>4, <4>1, <4>2, OtherTaken DEF task
      <4>7. io = Append(toIO, y) /\ ui = Tail(toUI)
        BY <1>2, <1>4, <3>4
      <4>8. QED
        BY <4>5, <4>6, <4>7
    <3>5. CASE task.kind = "emit" /\ registered
      <4>1. Follows(toUI, before, queued, opCount)
        BY <2>3, <3>5
      <4>2. Reports(task) /\ Reports(y) /\ ~Asking(y) /\ y.change = task.change
        BY <1>4, <3>5 DEF Posts, Reports, Asking
      <4>3. /\ task.change = queued /\ queued < opCount
            /\ Follows(Tail(toUI), before, queued + 1, opCount)
        BY <1>2, <1>3, <2>2, <2>4, <4>1, <4>2, ChangeTaken DEF task
      <4>4. Follows(Append(toIO, y), before, sent, queued + 1)
        BY <1>3, <2>3, <2>4, <4>2, <4>3, ChangeAppended
      <4>5. io = Append(toIO, y) /\ ui = Tail(toUI)
        BY <1>2, <1>4, <3>5
      <4>6. queued + 1 \in 0..opCount
        BY <1>3, <2>4, <4>3
      <4>7. QED
        BY <4>3, <4>4, <4>5, <4>6
    <3>6. QED
      BY <1>6, <3>1, <3>2, <3>3, <3>4, <3>5
  <2>7. QED
    BY <1>2, <2>2, <2>3, <2>5, <2>6 DEF Flow, Flows, ui, io, made
<1>20. Life'
  <2>1. GetterLast(io, resource)
    <3>1. GetterLast(toIO, resource)
      BY <1>1 DEF Life
    <3>2. GetterLast(Append(toIO, y), resource)
      BY <1>3, <1>12, <3>1, GetterAppended
    <3>3. QED
      BY <1>4, <3>1, <3>2
  <2>2. QED
    BY <1>1, <1>2, <1>9, <1>10, <2>1 DEF Life, io
<1>21. QED
  BY <1>16, <1>17, <1>18, <1>19, <1>20 DEF CookieInv, Placed

\* The queue d of the IO thread has what q has, but for the deletions.
Quiet(q, d) ==
  /\ d \in Seq(IOTask)
  /\ \A r \in Requests : (In(d, r) <=> In(q, r)) /\ (Once(q, r) => Once(d, r))
  /\ \A z \in Elems(d) : z.kind = "callback" => z \in Elems(q)
  /\ \A before \in [Requests -> Nat], low, high \in Nat :
       Follows(q, before, low, high) => Follows(d, before, low, high)

Deletion(x) == x.kind \in {"~resource", "~getter"}

\* A deletion that is posted leaves the rest of the queue alone.
LEMMA QuietAppended ==
  ASSUME NEW q \in Seq(IOTask), NEW x \in IOTask, Deletion(x)
  PROVE  Quiet(q, Append(q, x))
<1> DEFINE d == Append(q, x)
<1>1. x.request = {} /\ x.kind # "callback" /\ ~Reports(x) /\ ~Asking(x)
  BY DEF IOTask, Shaped, Deletion, Reports, Asking
<1>2. d \in Seq(IOTask) /\ Elems(d) = Elems(q) \union {x}
  BY Appended
<1>3. ASSUME NEW r \in Requests
      PROVE  (In(d, r) <=> In(q, r)) /\ (Once(q, r) => Once(d, r))
  BY <1>1, AppendedIn
<1>4. ASSUME NEW before \in [Requests -> Nat], NEW low \in Nat, NEW high \in Nat,
             Follows(q, before, low, high)
      PROVE  Follows(d, before, low, high)
  BY <1>1, <1>4, OtherAppended
<1>5. \A z \in Elems(d) : z.kind = "callback" => z \in Elems(q)
  BY <1>1, <1>2
<1> HIDE DEF d
<1>6. Quiet(q, d)
  BY <1>2, <1>3, <1>4, <1>5 DEF Quiet
<1>7. QED
  BY <1>6 DEF d

\* So does one that is run.
LEMMA QuietTaken ==
  ASSUME NEW q \in Seq(IOTask), q # <<>>, Deletion(Head(q))
  PROVE  Quiet(q, Tail(q))
<1> DEFINE d == Tail(q)
<1>1. d \in Seq(IOTask) /\ Elems(d) \subseteq Elems(q) /\ Head(q) \in IOTask
  BY Taken
<1>2. Head(q).request = {} /\ ~Reports(Head(q))
  BY <1>1 DEF IOTask, Shaped, Deletion, Reports
<1>3. ASSUME NEW r \in Requests
      PROVE  (In(d, r) <=> In(q, r)) /\ (Once(q, r) => Once(d, r))
  BY <1>2, TakenIn
<1>4. ASSUME NEW before \in [Requests -> Nat], NEW low \in Nat, NEW high \in Nat,
             Follows(q, before, low, high)
      PROVE  Follows(d, before, low, high)
  <2>1. \A r \in Requests : before[r] \in Nat
    OBVIOUS
  <2>2. QED
    BY <1>2, <1>4, <2>1, OtherTaken
<1> HIDE DEF d
<1>5. Quiet(q, d)
  BY <1>1, <1>3, <1>4 DEF Quiet
<1>6. QED
  BY <1>5 DEF d

\* And two of them, one after the other.
LEMMA QuietTwice ==
  ASSUME NEW p, NEW q, NEW d, Quiet(p, q), Quiet(q, d)
  PROVE  Quiet(p, d)
<1>1. \A r \in Requests : (In(d, r) <=> In(p, r)) /\ (Once(p, r) => Once(d, r))
  BY DEF Quiet
<1>2. \A z \in Elems(d) : z.kind = "callback" => z \in Elems(p)
  BY DEF Quiet
<1>3. ASSUME NEW before \in [Requests -> Nat], NEW low \in Nat, NEW high \in Nat,
             Follows(p, before, low, high)
      PROVE  Follows(d, before, low, high)
  BY <1>3 DEF Quiet
<1>4. QED
  BY <1>1, <1>2, <1>3 DEF Quiet

\* A queue is like itself.
LEMMA QuietSame ==
  ASSUME NEW q \in Seq(IOTask)
  PROVE  Quiet(q, q)
BY DEF Quiet

\* What a step that is about the end of the session must show.
LEMMA CookieQuiet ==
  ASSUME CookieInv, Quiet(toIO, toIO'), Life',
         UNCHANGED <<opCount, toUI, invokes, request, clientVars, type, registered>>,
         session' \in {"alive", "dying", "gone"}, returning' \in BOOLEAN,
         resource' \in BOOLEAN, getter' \in {"session", "released", "others", "gone"}
  PROVE  CookieInv'
<1> DEFINE io == toIO'
<1>1. /\ CookieTypes /\ Placed /\ Answered /\ Flow
  BY DEF CookieInv
<1>2. /\ opCount' = opCount /\ toUI' = toUI /\ invokes' = invokes /\ request' = request
      /\ written' = written /\ seen' = seen /\ asked' = asked /\ type' = type
      /\ registered' = registered
  BY DEF clientVars
<1>3. /\ io \in Seq(IOTask)
      /\ \A z \in Elems(io) : z.kind = "callback" => z \in Elems(toIO)
  BY DEF Quiet
<1>4. \A r \in Requests : (In(io, r) <=> In(toIO, r)) /\ (Once(toIO, r) => Once(io, r))
  BY DEF Quiet
<1>5. ASSUME NEW before \in [Requests -> Nat], NEW low \in Nat, NEW high \in Nat,
             Follows(toIO, before, low, high)
      PROVE  Follows(io, before, low, high)
  BY <1>5 DEF Quiet
<1> HIDE DEF io
<1>6. CookieTypes'
  BY <1>1, <1>2, <1>3 DEF CookieTypes, io
<1>7. ASSUME NEW r \in Requests PROVE PlacedAt(r)'
  <2>1. PlacedAt(r)
    BY <1>1 DEF Placed
  <2>2. QED
    BY <1>2, <1>4, <2>1 DEF PlacedAt, io
<1>8. Answered'
  BY <1>1, <1>2, <1>3 DEF Answered, AnsweredAt, io
<1>9. Flow'
  <2>1. PICK sent \in 0..opCount, queued \in 0..opCount : Flows(sent, queued)
    BY <1>1 DEF Flow
  <2>2. Before(request) \in [Requests -> Nat] /\ sent \in Nat /\ queued \in Nat
    BY <1>1 DEF Before, CookieTypes, Request
  <2>3. Follows(io, Before(request), sent, queued)
    BY <1>5, <2>1, <2>2 DEF Flows
  <2>4. Flows(sent, queued)'
    BY <1>2, <2>1, <2>3 DEF Flows, io
  <2>5. Applied'
    BY <1>1, <1>2 DEF Flow, Applied
  <2>6. QED
    BY <1>2, <2>4, <2>5 DEF Flow
<1>10. QED
  BY <1>6, <1>7, <1>8, <1>9 DEF CookieInv, Placed

\* The UI thread destroys the session.
LEMMA CookieDestroySession ==
  ASSUME CookieInv, DestroySession
  PROVE  CookieInv'
<1> DEFINE x == Destroyed("~resource")
           y == Destroyed("~getter")
           one == Append(toIO, x)
           two == Append(one, y)
<1>1. toIO \in Seq(IOTask) /\ returning \in BOOLEAN /\ resource \in BOOLEAN /\ Life
      /\ registered \in BOOLEAN
  BY DEF CookieInv, CookieTypes
<1>2. /\ x \in IOTask /\ y \in IOTask /\ Deletion(x) /\ Deletion(y)
      /\ x.kind = "~resource" /\ y.kind = "~getter"
  BY DEF Destroyed, Task, IOTask, Tasks, Shaped, Deletion
<1>3. toIO' = one \/ toIO' = two
  <2>1. toIO \o <<x, y>> = two
    BY <1>1, <1>2
  <2>2. QED
    BY <2>1 DEF DestroySession
<1> HIDE DEF x, y
<1>4. Quiet(toIO, one)
  BY <1>1, <1>2, QuietAppended
<1>5. /\ one \in Seq(IOTask) /\ Len(toIO) \in Nat /\ Len(one) = Len(toIO) + 1
      /\ one[Len(toIO) + 1] = x
  BY <1>1, <1>2, Appended
<1>6. GetterLast(one, resource)
  <2>1. GetterLast(toIO, resource)
    BY <1>1 DEF Life
  <2>2. QED
    BY <1>1, <1>2, <2>1, GetterAppended
<1> HIDE DEF one
<1>7. Quiet(toIO, two)
  <2>1. Quiet(one, two)
    BY <1>2, <1>5, QuietAppended
  <2>2. QED
    BY <1>4, <2>1, QuietTwice
<1>8. GetterLast(two, resource)
  <2>1. /\ Len(two) = Len(one) + 1 /\ Len(one) \in Nat
        /\ \A i \in 1..Len(one) : two[i] = one[i]
    BY <1>2, <1>5, Appended
  <2> HIDE DEF two
  <2>2. SUFFICES ASSUME NEW i \in 1..Len(two), two[i].kind = "~getter"
                 PROVE  ~resource \/ \E j \in 1..i - 1 : two[j].kind = "~resource"
    BY DEF GetterLast
  <2>3. CASE i \in 1..Len(one)
    <3>1. ~resource \/ \E j \in 1..i - 1 : one[j].kind = "~resource"
      BY <1>6, <2>1, <2>2, <2>3 DEF GetterLast
    <3>2. \A j \in 1..i - 1 : two[j] = one[j]
      BY <2>1, <2>3
    <3>3. QED
      BY <3>1, <3>2
  <2>4. CASE i = Len(one) + 1
    <3>1. Len(one) \in 1..i - 1 /\ two[Len(one)] = x
      BY <1>5, <2>1, <2>4
    <3>2. QED
      BY <1>2, <3>1
  <2>5. QED
    BY <2>1, <2>3, <2>4
<1> HIDE DEF two
<1>9. /\ session = "dying" /\ session' = "gone" /\ returning' = returning
      /\ resource' = resource /\ registered' = registered
      /\ getter' \in {"others", "released"}
      /\ UNCHANGED <<opCount, toUI, invokes, request, clientVars, type, registered>>
  BY DEF DestroySession
<1>10. Quiet(toIO, toIO') /\ GetterLast(toIO', resource)
  BY <1>3, <1>4, <1>6, <1>7, <1>8
<1>11. Life'
  BY <1>1, <1>9, <1>10 DEF Life
<1>12. QED
  BY <1>1, <1>9, <1>10, <1>11, CookieQuiet

\* SendInvoke lets go of its callback.
LEMMA CookieSendInvokeReturns ==
  ASSUME CookieInv, SendInvokeReturns
  PROVE  CookieInv'
<1>1. /\ CookieTypes /\ Life
  BY DEF CookieInv
<1>2. toIO \in Seq(IOTask) /\ GetterLast(toIO, resource)
  BY <1>1 DEF CookieTypes, Life
<1>3. /\ UNCHANGED <<opCount, toUI, invokes, request, clientVars, type, registered>>
      /\ returning' = FALSE /\ resource' = resource /\ registered' = registered /\ type' = type
  BY DEF SendInvokeReturns
<1>4. CASE UNCHANGED <<session, getter, toIO>>
  <2>1. Quiet(toIO, toIO')
    BY <1>2, <1>4, QuietSame
  <2>2. Life'
    BY <1>1, <1>3, <1>4 DEF Life
  <2>3. QED
    BY <1>1, <1>3, <1>4, <2>1, <2>2, CookieQuiet DEF CookieTypes
<1>5. CASE ~UNCHANGED <<session, getter, toIO>>
  <2> DEFINE x == Destroyed("~resource")
  <2>1. /\ ~registered /\ session = "alive" /\ session' = "gone"
        /\ getter' \in {"others", "gone"} /\ toIO' = Append(toIO, x)
    BY <1>5 DEF SendInvokeReturns
  <2>2. x \in IOTask /\ Deletion(x) /\ x.kind # "~getter"
    BY DEF Destroyed, Task, IOTask, Tasks, Shaped, Deletion
  <2> HIDE DEF x
  <2>3. Quiet(toIO, toIO') /\ GetterLast(toIO', resource)
    BY <1>2, <2>1, <2>2, QuietAppended, GetterAppended
  <2>4. Life'
    BY <1>1, <1>3, <2>1, <2>3 DEF Life
  <2>5. QED
    BY <1>1, <1>3, <2>1, <2>3, <2>4, CookieQuiet DEF CookieTypes
<1>6. QED
  BY <1>4, <1>5

\* The task that deletes the resource context.
LEMMA CookieDeleteResourceContext ==
  ASSUME CookieInv, DeleteResourceContext
  PROVE  CookieInv'
<1>1. /\ CookieTypes /\ Life
  BY DEF CookieInv
<1>2. toIO \in Seq(IOTask) /\ GetterLast(toIO, resource)
  BY <1>1 DEF CookieTypes, Life
<1>3. toIO # <<>> /\ toIO' = Tail(toIO) /\ Deletion(Head(toIO))
  BY DEF DeleteResourceContext, NextTask, Deletion
<1>4. /\ UNCHANGED <<opCount, toUI, invokes, request, clientVars, type, registered>>
      /\ returning' = returning /\ resource' = FALSE /\ registered' = registered
      /\ type' = type /\ session' = session /\ getter' = getter
  BY DEF DeleteResourceContext
<1>5. Quiet(toIO, toIO')
  BY <1>2, <1>3, QuietTaken
<1>6. Life'
  BY <1>1, <1>4 DEF Life, GetterLast
<1>7. QED
  BY <1>1, <1>4, <1>5, <1>6, CookieQuiet DEF CookieTypes

\* The getter goes.
LEMMA CookieDeleteGetter ==
  ASSUME CookieInv, DeleteGetter
  PROVE  CookieInv'
<1>1. /\ CookieTypes /\ Life
  BY DEF CookieInv
<1>2. toIO \in Seq(IOTask) /\ GetterLast(toIO, resource)
  BY <1>1 DEF CookieTypes, Life
<1>3. /\ UNCHANGED <<opCount, toUI, invokes, request, clientVars, type, registered>>
      /\ returning' = returning /\ resource' = resource /\ registered' = registered
      /\ type' = type /\ session' = session /\ getter' = "gone"
  BY DEF DeleteGetter, DestroyContext
<1>4. Quiet(toIO, toIO') /\ GetterLast(toIO', resource)
  <2>1. CASE toIO' = toIO
    BY <1>2, <2>1, QuietSame
  <2>2. CASE NextTask({"~getter"})
    <3>1. toIO # <<>> /\ toIO' = Tail(toIO) /\ Head(toIO).kind = "~getter"
      BY <2>2 DEF NextTask
    <3>2. Deletion(Head(toIO)) /\ Head(toIO).kind # "~resource"
      BY <3>1 DEF Deletion
    <3>3. QED
      BY <1>2, <3>1, <3>2, QuietTaken, GetterTaken
  <2>3. QED
    BY <2>1, <2>2 DEF DeleteGetter
<1>5. Life'
  BY <1>1, <1>3, <1>4 DEF Life
<1>6. QED
  BY <1>1, <1>3, <1>4, <1>5, CookieQuiet DEF CookieTypes

\* A callback runs.
Runs(requests, r, answer) == [requests EXCEPT ![r].ran = @ + 1, ![r].answer = answer]

\* A callback that runs changes a request in its count and its answer.
LEMMA RequestRan ==
  ASSUME NEW requests \in [Requests -> Request], NEW r \in Requests, NEW answer \in Nat,
         requests[r].ran = 0, NEW made, made = Runs(requests, r, answer)
  PROVE  /\ made \in [Requests -> Request]
         /\ made[r].kind = requests[r].kind /\ made[r].before = requests[r].before
         /\ made[r].ran = 1 /\ made[r].answer = answer /\ made[r].ok = requests[r].ok
         /\ \A q \in Requests : q # r => made[q] = requests[q]
<1>1. \A q \in Requests : q # r => made[q] = requests[q]
  BY Zenon DEF Runs
<1>2. made[r] = [[requests[r] EXCEPT !.ran = requests[r].ran + 1] EXCEPT !.answer = answer]
  BY DEF Runs
<1> DEFINE old == requests[r]
<1>3. old \in Request /\ old.ran = 0
  OBVIOUS
<1>4. made[r] = [[old EXCEPT !.ran = 1] EXCEPT !.answer = answer]
  BY <1>2, <1>3
<1> HIDE DEF old
<1> DEFINE half == [old EXCEPT !.ran = 1]
<1>5. half \in Request /\ half.ran = 1 /\ half.kind = old.kind /\ half.before = old.before
      /\ half.ok = old.ok
  BY <1>3 DEF Request
<1> DEFINE new == [half EXCEPT !.answer = answer]
<1>6. made[r] = new
  BY <1>4
<1> HIDE DEF half
<1>7. new \in Request /\ new.answer = answer /\ new.ran = 1 /\ new.kind = old.kind
      /\ new.before = old.before /\ new.ok = old.ok
  BY <1>5 DEF Request
<1> HIDE DEF new
<1>8. DOMAIN made = Requests /\ made = [q \in Requests |-> made[q]]
  BY Zenon DEF Runs
<1>9. \A q \in Requests : made[q] \in Request
  BY <1>1, <1>6, <1>7
<1>10. QED
  BY <1>1, <1>6, <1>7, <1>8, <1>9 DEF old

\* The IO thread runs a callback.
LEMMA CookieRunsOnIO ==
  ASSUME CookieInv, RunsOnIO
  PROVE  CookieInv'
<1> DEFINE task == Head(toIO)
           r == Of(task)
           io == toIO'
           made == request'
<1>1. /\ CookieTypes /\ Placed /\ Answered /\ Flow /\ Life
  BY DEF CookieInv
<1>2. /\ opCount' = opCount /\ toUI' = toUI /\ returning' = returning /\ invokes' = invokes
      /\ written' = written /\ seen' = seen /\ asked' = asked /\ type' = type
      /\ session' = session /\ registered' = registered /\ resource' = resource
      /\ getter' = getter /\ toIO # <<>> /\ io = Tail(toIO) /\ task.kind = "callback"
  BY DEF RunsOnIO, NextTask, clientVars, lifeVars
<1>3. /\ toIO \in Seq(IOTask) /\ request \in [Requests -> Request]
  BY <1>1 DEF CookieTypes
<1>4. task \in IOTask /\ task \in Elems(toIO) /\ io \in Seq(IOTask) /\ Elems(io) \subseteq Elems(toIO)
  BY <1>2, <1>3, Taken
<1>5. Shaped(task) /\ task.answer \in Nat
  BY <1>4, TaskFields DEF IOTask
<1>6. r \in Requests /\ task.request = {r}
  BY <1>2, <1>5, OfTask
<1>7. ASSUME NEW q \in Requests
      PROVE  /\ In(toIO, q) <=> q \in task.request \/ In(io, q)
             /\ Once(toIO, q) => Once(io, q) /\ ~(q \in task.request /\ In(io, q))
  BY <1>2, <1>3, TakenIn
<1>8. made = Runs(request, r, task.answer)
  BY DEF RunsOnIO, Runs
<1> HIDE DEF task, r, io, made
<1>9. /\ PlacedAt(r) /\ ~In(toUI, r) /\ ~In(io, r) /\ ~In(written, r) /\ r \notin asked
      /\ request[r].ran = 0 /\ request[r].kind # "none"
  <2>1. PlacedAt(r) /\ In(toIO, r) /\ r \in task.request
    BY <1>1, <1>6, <1>7 DEF Placed
  <2>2. request[r].ran \in 0..1
    BY <1>3, <1>6 DEF Request
  <2>3. QED
    BY <1>6, <1>7, <2>1, <2>2 DEF PlacedAt
<1>10. /\ made \in [Requests -> Request]
       /\ made[r].kind = request[r].kind /\ made[r].before = request[r].before
       /\ made[r].ran = 1 /\ made[r].answer = task.answer /\ made[r].ok = request[r].ok
       /\ \A q \in Requests : q # r => made[q] = request[q]
  BY <1>3, <1>5, <1>6, <1>8, <1>9, RequestRan
<1>11. \A q \in Requests : made[q].before = request[q].before
  BY <1>10
<1>12. CookieTypes'
  <2>1. \A q \in Requests : made[q].before <= opCount
    BY <1>1, <1>11 DEF CookieTypes
  <2>2. QED
    BY <1>1, <1>2, <1>4, <1>10, <2>1 DEF CookieTypes, io, made
<1>13. ASSUME NEW q \in Requests PROVE PlacedAt(q)'
  <2>1. PlacedAt(q) /\ (Once(toIO, q) => Once(io, q)) /\ (In(io, q) => In(toIO, q))
    BY <1>1, <1>7 DEF Placed
  <2>2. CASE q = r
    BY <1>2, <1>9, <1>10, <2>1, <2>2 DEF PlacedAt, io, made
  <2>3. CASE q # r
    BY <1>2, <1>10, <2>1, <2>3 DEF PlacedAt, io, made
  <2>4. QED
    BY <2>2, <2>3
<1>14. Answered'
  <2>1. SUFFICES ASSUME type = "client", NEW q \in Requests PROVE AnsweredAt(q)'
    BY <1>2 DEF Answered
  <2>2. AnsweredAt(q)
    BY <1>1, <2>1 DEF Answered
  <2>3. made[q].before = request[q].before /\ made[q].ok = request[q].ok
    BY <1>10
  <2>4. (made[q].ran > 0 /\ made[q].ok) => made[q].answer >= made[q].before
    <3>1. CASE q = r
      <4>1. (task.kind = "callback" /\ q \in task.request /\ request[q].ok) =>
              task.answer >= request[q].before
        BY <1>4, <2>2 DEF AnsweredAt
      <4>2. QED
        BY <1>2, <1>6, <1>10, <3>1, <4>1
    <3>2. CASE q # r
      BY <1>10, <2>2, <3>2 DEF AnsweredAt
    <3>3. QED
      BY <3>1, <3>2
  <2>5. \A z \in Elems(io) : (z.kind = "callback" /\ q \in z.request /\ made[q].ok) =>
                               z.answer >= made[q].before
    BY <1>4, <2>2, <2>3 DEF AnsweredAt
  <2>6. \A z \in Elems(toUI) : (z.kind = "reply" /\ q \in z.request /\ z.ok) =>
                                 z.answer >= made[q].before
    BY <2>2, <2>3 DEF AnsweredAt
  <2>7. QED
    BY <1>2, <2>4, <2>5, <2>6 DEF AnsweredAt, io, made
<1>15. Flow'
  <2>1. PICK sent \in 0..opCount, queued \in 0..opCount : Flows(sent, queued)
    BY <1>1 DEF Flow
  <2> DEFINE before == Before(request)
  <2>2. Before(made) = before /\ \A q \in Requests : before[q] \in Nat
    BY <1>3, <1>11 DEF Before, Request
  <2> HIDE DEF before
  <2>3. Follows(io, before, sent, queued)
    <3>1. ~Reports(Head(toIO))
      BY <1>2 DEF Reports, task
    <3>2. Follows(toIO, before, sent, queued) /\ sent \in Nat /\ queued \in Nat
      BY <1>1, <2>1 DEF Flows, before, CookieTypes
    <3>3. Follows(Tail(toIO), before, sent, queued)
      BY <1>2, <1>3, <2>2, <3>1, <3>2, OtherTaken
    <3>4. QED
      BY <1>2, <3>3
  <2>4. Flows(sent, queued)'
    BY <1>2, <2>1, <2>2, <2>3 DEF Flows, before, io, made
  <2>5. Applied'
    BY <1>1, <1>2, <1>11 DEF Flow, Applied, CookieTypes, made
  <2>6. QED
    BY <1>2, <2>4, <2>5 DEF Flow
<1>16. Life'
  <2>1. GetterLast(Tail(toIO), resource)
    BY <1>1, <1>2, <1>3, GetterTaken DEF Life, task
  <2>2. QED
    BY <1>1, <1>2, <2>1 DEF Life, io
<1>17. QED
  BY <1>12, <1>13, <1>14, <1>15, <1>16 DEF CookieInv, Placed

\* The IO thread writes to the client.
LEMMA CookieWrites ==
  ASSUME CookieInv, Writes
  PROVE  CookieInv'
<1> DEFINE task == Head(toIO)
           io == toIO'
           pipe == written'
<1>1. /\ CookieTypes /\ Placed /\ Answered /\ Flow /\ Life
  BY DEF CookieInv
<1>2. /\ opCount' = opCount /\ toUI' = toUI /\ request' = request
      /\ seen' = seen /\ asked' = asked /\ type' = type
      /\ session' = session /\ registered' = registered /\ resource' = resource
      /\ getter' = getter /\ toIO # <<>> /\ io = Tail(toIO)
      /\ task.kind \in {"invoke", "event"} /\ pipe = Append(written, task)
      /\ invokes' = invokes \union task.request
  BY DEF Writes, NextTask, lifeVars
<1>3. /\ toIO \in Seq(IOTask) /\ request \in [Requests -> Request]
      /\ written \in Seq(Message) /\ Len(seen) \in Nat /\ opCount \in Nat
  BY <1>1 DEF CookieTypes
<1>4. task \in IOTask /\ io \in Seq(IOTask) /\ Elems(io) \subseteq Elems(toIO)
  BY <1>2, <1>3, Taken
<1>5. Shaped(task) /\ task.request \subseteq Requests /\ task.change \in Nat
  BY <1>4, TaskFields DEF IOTask
<1>6. task \in Message
  BY <1>2, <1>4 DEF IOTask, Message, Tasks
<1>7. ASSUME NEW q \in Requests
      PROVE  /\ In(toIO, q) <=> q \in task.request \/ In(io, q)
             /\ Once(toIO, q) => Once(io, q) /\ ~(q \in task.request /\ In(io, q))
  BY <1>2, <1>3, TakenIn
<1>8. returning' \in BOOLEAN
  BY Zenon DEF Writes
<1> HIDE DEF task, io, pipe
<1>9. ASSUME NEW q \in Requests
      PROVE  /\ In(pipe, q) <=> In(written, q) \/ q \in task.request
             /\ Once(written, q) /\ ~(In(written, q) /\ q \in task.request) => Once(pipe, q)
  BY <1>2, <1>3, <1>6, AppendedIn
<1>10. pipe \in Seq(Message)
  BY <1>2, <1>3, <1>6, Appended
<1>11. CookieTypes'
  <2>1. invokes' \subseteq Requests /\ asked \subseteq invokes'
    BY <1>1, <1>2, <1>5 DEF CookieTypes
  <2>2. QED
    BY <1>1, <1>2, <1>4, <1>8, <1>10, <2>1 DEF CookieTypes, io, pipe
<1>12. ASSUME NEW q \in Requests PROVE PlacedAt(q)'
  <2>1. PlacedAt(q)
    BY <1>1 DEF Placed
  <2>2. /\ Once(io, q) /\ Once(pipe, q)
        /\ In(toIO, q) <=> q \in task.request \/ In(io, q)
        /\ ~(q \in task.request /\ In(io, q))
        /\ In(pipe, q) <=> In(written, q) \/ q \in task.request
    BY <1>7, <1>9, <2>1 DEF PlacedAt
  <2>3. q \in task.request => q \in invokes'
    BY <1>2
  <2>4. In(written, q) => q \in invokes'
    BY <1>2, <2>1 DEF PlacedAt
  <2>5. QED
    BY <1>2, <2>1, <2>2, <2>3, <2>4 DEF PlacedAt, io, pipe
<1>13. Answered'
  BY <1>1, <1>2, <1>4 DEF Answered, AnsweredAt, io
<1>14. Flow'
  <2>1. PICK sent \in 0..opCount, queued \in 0..opCount : Flows(sent, queued)
    BY <1>1 DEF Flow
  <2> DEFINE before == Before(request)
  <2>2. \A q \in Requests : before[q] \in Nat
    BY <1>3 DEF Before, Request
  <2>3. /\ Follows(written, before, Len(seen), sent) /\ Follows(toIO, before, sent, queued)
        /\ registered => Follows(toUI, before, queued, opCount)
    BY <2>1 DEF Flows
  <2> HIDE DEF before
  <2>4. sent \in Nat /\ queued \in Nat
    BY <1>3
  <2>5. Applied'
    BY <1>1, <1>2 DEF Flow, Applied
  <2>6. \E after \in 0..opCount :
          Follows(pipe, before, Len(seen), after) /\ Follows(io, before, after, queued)
    <3>1. CASE task.kind = "invoke"
      <4>1. ~Reports(task) /\ Asking(task)
        BY <3>1 DEF Reports, Asking
      <4>2. ASSUME NEW q \in Requests, q \in task.request PROVE before[q] <= sent
        BY <1>2, <1>3, <2>3, <2>4, <4>1, <4>2, FirstAsks DEF task
      <4>3. \A q \in Requests : q \in task.request => before[q] \in Nat /\ before[q] <= sent
        BY <2>2, <4>2
      <4>4. Follows(Append(written, task), before, Len(seen), sent)
        BY <1>3, <1>6, <2>3, <2>4, <4>1, <4>3, OtherAppended
      <4>5. Follows(Tail(toIO), before, sent, queued)
        BY <1>2, <1>3, <2>2, <2>3, <2>4, <4>1, OtherTaken DEF task
      <4>6. QED
        BY <1>2, <4>4, <4>5
    <3>2. CASE task.kind = "event"
      <4>1. Reports(task) /\ ~Asking(task)
        BY <3>2 DEF Reports, Asking
      <4>2. /\ task.change = sent /\ sent < queued
            /\ Follows(Tail(toIO), before, sent + 1, queued)
        BY <1>2, <1>3, <2>2, <2>3, <2>4, <4>1, ChangeTaken DEF task
      <4>3. Follows(Append(written, task), before, Len(seen), sent + 1)
        BY <1>3, <1>6, <2>3, <2>4, <4>1, <4>2, ChangeAppended
      <4>4. sent + 1 \in 0..opCount
        BY <1>3, <2>4, <4>2
      <4>5. QED
        BY <1>2, <4>2, <4>3, <4>4
    <3>3. QED
      BY <1>2, <3>1, <3>2
  <2>7. QED
    BY <1>2, <2>3, <2>5, <2>6 DEF Flow, Flows, before, io, pipe
<1>15. Life'
  <2>1. Head(toIO).kind # "~resource"
    BY <1>2 DEF task
  <2>2. GetterLast(Tail(toIO), resource)
    BY <1>1, <1>2, <1>3, <2>1, GetterTaken DEF Life
  <2>3. QED
    BY <1>1, <1>2, <2>2 DEF Life, io
<1>16. QED
  BY <1>11, <1>12, <1>13, <1>14, <1>15 DEF CookieInv, Placed

\* The client reads a message.
LEMMA CookieClientReads ==
  ASSUME CookieInv, ClientReads
  PROVE  CookieInv'
<1> DEFINE message == Head(written)
           pipe == written'
<1>1. /\ CookieTypes /\ Placed /\ Answered /\ Flow /\ Life
  BY DEF CookieInv
<1>2. /\ opCount' = opCount /\ toUI' = toUI /\ toIO' = toIO /\ returning' = returning
      /\ invokes' = invokes /\ request' = request /\ type' = type
      /\ session' = session /\ registered' = registered /\ resource' = resource
      /\ getter' = getter /\ written # <<>> /\ pipe = Tail(written)
  BY DEF ClientReads, queues, lifeVars
<1>3. /\ message.kind = "event" => seen' = Append(seen, message.change) /\ asked' = asked
      /\ message.kind # "event" => seen' = seen /\ asked' = asked \union message.request
  BY DEF ClientReads
<1>4. /\ request \in [Requests -> Request] /\ written \in Seq(Message)
      /\ seen \in Seq(Nat) /\ Len(seen) \in Nat /\ opCount \in Nat
  BY <1>1 DEF CookieTypes
<1>5. message \in Message /\ pipe \in Seq(Message)
  BY <1>2, <1>4, Taken
<1>6. /\ Shaped(message) /\ message.request \subseteq Requests /\ message.change \in Nat
      /\ message.kind \in {"invoke", "event"}
  BY <1>5, TaskFields DEF Message
<1>7. ASSUME NEW q \in Requests
      PROVE  /\ In(written, q) <=> q \in message.request \/ In(pipe, q)
             /\ Once(written, q) => Once(pipe, q) /\ ~(q \in message.request /\ In(pipe, q))
  BY <1>2, <1>4, TakenIn
<1>8. message.kind = "event" => message.request = {}
  BY <1>6 DEF Shaped
<1> HIDE DEF message, pipe
<1>9. asked' = asked \union message.request
  BY <1>3, <1>8
<1>10. CookieTypes'
  <2>1. asked' \subseteq invokes
    <3>1. \A q \in message.request : q \in invokes
      BY <1>1, <1>6, <1>7 DEF Placed, PlacedAt
    <3>2. QED
      BY <1>1, <1>9, <3>1 DEF CookieTypes
  <2>2. seen' \in Seq(Nat)
    <3>1. Append(seen, message.change) \in Seq(Nat)
      BY <1>4, <1>6
    <3>2. QED
      BY <1>3, <1>4, <3>1
  <2>3. QED
    BY <1>1, <1>2, <1>5, <2>1, <2>2 DEF CookieTypes, pipe
<1>11. ASSUME NEW q \in Requests PROVE PlacedAt(q)'
  <2>1. PlacedAt(q)
    BY <1>1 DEF Placed
  <2>2. /\ Once(pipe, q)
        /\ In(written, q) <=> q \in message.request \/ In(pipe, q)
        /\ ~(q \in message.request /\ In(pipe, q))
    BY <1>7, <2>1 DEF PlacedAt
  <2>3. QED
    BY <1>2, <1>9, <2>1, <2>2 DEF PlacedAt, pipe
<1>12. Answered'
  BY <1>1, <1>2 DEF Answered, AnsweredAt
<1>13. Flow'
  <2>1. PICK sent \in 0..opCount, queued \in 0..opCount : Flows(sent, queued)
    BY <1>1 DEF Flow
  <2> DEFINE before == Before(request)
  <2>2. \A q \in Requests : before[q] \in Nat /\ before[q] = request[q].before
    BY <1>4 DEF Before, Request
  <2>3. /\ Follows(written, before, Len(seen), sent) /\ Follows(toIO, before, sent, queued)
        /\ registered => Follows(toUI, before, queued, opCount)
    BY <2>1 DEF Flows
  <2> HIDE DEF before
  <2>4. sent \in Nat /\ queued \in Nat
    BY <1>4
  <2>5. Applied' /\ Follows(pipe, before, Len(seen'), sent)
    <3>1. CASE message.kind = "invoke"
      <4>1. ~Reports(message) /\ Asking(message) /\ seen' = seen
        BY <1>3, <3>1 DEF Reports, Asking
      <4>2. ASSUME NEW q \in Requests, q \in message.request
            PROVE  request[q].before <= Len(seen)
        <5>1. before[q] <= Len(seen)
          BY <1>2, <1>4, <2>3, <2>4, <4>1, <4>2, FirstAsks DEF message
        <5>2. QED
          BY <2>2, <5>1
      <4>3. Follows(Tail(written), before, Len(seen), sent)
        BY <1>2, <1>4, <2>2, <2>3, <2>4, <4>1, OtherTaken DEF message
      <4>4. Applied'
        BY <1>1, <1>2, <1>6, <1>9, <4>1, <4>2 DEF Flow, Applied
      <4>5. QED
        BY <1>2, <4>1, <4>3, <4>4
    <3>2. CASE message.kind = "event"
      <4>1. Reports(message) /\ seen' = Append(seen, message.change) /\ asked' = asked
        BY <1>3, <3>2 DEF Reports
      <4>2. /\ message.change = Len(seen) /\ Len(seen) < sent
            /\ Follows(Tail(written), before, Len(seen) + 1, sent)
        BY <1>2, <1>4, <2>2, <2>3, <2>4, <4>1, ChangeTaken DEF message
      <4>3. /\ Len(seen') = Len(seen) + 1 /\ seen'[Len(seen) + 1] = Len(seen)
            /\ \A i \in 1..Len(seen) : seen'[i] = seen[i]
        BY <1>4, <4>1, <4>2
      <4>4. \A i \in 1..Len(seen') : seen'[i] = i - 1
        <5>1. \A i \in 1..Len(seen) : seen[i] = i - 1
          BY <1>1 DEF Flow, Applied
        <5>2. \A i \in 1..Len(seen) + 1 : i \in 1..Len(seen) \/ i = Len(seen) + 1
          BY <1>4
        <5>3. (Len(seen) + 1) - 1 = Len(seen)
          BY <1>4
        <5>4. QED
          BY <4>3, <5>1, <5>2, <5>3
      <4>5. \A q \in asked : request[q].before <= Len(seen')
        <5>1. \A q \in asked : request[q].before \in Nat /\ request[q].before <= Len(seen)
          BY <1>1, <1>4 DEF Flow, Applied, CookieTypes, Request
        <5>2. QED
          BY <1>4, <4>3, <5>1
      <4>6. Applied'
        BY <1>2, <4>1, <4>4, <4>5 DEF Applied
      <4>7. QED
        BY <1>2, <4>2, <4>3, <4>6
    <3>3. QED
      BY <1>6, <3>1, <3>2
  <2>6. Flows(sent, queued)'
    BY <1>2, <2>3, <2>5 DEF Flows, before, pipe
  <2>7. QED
    BY <1>2, <2>5, <2>6 DEF Flow
<1>14. Life'
  BY <1>1, <1>2 DEF Life
<1>15. QED
  BY <1>10, <1>11, <1>12, <1>13, <1>14 DEF CookieInv, Placed

\* The client answers.
LEMMA CookieClientAnswers ==
  ASSUME CookieInv, NEW r \in Requests, ClientAnswers(r)
  PROVE  CookieInv'
<1> DEFINE ui == toUI'
<1>1. /\ CookieTypes /\ Placed /\ Answered /\ Flow /\ Life
  BY DEF CookieInv
<1>2. /\ opCount' = opCount /\ toIO' = toIO /\ returning' = returning
      /\ invokes' = invokes /\ request' = request /\ type' = type /\ written' = written
      /\ seen' = seen /\ session' = session /\ registered' = registered
      /\ resource' = resource /\ getter' = getter
      /\ r \in asked /\ asked' = asked \ {r}
  BY DEF ClientAnswers, lifeVars
<1>3. PICK ok \in BOOLEAN : ui = Append(toUI, Reply(r, IF ok THEN Len(seen) ELSE 0, ok))
  BY DEF ClientAnswers
<1> DEFINE answer == IF ok THEN Len(seen) ELSE 0
           x == Reply(r, answer, ok)
<1>4. /\ request \in [Requests -> Request] /\ toUI \in Seq(UITask)
      /\ Len(seen) \in Nat /\ opCount \in Nat
  BY <1>1 DEF CookieTypes
<1>5. /\ x \in UITask /\ x.kind = "reply" /\ x.request = {r}
      /\ x.ok => x.answer = Len(seen)
  <2>1. answer \in Nat
    BY <1>4
  <2> HIDE DEF answer
  <2>2. x \in UITask
    BY <2>1, TaskTypes
  <2>3. x.kind = "reply" /\ x.request = {r} /\ x.ok = ok /\ x.answer = answer
    BY DEF Reply, Task
  <2>4. QED
    BY <2>2, <2>3 DEF answer
<1>6. ui = Append(toUI, x)
  BY <1>3
<1> HIDE DEF x, ui
<1>7. ui \in Seq(UITask) /\ Elems(ui) = Elems(toUI) \union {x}
  BY <1>4, <1>5, <1>6, Appended
<1>8. ASSUME NEW q \in Requests
      PROVE  /\ In(ui, q) <=> In(toUI, q) \/ q = r
             /\ Once(toUI, q) /\ ~(In(toUI, q) /\ q = r) => Once(ui, q)
  BY <1>4, <1>5, <1>6, AppendedIn
<1>9. CookieTypes'
  BY <1>1, <1>2, <1>7 DEF CookieTypes, ui
<1>10. ASSUME NEW q \in Requests PROVE PlacedAt(q)'
  <2>1. PlacedAt(q)
    BY <1>1 DEF Placed
  <2>2. CASE q = r
    <3>1. ~In(toUI, q) /\ ~In(toIO, q) /\ ~In(written, q) /\ request[q].kind # "none"
          /\ ~(request[q].ran > 0)
      BY <1>2, <2>1, <2>2 DEF PlacedAt
    <3>2. Once(ui, q) /\ In(ui, q)
      BY <1>8, <2>1, <2>2, <3>1 DEF PlacedAt
    <3>3. QED
      BY <1>2, <2>1, <2>2, <3>1, <3>2 DEF PlacedAt, ui
  <2>3. CASE q # r
    <3>1. Once(ui, q) /\ (In(ui, q) <=> In(toUI, q))
      BY <1>8, <2>1, <2>3 DEF PlacedAt
    <3>2. QED
      BY <1>2, <2>1, <2>3, <3>1 DEF PlacedAt, ui
  <2>4. QED
    BY <2>2, <2>3
<1>11. Answered'
  <2>1. SUFFICES ASSUME type = "client", NEW q \in Requests PROVE AnsweredAt(q)'
    BY <1>2 DEF Answered
  <2>2. AnsweredAt(q)
    BY <1>1, <2>1 DEF Answered
  <2>3. (q \in x.request /\ x.ok) => x.answer >= request[q].before
    <3>1. request[r].before <= Len(seen) /\ request[r].before \in Nat
      BY <1>1, <1>2, <1>4 DEF Flow, Applied, Request
    <3>2. QED
      BY <1>4, <1>5, <3>1
  <2>4. QED
    BY <1>2, <1>7, <2>2, <2>3 DEF AnsweredAt, ui
<1>12. Flow'
  <2>1. PICK sent \in 0..opCount, queued \in 0..opCount : Flows(sent, queued)
    BY <1>1 DEF Flow
  <2>2. ASSUME registered PROVE Follows(ui, Before(request), queued, opCount)
    <3>1. Follows(toUI, Before(request), queued, opCount) /\ queued \in Nat
      BY <1>4, <2>1, <2>2 DEF Flows
    <3>2. ~Reports(x) /\ ~Asking(x)
      BY <1>5 DEF Reports, Asking
    <3>3. QED
      BY <1>4, <1>5, <1>6, <3>1, <3>2, OtherAppended
  <2>3. Flows(sent, queued)'
    BY <1>2, <2>1, <2>2 DEF Flows, ui
  <2>4. Applied'
    BY <1>1, <1>2 DEF Flow, Applied
  <2>5. QED
    BY <1>2, <2>3, <2>4 DEF Flow
<1>13. Life'
  BY <1>1, <1>2 DEF Life
<1>14. QED
  BY <1>9, <1>10, <1>11, <1>12, <1>13 DEF CookieInv, Placed

\* The client deletes the session.
LEMMA CookieClientDeletes ==
  ASSUME CookieInv, ClientDeletes
  PROVE  CookieInv'
<1> DEFINE ui == toUI'
           x == Task("delete", {}, 0, 0, TRUE)
<1>1. /\ CookieTypes /\ Placed /\ Answered /\ Flow /\ Life
  BY DEF CookieInv
<1>2. /\ opCount' = opCount /\ toIO' = toIO /\ returning' = returning
      /\ invokes' = invokes /\ request' = request /\ type' = type /\ written' = written
      /\ seen' = seen /\ session' = session /\ registered' = registered
      /\ resource' = resource /\ getter' = getter /\ asked' = asked
      /\ ui = Append(toUI, x)
  BY DEF ClientDeletes, lifeVars, clientVars
<1>3. toUI \in Seq(UITask) /\ opCount \in Nat
  BY <1>1 DEF CookieTypes
<1>4. x \in UITask /\ x.kind = "delete" /\ x.request = {}
  BY DEF Task, UITask, Tasks, Shaped
<1> HIDE DEF x, ui
<1>5. ui \in Seq(UITask) /\ Elems(ui) = Elems(toUI) \union {x}
  BY <1>2, <1>3, <1>4, Appended
<1>6. ASSUME NEW q \in Requests
      PROVE  (In(ui, q) <=> In(toUI, q)) /\ (Once(toUI, q) => Once(ui, q))
  BY <1>2, <1>3, <1>4, AppendedIn
<1>7. CookieTypes'
  BY <1>1, <1>2, <1>5 DEF CookieTypes, ui
<1>8. ASSUME NEW q \in Requests PROVE PlacedAt(q)'
  BY <1>1, <1>2, <1>6 DEF Placed, PlacedAt, ui
<1>9. Answered'
  BY <1>1, <1>2, <1>4, <1>5 DEF Answered, AnsweredAt, ui
<1>10. Flow'
  <2>1. PICK sent \in 0..opCount, queued \in 0..opCount : Flows(sent, queued)
    BY <1>1 DEF Flow
  <2>2. ASSUME registered PROVE Follows(ui, Before(request), queued, opCount)
    <3>1. Follows(toUI, Before(request), queued, opCount) /\ queued \in Nat
      BY <1>3, <2>1, <2>2 DEF Flows
    <3>2. ~Reports(x) /\ ~Asking(x)
      BY <1>4 DEF Reports, Asking
    <3>3. QED
      BY <1>2, <1>3, <1>4, <3>1, <3>2, OtherAppended
  <2>3. Flows(sent, queued)'
    BY <1>2, <2>1, <2>2 DEF Flows, ui
  <2>4. Applied'
    BY <1>1, <1>2 DEF Flow, Applied
  <2>5. QED
    BY <1>2, <2>3, <2>4 DEF Flow
<1>11. Life'
  BY <1>1, <1>2 DEF Life
<1>12. QED
  BY <1>7, <1>8, <1>9, <1>10, <1>11 DEF CookieInv, Placed

-----------------------------------------------------------------------------
(* The proxy.  While SetProxyRules or ClearProxyRules is under way, what it *)
(* is about to tell the observers is what the service would say, unless    *)
(* the system's configuration overtook a clear.                            *)

Crashes == {"no", "binding", "context", "getter", "resolver", "service", "page"}

ServiceTypes ==
  /\ crashed \in Crashes /\ context \in {"unmade", "made", "gone"}
  /\ fixed \in Rules \union {"none"} /\ used \in Rules \union {"none"}
  /\ setting \in Rules \union {"none"} /\ system \in Rules /\ overtaken \in BOOLEAN

ProxyInv ==
  /\ setting # "none" /\ fixed # "none" => setting = fixed
  /\ setting # "none" /\ fixed = "none" /\ ~overtaken => setting = system
  /\ ProxyFollowsRules

ServiceInv == ServiceTypes /\ ProxyInv

\* It holds initially.
LEMMA ServiceInit ==
  ASSUME Init
  PROVE  ServiceInv
<1>1. ServiceTypes
  BY DEF Init, SessionInit, ServiceTypes, Crashes
<1>2. ProxyInv
  BY DEF Init, ProxyInv, ProxyFollowsRules
<1>3. QED
  BY <1>1, <1>2 DEF ServiceInv

\* Steps of the session that leave what it serves alone, or end the context.
LEMMA ServiceStays ==
  ASSUME ServiceInv, UNCHANGED proxyVars, context' = context \/ context' = "gone",
         crashed' \in Crashes
  PROVE  ServiceInv'
<1>1. /\ fixed' = fixed /\ system' = system /\ used' = used /\ setting' = setting
      /\ overtaken' = overtaken
  BY DEF proxyVars
<1>2. QED
  BY <1>1 DEF ServiceInv, ServiceTypes, ProxyInv, ProxyFollowsRules, GetLatestProxyConfig

\* The context is made.
LEMMA ServiceGetContext ==
  ASSUME ServicesAssumption, ServiceInv, GetURLRequestContext
  PROVE  ServiceInv'
<1>1. /\ fixed' = fixed /\ system' = system /\ setting' = setting /\ overtaken' = overtaken
      /\ context = "unmade"
  BY DEF GetURLRequestContext
<1>2. \/ context' = context /\ used' = used /\ crashed' = "context"
      \/ context' = "made" /\ used' = GetLatestProxyConfig /\ crashed' = crashed
  BY DEF GetURLRequestContext
<1>3. GetLatestProxyConfig \in Rules
  BY DEF ServiceInv, ServiceTypes, GetLatestProxyConfig
<1>4. QED
  BY <1>1, <1>2, <1>3 DEF ServiceInv, ServiceTypes, Crashes, ProxyInv, ProxyFollowsRules,
     GetLatestProxyConfig

\* The rules are set, or cleared.
LEMMA ServiceSetRules ==
  ASSUME ServicesAssumption, ServiceInv, SetProxyRules \/ ClearProxyRules
  PROVE  ServiceInv'
<1>1. CASE SetProxyRules
  <2>1. PICK rules \in Rules : fixed' = rules /\ setting' = rules
    BY <1>1 DEF SetProxyRules
  <2>2. /\ context' = context /\ system' = system /\ used' = used /\ overtaken' = overtaken
        /\ crashed' = crashed
    BY <1>1 DEF SetProxyRules, sessionVars
  <2>3. rules # "none"
    BY DEF ServicesAssumption
  <2>4. QED
    BY <2>1, <2>2, <2>3 DEF ServiceInv, ServiceTypes, ProxyInv, ProxyFollowsRules
<1>2. CASE ClearProxyRules
  <2>1. /\ fixed' = "none" /\ setting' = system /\ overtaken' = FALSE
        /\ context' = context /\ system' = system /\ used' = used /\ crashed' = crashed
    BY <1>2 DEF ClearProxyRules, sessionVars
  <2>2. system # "none"
    BY DEF ServicesAssumption, ServiceInv, ServiceTypes
  <2>3. QED
    BY <2>1, <2>2 DEF ServiceInv, ServiceTypes, ProxyInv, ProxyFollowsRules
<1>3. QED
  BY <1>1, <1>2

\* The observers are told.
LEMMA ServiceNotify ==
  ASSUME ServicesAssumption, ServiceInv, NotifyObservers
  PROVE  ServiceInv'
<1>1. /\ setting # "none" /\ setting' = "none" /\ fixed' = fixed /\ system' = system
      /\ context' = context /\ crashed' = crashed
      /\ used' = IF context = "made" THEN setting ELSE used
  BY DEF NotifyObservers, sessionVars
<1>2. overtaken' = (overtaken /\ fixed = "none")
  BY DEF NotifyObservers
<1>3. overtaken' \in BOOLEAN
  BY <1>2, Zenon
<1>4. fixed # "none" \/ ~overtaken' => fixed # "none" \/ ~overtaken
  BY <1>2, Zenon
<1>5. QED
  BY <1>1, <1>3, <1>4 DEF ServiceInv, ServiceTypes, ProxyInv, ProxyFollowsRules,
     GetLatestProxyConfig

\* The system's configuration changes.
LEMMA ServiceSystemChanges ==
  ASSUME ServicesAssumption, ServiceInv, SystemChanges
  PROVE  ServiceInv'
<1>1. /\ system' \in Rules /\ fixed' = fixed /\ setting' = setting
      /\ context' = context /\ crashed' = crashed
      /\ used' = IF context = "made" THEN system' ELSE used
  BY DEF SystemChanges, sessionVars
<1>2. overtaken' = (overtaken \/ fixed # "none" \/ setting # "none")
  BY DEF SystemChanges
<1>3. overtaken' \in BOOLEAN
  BY <1>2, Zenon
<1>4. ~overtaken' => fixed = "none" /\ setting = "none"
  BY <1>2, Zenon
<1>5. QED
  BY <1>1, <1>3, <1>4 DEF ServiceInv, ServiceTypes, ProxyInv, ProxyFollowsRules,
     GetLatestProxyConfig
-----------------------------------------------------------------------------
(* The whole. *)

IInv == CookieInv /\ ServiceInv

\* The invariant of the whole holds initially.
LEMMA InitInv ==
  ASSUME SessionAssumption, Init
  PROVE  IInv
BY CookieInit, ServiceInit DEF Init, IInv

\* A step of the two loops.
LEMMA LoopsInv ==
  ASSUME ServicesAssumption, IInv, UILoop \/ IOLoop
  PROVE  IInv'
<1>1. CookieInv /\ ServiceInv /\ crashed \in Crashes
  BY DEF IInv, ServiceInv, ServiceTypes
<1>2. CASE UILoop
  <2>1. CookieInv'
    BY <1>1, <1>2, CookieUIThread, CookieDestroySession DEF UILoop
  <2>2. crashed' = crashed
    BY <1>2 DEF UILoop, UIThread, DestroySession
  <2>3. UNCHANGED proxyVars /\ context' = context
    BY <1>2 DEF UILoop, servicesVars
  <2>4. QED
    BY <1>1, <2>1, <2>2, <2>3, ServiceStays DEF IInv
<1>3. CASE (Writes \/ RunsOnIO \/ DeleteResourceContext) /\ UNCHANGED servicesVars
  <2>1. CookieInv'
    BY <1>1, <1>3, CookieWrites, CookieRunsOnIO, CookieDeleteResourceContext
  <2>2. crashed' = crashed
    BY <1>3 DEF Writes, RunsOnIO, DeleteResourceContext
  <2>3. UNCHANGED proxyVars /\ context' = context
    BY <1>3 DEF servicesVars
  <2>4. QED
    BY <1>1, <2>1, <2>2, <2>3, ServiceStays DEF IInv
<1>4. CASE IOReturns
  <2>1. CookieInv'
    BY <1>1, <1>4, CookieSendInvokeReturns DEF IOReturns
  <2>2. crashed' = crashed
    BY <1>4 DEF IOReturns, SendInvokeReturns
  <2>3. UNCHANGED proxyVars /\ (context' = context \/ context' = "gone")
    BY <1>4 DEF IOReturns
  <2>4. QED
    BY <1>1, <2>1, <2>2, <2>3, ServiceStays DEF IInv
<1>5. CASE DeleteGetter
  <2>1. CookieInv'
    BY <1>1, <1>5, CookieDeleteGetter
  <2>2. crashed' \in Crashes
    BY <1>1, <1>5 DEF DeleteGetter, DestroyContext, Crashes
  <2>3. UNCHANGED proxyVars /\ context' = "gone"
    BY <1>5 DEF DeleteGetter, DestroyContext
  <2>4. QED
    BY <1>1, <2>1, <2>2, <2>3, ServiceStays DEF IInv
<1>6. QED
  BY <1>2, <1>3, <1>4, <1>5 DEF IOLoop

\* A step of the network stack or of the client.
LEMMA CookiesInv ==
  ASSUME IInv, CookieNext \/ ClientDeletes, UNCHANGED servicesVars
  PROVE  IInv'
<1>1. CookieInv /\ ServiceInv /\ crashed \in Crashes
  BY DEF IInv, ServiceInv, ServiceTypes
<1>2. UNCHANGED proxyVars /\ context' = context
  BY DEF servicesVars
<1>3. CookieInv' /\ crashed' \in Crashes
  <2>1. ASSUME NEW r \in Requests, Ask(r) PROVE CookieInv' /\ crashed' \in Crashes
    <3>1. CookieInv'
      BY <1>1, <2>1, CookieAsk
    <3>2. crashed' = crashed \/ crashed' = "binding"
      BY <2>1 DEF Ask, PostToBinding
    <3>3. QED
      BY <1>1, <3>1, <3>2 DEF Crashes
  <2>2. ASSUME NEW r \in Requests, ClientAnswers(r) PROVE CookieInv' /\ crashed' \in Crashes
    <3>1. CookieInv'
      BY <1>1, <2>2, CookieClientAnswers
    <3>2. QED
      BY <1>1, <2>2, <3>1 DEF ClientAnswers
  <2>3. ASSUME NEW kind \in Changes, Change(kind) PROVE CookieInv' /\ crashed' \in Crashes
    <3>1. CookieInv'
      BY <1>1, <2>3, CookieChange
    <3>2. crashed' = crashed \/ crashed' = "binding"
      BY <2>3 DEF Change, PostToBinding
    <3>3. QED
      BY <1>1, <3>1, <3>2 DEF Crashes
  <2>4. ASSUME ClientReads PROVE CookieInv' /\ crashed' \in Crashes
    <3>1. CookieInv'
      BY <1>1, <2>4, CookieClientReads
    <3>2. QED
      BY <1>1, <2>4, <3>1 DEF ClientReads
  <2>5. ASSUME ClientDeletes PROVE CookieInv' /\ crashed' \in Crashes
    <3>1. CookieInv'
      BY <1>1, <2>5, CookieClientDeletes
    <3>2. QED
      BY <1>1, <2>5, <3>1 DEF ClientDeletes
  <2>6. QED
    BY <2>1, <2>2, <2>3, <2>4, <2>5 DEF CookieNext
<1>4. ServiceInv'
  BY <1>1, <1>2, <1>3, ServiceStays
<1>5. QED
  BY <1>3, <1>4 DEF IInv

\* A step of the proxy, of the context or of the notification.
LEMMA ProxyStepInv ==
  ASSUME ServicesAssumption, IInv, Proxy \/ NotifyObservers
  PROVE  IInv'
<1>1. CookieInv /\ ServiceInv /\ crashed \in Crashes
  BY DEF IInv, ServiceInv, ServiceTypes
<1>2. CASE GetHostResolver
  <2>1. UNCHANGED <<cookieVars, lifeVars>> /\ UNCHANGED proxyVars /\ context' = context
    BY <1>2 DEF GetHostResolver, servicesVars
  <2>2. crashed' \in Crashes
    BY <1>1, <1>2 DEF GetHostResolver, Crashes
  <2>3. QED
    BY <1>1, <2>1, <2>2, CookieInvStays, ServiceStays DEF IInv
<1>3. CASE GetURLRequestContext
  <2>1. UNCHANGED <<cookieVars, lifeVars>>
    BY <1>3 DEF GetURLRequestContext
  <2>2. QED
    BY <1>1, <1>3, <2>1, CookieInvStays, ServiceGetContext DEF IInv
<1>4. CASE SetProxyRules \/ ClearProxyRules
  <2>1. UNCHANGED <<cookieVars, lifeVars>>
    BY <1>4 DEF SetProxyRules, ClearProxyRules, sessionVars
  <2>2. QED
    BY <1>1, <1>4, <2>1, CookieInvStays, ServiceSetRules DEF IInv
<1>5. CASE SystemChanges
  <2>1. UNCHANGED <<cookieVars, lifeVars>>
    BY <1>5 DEF SystemChanges, sessionVars
  <2>2. QED
    BY <1>1, <1>5, <2>1, CookieInvStays, ServiceSystemChanges DEF IInv
<1>6. CASE NotifyObservers
  <2>1. UNCHANGED <<cookieVars, lifeVars>>
    BY <1>6 DEF NotifyObservers, sessionVars
  <2>2. QED
    BY <1>1, <1>6, <2>1, CookieInvStays, ServiceNotify DEF IInv
<1>7. QED
  BY <1>2, <1>3, <1>4, <1>5, <1>6 DEF Proxy

\* A step of a download.
LEMMA DownloadInv ==
  ASSUME IInv, NEW d \in Downloads, Download(d)
  PROVE  IInv'
<1>1. CookieInv /\ ServiceInv /\ crashed \in Crashes
  BY DEF IInv, ServiceInv, ServiceTypes
<1>2. UNCHANGED proxyVars /\ context' = context
  BY DEF Download, DownloadProceeds, DetermineDownloadTarget, GenerateFilename,
     OnDownloadPathGenerated, DialogReturns, DownloadEnds, PageCloses
<1>3. UNCHANGED <<cookieVars, lifeVars>> /\ (crashed' = crashed \/ crashed' = "page")
  BY DEF Download, DownloadProceeds, DetermineDownloadTarget, GenerateFilename,
     OnDownloadPathGenerated, DialogReturns, DownloadEnds, PageCloses, sessionVars
<1>4. crashed' \in Crashes
  BY <1>1, <1>3 DEF Crashes
<1>5. QED
  BY <1>1, <1>2, <1>3, <1>4, CookieInvStays, ServiceStays DEF IInv

\* Every step keeps the invariant.
LEMMA NextInv ==
  ASSUME ServicesAssumption, IInv, [Next]_vars
  PROVE  IInv'
<1>1. CASE Next
  BY <1>1, LoopsInv, CookiesInv, ProxyStepInv, DownloadInv DEF Next, Cookies
<1>2. CASE UNCHANGED vars
  <2>1. UNCHANGED <<cookieVars, lifeVars>> /\ UNCHANGED proxyVars /\ context' = context
        /\ crashed' = crashed
    BY <1>2 DEF vars, sessionVars, servicesVars
  <2>2. crashed' \in Crashes
    BY <2>1 DEF IInv, ServiceInv, ServiceTypes
  <2>3. QED
    BY <2>1, <2>2, CookieInvStays, ServiceStays DEF IInv
<1>3. QED
  BY <1>1, <1>2

\* The invariant holds in every state of every behaviour.
THEOREM InvariantHolds == Spec => []IInv
<1>1. Init => IInv
  BY InitInv, SessionAssumption
<1>2. IInv /\ [Next]_vars => IInv'
  BY NextInv, ServicesAssumption
<1>3. QED
  BY <1>1, <1>2, PTL DEF Spec

-----------------------------------------------------------------------------
(* What follows from it. *)

\* What is applied, sent and queued has no gap.
LEMMA InOrder ==
  ASSUME CookieInv
  PROVE  ChangesInOrder
<1>1. seen \in Seq(Nat) /\ DOMAIN seen = 1..Len(seen)
  BY DEF CookieInv, CookieTypes
<1>2. \A i \in DOMAIN seen : seen[i] = i - 1
  BY <1>1 DEF CookieInv, Flow, Applied
<1>3. PICK sent \in 0..opCount, queued \in 0..opCount : Flows(sent, queued)
  BY DEF CookieInv, Flow
<1>4. /\ Run(written, Len(seen), sent) /\ Run(toIO, sent, queued)
      /\ registered => Run(toUI, queued, opCount)
  BY <1>3 DEF Flows, Follows
<1>5. QED
  BY <1>2, <1>4 DEF ChangesInOrder

\* The client that keeps the cookies of a session misses no change, has them
\* in order, and answers with them.
THEOREM CookiesAlwaysInOrder == Spec => []CookiesInOrder
<1>1. IInv => CookiesInOrder
  <2>1. SUFFICES ASSUME IInv PROVE CookiesInOrder
    OBVIOUS
  <2>2. CookieInv /\ ServiceInv
    BY <2>1 DEF IInv
  <2>3. TypeOK
    <3>1. \A r \in Requests : request[r].ran \in 0..1
      BY <2>2 DEF CookieInv, CookieTypes, Request
    <3>2. QED
      BY <2>2, <3>1 DEF CookieInv, CookieTypes, Life, ServiceInv, ServiceTypes, Crashes, TypeOK
  <2>4. ReadsOwnWrites
    BY <2>2 DEF CookieInv, Answered, AnsweredAt, ReadsOwnWrites
  <2>5. QED
    BY <2>2, <2>3, <2>4, InOrder DEF CookiesInOrder
<1>2. QED
  BY <1>1, InvariantHolds, PTL

\* ProxyService uses the configuration the service has, once the call that
\* changes it is over.
THEOREM ProxyAlwaysFollows == Spec => []ProxyFollowsRules
<1>1. IInv => ProxyFollowsRules
  BY DEF IInv, ServiceInv, ProxyInv
<1>2. QED
  BY <1>1, InvariantHolds, PTL

\* The getter that ~ThrustSession releases is deleted after the resource
\* context, which points to it.
THEOREM ResourceContextAlwaysFirst == Spec => ResourceContextGoesFirst
<1>1. IInv /\ [Next]_vars => [(getter = "released" /\ getter' = "gone") => ~resource']_vars
  <2>1. SUFFICES ASSUME IInv, Next, getter = "released", getter' = "gone"
                 PROVE  ~resource'
    OBVIOUS
  <2>2. session = "gone" /\ toIO \in Seq(IOTask) /\ GetterLast(toIO, resource)
    BY <2>1 DEF IInv, CookieInv, CookieTypes, Life
  <2>3. getter' # getter
    BY <2>1
  <2>4. CASE DeleteGetter
    <3>1. NextTask({"~getter"}) /\ resource' = resource
      BY <2>1, <2>4 DEF DeleteGetter
    <3>2. toIO # <<>> /\ Head(toIO).kind = "~getter"
      BY <3>1 DEF NextTask
    <3>3. 1 \in 1..Len(toIO) /\ toIO[1].kind = "~getter" /\ 1..1 - 1 = {}
      BY <2>2, <3>2
    <3>4. QED
      BY <2>2, <3>1, <3>3 DEF GetterLast
  <2>5. CASE UILoop
    <3>1. UIThread
      BY <2>2, <2>5 DEF UILoop, DestroySession
    <3>2. QED
      BY <2>3, <3>1 DEF UIThread
  <2>6. CASE IOReturns
    BY <2>2, <2>3, <2>6 DEF IOReturns, SendInvokeReturns
  <2>7. CASE (Writes \/ RunsOnIO \/ DeleteResourceContext) /\ UNCHANGED servicesVars
    BY <2>3, <2>7 DEF Writes, RunsOnIO, DeleteResourceContext, lifeVars
  <2>8. CASE CookieNext \/ ClientDeletes
    BY <2>3, <2>8 DEF CookieNext, Ask, Change, ClientReads, ClientAnswers, ClientDeletes, lifeVars
  <2>9. CASE Proxy \/ NotifyObservers
    BY <2>3, <2>9 DEF Proxy, SetProxyRules, ClearProxyRules, SystemChanges, GetHostResolver,
       GetURLRequestContext, NotifyObservers, sessionVars, lifeVars
  <2>10. CASE \E d \in Downloads : Download(d)
    BY <2>3, <2>10 DEF Download, DownloadProceeds, DetermineDownloadTarget, GenerateFilename,
       OnDownloadPathGenerated, DialogReturns, DownloadEnds, PageCloses, sessionVars, lifeVars
  <2>11. QED
    BY <2>1, <2>4, <2>5, <2>6, <2>7, <2>8, <2>9, <2>10 DEF Next, IOLoop, Cookies
<1>2. QED
  BY <1>1, InvariantHolds, PTL DEF Spec, ResourceContextGoesFirst
-----------------------------------------------------------------------------
(* The conversion of a cookie, whatever the width of an int. *)

\* A time that fits comes back, any other comes back smaller than the limit
\* and changed.
LEMMA NarrowFits ==
  ASSUME ServicesAssumption, NEW t \in Int, -Word <= t, t < Word
  PROVE  Narrow(t) = t
<1>1. Word \in Nat \ {0}
  BY DEF ServicesAssumption
<1> DEFINE m == 2 * Word
<1>2. m \in Nat \ {0} /\ t + Word \in 0..m - 1
  BY <1>1
<1> HIDE DEF m
<1>3. (t + Word) % m = t + Word
  BY <1>2
<1>4. QED
  BY <1>1, <1>3 DEF Narrow, m

\* Whatever the time, what comes back is an int.
LEMMA NarrowRange ==
  ASSUME ServicesAssumption, NEW t \in Int
  PROVE  Narrow(t) \in Int /\ -Word <= Narrow(t) /\ Narrow(t) < Word
<1>1. Word \in Nat \ {0}
  BY DEF ServicesAssumption
<1> DEFINE m == 2 * Word
<1>2. m \in Nat \ {0} /\ t + Word \in Int
  BY <1>1
<1> HIDE DEF m
<1>3. (t + Word) % m \in 0..m - 1
  BY <1>2
<1>4. Narrow(t) = ((t + Word) % m) - Word
  BY DEF Narrow, m
<1>5. m = 2 * Word
  BY DEF m
<1>6. QED
  BY <1>1, <1>3, <1>4, <1>5

\* A time that was narrowed fits.
LEMMA NarrowTwice ==
  ASSUME ServicesAssumption, NEW t \in Int
  PROVE  Narrow(Narrow(t)) = Narrow(t)
<1> DEFINE n == Narrow(t)
<1>1. n \in Int /\ -Word <= n /\ n < Word
  BY NarrowRange
<1> HIDE DEF n
<1>2. Narrow(n) = n
  BY <1>1, NarrowFits
<1>3. QED
  BY <1>2 DEF n

\* What comes back of a cookie: the dictionary has no "priority", and "secure"
\* is no boolean there.
Returned(cc) ==
  [creation |-> Narrow(cc.creation), expiry |-> Narrow(cc.expiry),
   last_access |-> Narrow(cc.last_access), secure |-> FALSE,
   http_only |-> cc.http_only, priority |-> 0]

\* The dictionary that is made of a cookie is read as Returned says.
LEMMA ComesBack ==
  ASSUME NEW cc, cc.http_only \in BOOLEAN
  PROVE  CanonicalCookieFromValue(ValueFromCanonicalCookie(cc)) = Returned(cc)
<1> DEFINE value == ValueFromCanonicalCookie(cc)
<1>1. /\ DOMAIN value = {"creation", "expiry", "last_access", "secure", "http_only", "prority"}
      /\ value.creation = Integer(Narrow(cc.creation))
      /\ value.expiry = Integer(Narrow(cc.expiry))
      /\ value.last_access = Integer(Narrow(cc.last_access))
      /\ value.secure = Integer(IF cc.secure THEN 1 ELSE 0)
      /\ value.http_only = Boolean(cc.http_only)
  BY DEF ValueFromCanonicalCookie
<1> HIDE DEF value
<1>2. ASSUME NEW n PROVE Integer(n).type = "integer" /\ Integer(n).integer = n
  BY DEF Integer
<1>3. ASSUME NEW b PROVE Boolean(b).type = "boolean" /\ Boolean(b).boolean = b
  BY DEF Boolean
<1>4. /\ GetInteger(value, "creation") = Narrow(cc.creation)
      /\ GetInteger(value, "expiry") = Narrow(cc.expiry)
      /\ GetInteger(value, "last_access") = Narrow(cc.last_access)
  BY <1>1, <1>2 DEF GetInteger
<1>5. GetInteger(value, "priority") = 0
  BY <1>1 DEF GetInteger
<1>6. GetBoolean(value, "secure") = FALSE
  <2>1. value["secure"].type # "boolean"
    BY <1>1, <1>2
  <2>2. QED
    BY <2>1, Zenon DEF GetBoolean
<1>7. GetBoolean(value, "http_only") = cc.http_only
  <2>1. "http_only" \in DOMAIN value /\ value["http_only"].type = "boolean"
    BY <1>1, <1>3
  <2>2. value["http_only"].boolean = cc.http_only
    BY <1>1, <1>3
  <2>3. QED
    BY <2>1, <2>2, Zenon DEF GetBoolean
<1>8. QED
  BY <1>4, <1>5, <1>6, <1>7, Zenon DEF CanonicalCookieFromValue, Returned, value

\* A cookie comes back as it was exactly when it fits, and never changes again.
LEMMA AllReturn ==
  ASSUME ServicesAssumption
  PROVE  CookiesReturn
<1>1. SUFFICES ASSUME NEW cc \in CanonicalCookies
               PROVE  LET once == CanonicalCookieFromValue(ValueFromCanonicalCookie(cc))
                      IN  /\ CanonicalCookieFromValue(ValueFromCanonicalCookie(once)) = once
                          /\ \/ once = cc /\ ~cc.secure /\ cc.priority = 0
                                /\ {cc.creation, cc.expiry, cc.last_access} \subseteq 0..Word-1
                             \/ once # cc
                                /\ \/ cc.secure \/ cc.priority # 0
                                   \/ \E t \in {cc.creation, cc.expiry, cc.last_access} : t >= Word
  BY DEF CookiesReturn
<1> DEFINE once == CanonicalCookieFromValue(ValueFromCanonicalCookie(cc))
<1>2. /\ cc.creation \in Nat /\ cc.expiry \in Nat /\ cc.last_access \in Nat
      /\ cc.secure \in BOOLEAN /\ cc.http_only \in BOOLEAN /\ cc.priority \in 0..2
      /\ Word \in Nat \ {0}
  BY DEF CanonicalCookies, ServicesAssumption
<1>3. once = Returned(cc)
  BY <1>2, ComesBack
<1> HIDE DEF once
<1>4. /\ once.creation = Narrow(cc.creation) /\ once.expiry = Narrow(cc.expiry)
      /\ once.last_access = Narrow(cc.last_access) /\ once.secure = FALSE
      /\ once.http_only = cc.http_only /\ once.priority = 0
  BY <1>3 DEF Returned
<1>5. CanonicalCookieFromValue(ValueFromCanonicalCookie(once)) = once
  <2>1. CanonicalCookieFromValue(ValueFromCanonicalCookie(once)) = Returned(once)
    BY <1>2, <1>4, ComesBack
  <2>2. \A t \in Nat : Narrow(Narrow(t)) = Narrow(t)
    BY NarrowTwice
  <2>3. /\ Narrow(once.creation) = Narrow(cc.creation)
        /\ Narrow(once.expiry) = Narrow(cc.expiry)
        /\ Narrow(once.last_access) = Narrow(cc.last_access)
    BY <1>2, <1>4, <2>2
  <2>4. Returned(once) = Returned(cc)
    BY <1>4, <2>3, Zenon DEF Returned
  <2>5. QED
    BY <1>3, <2>1, <2>4
<1>6. CASE cc.creation < Word /\ cc.expiry < Word /\ cc.last_access < Word
           /\ cc.secure = FALSE /\ cc.priority = 0
  <2>1. ASSUME NEW t \in Nat, t < Word PROVE Narrow(t) = t
    <3>1. t \in Int /\ -Word <= t
      BY <1>2
    <3>2. QED
      BY <2>1, <3>1, NarrowFits
  <2>2. Narrow(cc.creation) = cc.creation /\ Narrow(cc.expiry) = cc.expiry
        /\ Narrow(cc.last_access) = cc.last_access
    BY <1>2, <1>6, <2>1
  <2>3. cc = [creation |-> cc.creation, expiry |-> cc.expiry, last_access |-> cc.last_access,
              secure |-> cc.secure, http_only |-> cc.http_only, priority |-> cc.priority]
    BY DEF CanonicalCookies
  <2>4. once = cc
    BY <1>3, <1>6, <2>2, <2>3 DEF Returned
  <2>5. {cc.creation, cc.expiry, cc.last_access} \subseteq 0..Word - 1
    BY <1>2, <1>6
  <2>6. QED
    BY <1>5, <1>6, <2>4, <2>5 DEF once
<1>7. CASE ~(cc.creation < Word /\ cc.expiry < Word /\ cc.last_access < Word
             /\ cc.secure = FALSE /\ cc.priority = 0)
  <2>1. \/ cc.secure \/ cc.priority # 0
        \/ \E t \in {cc.creation, cc.expiry, cc.last_access} : t >= Word
    BY <1>2, <1>7
  <2>2. \A t \in Nat : t >= Word => Narrow(t) # t
    BY <1>2, NarrowRange
  <2>3. ASSUME once = cc PROVE FALSE
    <3>1. /\ cc.creation = Narrow(cc.creation) /\ cc.expiry = Narrow(cc.expiry)
          /\ cc.last_access = Narrow(cc.last_access) /\ cc.secure = FALSE /\ cc.priority = 0
      BY <1>4, <2>3
    <3>2. cc.creation < Word /\ cc.expiry < Word /\ cc.last_access < Word
      BY <1>2, <2>2, <3>1
    <3>3. QED
      BY <1>7, <3>1, <3>2
  <2>4. QED
    BY <1>5, <2>1, <2>3 DEF once
<1>8. QED
  BY <1>6, <1>7

\* What a cookie loses on its way to the client and back it loses once.
THEOREM CookiesAlwaysSurvive == Spec => []CookiesSurvive
<1>1. IInv => CookiesSurvive
  BY AllReturn, ServicesAssumption DEF CookiesSurvive
<1>2. QED
  BY <1>1, InvariantHolds, PTL

-----------------------------------------------------------------------------
(* Visited links: the table.  Probing, adding and emptying a run. *)

\* The tables of n slots.
TablesOf(n) == [0..(n - 1) -> Nat]

\* What the table of n slots promises: every entry is found, and once.
SoundTable(T, n) == NoOrphans(T, n) /\ NoDuplicates(T, n)

\* The home slot of a link is a slot.
LEMMA HomeSlot ==
  ASSUME NEW n \in Nat \ {0}, NEW fp \in Nat
  PROVE  HashFingerprint(fp, n) \in 0..(n - 1)
BY DEF HashFingerprint

\* Going on from a slot leads to a slot,
LEMMA AfterIsSlot ==
  ASSUME NEW n \in Nat \ {0}, NEW h \in 0..(n - 1), NEW d \in 0..(n - 1)
  PROVE  After(h, d, n) \in 0..(n - 1)
BY DEF After

\* to each of them at one distance,
LEMMA AfterOnce ==
  ASSUME NEW n \in Nat \ {0}, NEW h \in 0..(n - 1),
         NEW d \in 0..(n - 1), NEW e \in 0..(n - 1),
         After(h, d, n) = After(h, e, n)
  PROVE  d = e
BY DEF After

\* and to every slot.
LEMMA AfterReaches ==
  ASSUME NEW n \in Nat \ {0}, NEW h \in 0..(n - 1), NEW i \in 0..(n - 1)
  PROVE  \E d \in 0..(n - 1) : After(h, d, n) = i
<1> DEFINE d == IF i >= h THEN i - h ELSE i - h + n
<1>1. d \in 0..(n - 1) /\ After(h, d, n) = i
  BY DEF After
<1>2. QED
  BY <1>1

\* Probing visits slots,
LEMMA ProbeIsSlot ==
  ASSUME NEW n \in Nat \ {0}, NEW fp \in Nat, NEW d \in 0..(n - 1)
  PROVE  Probe(fp, d, n) \in 0..(n - 1)
BY HomeSlot, AfterIsSlot DEF Probe

\* each of them once.
LEMMA ProbeOnce ==
  ASSUME NEW n \in Nat \ {0}, NEW fp \in Nat,
         NEW d \in 0..(n - 1), NEW e \in 0..(n - 1),
         Probe(fp, d, n) = Probe(fp, e, n)
  PROVE  d = e
BY HomeSlot, AfterOnce DEF Probe

\* Probing stops at one place.
LEMMA StopsOnce ==
  ASSUME NEW n \in Nat \ {0}, NEW T, NEW fp \in Nat,
         NEW d \in 0..(n - 1), NEW e \in 0..(n - 1),
         StopsAt(T, n, fp, d), StopsAt(T, n, fp, e)
  PROVE  d = e
<1>1. ~(d < e) /\ ~(e < d)
  BY DEF StopsAt
<1>2. QED
  BY <1>1

\* A link is added to one empty slot, or nowhere.
LEMMA FreeSlotIs ==
  ASSUME NEW n \in Nat \ {0}, NEW T, NEW fp \in Nat,
         NEW d \in 0..(n - 1), StopsAt(T, n, fp, d), T[Probe(fp, d, n)] = 0
  PROVE  FreeSlot(T, n, fp) = {Probe(fp, d, n)}
<1>1. \A e \in 0..(n - 1) : StopsAt(T, n, fp, e) => e = d
  BY StopsOnce
<1>2. QED
  BY <1>1 DEF FreeSlot

\* The free slot is where the link is put.
LEMMA AddsAtFreeSlot ==
  ASSUME NEW n \in Nat \ {0}, NEW T \in TablesOf(n), NEW fp \in Nat \ {0},
         NEW i \in FreeSlot(T, n, fp)
  PROVE  /\ i \in 0..(n - 1) /\ T[i] = 0
         /\ FreeSlot(T, n, fp) = {i}
         /\ AddFingerprint(T, n, fp) = [T EXCEPT ![i] = fp]
         /\ \E d \in 0..(n - 1) : StopsAt(T, n, fp, d) /\ Probe(fp, d, n) = i
<1>1. PICK d \in 0..(n - 1) :
        StopsAt(T, n, fp, d) /\ T[Probe(fp, d, n)] = 0 /\ i = Probe(fp, d, n)
  BY DEF FreeSlot
<1>2. i \in 0..(n - 1)
  BY <1>1, ProbeIsSlot
<1>3. FreeSlot(T, n, fp) = {i}
  BY <1>1, FreeSlotIs
<1>4. (CHOOSE j \in FreeSlot(T, n, fp) : TRUE) = i
  BY <1>3
<1>5. AddFingerprint(T, n, fp) = [T EXCEPT ![i] = fp]
  BY <1>3, <1>4 DEF AddFingerprint
<1>6. QED
  BY <1>1, <1>2, <1>3, <1>5

\* Adding a link keeps every entry within reach, and unique.
LEMMA AddKeepsSound ==
  ASSUME NEW n \in Nat \ {0}, NEW T \in TablesOf(n), NEW fp \in Nat \ {0},
         SoundTable(T, n)
  PROVE  /\ AddFingerprint(T, n, fp) \in TablesOf(n)
         /\ SoundTable(AddFingerprint(T, n, fp), n)
<1>1. CASE FreeSlot(T, n, fp) = {}
  BY <1>1 DEF AddFingerprint
<1>2. CASE FreeSlot(T, n, fp) # {}
<2>1. PICK i \in FreeSlot(T, n, fp) : TRUE
  BY <1>2
<2>2. /\ i \in 0..(n - 1) /\ T[i] = 0
      /\ AddFingerprint(T, n, fp) = [T EXCEPT ![i] = fp]
  BY <2>1, AddsAtFreeSlot
<2>3. PICK d \in 0..(n - 1) : StopsAt(T, n, fp, d) /\ Probe(fp, d, n) = i
  BY <2>1, AddsAtFreeSlot
<2> DEFINE U == [T EXCEPT ![i] = fp]
<2>4. U \in TablesOf(n) /\ U[i] = fp /\ \A j \in 0..(n - 1) : j # i => U[j] = T[j]
  BY <2>2 DEF TablesOf
<2> HIDE DEF U
<2>5. ASSUME NEW j \in 0..(n - 1), T[j] = fp
      PROVE  FALSE
<3>1. T[j] # 0 /\ IsVisited(T, n, fp)
  BY <2>5 DEF SoundTable, NoOrphans
<3>2. PICK e \in 0..(n - 1) : StopsAt(T, n, fp, e) /\ T[Probe(fp, e, n)] = fp
  BY <3>1 DEF IsVisited
<3>3. e = d
  BY <2>3, <3>2, StopsOnce
<3>4. QED
  BY <2>2, <2>3, <3>2, <3>3
<2>6. NoDuplicates(U, n)
  BY <2>2, <2>4, <2>5 DEF NoDuplicates, SoundTable
<2>7. ASSUME NEW j \in 0..(n - 1), U[j] # 0
      PROVE  IsVisited(U, n, U[j])
<3>1. CASE j = i
<4>1. ASSUME NEW e \in 0..(n - 1), e < d
      PROVE  Probe(fp, e, n) \in 0..(n - 1) /\ Probe(fp, e, n) # i
<5>1. Probe(fp, e, n) \in 0..(n - 1)
  BY ProbeIsSlot
<5>2. Probe(fp, e, n) = Probe(fp, d, n) => e = d
  BY ProbeOnce
<5>3. QED
  BY <2>3, <4>1, <5>1, <5>2
<4>2. StopsAt(U, n, fp, d) /\ U[Probe(fp, d, n)] = fp
  BY <2>3, <2>4, <4>1 DEF StopsAt
<4>3. QED
  BY <2>4, <3>1, <4>2 DEF IsVisited
<3>2. CASE j # i
<4>1. U[j] = T[j] /\ T[j] # 0 /\ T[j] \in Nat
  BY <2>4, <2>7, <3>2 DEF TablesOf
<4>2. IsVisited(T, n, T[j])
  BY <4>1 DEF SoundTable, NoOrphans
<4>3. PICK e \in 0..(n - 1) : StopsAt(T, n, T[j], e) /\ T[Probe(T[j], e, n)] = T[j]
  BY <4>2 DEF IsVisited
<4>4. \A c \in 0..(n - 1) : Probe(T[j], c, n) \in 0..(n - 1)
  BY <4>1, ProbeIsSlot
<4>5. \A c \in 0..(n - 1) : c <= e => T[Probe(T[j], c, n)] # 0
  BY <4>1, <4>3 DEF StopsAt
<4>6. \A c \in 0..(n - 1) : c <= e => U[Probe(T[j], c, n)] = T[Probe(T[j], c, n)]
  BY <2>2, <2>4, <4>4, <4>5
<4>7. StopsAt(U, n, T[j], e) /\ U[Probe(T[j], e, n)] = T[j]
  BY <4>3, <4>6 DEF StopsAt
<4>8. QED
  BY <4>1, <4>7 DEF IsVisited
<3>3. QED
  BY <3>1, <3>2
<2>8. QED
  BY <2>2, <2>4, <2>6, <2>7 DEF U, SoundTable, NoOrphans
<1>3. QED
  BY <1>1, <1>2

-----------------------------------------------------------------------------
\* A set of distances that has every distance below those it has.
LEMMA InitialSegment ==
  ASSUME NEW n \in Nat, NEW D, D \subseteq 0..(n - 1),
         \A d \in D : \A e \in 0..(n - 1) : e <= d => e \in D
  PROVE  /\ Cardinality(D) \in 0..n
         /\ D = 0..(Cardinality(D) - 1)
<1> DEFINE Out == {d \in Nat : d \notin D}
<1>1. n \in Out
  OBVIOUS
<1>2. PICK k \in Out : \A j \in Out : k <= j
  BY <1>1, LeastNatural
<1>3. k \in 0..n
  BY <1>1, <1>2
<1>4. \A d \in 0..(k - 1) : d \in D
<2>1. SUFFICES ASSUME NEW d \in 0..(k - 1), d \notin D PROVE FALSE
  OBVIOUS
<2>2. d \in Out /\ d \in Nat /\ k \in Nat
  BY <1>3, <2>1
<2>3. QED
  BY <1>2, <2>2
<1>5. \A d \in D : d < k
<2>1. SUFFICES ASSUME NEW d \in D, k <= d PROVE FALSE
  BY <1>3
<2>2. k \in 0..(n - 1)
  BY <1>3, <2>1
<2>3. k \in D
  BY <2>1, <2>2
<2>4. QED
  BY <1>2, <2>3
<1>6. D = 0..(k - 1)
<2>1. \A d \in D : d \in 0..(k - 1)
  BY <1>3, <1>5
<2>2. QED
  BY <1>4, <2>1
<1>7. Cardinality(0..(k - 1)) = k
  BY <1>3, FS_Interval
<1>8. QED
  BY <1>3, <1>6, <1>7

\* The run from h is made of the slots at the distances below its length,
\* and it ends in front of an empty slot unless it is the whole table.
LEMMA TableRunIs ==
  ASSUME NEW n \in Nat \ {0}, NEW T, NEW h \in 0..(n - 1)
  PROVE  LET L == RunLength(T, n, h)
         IN  /\ L \in 0..n
             /\ \A d \in 0..(n - 1) : d < L => T[After(h, d, n)] # 0
             /\ L < n => T[After(h, L, n)] = 0
<1> DEFINE D == {d \in 0..(n - 1) : InRun(T, n, h, d)}
           L == RunLength(T, n, h)
<1>1. \A d \in D : \A e \in 0..(n - 1) : e <= d => e \in D
  BY DEF InRun
<1>2. L = Cardinality(D)
  BY DEF RunLength
<1>3. L \in 0..n /\ D = 0..(L - 1)
  BY <1>1, <1>2, InitialSegment
<1>4. \A d \in 0..(n - 1) : d < L => T[After(h, d, n)] # 0
<2>1. SUFFICES ASSUME NEW d \in 0..(n - 1), d < L PROVE T[After(h, d, n)] # 0
  OBVIOUS
<2>2. d \in D
  BY <1>3, <2>1
<2>3. QED
  BY <2>2 DEF InRun
<1>5. ASSUME L < n PROVE T[After(h, L, n)] = 0
<2>1. L \in 0..(n - 1) /\ L \notin D
  BY <1>3, <1>5
<2>2. PICK e \in 0..(n - 1) : e <= L /\ T[After(h, e, n)] = 0
  BY <2>1 DEF InRun
<2>3. ~(e < L)
  BY <1>4, <2>2
<2>4. e = L
  BY <1>3, <2>2, <2>3
<2>5. QED
  BY <2>2, <2>4
<1> HIDE DEF D, L
<1>6. L \in 0..n /\ (\A d \in 0..(n - 1) : d < L => T[After(h, d, n)] # 0)
        /\ (L < n => T[After(h, L, n)] = 0)
  BY <1>3, <1>4, <1>5
<1>7. QED
  BY <1>6 DEF L

\* The cleared slots are those of the run, as many as it is long.
LEMMA ClearedIs ==
  ASSUME NEW n \in Nat \ {0}, NEW T, NEW h \in 0..(n - 1),
         RunLength(T, n, h) < n
  PROVE  LET L == RunLength(T, n, h)
         IN  /\ Cleared(T, n, h) = {After(h, d, n) : d \in 0..(L - 1)}
             /\ Cleared(T, n, h) \subseteq 0..(n - 1)
             /\ IsFiniteSet(Cleared(T, n, h))
             /\ Cardinality(Cleared(T, n, h)) = L
<1> DEFINE L == RunLength(T, n, h)
           C == Cleared(T, n, h)
           f == [d \in 0..(L - 1) |-> After(h, d, n)]
<1>1. L \in 0..n /\ L < n
  BY TableRunIs
<1>2. C = {After(h, d, n) : d \in 0..(L - 1)}
  BY DEF Cleared
<1>3. \A d \in 0..(L - 1) : d \in 0..(n - 1) /\ After(h, d, n) \in 0..(n - 1)
  BY <1>1, AfterIsSlot
<1> HIDE DEF L
<1>4. C \subseteq 0..(n - 1)
  BY <1>2, <1>3
<1> HIDE DEF C
<1>5. f \in [0..(L - 1) -> C]
  BY <1>2
<1>6. \A a, b \in 0..(L - 1) : f[a] = f[b] => a = b
<2>1. SUFFICES ASSUME NEW a \in 0..(L - 1), NEW b \in 0..(L - 1), f[a] = f[b]
               PROVE  a = b
  OBVIOUS
<2>2. After(h, a, n) = After(h, b, n)
  BY <2>1
<2>3. QED
  BY <1>3, <2>2, AfterOnce
<1>7. \A c \in C : \E d \in 0..(L - 1) : f[d] = c
  BY <1>2
<1>8. f \in Bijection(0..(L - 1), C)
<2> HIDE DEF f
<2>1. QED
  BY <1>5, <1>6, <1>7 DEF Bijection, Injection, Surjection, IsInjective
<1>9. ExistsBijection(0..(L - 1), C)
  BY <1>8 DEF ExistsBijection
<1>10. IsFiniteSet(0..(L - 1)) /\ Cardinality(0..(L - 1)) = L
<2>1. 0 \in Int /\ L - 1 \in Int
  BY <1>1
<2>2. /\ IsFiniteSet(0..(L - 1))
      /\ Cardinality(0..(L - 1)) = IF 0 > L - 1 THEN 0 ELSE L - 1 - 0 + 1
  BY <2>1, FS_Interval
<2>3. QED
  BY <1>1, <2>2
<1>11. IsFiniteSet(C) /\ Cardinality(C) = L
  BY <1>9, <1>10, FS_Bijection
<1>12. QED
  BY <1>2, <1>4, <1>11 DEF L, C

\* Probing goes on through the run: when it meets a slot of the run, and no
\* empty slot after it, it stays in the run.
LEMMA ProbingStaysInRun ==
  ASSUME NEW n \in Nat \ {0}, NEW T, NEW h \in 0..(n - 1), NEW x \in Nat,
         RunLength(T, n, h) < n,
         NEW c \in Nat, c < RunLength(T, n, h),
         NEW e \in 0..(n - 1), Probe(x, e, n) = After(h, c, n),
         NEW d \in 0..(n - 1), e <= d,
         \A j \in e..d : T[Probe(x, j, n)] # 0
  PROVE  /\ c + (d - e) < RunLength(T, n, h)
         /\ Probe(x, d, n) = After(h, c + (d - e), n)
<1> DEFINE L == RunLength(T, n, h)
           Fine(k) == c + k < L /\ Probe(x, e + k, n) = After(h, c + k, n)
           S == {k \in Nat : k <= d - e => Fine(k)}
<1>1. L \in 0..n /\ L < n /\ T[After(h, L, n)] = 0
  BY TableRunIs
<1>2. 0 \in S
  OBVIOUS
<1>3. ASSUME NEW k \in Nat, k \in S
      PROVE  k + 1 \in S
<2>1. SUFFICES ASSUME k + 1 <= d - e PROVE Fine(k + 1)
  OBVIOUS
<2>2. Fine(k)
  BY <1>3, <2>1
<2>3. HashFingerprint(x, n) \in 0..(n - 1)
  BY HomeSlot
<2> HIDE DEF L
<2>4. Probe(x, e + (k + 1), n) = After(h, c + (k + 1), n)
  BY <1>1, <2>1, <2>2, <2>3 DEF Probe, After
<2>5. e + (k + 1) \in e..d
  BY <2>1
<2>6. T[After(h, c + (k + 1), n)] # 0
  BY <2>4, <2>5
<2>7. c + (k + 1) # L
  BY <1>1, <2>6
<2>8. QED
  BY <1>1, <2>2, <2>4, <2>7
<1>4. Nat \subseteq S
<2> HIDE DEF S
<2>1. QED
  BY <1>2, <1>3, SetInduction
<1>5. d - e \in Nat /\ e + (d - e) = d
  OBVIOUS
<1>6. Fine(d - e)
  BY <1>4, <1>5
<1>7. QED
  BY <1>5, <1>6

\* Emptying a run leaves every other entry within reach.
LEMMA ClearKeepsSound ==
  ASSUME NEW n \in Nat \ {0}, NEW T \in TablesOf(n), NEW h \in 0..(n - 1),
         SoundTable(T, n)
  PROVE  /\ ClearRun(T, n, h) \in TablesOf(n)
         /\ SoundTable(ClearRun(T, n, h), n)
<1> DEFINE U == ClearRun(T, n, h)
           C == Cleared(T, n, h)
           L == RunLength(T, n, h)
<1>1. \A i \in 0..(n - 1) : U[i] = IF i \in C THEN 0 ELSE T[i]
  BY DEF ClearRun
<1>2. U \in TablesOf(n)
  BY DEF ClearRun, TablesOf
<1> HIDE DEF U
<1>3. NoDuplicates(U, n)
  BY <1>1 DEF SoundTable, NoDuplicates
<1>4. ASSUME NEW i \in 0..(n - 1), U[i] # 0
      PROVE  IsVisited(U, n, U[i])
<2>1. i \notin C /\ U[i] = T[i] /\ T[i] # 0 /\ T[i] \in Nat
  BY <1>1, <1>4 DEF TablesOf
<2>2. IsVisited(T, n, T[i])
  BY <2>1 DEF SoundTable, NoOrphans
<2>3. PICK d \in 0..(n - 1) : StopsAt(T, n, T[i], d) /\ T[Probe(T[i], d, n)] = T[i]
  BY <2>2 DEF IsVisited
<2>4. \A e \in 0..(n - 1) : Probe(T[i], e, n) \in 0..(n - 1)
  BY <2>1, ProbeIsSlot
<2>5. Probe(T[i], d, n) = i
  BY <2>1, <2>3, <2>4 DEF SoundTable, NoDuplicates
<2>6. ASSUME NEW e \in 0..(n - 1), e <= d, Probe(T[i], e, n) \in C
      PROVE  FALSE
<3>1. L < n /\ L \in Nat
  BY <2>6, TableRunIs DEF Cleared
<3>2. PICK c \in 0..(L - 1) : Probe(T[i], e, n) = After(h, c, n)
  BY <2>6, <3>1, ClearedIs
<3>3. \A j \in e..d : T[Probe(T[i], j, n)] # 0
  BY <2>1, <2>3, <2>6 DEF StopsAt
<3>4. c + (d - e) < L /\ i = After(h, c + (d - e), n)
  BY <2>1, <2>5, <2>6, <3>1, <3>2, <3>3, ProbingStaysInRun
<3>5. c + (d - e) \in 0..(L - 1)
  BY <2>6, <3>1, <3>4
<3>6. i \in C
  BY <3>1, <3>4, <3>5, ClearedIs
<3>7. QED
  BY <2>1, <3>6
<2>7. \A e \in 0..(n - 1) : e <= d => U[Probe(T[i], e, n)] = T[Probe(T[i], e, n)]
  BY <1>1, <2>4, <2>6
<2>8. StopsAt(U, n, T[i], d) /\ U[Probe(T[i], d, n)] = T[i]
  BY <2>3, <2>7 DEF StopsAt
<2>9. QED
  BY <2>1, <2>8 DEF IsVisited
<1>5. NoOrphans(U, n)
  BY <1>4 DEF NoOrphans
<1>6. QED
  BY <1>2, <1>3, <1>5 DEF SoundTable, U

\* A table in which the first k entries of the emptied run were put back.
PutBack(T, n, h, fp, k, R) ==
  LET C == Cleared(T, n, h)
      Earlier == {T[After(h, c, n)] : c \in 0..(k - 1)} \ {fp}
  IN  /\ R \in TablesOf(n) /\ SoundTable(R, n)
      /\ \A i \in 0..(n - 1) : i \notin C => R[i] = T[i]
      /\ \A c \in 0..(Cardinality(C) - 1) :
           R[After(h, c, n)] # 0 => c < k /\ R[After(h, c, n)] \in Earlier

\* The next of them finds an empty slot, in the run and not behind the one it
\* was taken from.
LEMMA NextIsPutBack ==
  ASSUME NEW n \in Nat \ {0}, NEW T \in TablesOf(n), NEW h \in 0..(n - 1),
         NEW fp \in Nat \ {0}, SoundTable(T, n), RunLength(T, n, h) < n,
         NEW k \in Nat, k < RunLength(T, n, h), NEW R, PutBack(T, n, h, fp, k, R),
         NEW x, x = T[After(h, k, n)], x # fp
  PROVE  /\ x \in Nat \ {0}
         /\ FreeSlot(R, n, x) # {}
         /\ PutBack(T, n, h, fp, k + 1, AddFingerprint(R, n, x))
<1> DEFINE C == Cleared(T, n, h)
           L == RunLength(T, n, h)
           s == After(h, k, n)
           Earlier(m) == {T[After(h, c, n)] : c \in 0..(m - 1)} \ {fp}
<1>1. /\ L \in 0..n /\ L < n
      /\ \A d \in 0..(n - 1) : d < L => T[After(h, d, n)] # 0
  BY TableRunIs
<1>2. C = {After(h, d, n) : d \in 0..(L - 1)} /\ Cardinality(C) = L
  BY ClearedIs
<1>3. /\ R \in TablesOf(n) /\ SoundTable(R, n)
      /\ \A i \in 0..(n - 1) : i \notin C => R[i] = T[i]
      /\ \A c \in 0..(L - 1) :
           R[After(h, c, n)] # 0 => c < k /\ R[After(h, c, n)] \in Earlier(k)
  BY <1>2 DEF PutBack
<1>0. k < L
  OBVIOUS
<1> HIDE DEF C, L
<1>4. k \in 0..(n - 1) /\ s \in 0..(n - 1) /\ s \in C
<2>1. k \in 0..(n - 1) /\ k \in 0..(L - 1)
  BY <1>0, <1>1
<2>2. s \in 0..(n - 1)
  BY <2>1, AfterIsSlot
<2>3. QED
  BY <1>2, <2>1, <2>2
<1>5. x \in Nat \ {0} /\ T[s] = x
  BY <1>1, <1>4 DEF TablesOf, L
<1>6. \A c \in 0..(L - 1) : c \in 0..(n - 1) /\ After(h, c, n) \in 0..(n - 1)
<2>1. \A c \in 0..(L - 1) : c \in 0..(n - 1)
  BY <1>1
<2>2. QED
  BY <2>1, AfterIsSlot
<1>7. PICK d \in 0..(n - 1) : StopsAt(T, n, x, d) /\ T[Probe(x, d, n)] = x
  BY <1>4, <1>5 DEF SoundTable, NoOrphans, IsVisited
<1>8. \A e \in 0..(n - 1) : Probe(x, e, n) \in 0..(n - 1)
  BY <1>5, ProbeIsSlot
<1>9. Probe(x, d, n) = s
  BY <1>4, <1>5, <1>7, <1>8 DEF SoundTable, NoDuplicates
<1>10. \A e \in 0..(n - 1) : e <= d => T[Probe(x, e, n)] # 0
  BY <1>5, <1>7 DEF StopsAt
<1>11. R[s] = 0
  BY <1>1, <1>3, <1>4 DEF L
<1>12. ASSUME NEW i \in 0..(n - 1), R[i] = x
       PROVE  FALSE
<2>1. CASE i \notin C
<3>1. T[i] = x
  BY <1>3, <1>12, <2>1
<3>2. i = s
  BY <1>4, <1>5, <3>1 DEF SoundTable, NoDuplicates
<3>3. QED
  BY <1>4, <2>1, <3>2
<2>2. CASE i \in C
<3>1. PICK c \in 0..(L - 1) : i = After(h, c, n)
  BY <1>2, <2>2
<3>2. x \in Earlier(k)
  BY <1>3, <1>5, <1>12, <3>1
<3>3. PICK b \in 0..(k - 1) : x = T[After(h, b, n)]
  BY <3>2
<3>4. b \in 0..(n - 1) /\ After(h, b, n) \in 0..(n - 1)
<4>1. b \in 0..(n - 1)
  BY <1>4, <3>3
<4>2. QED
  BY <4>1, AfterIsSlot
<3>5. After(h, b, n) = s
  BY <1>4, <1>5, <3>3, <3>4 DEF SoundTable, NoDuplicates
<3>6. b = k
  BY <1>4, <3>4, <3>5, AfterOnce
<3>7. QED
  BY <3>3, <3>6
<2>3. QED
  BY <2>1, <2>2
<1>13. \E e \in 0..d : R[Probe(x, e, n)] = 0
  BY <1>9, <1>11
<1>14. PICK a \in {e \in 0..d : R[Probe(x, e, n)] = 0} :
         \A e \in {e \in 0..d : R[Probe(x, e, n)] = 0} : a <= e
<2>1. {e \in 0..d : R[Probe(x, e, n)] = 0} \subseteq Nat
  OBVIOUS
<2>2. QED
  BY <1>13, <2>1, LeastNatural
<1>15. a \in 0..(n - 1) /\ a <= d /\ R[Probe(x, a, n)] = 0
  BY <1>14
<1>16. \A e \in 0..(n - 1) : e < a => R[Probe(x, e, n)] # 0
  BY <1>14
<1>17. \A e \in 0..(n - 1) : R[Probe(x, e, n)] # x
  BY <1>8, <1>12
<1>18. StopsAt(R, n, x, a)
  BY <1>15, <1>16, <1>17 DEF StopsAt
<1> DEFINE p == Probe(x, a, n)
<1>19. FreeSlot(R, n, x) = {p} /\ p \in FreeSlot(R, n, x)
  BY <1>5, <1>15, <1>18, FreeSlotIs
<1>20. p \in 0..(n - 1)
  BY <1>8, <1>15
<1>21. AddFingerprint(R, n, x) = [R EXCEPT ![p] = x]
  BY <1>3, <1>5, <1>19, AddsAtFreeSlot
<1>22. p \in C
  BY <1>3, <1>10, <1>15, <1>20
<1>23. PICK b \in 0..(L - 1) : p = After(h, b, n)
  BY <1>2, <1>22
<1>24. \A j \in a..d : T[Probe(x, j, n)] # 0
  BY <1>10, <1>15
<1>25. b + (d - a) < L /\ s = After(h, b + (d - a), n)
<2>1. b \in Nat /\ b < L
  BY <1>1, <1>23
<2>2. Probe(x, a, n) = After(h, b, n) /\ a \in 0..(n - 1) /\ a <= d /\ d \in 0..(n - 1)
  BY <1>9, <1>15, <1>23
<2>3. L < n /\ h \in 0..(n - 1) /\ x \in Nat /\ n \in Nat \ {0}
  BY <1>1, <1>5
<2>4. s = Probe(x, d, n)
  BY <1>9
<2> HIDE DEF p
<2>5. b + (d - a) < L /\ Probe(x, d, n) = After(h, b + (d - a), n)
  BY <1>24, <2>1, <2>2, <2>3, ProbingStaysInRun DEF L
<2>6. QED
  BY <2>4, <2>5
<1>26. b + (d - a) \in 0..(n - 1)
  BY <1>1, <1>15, <1>23, <1>25
<1>27. b + (d - a) = k
  BY <1>4, <1>25, <1>26, AfterOnce
<1>28. b <= k
  BY <1>15, <1>23, <1>27
<1> DEFINE U == AddFingerprint(R, n, x)
<1>29. U \in TablesOf(n) /\ SoundTable(U, n)
  BY <1>3, <1>5, AddKeepsSound
<1>30. U[p] = x /\ \A i \in 0..(n - 1) : i # p => U[i] = R[i]
  BY <1>3, <1>20, <1>21 DEF TablesOf
<1> HIDE DEF U, p, s
<1>31. \A i \in 0..(n - 1) : i \notin C => U[i] = T[i]
  BY <1>3, <1>22, <1>30
<1>32. ASSUME NEW c \in 0..(L - 1), U[After(h, c, n)] # 0
       PROVE  c < k + 1 /\ U[After(h, c, n)] \in Earlier(k + 1)
<2>1. CASE After(h, c, n) = p
<3>1. c = b
  BY <1>6, <1>23, <2>1, AfterOnce
<3>2. x \in Earlier(k + 1)
  BY <1>5 DEF s
<3>3. QED
  BY <1>28, <1>30, <2>1, <3>1, <3>2
<2>2. CASE After(h, c, n) # p
<3>1. U[After(h, c, n)] = R[After(h, c, n)]
  BY <1>6, <1>30, <2>2
<3>2. c < k /\ R[After(h, c, n)] \in Earlier(k)
  BY <1>3, <1>32, <3>1
<3>3. QED
  BY <3>1, <3>2
<2>3. QED
  BY <2>1, <2>2
<1>33. PutBack(T, n, h, fp, k + 1, U)
  BY <1>2, <1>29, <1>31, <1>32 DEF PutBack, C
<1>34. QED
  BY <1>5, <1>19, <1>33 DEF U

-----------------------------------------------------------------------------
(* The master, its tasks and its file. *)

\* The lengths a table has: they are odd, and leave room.
Sizes ==
  {n \in Nat : n % 2 = 1 /\ (n >= 50 \/ n > Cardinality(Fingerprints))}

\* What a slot holds.
Contents == Fingerprints \union {0}

\* The tables a master has.
Tables == UNION {[0..(n - 1) -> Contents] : n \in Sizes}

\* The tasks it posts,
WriteTasks ==
  [op : {"open"}] \union [op : {"truncate"}, length : Sizes]
  \union [op : {"used"}, used : Int, mixed : BOOLEAN]
  \union [op : {"header"}, length : Sizes, used : Int]
  \union [op : {"data"}, first : Nat, slots : Seq(Contents), mixed : BOOLEAN]
  \union [op : {"table"}, slots : Seq(Contents), mixed : BOOLEAN]

\* what it tells its listener,
Calls == [call : {"Add", "Reset", "NewTable"}, link : Nat]

\* and its members.
Masters ==
  [table : Tables, used : Int, building : BOOLEAN,
   added : SUBSET Fingerprints, deleted : SUBSET Fingerprints,
   opened : BOOLEAN, io : Seq(WriteTasks), told : Seq(Calls),
   unsaved : BOOLEAN, mixed : BOOLEAN]

\* What the file may be after some of the tasks.
FileStates ==
  [length : Sizes \union {0}, used : Int, data : Seq(Contents), mixed : BOOLEAN]

\* A table has a slot.
LEMMA SizesArePositive == Sizes \subseteq Nat \ {0}
BY DEF Sizes

\* Links and empty slots are numbers.
LEMMA ContentsAreNaturals == Contents \subseteq Nat
BY SizesAssumption DEF Contents

\* The length is the number of slots.
LEMMA LengthOf ==
  ASSUME NEW m, NEW n \in Nat \ {0}, NEW X, m.table \in [0..(n - 1) -> X]
  PROVE  Length(m) = n
<1>1. DOMAIN m.table = 0..(n - 1)
  OBVIOUS
<1>2. 0 \in Int /\ n - 1 \in Int
  OBVIOUS
<1>3. Cardinality(0..(n - 1)) = IF 0 > n - 1 THEN 0 ELSE n - 1 - 0 + 1
  BY <1>2, FS_Interval
<1>4. QED
  BY <1>1, <1>3 DEF Length

\* The table of a master has its length.
LEMMA LengthIs ==
  ASSUME NEW m \in Masters
  PROVE  /\ Length(m) \in Sizes /\ Length(m) \in Nat \ {0}
         /\ m.table \in [0..(Length(m) - 1) -> Contents]
         /\ m.table \in TablesOf(Length(m))
<1>1. m.table \in Tables
  BY DEF Masters
<1>2. PICK n \in Sizes : m.table \in [0..(n - 1) -> Contents]
  BY <1>1 DEF Tables
<1>3. n \in Nat \ {0}
  BY SizesArePositive
<1>4. Length(m) = n
  BY <1>2, <1>3, LengthOf
<1>5. m.table \in TablesOf(n)
  BY <1>2, ContentsAreNaturals DEF TablesOf
<1>6. QED
  BY <1>2, <1>3, <1>4, <1>5

\* The slots of a table, as a sequence.
LEMMA SlotsAre ==
  ASSUME NEW m \in Masters
  PROVE  /\ Slots(m) \in Seq(Contents)
         /\ Len(Slots(m)) = Length(m)
         /\ \A i \in 1..Length(m) : Slots(m)[i] = m.table[i - 1]
<1>1. Length(m) \in Nat /\ m.table \in [0..(Length(m) - 1) -> Contents]
  BY LengthIs
<1>2. \A i \in 1..Length(m) : i - 1 \in 0..(Length(m) - 1)
  BY <1>1
<1>3. Slots(m) \in [1..Length(m) -> Contents]
  BY <1>1, <1>2 DEF Slots
<1>4. Slots(m) \in Seq(Contents) /\ Len(Slots(m)) = Length(m)
  BY <1>1, <1>3
<1>5. QED
  BY <1>4 DEF Slots

-----------------------------------------------------------------------------
\* The table sizes.

\* A size of the list leaves room.
LEMMA SizesInTheList ==
  ASSUME NEW i \in DOMAIN TableSizes
  PROVE  TableSizes[i] \in Sizes
<1>1. TableSizes[i] \in Nat \ {0} /\ TableSizes[i] % 2 = 1
  BY SizesAssumption
<1>2. Cardinality(Fingerprints) \in Nat
  BY SizesAssumption, FS_CardinalityType
<1>3. TableSizes[i] >= 150 \/ TableSizes[i] > Cardinality(Fingerprints)
  BY RoomAssumption
<1>4. QED
  BY <1>1, <1>2, <1>3 DEF Sizes

\* NewTableSizeForCount leaves room for more than the count.
LEMMA NewSizes ==
  ASSUME NEW count \in Int
  PROVE  /\ NewTableSizeForCount(count) \in Sizes
         /\ NewTableSizeForCount(count) > count
<1> DEFINE Large == {i \in DOMAIN TableSizes : TableSizes[i] > 3 * count}
           n == NewTableSizeForCount(count)
<1>1. DOMAIN TableSizes \subseteq Nat /\ DOMAIN TableSizes # {}
  BY SizesAssumption
<1>2. Cardinality(Fingerprints) \in Nat \ {0}
  BY SizesAssumption, FS_CardinalityType, FS_EmptySet
<1>3. \A i \in DOMAIN TableSizes : TableSizes[i] \in Nat \ {0}
  BY SizesAssumption
<1>4. CASE Large # {}
<2>1. \E i \in Large : \A j \in Large : i <= j
  BY <1>1, <1>4, LeastNatural
<2>2. PICK i \in Large : n = TableSizes[i]
  BY <1>4, <2>1 DEF NewTableSizeForCount
<2>3. n \in Sizes
  BY <2>2, SizesInTheList
<2>4. TableSizes[i] > 3 * count /\ TableSizes[i] \in Nat \ {0}
  BY <1>3, <2>2
<2>5. QED
  BY <2>2, <2>3, <2>4
<1>5. CASE Large = {}
<2>1. n = 2 * count - 1
  BY <1>5 DEF NewTableSizeForCount
<2>2. \A i \in DOMAIN TableSizes : TableSizes[i] <= 3 * count
  BY <1>3, <1>5
<2>3. CASE \A i \in DOMAIN TableSizes : TableSizes[i] >= 150
<3>1. PICK i \in DOMAIN TableSizes : TableSizes[i] >= 150
  BY <1>1, <2>3
<3>2. count >= 50
  BY <1>3, <2>2, <3>1
<3>3. QED
  BY <2>1, <3>2 DEF Sizes
<2>4. CASE \E i \in DOMAIN TableSizes : TableSizes[i] > 3 * Cardinality(Fingerprints)
<3>1. PICK i \in DOMAIN TableSizes : TableSizes[i] > 3 * Cardinality(Fingerprints)
  BY <2>4
<3>2. count > Cardinality(Fingerprints)
  BY <1>2, <1>3, <2>2, <3>1
<3>3. n > count /\ n \in Nat /\ n % 2 = 1
  BY <1>2, <2>1, <3>2
<3>4. QED
  BY <1>2, <3>2, <3>3 DEF Sizes
<2>5. QED
  BY <2>3, <2>4, RoomAssumption
<1>6. QED
  BY <1>4, <1>5

\* The first table leaves room.
LEMMA DefaultSize == DefaultTableSize \in Sizes
<1>1. 1 \in DOMAIN TableSizes
  BY SizesAssumption
<1>2. QED
  BY <1>1, SizesInTheList DEF DefaultTableSize

\* A table without an entry.
LEMMA EmptyTable ==
  ASSUME NEW n \in Sizes
  PROVE  /\ Empty(n) \in Tables
         /\ Empty(n) \in [0..(n - 1) -> Contents]
         /\ SoundTable(Empty(n), n)
         /\ UsedSlots(Empty(n)) = {}
         /\ Cardinality(UsedSlots(Empty(n))) = 0
<1>1. Empty(n) \in [0..(n - 1) -> Contents] /\ \A i \in 0..(n - 1) : Empty(n)[i] = 0
  BY DEF Empty, Contents
<1>2. Empty(n) \in Tables
  BY <1>1 DEF Tables
<1>3. SoundTable(Empty(n), n)
  BY <1>1 DEF SoundTable, NoOrphans, NoDuplicates
<1>4. UsedSlots(Empty(n)) = {}
  BY <1>1 DEF UsedSlots
<1>5. QED
  BY <1>1, <1>2, <1>3, <1>4, FS_EmptySet

-----------------------------------------------------------------------------
\* The entries of a table, counted.

\* No more slots are used than there are.
LEMMA UsedSlotsFinite ==
  ASSUME NEW n \in Nat \ {0}, NEW X, NEW T \in [0..(n - 1) -> X]
  PROVE  /\ UsedSlots(T) \subseteq 0..(n - 1)
         /\ IsFiniteSet(UsedSlots(T))
         /\ Cardinality(UsedSlots(T)) \in 0..n
<1>1. UsedSlots(T) \subseteq 0..(n - 1)
  BY DEF UsedSlots
<1>2. 0 \in Int /\ n - 1 \in Int
  OBVIOUS
<1>3. /\ IsFiniteSet(0..(n - 1))
      /\ Cardinality(0..(n - 1)) = IF 0 > n - 1 THEN 0 ELSE n - 1 - 0 + 1
  BY <1>2, FS_Interval
<1>4. /\ IsFiniteSet(UsedSlots(T))
      /\ Cardinality(UsedSlots(T)) <= Cardinality(0..(n - 1))
  BY <1>1, <1>3, FS_Subset
<1>5. Cardinality(UsedSlots(T)) \in Nat
  BY <1>4, FS_CardinalityType
<1>6. QED
  BY <1>1, <1>3, <1>4, <1>5

\* Without duplicates there are no more entries than fingerprints.
LEMMA EntriesAreFingerprints ==
  ASSUME NEW n \in Nat \ {0}, NEW T \in [0..(n - 1) -> Contents], NoDuplicates(T, n)
  PROVE  Cardinality(UsedSlots(T)) <= Cardinality(Fingerprints)
<1> DEFINE U == UsedSlots(T)
           f == [i \in U |-> T[i]]
<1>1. \A i \in U : i \in 0..(n - 1) /\ T[i] \in Fingerprints
  BY DEF UsedSlots, Contents
<1>2. \A i, j \in U : T[i] = T[j] => i = j
  BY <1>1, SizesAssumption DEF NoDuplicates
<1> HIDE DEF U
<1>3. f \in [U -> Fingerprints]
  BY <1>1
<1>4. \A i, j \in U : f[i] = f[j] => i = j
  BY <1>2
<1>5. f \in Injection(U, Fingerprints)
<2> HIDE DEF f
<2>1. QED
  BY <1>3, <1>4 DEF Injection, IsInjective
<1>6. Cardinality(U) <= Cardinality(Fingerprints)
  BY <1>5, SizesAssumption, FS_Injection DEF ExistsInjection
<1>7. QED
  BY <1>6 DEF U

\* An added link takes the free slot, if there is one.
LEMMA AddCounts ==
  ASSUME NEW n \in Nat \ {0}, NEW T \in TablesOf(n), NEW fp \in Nat \ {0}
  PROVE  /\ Cardinality(FreeSlot(T, n, fp)) \in {0, 1}
         /\ FreeSlot(T, n, fp) = {} <=> Cardinality(FreeSlot(T, n, fp)) = 0
         /\ Cardinality(UsedSlots(AddFingerprint(T, n, fp)))
              = Cardinality(UsedSlots(T)) + Cardinality(FreeSlot(T, n, fp))
<1>1. IsFiniteSet(UsedSlots(T)) /\ Cardinality(UsedSlots(T)) \in Nat
<2>1. T \in [0..(n - 1) -> Nat]
  BY DEF TablesOf
<2>2. IsFiniteSet(UsedSlots(T)) /\ Cardinality(UsedSlots(T)) \in 0..n
  BY <2>1, UsedSlotsFinite
<2>3. QED
  BY <2>2
<1>2. CASE FreeSlot(T, n, fp) = {}
<2>1. Cardinality(FreeSlot(T, n, fp)) = 0
  BY <1>2, FS_EmptySet
<2>2. AddFingerprint(T, n, fp) = T
  BY <1>2 DEF AddFingerprint
<2>3. QED
  BY <1>1, <1>2, <2>1, <2>2
<1>3. CASE FreeSlot(T, n, fp) # {}
<2>1. PICK i \in FreeSlot(T, n, fp) : TRUE
  BY <1>3
<2>2. /\ i \in 0..(n - 1) /\ T[i] = 0 /\ FreeSlot(T, n, fp) = {i}
      /\ AddFingerprint(T, n, fp) = [T EXCEPT ![i] = fp]
  BY <2>1, AddsAtFreeSlot
<2>3. UsedSlots([T EXCEPT ![i] = fp]) = UsedSlots(T) \union {i}
  BY <2>2 DEF UsedSlots, TablesOf
<2>4. i \notin UsedSlots(T)
  BY <2>2 DEF UsedSlots
<2>5. Cardinality(UsedSlots(T) \union {i}) = Cardinality(UsedSlots(T)) + 1
  BY <1>1, <2>4, FS_AddElement
<2>6. Cardinality({i}) = 1
  BY FS_Singleton
<2>7. Cardinality(FreeSlot(T, n, fp)) = 1
  BY <2>2, <2>6
<2>8. UsedSlots(AddFingerprint(T, n, fp)) = UsedSlots(T) \union {i}
  BY <2>2, <2>3
<2>9. QED
  BY <1>3, <2>5, <2>7, <2>8
<1>4. QED
  BY <1>2, <1>3

-----------------------------------------------------------------------------
\* One fingerprint is inserted.

-----------------------------------------------------------------------------
(* Insertions. *)

\* What the insertions leave alone, and what they keep of the table: its size,
\* that it is sound, and how far the count is off.
Extends(a, m) ==
  /\ a \in Masters
  /\ a.building = m.building /\ a.added = m.added /\ a.deleted = m.deleted
  /\ a.opened = m.opened /\ a.io = m.io /\ a.told = m.told
  /\ a.unsaved = m.unsaved /\ a.mixed = m.mixed
  /\ Length(a) = Length(m)
  /\ SoundTable(m.table, Length(m)) => SoundTable(a.table, Length(m))
  /\ a.used - Cardinality(UsedSlots(a.table))
       = m.used - Cardinality(UsedSlots(m.table))

\* The two counts of a master are numbers.
LEMMA UsedIsNumber ==
  ASSUME NEW m \in Masters
  PROVE  m.used \in Int /\ Cardinality(UsedSlots(m.table)) \in 0..Length(m)
<1>1. m.used \in Int
  BY DEF Masters
<1>2. Length(m) \in Nat \ {0} /\ m.table \in [0..(Length(m) - 1) -> Contents]
  BY LengthIs
<1>3. QED
  BY <1>1, <1>2, UsedSlotsFinite

\* Inserting a link extends the table, and counts it if it is new.
LEMMA InsertExtends ==
  ASSUME NEW m \in Masters, NEW fp \in Fingerprints
  PROVE  LET a == Insert(m, fp)
             n == Length(m)
         IN  /\ Extends(a, m)
             /\ a.table = AddFingerprint(m.table, n, fp)
             /\ a.used = m.used + Cardinality(FreeSlot(m.table, n, fp))
             /\ a.used \in {m.used, m.used + 1}
             /\ FreeSlot(m.table, n, fp) # {} => a.used = m.used + 1
<1> DEFINE n == Length(m)
           a == Insert(m, fp)
           c == Cardinality(FreeSlot(m.table, n, fp))
           T == AddFingerprint(m.table, n, fp)
<1>1. /\ n \in Sizes /\ n \in Nat \ {0} /\ m.table \in TablesOf(n)
      /\ m.table \in [0..(n - 1) -> Contents]
  BY LengthIs
<1>2. fp \in Nat \ {0}
  BY SizesAssumption
<1>3. c \in {0, 1} /\ (FreeSlot(m.table, n, fp) # {} => c = 1)
  BY <1>1, <1>2, AddCounts
<1>4. Cardinality(UsedSlots(T)) = Cardinality(UsedSlots(m.table)) + c
  BY <1>1, <1>2, AddCounts
<1>5. T \in [0..(n - 1) -> Contents]
<2>1. CASE FreeSlot(m.table, n, fp) = {}
  BY <1>1, <2>1 DEF AddFingerprint
<2>2. CASE FreeSlot(m.table, n, fp) # {}
<3>1. PICK i \in FreeSlot(m.table, n, fp) : TRUE
  BY <2>2
<3>2. i \in 0..(n - 1) /\ T = [m.table EXCEPT ![i] = fp]
  BY <1>1, <1>2, <3>1, AddsAtFreeSlot
<3>3. fp \in Contents
  BY DEF Contents
<3>4. QED
  BY <1>1, <3>2, <3>3
<2>3. QED
  BY <2>1, <2>2
<1>6. T \in Tables
  BY <1>1, <1>5 DEF Tables
<1>7. SoundTable(m.table, n) => SoundTable(T, n)
  BY <1>1, <1>2, AddKeepsSound
<1>8. m.used \in Int /\ Cardinality(UsedSlots(m.table)) \in 0..n
  BY UsedIsNumber
<1>9. a = [m EXCEPT !.table = T, !.used = @ + c]
  BY DEF Insert
<1> HIDE DEF n, c, T
<1>10. /\ a \in Masters
       /\ a.table = T /\ a.used = m.used + c
       /\ a.building = m.building /\ a.added = m.added /\ a.deleted = m.deleted
       /\ a.opened = m.opened /\ a.io = m.io /\ a.told = m.told
       /\ a.unsaved = m.unsaved /\ a.mixed = m.mixed
<2> HIDE DEF a
<2>1. m.used + c \in Int
  BY <1>3, <1>8
<2>2. QED
  BY <1>6, <1>9, <2>1 DEF Masters
<1> HIDE DEF a
<1>11. Length(a) = n
  BY <1>1, <1>5, <1>10, LengthOf
<1>12. a.used - Cardinality(UsedSlots(a.table))
         = m.used - Cardinality(UsedSlots(m.table))
  BY <1>3, <1>4, <1>8, <1>10
<1>13. Extends(a, m)
  BY <1>7, <1>10, <1>11, <1>12 DEF Extends, n
<1>14. a.used \in {m.used, m.used + 1} /\ (FreeSlot(m.table, n, fp) # {} => a.used = m.used + 1)
  BY <1>3, <1>8, <1>10
<1>15. QED
  BY <1>10, <1>13, <1>14 DEF a, T, c, n

\* Extending goes step by step.
LEMMA ExtendsTrans ==
  ASSUME NEW a, NEW b, NEW m, Extends(a, b), Extends(b, m)
  PROVE  Extends(a, m)
BY DEF Extends

\* Nothing extends a table by nothing.
LEMMA ExtendsSelf ==
  ASSUME NEW m \in Masters
  PROVE  Extends(m, m)
BY DEF Extends

\* The steps of InsertAll.
LEMMA InsertStepByStep ==
  ASSUME NEW m \in Masters, NEW fps \in Seq(Contents)
  PROVE  \E done \in [0..Len(fps) -> Masters] :
           /\ done[0] = m
           /\ \A k \in 1..Len(fps) :
                done[k] = IF fps[k] = 0 THEN done[k - 1] ELSE Insert(done[k - 1], fps[k])
           /\ InsertAll(m, fps) = done[Len(fps)]
<1> DEFINE N == Len(fps)
           One(v, k) == IF fps[k] = 0 THEN v ELSE Insert(v, fps[k])
           Body(g) == [k \in 0..N |-> IF k = 0 THEN m ELSE One(g[k - 1], k)]
           done == CHOOSE g : g = Body(g)
           step == [k \in 1..N |-> [v \in Masters |-> One(v, k)]]
<1>1. N \in Nat
  OBVIOUS
<1>2. \A k \in 1..N, v \in Masters : One(v, k) \in Masters
<2>1. SUFFICES ASSUME NEW k \in 1..N, NEW v \in Masters, fps[k] # 0
               PROVE  Insert(v, fps[k]) \in Masters
  OBVIOUS
<2>2. fps[k] \in Fingerprints
  BY <2>1 DEF Contents
<2>3. QED
  BY <2>2, InsertExtends DEF Extends
<1> HIDE DEF One
<1>3. PICK f \in [0..N -> Masters] :
        f[0] = m /\ \A k \in 1..N : f[k] = step[k][f[k - 1]]
<2>1. StepsWithin(N, Masters, step)
  BY <1>2 DEF StepsWithin
<2> HIDE DEF step
<2>2. PICK f : FollowsSteps(f, N, Masters, m, step)
  BY <1>1, <2>1, RecursionOnNaturals
<2>3. QED
  BY <2>2, Zenon DEF FollowsSteps
<1>4. ASSUME NEW k \in 1..N
      PROVE  f[k] = One(f[k - 1], k)
<2>1. k - 1 \in 0..N
  BY <1>1
<2>2. f[k - 1] \in Masters
  BY <2>1
<2>3. QED
  BY <1>3, <2>2
<1>5. f = Body(f)
<2>1. \A k \in 0..N : k = 0 \/ k \in 1..N
  BY <1>1
<2>2. \A k \in 0..N : f[k] = IF k = 0 THEN m ELSE One(f[k - 1], k)
  BY <1>3, <1>4, <2>1
<2>3. f = [k \in 0..N |-> f[k]]
  OBVIOUS
<2>4. QED
  BY <2>2, <2>3
<1>6. done = Body(done)
  BY <1>5
<1>7. InsertAll(m, fps) = done[N]
  BY DEF InsertAll, One
<1> HIDE DEF done
<1>8. /\ DOMAIN done = 0..N
      /\ \A k \in 0..N : done[k] = IF k = 0 THEN m ELSE One(done[k - 1], k)
  BY <1>6, Zenon
<1>9. done[0] = m /\ \A k \in 1..N : done[k] = One(done[k - 1], k)
  BY <1>1, <1>8
<1>10. \A k \in 0..N : done[k] \in Masters
<2> DEFINE S == {k \in Nat : k <= N => done[k] \in Masters}
<2>1. 0 \in S
  BY <1>9
<2>2. ASSUME NEW k \in Nat, k \in S
      PROVE  k + 1 \in S
<3>1. SUFFICES ASSUME k + 1 <= N PROVE done[k + 1] \in Masters
  OBVIOUS
<3>2. done[k] \in Masters /\ k + 1 \in 1..N /\ (k + 1) - 1 = k
  BY <1>1, <2>2, <3>1
<3>3. QED
  BY <1>2, <1>9, <3>2
<2>3. Nat \subseteq S
<3> HIDE DEF S
<3>1. QED
  BY <2>1, <2>2, SetInduction
<2>4. QED
  BY <1>1, <2>3
<1>11. done = [k \in 0..N |-> done[k]]
  BY <1>6, <1>8, Zenon
<1>12. done \in [0..N -> Masters]
  BY <1>10, <1>11
<1>13. QED
  BY <1>7, <1>9, <1>12 DEF One

\* What InsertAll does.
LEMMA InsertAllExtends ==
  ASSUME NEW m \in Masters, NEW fps \in Seq(Contents)
  PROVE  LET a == InsertAll(m, fps)
         IN  /\ Extends(a, m)
             /\ a.used - m.used
                  \in 0..Cardinality({j \in 1..Len(fps) : fps[j] # 0})
<1> DEFINE N == Len(fps)
           P(k) == {j \in 1..k : fps[j] # 0}
<1>1. PICK done \in [0..N -> Masters] :
        /\ done[0] = m
        /\ \A k \in 1..N :
             done[k] = IF fps[k] = 0 THEN done[k - 1] ELSE Insert(done[k - 1], fps[k])
        /\ InsertAll(m, fps) = done[N]
  BY InsertStepByStep
<1> DEFINE Good(k) == /\ Extends(done[k], m)
                      /\ done[k].used - m.used \in 0..Cardinality(P(k))
           S == {k \in Nat : k <= N => Good(k)}
<1>2. m.used \in Int
  BY UsedIsNumber
<1>3. 0 \in S
<2>1. P(0) = {}
  OBVIOUS
<2>2. Cardinality(P(0)) = 0
  BY <2>1, FS_EmptySet
<2>3. QED
  BY <1>1, <1>2, <2>2, ExtendsSelf
<1>4. ASSUME NEW k \in Nat, k \in S
      PROVE  k + 1 \in S
<2>1. SUFFICES ASSUME k + 1 <= N PROVE Good(k + 1)
  OBVIOUS
<2>2. Good(k) /\ k + 1 \in 1..N /\ (k + 1) - 1 = k /\ k \in 0..N
  BY <1>4, <2>1
<2>3. done[k] \in Masters /\ done[k].used \in Int
  BY <2>2, UsedIsNumber
<2>4. IsFiniteSet(P(k)) /\ Cardinality(P(k)) \in Nat /\ k + 1 \notin P(k)
<3>1. 1 \in Int /\ k \in Int
  OBVIOUS
<3>2. IsFiniteSet(1..k)
  BY <3>1, FS_Interval
<3>3. P(k) \subseteq 1..k
  OBVIOUS
<3>4. QED
  BY <3>2, <3>3, FS_Subset, FS_CardinalityType
<2>5. CASE fps[k + 1] = 0
<3>1. P(k + 1) = P(k)
  BY <2>5
<3>2. done[k + 1] = done[k]
  BY <1>1, <2>2, <2>5
<3>3. QED
  BY <2>2, <3>1, <3>2
<2>6. CASE fps[k + 1] # 0
<3>1. P(k + 1) = P(k) \union {k + 1}
  BY <2>6
<3>2. Cardinality(P(k + 1)) = Cardinality(P(k)) + 1
  BY <2>4, <3>1, FS_AddElement
<3>3. done[k + 1] = Insert(done[k], fps[k + 1]) /\ fps[k + 1] \in Fingerprints
  BY <1>1, <2>2, <2>6 DEF Contents
<3>4. /\ Extends(done[k + 1], done[k])
      /\ done[k + 1].used \in {done[k].used, done[k].used + 1}
  BY <2>3, <3>3, InsertExtends
<3>5. Extends(done[k + 1], m)
  BY <2>2, <3>4, ExtendsTrans
<3> HIDE DEF P
<3>6. done[k + 1].used - m.used \in 0..Cardinality(P(k + 1))
  BY <1>2, <2>2, <2>3, <2>4, <3>2, <3>4
<3>7. QED
  BY <3>5, <3>6
<2>7. QED
  BY <2>5, <2>6
<1>5. Nat \subseteq S
<2> HIDE DEF S
<2>1. QED
  BY <1>3, <1>4, SetInduction
<1>6. N \in Nat
  OBVIOUS
<1>7. Good(N)
  BY <1>5, <1>6
<1>8. QED
  BY <1>1, <1>7

-----------------------------------------------------------------------------
\* The file.

-----------------------------------------------------------------------------
(* What the tasks make of the file. *)

\* Writing over a range changes it and nothing else.
LEMMA OverwriteIs ==
  ASSUME NEW data \in Seq(Contents), NEW first \in Nat, NEW s \in Seq(Contents)
  PROVE  LET new == Overwrite(data, first, s)
         IN  /\ new \in Seq(Contents)
             /\ Len(new) = IF Len(data) < first + Len(s) THEN first + Len(s)
                           ELSE Len(data)
             /\ \A i \in 1..Len(s) : new[first + i] = s[i]
             /\ \A i \in 1..Len(data) :
                  i \notin (first + 1)..(first + Len(s)) => new[i] = data[i]
<1> DEFINE N == IF Len(data) < first + Len(s) THEN first + Len(s) ELSE Len(data)
           new == Overwrite(data, first, s)
           Entry(i) == IF i \in (first + 1)..(first + Len(s)) THEN s[i - first]
                       ELSE IF i <= Len(data) THEN data[i] ELSE 0
<1>1. N \in Nat /\ Len(s) \in Nat /\ Len(data) \in Nat
  OBVIOUS
<1>2. ASSUME NEW i \in 1..N
      PROVE  Entry(i) \in Contents
<2>1. CASE i \in (first + 1)..(first + Len(s))
<3>1. i - first \in 1..Len(s)
  BY <2>1
<3>2. QED
  BY <2>1, <3>1
<2>2. CASE i \notin (first + 1)..(first + Len(s))
<3>1. CASE i <= Len(data)
<4>1. i \in 1..Len(data)
  BY <3>1
<4>2. QED
  BY <2>2, <3>1, <4>1
<3>2. CASE ~(i <= Len(data))
  BY <2>2, <3>2 DEF Contents
<3>3. QED
  BY <3>1, <3>2
<2>3. QED
  BY <2>1, <2>2
<1>3. new = [i \in 1..N |-> Entry(i)]
  BY DEF Overwrite
<1> HIDE DEF Entry, new, N
<1>4. new \in [1..N -> Contents]
  BY <1>2, <1>3
<1>5. new \in Seq(Contents) /\ Len(new) = N
  BY <1>1, <1>4
<1>6. ASSUME NEW i \in 1..Len(s)
      PROVE  new[first + i] = s[i]
<2>1. /\ first + i \in (first + 1)..(first + Len(s)) /\ first + i \in 1..N
      /\ (first + i) - first = i
  BY <1>1 DEF N
<2>2. QED
  BY <1>3, <2>1 DEF Entry
<1>7. ASSUME NEW i \in 1..Len(data), i \notin (first + 1)..(first + Len(s))
      PROVE  new[i] = data[i]
<2>1. i \in 1..N /\ i <= Len(data)
  BY <1>1 DEF N
<2>2. QED
  BY <1>3, <1>7, <2>1 DEF Entry
<1>8. QED
  BY <1>5, <1>6, <1>7 DEF new, N

\* A file that a start takes for a sound table holds one.
Fit(f) ==
  Loads(f) /\ ~f.mixed => SoundTable(LoadedTable(f), f.length)

\* Its count is right, too, unless there was a crash.
CountFit(f, cut) ==
  Loads(f) /\ ~f.mixed /\ ~cut =>
    /\ f.used = Cardinality(UsedSlots(LoadedTable(f)))
    /\ f.used < f.length

\* The entries of the file, as a table.
DataTable(f) == [i \in 0..(Len(f.data) - 1) |-> f.data[i + 1]]

\* Its entries are those of a sound table, or have no length of a table.
DataFit(f) ==
  f.mixed \/ Len(f.data) % 2 = 0 \/ SoundTable(DataTable(f), Len(f.data))

\* A start reads the table whose slots are in the file.
LEMMA LoadedIs ==
  ASSUME NEW f, NEW n \in Nat, NEW X, NEW T \in [0..(n - 1) -> X],
         f.length = n, \A i \in 1..n : f.data[i] = T[i - 1]
  PROVE  LoadedTable(f) = T
<1>1. \A i \in 0..(n - 1) : i + 1 \in 1..n /\ (i + 1) - 1 = i
  OBVIOUS
<1>2. \A i \in 0..(n - 1) : f.data[i + 1] = T[i]
  BY <1>1
<1>3. LoadedTable(f) = [i \in 0..(n - 1) |-> T[i]]
  BY <1>2 DEF LoadedTable
<1>4. QED
  BY <1>3

\* So are its entries.
LEMMA DataTableIs ==
  ASSUME NEW f, NEW n \in Nat, NEW X, NEW T \in [0..(n - 1) -> X],
         Len(f.data) = n, \A i \in 1..n : f.data[i] = T[i - 1]
  PROVE  DataTable(f) = T
<1>1. \A i \in 0..(n - 1) : i + 1 \in 1..n /\ (i + 1) - 1 = i
  OBVIOUS
<1>2. \A i \in 0..(n - 1) : f.data[i + 1] = T[i]
  BY <1>1
<1>3. DataTable(f) = [i \in 0..(n - 1) |-> T[i]]
  BY <1>2 DEF DataTable
<1>4. QED
  BY <1>3

\* f is the file when all tasks are performed, and no file on the way there
\* is unfit.
OnFile(f0, tasks, f) ==
  \E fs \in [0..Len(tasks) -> FileStates] :
    /\ fs[0] = f0
    /\ \A k \in 1..Len(tasks) : fs[k] = Perform(fs[k - 1], tasks[k])
    /\ \A k \in 0..Len(tasks) : Fit(fs[k])
    /\ fs[Len(tasks)] = f

\* Two tasks may be posted together or one after the other.
LEMMA TwoAppends ==
  ASSUME NEW S, NEW s \in Seq(S), NEW x \in S, NEW y \in S
  PROVE  s \o <<x, y>> = Append(Append(s, x), y)
OBVIOUS

\* Without tasks the file stays what it is.
LEMMA OnFileNone ==
  ASSUME NEW f \in FileStates, Fit(f)
  PROVE  OnFile(f, <<>>, f)
<1> DEFINE fs == [k \in 0..0 |-> f]
<1>1. fs \in [0..0 -> FileStates] /\ \A k \in 0..0 : fs[k] = f
  OBVIOUS
<1>2. Len(<<>>) = 0 /\ 1..0 = {} /\ 0 \in 0..0
  OBVIOUS
<1> HIDE DEF fs
<1>3. QED
  BY <1>1, <1>2 DEF OnFile

\* A task posted last is performed last.
LEMMA OnFileAppend ==
  ASSUME NEW f0, NEW tasks \in Seq(WriteTasks), NEW f, NEW t \in WriteTasks,
         OnFile(f0, tasks, f), Perform(f, t) \in FileStates, Fit(Perform(f, t))
  PROVE  OnFile(f0, Append(tasks, t), Perform(f, t))
<1> DEFINE N == Len(tasks)
           ts == Append(tasks, t)
           g == Perform(f, t)
<1>1. PICK fs \in [0..N -> FileStates] :
        /\ fs[0] = f0
        /\ \A k \in 1..N : fs[k] = Perform(fs[k - 1], tasks[k])
        /\ \A k \in 0..N : Fit(fs[k])
        /\ fs[N] = f
  BY DEF OnFile
<1>2. /\ N \in Nat /\ Len(ts) = N + 1 /\ ts[N + 1] = t
      /\ \A k \in 1..N : ts[k] = tasks[k]
  OBVIOUS
<1> DEFINE gs == [k \in 0..(N + 1) |-> IF k = N + 1 THEN g ELSE fs[k]]
<1> HIDE DEF g, ts, N
<1>3. /\ gs \in [0..(N + 1) -> FileStates] /\ gs[N + 1] = g
      /\ \A k \in 0..N : gs[k] = fs[k]
<2>1. \A k \in 0..(N + 1) : k = N + 1 \/ k \in 0..N
  BY <1>2
<2>2. \A k \in 0..N : k # N + 1 /\ k \in 0..(N + 1)
  BY <1>2
<2>3. N + 1 \in 0..(N + 1)
  BY <1>2
<2>4. g \in FileStates
  BY DEF g
<2>5. QED
  BY <2>1, <2>2, <2>3, <2>4
<1> HIDE DEF gs
<1>4. \A k \in 1..N : k \in 0..N /\ k - 1 \in 0..N
  BY <1>2
<1>5. 0 \in 0..N /\ N \in 0..N /\ (N + 1) - 1 = N
  BY <1>2
<1>6. gs[N + 1] = Perform(gs[N], ts[N + 1])
  BY <1>1, <1>2, <1>3, <1>5 DEF g
<1>7. \A k \in 1..N : gs[k] = Perform(gs[k - 1], ts[k])
  BY <1>1, <1>2, <1>3, <1>4
<1>8. \A k \in 1..(N + 1) : k = N + 1 \/ k \in 1..N
  BY <1>2
<1>9. \A k \in 1..(N + 1) : gs[k] = Perform(gs[k - 1], ts[k])
  BY <1>5, <1>6, <1>7, <1>8
<1>10. \A k \in 0..(N + 1) : k = N + 1 \/ k \in 0..N
  BY <1>2
<1>11. \A k \in 0..(N + 1) : Fit(gs[k])
  BY <1>1, <1>3, <1>10 DEF g
<1>12. gs[0] = f0
  BY <1>1, <1>3, <1>5
<1>13. OnFile(f0, ts, g)
  BY <1>2, <1>3, <1>9, <1>11, <1>12 DEF OnFile
<1>14. QED
  BY <1>13 DEF ts, g

\* The file is fit now; and when the oldest task is performed it goes on.
LEMMA OnFileFirst ==
  ASSUME NEW f0, NEW tasks \in Seq(WriteTasks), NEW f, OnFile(f0, tasks, f)
  PROVE  f0 \in FileStates /\ Fit(f0) /\ (tasks = <<>> => f = f0)
<1>1. Len(tasks) \in Nat /\ 0 \in 0..Len(tasks)
  OBVIOUS
<1>2. tasks = <<>> => Len(tasks) = 0
  OBVIOUS
<1>3. QED
  BY <1>1, <1>2 DEF OnFile

\* The oldest task performed, the others go on from there.
LEMMA OnFileTail ==
  ASSUME NEW f0, NEW tasks \in Seq(WriteTasks), NEW f, OnFile(f0, tasks, f),
         tasks # <<>>
  PROVE  OnFile(Perform(f0, Head(tasks)), Tail(tasks), f)
<1> DEFINE N == Len(tasks)
           ts == Tail(tasks)
<1>1. PICK fs \in [0..N -> FileStates] :
        /\ fs[0] = f0
        /\ \A k \in 1..N : fs[k] = Perform(fs[k - 1], tasks[k])
        /\ \A k \in 0..N : Fit(fs[k])
        /\ fs[N] = f
  BY DEF OnFile
<1>2. /\ N \in Nat \ {0} /\ Len(ts) = N - 1 /\ Head(tasks) = tasks[1]
      /\ \A k \in 1..(N - 1) : ts[k] = tasks[k + 1]
  OBVIOUS
<1> HIDE DEF N, ts
<1> DEFINE gs == [k \in 0..(N - 1) |-> fs[k + 1]]
<1>3. \A k \in 0..(N - 1) : k + 1 \in 0..N
  BY <1>2
<1>4. gs \in [0..(N - 1) -> FileStates] /\ \A k \in 0..(N - 1) : gs[k] = fs[k + 1]
  BY <1>3
<1> HIDE DEF gs
<1>5. ASSUME NEW k \in 1..(N - 1)
      PROVE  gs[k] = Perform(gs[k - 1], ts[k])
<2>1. /\ k \in 0..(N - 1) /\ k - 1 \in 0..(N - 1) /\ k + 1 \in 1..N
      /\ (k - 1) + 1 = k /\ (k + 1) - 1 = k
  BY <1>2
<2>2. fs[k + 1] = Perform(fs[k], tasks[k + 1])
  BY <1>1, <2>1
<2>3. QED
  BY <1>2, <1>4, <2>1, <2>2
<1>6. \A k \in 0..(N - 1) : Fit(gs[k])
  BY <1>1, <1>3, <1>4
<1>7. gs[0] = Perform(f0, Head(tasks))
<2>1. 0 \in 0..(N - 1) /\ 1 \in 1..N /\ 0 + 1 = 1 /\ 1 - 1 = 0
  BY <1>2
<2>2. fs[1] = Perform(fs[0], tasks[1])
  BY <1>1, <2>1
<2>3. QED
  BY <1>1, <1>2, <1>4, <2>1, <2>2
<1>8. gs[N - 1] = f
<2>1. N - 1 \in 0..(N - 1) /\ (N - 1) + 1 = N
  BY <1>2
<2>2. QED
  BY <1>1, <1>4, <2>1
<1>9. OnFile(Perform(f0, Head(tasks)), ts, f)
  BY <1>2, <1>4, <1>5, <1>6, <1>7, <1>8 DEF OnFile
<1>10. QED
  BY <1>9 DEF ts

\* The parts of the file have their types.
LEMMA FileFields ==
  ASSUME NEW f \in FileStates
  PROVE  /\ f.length \in Sizes \union {0} /\ f.length \in Nat
         /\ f.used \in Int /\ f.data \in Seq(Contents) /\ f.mixed \in BOOLEAN
         /\ Len(f.data) \in Nat
<1>1. /\ f.length \in Sizes \union {0} /\ f.used \in Int
      /\ f.data \in Seq(Contents) /\ f.mixed \in BOOLEAN
  BY DEF FileStates
<1>2. f.length \in Nat
  BY <1>1 DEF Sizes
<1>3. QED
  BY <1>1, <1>2

\* No file is fit.
LEMMA NoFileFits ==
  /\ NoFile \in FileStates
  /\ Fit(NoFile) /\ DataFit(NoFile) /\ \A c : CountFit(NoFile, c)
<1>1. <<>> \in Seq(Contents) /\ Len(<<>>) = 0 /\ 0 % 2 = 0
  OBVIOUS
<1>2. /\ NoFile.length = 0 /\ NoFile.data = <<>>
      /\ NoFile \in FileStates
  BY <1>1 DEF NoFile, FileStates
<1>3. ~Loads(NoFile)
  BY <1>2 DEF Loads
<1>4. QED
  BY <1>1, <1>2, <1>3 DEF Fit, DataFit, CountFit

\* The tasks, performed.
LEMMA PerformOpen ==
  ASSUME NEW f
  PROVE  Open \in WriteTasks /\ Perform(f, Open) = NoFile
<1>1. Open.op = "open"
  BY DEF Open
<1>2. Open \in WriteTasks
  BY DEF Open, WriteTasks
<1>3. QED
  BY <1>1, <1>2 DEF Perform

\* A header changes length and count,
LEMMA PerformHeader ==
  ASSUME NEW f \in FileStates, NEW n \in Sizes, NEW u \in Int
  PROVE  /\ Header(n, u) \in WriteTasks
         /\ Perform(f, Header(n, u)) \in FileStates
         /\ Perform(f, Header(n, u)).length = n
         /\ Perform(f, Header(n, u)).used = u
         /\ Perform(f, Header(n, u)).data = f.data
         /\ Perform(f, Header(n, u)).mixed = f.mixed
<1> DEFINE t == Header(n, u)
           g == [f EXCEPT !.length = n, !.used = u]
<1>1. t \in WriteTasks /\ t.op = "header" /\ t.length = n /\ t.used = u
  BY DEF Header, WriteTasks
<1> HIDE DEF t
<1>2. Perform(f, t) = g
  BY <1>1 DEF Perform
<1>3. /\ g \in FileStates /\ g.length = n /\ g.used = u
      /\ g.data = f.data /\ g.mixed = f.mixed
  BY DEF FileStates
<1> HIDE DEF g
<1>4. QED
  BY <1>1, <1>2, <1>3 DEF t

\* a table the entries,
LEMMA PerformTable ==
  ASSUME NEW f \in FileStates, NEW m \in Masters
  PROVE  LET g == Perform(f, Table(m))
             n == Length(m)
         IN  /\ Table(m) \in WriteTasks
             /\ g \in FileStates
             /\ g.length = f.length /\ g.used = f.used /\ g.mixed = m.mixed
             /\ Len(g.data) >= n
             /\ (Len(g.data) = n \/ Len(g.data) = Len(f.data))
             /\ \A i \in 1..n : g.data[i] = m.table[i - 1]
<1> DEFINE t == Table(m)
           n == Length(m)
           s == Slots(m)
           d == Overwrite(f.data, 0, s)
           g == [f EXCEPT !.data = d, !.mixed = m.mixed]
<1>1. /\ s \in Seq(Contents) /\ Len(s) = n
      /\ \A i \in 1..n : s[i] = m.table[i - 1]
  BY SlotsAre
<1>2. n \in Nat
  BY LengthIs
<1>3. m.mixed \in BOOLEAN
  BY DEF Masters
<1>4. t.op = "table" /\ t.slots = s /\ t.mixed = m.mixed
  BY DEF Table
<1>5. t \in WriteTasks
  BY <1>1, <1>3 DEF Table, WriteTasks
<1> HIDE DEF t
<1>6. Perform(f, t) = g
  BY <1>4 DEF Perform
<1>7. f.data \in Seq(Contents) /\ Len(f.data) \in Nat
  BY FileFields
<1> HIDE DEF s, n
<1>8. /\ d \in Seq(Contents)
      /\ Len(d) = IF Len(f.data) < 0 + Len(s) THEN 0 + Len(s) ELSE Len(f.data)
      /\ \A i \in 1..Len(s) : d[0 + i] = s[i]
  BY <1>1, <1>7, OverwriteIs
<1> HIDE DEF d
<1>9. Len(d) >= n /\ (Len(d) = n \/ Len(d) = Len(f.data))
  BY <1>1, <1>2, <1>7, <1>8
<1>10. \A i \in 1..n : d[i] = m.table[i - 1]
  BY <1>1, <1>2, <1>8
<1>11. /\ g \in FileStates /\ g.data = d /\ g.mixed = m.mixed
       /\ g.length = f.length /\ g.used = f.used
  BY <1>3, <1>8 DEF FileStates
<1> HIDE DEF g
<1>12. QED
  BY <1>5, <1>6, <1>9, <1>10, <1>11 DEF t, n

\* and a truncation cuts off what follows them.
LEMMA PerformTruncate ==
  ASSUME NEW f \in FileStates, NEW n \in Sizes, Len(f.data) >= n
  PROVE  /\ Truncate(n) \in WriteTasks
         /\ Perform(f, Truncate(n)) \in FileStates
         /\ Perform(f, Truncate(n)).length = f.length
         /\ Perform(f, Truncate(n)).used = f.used
         /\ Perform(f, Truncate(n)).mixed = f.mixed
         /\ Len(Perform(f, Truncate(n)).data) = n
         /\ \A i \in 1..n : Perform(f, Truncate(n)).data[i] = f.data[i]
<1> DEFINE t == Truncate(n)
           d == SubSeq(f.data, 1, n)
           g == [f EXCEPT !.data = d]
<1>1. t \in WriteTasks /\ t.op = "truncate" /\ t.length = n
  BY DEF Truncate, WriteTasks
<1> HIDE DEF t
<1>2. Perform(f, t) = g
  BY <1>1 DEF Perform
<1>3. n \in Nat \ {0} /\ f.data \in Seq(Contents) /\ Len(f.data) \in Nat
  BY SizesArePositive, FileFields
<1>4. d \in Seq(Contents) /\ Len(d) = n /\ \A i \in 1..n : d[i] = f.data[i]
<2>1. 1 \in 1..(Len(f.data) + 1) /\ n \in 1..Len(f.data) /\ 1 <= n
  BY <1>3
<2>2. \A i \in 1..n : f.data[i] \in Contents
  BY <1>3
<2>3. d = [i \in 1..n |-> f.data[i]]
  BY <1>3, <2>1
<2>4. d \in [1..n -> Contents]
  BY <2>2, <2>3
<2>5. QED
  BY <1>3, <2>3, <2>4
<1> HIDE DEF d
<1>5. /\ g \in FileStates /\ g.length = f.length /\ g.used = f.used
      /\ g.mixed = f.mixed /\ g.data = d
  BY <1>4 DEF FileStates
<1> HIDE DEF g
<1>6. QED
  BY <1>1, <1>2, <1>4, <1>5 DEF t

\* A count mixes what is unsaved into the file,
LEMMA PerformUsed ==
  ASSUME NEW f \in FileStates, NEW m \in Masters
  PROVE  LET g == Perform(f, Used(m))
         IN  /\ Used(m) \in WriteTasks
             /\ g \in FileStates
             /\ g.length = f.length /\ g.used = m.used /\ g.data = f.data
             /\ g.mixed = (f.mixed \/ m.unsaved \/ m.mixed)
<1> DEFINE t == Used(m)
           b == f.mixed \/ (m.unsaved \/ m.mixed)
           g == [f EXCEPT !.used = m.used, !.mixed = b]
<1>1. m.mixed \in BOOLEAN /\ m.unsaved \in BOOLEAN /\ m.used \in Int
  BY DEF Masters
<1>2. t.op = "used" /\ t.used = m.used /\ t.mixed = (m.unsaved \/ m.mixed)
  BY DEF Used
<1>3. t \in WriteTasks
  BY <1>1 DEF Used, WriteTasks
<1> HIDE DEF t
<1>4. Perform(f, t) = g
  BY <1>2 DEF Perform
<1>5. b \in BOOLEAN
  BY <1>1
<1>6. /\ g \in FileStates /\ g.used = m.used /\ g.mixed = b
      /\ g.length = f.length /\ g.data = f.data
  BY <1>1, <1>5 DEF FileStates
<1> HIDE DEF g
<1>7. QED
  BY <1>3, <1>4, <1>6 DEF t

\* and so does a range of entries.
LEMMA PerformData ==
  ASSUME NEW f \in FileStates, NEW m \in Masters, NEW a \in Nat,
         NEW s \in Seq(Contents)
  PROVE  LET g == Perform(f, Data(m, a, s))
         IN  /\ Data(m, a, s) \in WriteTasks
             /\ g \in FileStates
             /\ g.length = f.length /\ g.used = f.used
             /\ g.data = Overwrite(f.data, a, s)
             /\ g.mixed = (f.mixed \/ m.unsaved \/ m.mixed)
<1> DEFINE t == Data(m, a, s)
           b == f.mixed \/ (m.unsaved \/ m.mixed)
           d == Overwrite(f.data, a, s)
           g == [f EXCEPT !.data = d, !.mixed = b]
<1>1. m.mixed \in BOOLEAN /\ m.unsaved \in BOOLEAN
  BY DEF Masters
<1>2. /\ t.op = "data" /\ t.first = a /\ t.slots = s
      /\ t.mixed = (m.unsaved \/ m.mixed)
  BY DEF Data
<1>3. t \in WriteTasks
  BY <1>1 DEF Data, WriteTasks
<1> HIDE DEF t
<1>4. Perform(f, t) = g
  BY <1>2 DEF Perform
<1>5. b \in BOOLEAN
  BY <1>1
<1>6. d \in Seq(Contents)
  BY FileFields, OverwriteIs
<1> HIDE DEF d
<1>7. /\ g \in FileStates /\ g.data = d /\ g.mixed = b
      /\ g.length = f.length /\ g.used = f.used
  BY <1>5, <1>6 DEF FileStates
<1> HIDE DEF g
<1>8. QED
  BY <1>3, <1>4, <1>7 DEF t, d

-----------------------------------------------------------------------------
\* What the file is to a master.  A master that has not opened it has posted
\* nothing; one that has may write the whole table over it.

-----------------------------------------------------------------------------
(* The master and its file. *)

\* f is the file an opened master ends with, when its tasks are performed.
Opens(m, f0, cut, f) ==
  OnFile(f0, m.io, f) /\ DataFit(f) /\ CountFit(f, cut)

\* The file is left alone.
Unopened(m, f0, cut) ==
  m.io = <<>> /\ f0 \in FileStates /\ Fit(f0) /\ CountFit(f0, cut)

\* The master may write its whole table.
FileUsable(m, f0, cut) ==
  IF m.opened THEN \E f : Opens(m, f0, cut, f) ELSE Unopened(m, f0, cut)

\* When nothing is unsaved it is the table; an entry may follow it.
Saved(m, f) ==
  /\ ~f.mixed /\ f.length = Length(m) /\ f.used = m.used
  /\ Len(f.data) \in {Length(m), Length(m) + 1}
  /\ \A i \in 1..Length(m) : f.data[i] = m.table[i - 1]

\* The file, once written, is that of the master.
FileKept(m, f0, cut) ==
  IF m.opened
  THEN \E f : Opens(m, f0, cut, f) /\ (~m.unsaved /\ ~m.mixed => Saved(m, f))
  ELSE Unopened(m, f0, cut)

\* The count is right, and a slot is empty.
Exact(m) ==
  m.used = Cardinality(UsedSlots(m.table)) /\ m.used < Length(m)

\* The table is sound, and its count right.
Right(m, cut) ==
  ~m.mixed => SoundTable(m.table, Length(m)) /\ (~cut => Exact(m))

\* A file that is kept may be written over.
LEMMA KeptIsUsable ==
  ASSUME NEW m, NEW f0, NEW cut, FileKept(m, f0, cut)
  PROVE  FileUsable(m, f0, cut)
BY DEF FileKept, FileUsable

\* What was written in full is kept.
LEMMA WriteFullTableKeeps ==
  ASSUME NEW m \in Masters, NEW f0, NEW cut \in BOOLEAN,
         Right(m, cut), FileUsable(m, f0, cut)
  PROVE  LET a == WriteFullTable(m)
         IN  /\ a \in Masters
             /\ a.table = m.table /\ a.used = m.used /\ a.building = m.building
             /\ a.added = m.added /\ a.deleted = m.deleted /\ a.told = m.told
             /\ a.mixed = m.mixed /\ a.opened /\ ~a.unsaved
             /\ Right(a, cut) /\ FileKept(a, f0, cut)
<1> DEFINE n == Length(m)
           h == Header(n, m.used)
           first == IF m.opened THEN <<>> ELSE <<Open>>
           start == m.io \o first
           io == m.io \o (first \o <<h, Table(m), Truncate(n)>>)
           a == WriteFullTable(m)
<1>1. /\ n \in Sizes /\ n \in Nat \ {0} /\ m.table \in [0..(n - 1) -> Contents]
  BY LengthIs
<1>2. m.used \in Int /\ m.io \in Seq(WriteTasks)
  BY DEF Masters
<1>3. Open \in WriteTasks /\ Perform(f0, Open) = NoFile
  BY PerformOpen
<1>4. start \in Seq(WriteTasks)
  BY <1>2, <1>3
<1>5. h \in WriteTasks /\ Table(m) \in WriteTasks /\ Truncate(n) \in WriteTasks
<2>1. Truncate(n) \in WriteTasks
  BY <1>1 DEF Truncate, WriteTasks
<2>2. QED
  BY <1>1, <1>2, <2>1, NoFileFits, PerformHeader, PerformTable
<1>6. PICK f \in FileStates : OnFile(f0, start, f) /\ DataFit(f)
<2>1. CASE m.opened
<3>1. start = m.io
  BY <1>2, <2>1
<3>2. PICK f : OnFile(f0, m.io, f) /\ DataFit(f)
  BY <2>1 DEF FileUsable, Opens
<3>3. f \in FileStates
<4>1. Len(m.io) \in 0..Len(m.io)
  BY <1>2
<4>2. QED
  BY <3>2, <4>1 DEF OnFile
<3>4. QED
  BY <3>1, <3>2, <3>3
<2>2. CASE ~m.opened
<3>1. m.io = <<>> /\ f0 \in FileStates /\ Fit(f0)
  BY <2>2 DEF FileUsable, Unopened
<3>2. <<>> \in Seq(WriteTasks)
  OBVIOUS
<3>3. OnFile(f0, <<>>, f0)
  BY <3>1, OnFileNone
<3>4. OnFile(f0, Append(<<>>, Open), NoFile)
  BY <1>3, <3>1, <3>2, <3>3, NoFileFits, OnFileAppend
<3>5. start = Append(<<>>, Open)
  BY <2>2, <3>1
<3>6. QED
  BY <3>4, <3>5, NoFileFits
<2>3. QED
  BY <2>1, <2>2
<1> DEFINE f1 == Perform(f, h)
           f2 == Perform(f1, Table(m))
           f3 == Perform(f2, Truncate(n))
<1>7. /\ f1 \in FileStates /\ f1.length = n /\ f1.used = m.used
      /\ f1.data = f.data /\ f1.mixed = f.mixed
  BY <1>1, <1>2, PerformHeader
<1>8. Fit(f1)
<2>1. SUFFICES ASSUME Loads(f1), ~f1.mixed PROVE SoundTable(LoadedTable(f1), n)
  BY <1>7 DEF Fit
<2>2. Len(f.data) = n /\ n % 2 = 1
  BY <1>1, <1>7, <2>1 DEF Loads, Sizes
<2>3. SoundTable(DataTable(f), n)
  BY <1>6, <1>7, <2>1, <2>2 DEF DataFit
<2>4. LoadedTable(f1) = DataTable(f)
  BY <1>7, <2>2 DEF LoadedTable, DataTable
<2>5. QED
  BY <2>3, <2>4
<1> HIDE DEF f1
<1>9. /\ f2 \in FileStates /\ f2.length = n /\ f2.used = m.used
      /\ f2.mixed = m.mixed /\ Len(f2.data) >= n
      /\ \A i \in 1..n : f2.data[i] = m.table[i - 1]
  BY <1>7, PerformTable
<1>10. LoadedTable(f2) = m.table
  BY <1>1, <1>9, LoadedIs
<1>11. ~m.mixed => SoundTable(m.table, n) /\ (~cut => Exact(m))
  BY DEF Right
<1>12. Fit(f2)
  BY <1>9, <1>10, <1>11 DEF Fit
<1> HIDE DEF f2
<1>13. /\ f3 \in FileStates /\ f3.length = n /\ f3.used = m.used
       /\ f3.mixed = m.mixed /\ Len(f3.data) = n
       /\ \A i \in 1..n : f3.data[i] = f2.data[i]
  BY <1>1, <1>9, PerformTruncate
<1> HIDE DEF f3
<1>14. \A i \in 1..n : f3.data[i] = m.table[i - 1]
  BY <1>9, <1>13
<1>15. LoadedTable(f3) = m.table /\ DataTable(f3) = m.table
<2>0. f3.length = n /\ Len(f3.data) = n /\ n \in Nat
  BY <1>1, <1>13
<2> HIDE DEF n
<2>1. LoadedTable(f3) = m.table
  BY <1>1, <1>14, <2>0, LoadedIs
<2>2. DataTable(f3) = m.table
  BY <1>1, <1>14, <2>0, DataTableIs
<2>3. QED
  BY <2>1, <2>2
<1>16. Fit(f3) /\ DataFit(f3) /\ CountFit(f3, cut)
  BY <1>11, <1>13, <1>15 DEF Fit, DataFit, CountFit, Exact
<1> DEFINE io1 == Append(start, h)
           io2 == Append(io1, Table(m))
           io3 == Append(io2, Truncate(n))
<1>17. OnFile(f0, io1, f1)
  BY <1>4, <1>5, <1>6, <1>7, <1>8, OnFileAppend DEF f1
<1>18. io1 \in Seq(WriteTasks)
  BY <1>4, <1>5
<1> HIDE DEF io1
<1>19. OnFile(f0, io2, f2)
  BY <1>5, <1>9, <1>12, <1>17, <1>18, OnFileAppend DEF f2
<1>20. io2 \in Seq(WriteTasks)
  BY <1>5, <1>18
<1> HIDE DEF io2
<1>21. OnFile(f0, io3, f3)
  BY <1>5, <1>13, <1>16, <1>19, <1>20, OnFileAppend DEF f3
<1>22. io = io3 /\ io \in Seq(WriteTasks)
<2> HIDE DEF h
<2>1. first \in Seq(WriteTasks)
  BY <1>3
<2>2. io = m.io \o (first \o <<h, Table(m), Truncate(n)>>)
  OBVIOUS
<2> HIDE DEF first
<2>3. m.io \o (first \o <<h, Table(m), Truncate(n)>>)
        = Append(Append(Append(m.io \o first, h), Table(m)), Truncate(n))
<3>1. \A s, u \in Seq(WriteTasks), t \in WriteTasks :
        s \o Append(u, t) = Append(s \o u, t) /\ Append(u, t) \in Seq(WriteTasks)
  OBVIOUS
<3>2. first \o <<h, Table(m), Truncate(n)>>
        = Append(Append(Append(first, h), Table(m)), Truncate(n))
  BY <1>5, <2>1
<3>3. Append(first, h) \in Seq(WriteTasks)
      /\ Append(Append(first, h), Table(m)) \in Seq(WriteTasks)
  BY <1>5, <2>1
<3> DEFINE s1 == Append(first, h)
           s2 == Append(s1, Table(m))
           s3 == Append(s2, Truncate(n))
<3>4. m.io \o s1 = Append(m.io \o first, h)
  BY <1>2, <1>5, <2>1, <3>1
<3>5. m.io \o s2 = Append(m.io \o s1, Table(m))
<4> HIDE DEF s1
<4>1. s1 \in Seq(WriteTasks)
  BY <3>3 DEF s1
<4>2. QED
  BY <1>2, <1>5, <3>1, <4>1
<3>6. m.io \o s3 = Append(m.io \o s2, Truncate(n))
<4>1. s2 \in Seq(WriteTasks)
  BY <3>3
<4> HIDE DEF s2
<4>2. QED
  BY <1>2, <1>5, <3>1, <4>1
<3>7. QED
  BY <3>2, <3>4, <3>5, <3>6
<2>4. io = io3
  BY <2>2, <2>3 DEF io1, io2
<2>5. io3 \in Seq(WriteTasks)
  BY <1>5, <1>20
<2>6. QED
  BY <2>4, <2>5
<1> HIDE DEF io3
<1>23. /\ a \in Masters
       /\ a.table = m.table /\ a.used = m.used /\ a.building = m.building
       /\ a.added = m.added /\ a.deleted = m.deleted /\ a.told = m.told
       /\ a.mixed = m.mixed /\ a.opened = TRUE /\ a.unsaved = FALSE /\ a.io = io
<2> DEFINE b == [m EXCEPT !.opened = TRUE, !.unsaved = FALSE]
<2>1. /\ b \in Masters
      /\ b.table = m.table /\ b.used = m.used /\ b.building = m.building
      /\ b.added = m.added /\ b.deleted = m.deleted /\ b.told = m.told
      /\ b.mixed = m.mixed /\ b.opened = TRUE /\ b.unsaved = FALSE /\ b.io = m.io
  BY DEF Masters
<2>2. a = [b EXCEPT !.io = @ \o (first \o <<h, Table(m), Truncate(n)>>)]
  BY DEF WriteFullTable, PostIOTasks
<2> HIDE DEF b, a
<2>3. a = [b EXCEPT !.io = io]
  BY <2>1, <2>2
<2> HIDE DEF io
<2>4. QED
  BY <1>22, <2>1, <2>3 DEF Masters
<1> HIDE DEF a, io
<1>24. Length(a) = n
  BY <1>23 DEF Length
<1>25. Right(a, cut)
  BY <1>11, <1>23, <1>24 DEF Right, Exact
<1>26. Opens(a, f0, cut, f3)
  BY <1>16, <1>21, <1>22, <1>23 DEF Opens
<1>27. ~a.mixed => Saved(a, f3)
  BY <1>13, <1>14, <1>23, <1>24 DEF Saved
<1>28. FileKept(a, f0, cut)
  BY <1>23, <1>26, <1>27 DEF FileKept
<1>29. QED
  BY <1>23, <1>25, <1>28 DEF a

\* FileUsable depends on the file and the tasks,
LEMMA FileUsableDepends ==
  ASSUME NEW m, NEW a, NEW f0, NEW cut,
         a.opened = m.opened, a.io = m.io, FileUsable(m, f0, cut)
  PROVE  FileUsable(a, f0, cut)
<1>1. CASE m.opened
<2>1. PICK f : Opens(m, f0, cut, f)
  BY <1>1 DEF FileUsable
<2>2. Opens(a, f0, cut, f)
  BY <2>1 DEF Opens
<2>3. QED
  BY <1>1, <2>2 DEF FileUsable
<1>2. CASE ~m.opened
<2>1. Unopened(a, f0, cut)
  BY <1>2 DEF FileUsable, Unopened
<2>2. QED
  BY <1>2, <2>1 DEF FileUsable
<1>3. QED
  BY <1>1, <1>2

\* What is unsaved need not be in the file.
LEMMA UnsavedIsKept ==
  ASSUME NEW m, NEW f0, NEW cut, FileUsable(m, f0, cut),
         m.unsaved \/ m.mixed
  PROVE  FileKept(m, f0, cut)
BY DEF FileUsable, FileKept

\* A change of members the file does not hold.
LEMMA FileKeptDepends ==
  ASSUME NEW m, NEW a, NEW f0, NEW cut, FileKept(m, f0, cut),
         a.opened = m.opened, a.io = m.io,
         a.table = m.table, a.used = m.used, a.unsaved = m.unsaved,
         a.mixed = m.mixed
  PROVE  FileKept(a, f0, cut)
<1>1. Length(a) = Length(m)
  BY DEF Length
<1>2. CASE m.opened
<2>1. PICK f : Opens(m, f0, cut, f) /\ (~m.unsaved /\ ~m.mixed => Saved(m, f))
  BY <1>2 DEF FileKept
<2>2. Opens(a, f0, cut, f)
  BY <2>1 DEF Opens
<2>3. ~a.unsaved /\ ~a.mixed => Saved(a, f)
  BY <1>1, <2>1 DEF Saved
<2>4. QED
  BY <1>2, <2>2, <2>3 DEF FileKept
<1>3. CASE ~m.opened
<2>1. Unopened(a, f0, cut)
  BY <1>3 DEF FileKept, Unopened
<2>2. QED
  BY <1>3, <2>1 DEF FileKept
<1>4. QED
  BY <1>2, <1>3

\* and Right on the table and the count.
LEMMA RightDepends ==
  ASSUME NEW m, NEW a, NEW cut, Right(m, cut),
         a.table = m.table, a.used = m.used, a.mixed = m.mixed
  PROVE  Right(a, cut)
<1>1. Length(a) = Length(m)
  BY DEF Length
<1>2. QED
  BY <1>1 DEF Right, Exact

\* What most of the operations leave alone.
Alike(a, m) ==
  /\ a.building = m.building /\ a.added = m.added /\ a.deleted = m.deleted
  /\ a.mixed = m.mixed

\* Telling the listener changes nothing else.
LEMMA TellFields ==
  ASSUME NEW m \in Masters, NEW call \in {"Add", "Reset", "NewTable"}, NEW fp \in Nat
  PROVE  LET a == Tell(m, call, fp)
         IN  /\ a \in Masters /\ Alike(a, m)
             /\ a.table = m.table /\ a.used = m.used
             /\ a.opened = m.opened /\ a.io = m.io /\ a.unsaved = m.unsaved
             /\ a.told = Append(m.told, [call |-> call, link |-> fp])
<1> DEFINE t == Append(m.told, [call |-> call, link |-> fp])
           a == [m EXCEPT !.told = t]
<1>1. [call |-> call, link |-> fp] \in Calls
  BY DEF Calls
<1>2. m.told \in Seq(Calls)
  BY DEF Masters
<1>3. t \in Seq(Calls)
  BY <1>1, <1>2
<1>4. Tell(m, call, fp) = a
  BY DEF Tell
<1> HIDE DEF t
<1>5. /\ a \in Masters /\ Alike(a, m)
      /\ a.table = m.table /\ a.used = m.used
      /\ a.opened = m.opened /\ a.io = m.io /\ a.unsaved = m.unsaved
      /\ a.told = t
  BY <1>3 DEF Masters, Alike
<1> HIDE DEF a
<1>6. QED
  BY <1>4, <1>5 DEF t

-----------------------------------------------------------------------------
\* Resizing.

\* The used slots, counted in the sequence.
LEMMA SlotsCounted ==
  ASSUME NEW m \in Masters
  PROVE  Cardinality({j \in 1..Len(Slots(m)) : Slots(m)[j] # 0})
           = Cardinality(UsedSlots(m.table))
<1> DEFINE n == Length(m)
           P == {j \in 1..n : m.table[j - 1] # 0}
           U == UsedSlots(m.table)
           f == [i \in U |-> i + 1]
<1>1. n \in Nat \ {0} /\ m.table \in [0..(n - 1) -> Contents]
  BY LengthIs
<1>2. {j \in 1..Len(Slots(m)) : Slots(m)[j] # 0} = P
  BY SlotsAre
<1>3. U = {i \in 0..(n - 1) : m.table[i] # 0}
  BY <1>1 DEF UsedSlots
<1>4. IsFiniteSet(U)
  BY <1>1, UsedSlotsFinite
<1>5. U \subseteq Int
  BY <1>1, <1>3
<1>6. \A i \in U : i + 1 \in P
<2>1. ASSUME NEW i \in U PROVE i + 1 \in P
<3>1. i \in 0..(n - 1) /\ m.table[i] # 0
  BY <1>3
<3>2. i + 1 \in 1..n /\ (i + 1) - 1 = i
  BY <1>1, <3>1
<3>3. QED
  BY <3>1, <3>2
<2>2. QED
  BY <2>1
<1>7. \A j \in P : j - 1 \in U /\ (j - 1) + 1 = j
<2>1. ASSUME NEW j \in P PROVE j - 1 \in U /\ (j - 1) + 1 = j
<3>1. j \in 1..n /\ m.table[j - 1] # 0
  OBVIOUS
<3>2. j - 1 \in 0..(n - 1) /\ (j - 1) + 1 = j
  BY <1>1, <3>1
<3>3. QED
  BY <1>3, <3>1, <3>2
<2>2. QED
  BY <2>1
<1> HIDE DEF U, P, n
<1>8. f \in [U -> P]
  BY <1>6
<1>9. \A a, b \in U : f[a] = f[b] => a = b
  BY <1>5
<1>10. \A j \in P : \E i \in U : f[i] = j
  BY <1>7
<1>11. f \in Bijection(U, P)
<2> HIDE DEF f
<2>1. QED
  BY <1>8, <1>9, <1>10 DEF Bijection, Injection, Surjection, IsInjective
<1>12. Cardinality(P) = Cardinality(U)
  BY <1>4, <1>11, FS_Bijection DEF ExistsBijection
<1>13. QED
  BY <1>2, <1>12 DEF U

\* BeginReplaceURLTable leaves an empty table, unsaved.
LEMMA BlankTable ==
  ASSUME NEW m \in Masters, NEW n \in Sizes
  PROVE  LET a == BeginReplaceURLTable(m, n)
         IN  /\ a \in Masters /\ Alike(a, m)
             /\ Length(a) = n /\ a.table = Empty(n) /\ a.used = 0
             /\ a.opened = m.opened /\ a.io = m.io /\ a.told = m.told
             /\ a.unsaved
             /\ SoundTable(a.table, n)
             /\ Cardinality(UsedSlots(a.table)) = 0
<1> DEFINE T == Empty(n)
           a == [m EXCEPT !.table = T, !.used = 0, !.unsaved = TRUE]
<1>1. /\ T \in Tables /\ T \in [0..(n - 1) -> Contents] /\ SoundTable(T, n)
      /\ Cardinality(UsedSlots(T)) = 0
  BY EmptyTable
<1>2. BeginReplaceURLTable(m, n) = a
  BY DEF BeginReplaceURLTable
<1> HIDE DEF T
<1>3. /\ a \in Masters /\ Alike(a, m) /\ a.table = T /\ a.used = 0
      /\ a.opened = m.opened /\ a.io = m.io /\ a.told = m.told /\ a.unsaved = TRUE
<2>1. 0 \in Int /\ T \in Tables
  BY <1>1
<2>2. a \in Masters
  BY <2>1 DEF Masters
<2>3. /\ a.table = T /\ a.used = 0 /\ a.building = m.building
      /\ a.added = m.added /\ a.deleted = m.deleted /\ a.mixed = m.mixed
      /\ a.opened = m.opened /\ a.io = m.io /\ a.told = m.told /\ a.unsaved = TRUE
  BY <2>1 DEF Masters
<2>4. QED
  BY <2>2, <2>3 DEF Alike
<1> HIDE DEF a
<1>4. n \in Nat \ {0}
  BY SizesArePositive
<1>5. Length(a) = n
  BY <1>1, <1>3, <1>4, LengthOf
<1>6. QED
  BY <1>1, <1>2, <1>3, <1>5 DEF T

\* What Extends says, without its definition.
LEMMA ExtendsFields ==
  ASSUME NEW a, NEW m, Extends(a, m)
  PROVE  /\ a \in Masters /\ Alike(a, m) /\ Length(a) = Length(m)
         /\ a.opened = m.opened /\ a.io = m.io /\ a.told = m.told
         /\ a.unsaved = m.unsaved
         /\ SoundTable(m.table, Length(m)) => SoundTable(a.table, Length(m))
         /\ a.used - Cardinality(UsedSlots(a.table))
              = m.used - Cardinality(UsedSlots(m.table))
BY DEF Extends, Alike

\* A resized table holds what the old one held, in a table with room for it.
LEMMA ResizeTableKeeps ==
  ASSUME NEW m \in Masters, NEW f0, NEW cut \in BOOLEAN,
         Right(m, cut), FileUsable(m, f0, cut)
  PROVE  LET a == ResizeTable(m, TRUE)
         IN  /\ a \in Masters /\ Alike(a, m)
             /\ Right(a, cut) /\ FileKept(a, f0, cut)
<1> DEFINE n == NewTableSizeForCount(m.used)
           blank == BeginReplaceURLTable(m, n)
           filled == InsertAll(blank, Slots(m))
           told == Tell(filled, "NewTable", 0)
           a == ResizeTable(m, TRUE)
<1>1. a = WriteFullTable(told)
  BY DEF ResizeTable
<1>2. m.used \in Int /\ Cardinality(UsedSlots(m.table)) \in Nat
  BY UsedIsNumber
<1>3. n \in Sizes /\ n > m.used
  BY <1>2, NewSizes
<1> HIDE DEF n
<1>4. /\ blank \in Masters /\ Alike(blank, m)
      /\ Length(blank) = n /\ blank.used = 0
      /\ blank.opened = m.opened /\ blank.io = m.io
      /\ SoundTable(blank.table, n)
      /\ Cardinality(UsedSlots(blank.table)) = 0
  BY <1>3, BlankTable
<1> HIDE DEF blank
<1>5. Slots(m) \in Seq(Contents)
  BY SlotsAre
<1>6. /\ Extends(filled, blank)
      /\ filled.used - blank.used \in 0..Cardinality(UsedSlots(m.table))
  BY <1>4, <1>5, InsertAllExtends, SlotsCounted
<1> HIDE DEF filled
<1>7. /\ filled \in Masters /\ Alike(filled, blank) /\ Length(filled) = n
      /\ filled.opened = m.opened /\ filled.io = m.io
      /\ SoundTable(filled.table, n)
      /\ filled.used - Cardinality(UsedSlots(filled.table)) = 0 - 0
  BY <1>4, <1>6, ExtendsFields
<1>8. filled.used \in Int /\ Cardinality(UsedSlots(filled.table)) \in Nat
  BY <1>7, UsedIsNumber
<1>9. filled.used = Cardinality(UsedSlots(filled.table))
  BY <1>7, <1>8
<1>10. filled.used <= Cardinality(UsedSlots(m.table))
  BY <1>2, <1>4, <1>6, <1>8
<1>11. ~filled.mixed /\ ~cut => Exact(filled)
<2>1. SUFFICES ASSUME ~filled.mixed, ~cut PROVE filled.used < n
  BY <1>7, <1>9 DEF Exact
<2>2. ~m.mixed
  BY <1>4, <1>7, <2>1 DEF Alike
<2>3. m.used = Cardinality(UsedSlots(m.table))
  BY <2>1, <2>2 DEF Right, Exact
<2>4. n \in Nat
  BY <1>3 DEF Sizes
<2>5. QED
  BY <1>2, <1>3, <1>8, <1>10, <2>3, <2>4
<1>12. Right(filled, cut)
  BY <1>7, <1>11 DEF Right
<1>13. /\ told \in Masters /\ Alike(told, filled)
       /\ told.table = filled.table /\ told.used = filled.used
       /\ told.opened = m.opened /\ told.io = m.io
  BY <1>7, TellFields
<1> HIDE DEF told
<1>14. Right(told, cut)
  BY <1>12, <1>13, RightDepends DEF Alike
<1>15. FileUsable(told, f0, cut)
  BY <1>13, FileUsableDepends
<1>16. /\ a \in Masters /\ a.building = told.building /\ a.added = told.added
       /\ a.deleted = told.deleted /\ a.mixed = told.mixed
       /\ Right(a, cut) /\ FileKept(a, f0, cut)
<2>1. told \in Masters
  BY <1>13
<2> HIDE DEF a
<2>2. QED
  BY <1>1, <1>14, <1>15, <2>1, WriteFullTableKeeps
<1>17. Alike(a, m)
  BY <1>4, <1>7, <1>13, <1>16 DEF Alike
<1>18. QED
  BY <1>16, <1>17

\* Resized or not, granted or refused.
LEMMA ResizeIfNecessaryKeeps ==
  ASSUME NEW m \in Masters, NEW f0, NEW cut \in BOOLEAN, NEW granted \in BOOLEAN,
         Right(m, cut)
  PROVE  LET a == ResizeTableIfNecessary(m, granted)
         IN  /\ FileUsable(m, f0, cut) =>
                  a \in Masters /\ Alike(a, m) /\ Right(a, cut)
                  /\ FileUsable(a, f0, cut)
             /\ FileKept(m, f0, cut) => FileKept(a, f0, cut)
<1> DEFINE a == ResizeTableIfNecessary(m, granted)
<1>1. a = m \/ a = ResizeTable(m, TRUE)
  BY DEF ResizeTableIfNecessary, ResizeTable
<1>2. CASE a = m
  BY <1>2 DEF Alike
<1>3. CASE a = ResizeTable(m, TRUE)
<2>1. FileKept(m, f0, cut) => FileUsable(m, f0, cut)
  BY KeptIsUsable
<2>2. FileUsable(m, f0, cut) =>
        a \in Masters /\ Alike(a, m) /\ Right(a, cut) /\ FileKept(a, f0, cut)
  BY <1>3, ResizeTableKeeps
<2>3. FileKept(a, f0, cut) => FileUsable(a, f0, cut)
  BY KeptIsUsable
<2> HIDE DEF a
<2>4. QED
  BY <2>1, <2>2, <2>3 DEF a
<1>4. QED
  BY <1>1, <1>2, <1>3

-----------------------------------------------------------------------------
(* Deletion. *)

\* A link that is found is in the run from its home slot.
LEMMA FoundInRun ==
  ASSUME NEW n \in Nat \ {0}, NEW T, NEW fp \in Nat \ {0}, IsVisited(T, n, fp)
  PROVE  LET h == HashFingerprint(fp, n)
         IN  /\ RunLength(T, n, h) \in 1..n
             /\ \E d \in 0..(n - 1) :
                  d < RunLength(T, n, h) /\ T[After(h, d, n)] = fp
<1> DEFINE h == HashFingerprint(fp, n)
           L == RunLength(T, n, h)
<1>1. h \in 0..(n - 1)
  BY HomeSlot
<1>2. PICK d \in 0..(n - 1) : StopsAt(T, n, fp, d) /\ T[Probe(fp, d, n)] = fp
  BY DEF IsVisited
<1>3. \A e \in 0..(n - 1) : Probe(fp, e, n) = After(h, e, n)
  BY DEF Probe
<1> HIDE DEF h
<1>4. L \in 0..n /\ (L < n => T[After(h, L, n)] = 0)
  BY <1>1, TableRunIs
<1> HIDE DEF L
<1>5. d < L
<2>1. SUFFICES ASSUME L <= d PROVE FALSE
  BY <1>4
<2>2. L \in 0..(n - 1) /\ T[Probe(fp, L, n)] = 0
  BY <1>3, <1>4, <2>1
<2>3. ~(L < d)
  BY <1>2, <2>2 DEF StopsAt
<2>4. L = d
  BY <1>4, <2>1, <2>3
<2>5. QED
  BY <1>2, <2>2, <2>4
<1>6. L \in 1..n /\ T[After(h, d, n)] = fp
  BY <1>2, <1>3, <1>4, <1>5
<1>7. QED
  BY <1>5, <1>6 DEF h, L

\* Emptying a run takes its slots from the used ones.
LEMMA ClearCounts ==
  ASSUME NEW n \in Nat \ {0}, NEW X, NEW T \in [0..(n - 1) -> X],
         NEW h \in 0..(n - 1)
  PROVE  LET C == Cleared(T, n, h)
         IN  /\ IsFiniteSet(C) /\ Cardinality(C) \in 0..n /\ C \subseteq UsedSlots(T)
             /\ (RunLength(T, n, h) = n => C = {} /\ ClearRun(T, n, h) = T)
             /\ Cardinality(UsedSlots(ClearRun(T, n, h)))
                  = Cardinality(UsedSlots(T)) - Cardinality(C)
<1> DEFINE C == Cleared(T, n, h)
           L == RunLength(T, n, h)
           U == ClearRun(T, n, h)
<1>1. L \in 0..n /\ \A d \in 0..(n - 1) : d < L => T[After(h, d, n)] # 0
  BY TableRunIs
<1>2. U = [i \in 0..(n - 1) |-> IF i \in C THEN 0 ELSE T[i]]
  BY DEF ClearRun
<1>3. IsFiniteSet(UsedSlots(T)) /\ Cardinality(UsedSlots(T)) \in 0..n
  BY UsedSlotsFinite
<1>4. CASE L = n
<2>1. C = {}
  BY <1>4 DEF Cleared
<2>2. U = T
<3> HIDE DEF C, U
<3>1. U = [i \in 0..(n - 1) |-> T[i]]
  BY <1>2, <2>1
<3>2. QED
  BY <3>1
<2>3. IsFiniteSet(C) /\ Cardinality(C) = 0
  BY <2>1, FS_EmptySet
<2>4. C \subseteq UsedSlots(T)
  BY <2>1
<2>5. QED
  BY <1>3, <2>1, <2>2, <2>3, <2>4
<1>5. CASE L < n
<2>1. /\ C = {After(h, d, n) : d \in 0..(L - 1)} /\ C \subseteq 0..(n - 1)
      /\ IsFiniteSet(C) /\ Cardinality(C) = L
  BY <1>5, ClearedIs
<2> HIDE DEF L, C, U
<2>2. \A d \in 0..(L - 1) : d \in 0..(n - 1)
  BY <1>1
<2>3. C \subseteq UsedSlots(T)
<3>1. SUFFICES ASSUME NEW i \in C PROVE i \in DOMAIN T /\ T[i] # 0
  BY DEF UsedSlots
<3>2. PICK d \in 0..(L - 1) : i = After(h, d, n)
  BY <2>1
<3>3. d < L /\ d \in 0..(n - 1)
  BY <1>1, <2>2
<3>4. QED
  BY <1>1, <2>1, <3>2, <3>3
<2>4. UsedSlots(U) = UsedSlots(T) \ C
  BY <1>2, <2>3 DEF UsedSlots
<2>5. UsedSlots(T) \intersect C = C
  BY <2>3
<2>6. Cardinality(UsedSlots(T) \ C) = Cardinality(UsedSlots(T)) - Cardinality(C)
<3> DEFINE S == UsedSlots(T)
<3>1. IsFiniteSet(S) /\ S \intersect C = C
  BY <1>3, <2>5
<3> HIDE DEF S
<3>2. Cardinality(S \ C) = Cardinality(S) - Cardinality(S \intersect C)
  BY <3>1, FS_Difference
<3>3. QED
  BY <3>1, <3>2 DEF S
<2>7. L # n /\ Cardinality(C) \in 0..n
  BY <1>1, <1>5, <2>1
<2>8. QED
  BY <2>1, <2>3, <2>4, <2>6, <2>7 DEF L, C, U
<1>6. QED
  BY <1>1, <1>4, <1>5

\* All but one slot of the run are put back.
LEMMA MovedCounts ==
  ASSUME NEW n \in Nat \ {0}, NEW T \in TablesOf(n), NEW fp \in Nat \ {0}
  PROVE  LET h == HashFingerprint(fp, n)
         IN  /\ Cardinality(Moved(T, n, fp)) \in Nat
             /\ SoundTable(T, n) /\ IsVisited(T, n, fp) /\ RunLength(T, n, h) < n =>
                  Cardinality(Moved(T, n, fp)) = RunLength(T, n, h) - 1
             /\ RunLength(T, n, h) = n => Cardinality(Moved(T, n, fp)) = 0
<1> DEFINE h == HashFingerprint(fp, n)
           C == Cleared(T, n, h)
           M == Moved(T, n, fp)
           L == RunLength(T, n, h)
<1>1. h \in 0..(n - 1)
  BY HomeSlot
<1>2. M = {i \in C : T[i] # fp}
  BY DEF Moved
<1>3. T \in [0..(n - 1) -> Nat]
  BY DEF TablesOf
<1>4. IsFiniteSet(C) /\ (L = n => C = {})
  BY <1>1, <1>3, ClearCounts
<1>5. Cardinality(M) \in Nat
<2>1. M \subseteq C
  BY <1>2
<2>2. IsFiniteSet(M)
  BY <1>4, <2>1, FS_Subset
<2>3. QED
  BY <2>2, FS_CardinalityType
<1>6. L = n => Cardinality(M) = 0
<2>1. C = {} => M = {}
  BY <1>2
<2>2. QED
  BY <1>4, <2>1, FS_EmptySet
<1>7. ASSUME SoundTable(T, n), IsVisited(T, n, fp), L < n
      PROVE  Cardinality(M) = L - 1
<2>1. PICK d \in 0..(n - 1) : d < L /\ T[After(h, d, n)] = fp
  BY <1>7, FoundInRun
<2> DEFINE s == After(h, d, n)
<2>2. /\ C = {After(h, c, n) : c \in 0..(L - 1)} /\ C \subseteq 0..(n - 1)
      /\ Cardinality(C) = L
  BY <1>1, <1>7, ClearedIs
<2>3. L \in 0..n
  BY <1>1, TableRunIs
<2> HIDE DEF C, L, M
<2>4. d \in 0..(L - 1)
  BY <2>1, <2>3
<2>5. s \in C /\ s \in 0..(n - 1) /\ T[s] = fp
  BY <2>1, <2>2, <2>4
<2> HIDE DEF s
<2>6. \A i \in C : T[i] = fp => i = s
  BY <1>7, <2>2, <2>5 DEF SoundTable, NoDuplicates
<2>7. M = C \ {s}
  BY <1>2, <2>5, <2>6
<2>8. Cardinality(C \ {s}) = Cardinality(C) - 1
  BY <1>4, <2>5, FS_RemoveElement
<2>9. QED
  BY <2>2, <2>7, <2>8
<1>8. QED
  BY <1>5, <1>6, <1>7

\* What is put back.
LEMMA ShuffledIs ==
  ASSUME NEW n \in Nat \ {0}, NEW T \in [0..(n - 1) -> Contents],
         NEW fp \in Nat \ {0}
  PROVE  LET h == HashFingerprint(fp, n)
             s == Shuffled(T, n, fp)
             L == RunLength(T, n, h)
         IN  /\ s \in Seq(Contents)
             /\ L < n => Len(s) = L
             /\ L = n => s = <<>>
             /\ \A d \in 1..Len(s) :
                  s[d] = IF T[After(h, d - 1, n)] = fp THEN 0
                         ELSE T[After(h, d - 1, n)]
<1> DEFINE h == HashFingerprint(fp, n)
           C == Cleared(T, n, h)
           L == RunLength(T, n, h)
           s == Shuffled(T, n, fp)
           One(d) == IF T[After(h, d - 1, n)] = fp THEN 0 ELSE T[After(h, d - 1, n)]
<1>1. h \in 0..(n - 1)
  BY HomeSlot
<1>2. Cardinality(C) \in 0..n /\ (L = n => C = {})
  BY <1>1, ClearCounts
<1>3. L < n => Cardinality(C) = L
  BY <1>1, ClearedIs
<1>4. s = [d \in 1..Cardinality(C) |-> One(d)]
  BY DEF Shuffled
<1> HIDE DEF s, L, C
<1>5. \A d \in 1..Cardinality(C) : One(d) \in Contents
<2>1. SUFFICES ASSUME NEW d \in 1..Cardinality(C) PROVE One(d) \in Contents
  OBVIOUS
<2>2. d - 1 \in 0..(n - 1)
  BY <1>2
<2> HIDE DEF h
<2>3. After(h, d - 1, n) \in 0..(n - 1)
  BY <1>1, <2>2, AfterIsSlot
<2>4. 0 \in Contents /\ T[After(h, d - 1, n)] \in Contents
  BY <2>3 DEF Contents
<2>5. QED
  BY <2>4
<1> HIDE DEF One
<1>6. s \in Seq(Contents) /\ Len(s) = Cardinality(C)
  BY <1>2, <1>4, <1>5
<1>7. \A d \in 1..Len(s) : s[d] = One(d)
  BY <1>4, <1>6
<1>8. L = n => s = <<>>
<2>1. SUFFICES ASSUME L = n PROVE s = <<>>
  OBVIOUS
<2>2. Cardinality(C) = 0
  BY <1>2, <2>1, FS_EmptySet
<2>3. QED
  BY <1>6, <2>2
<1>9. QED
  BY <1>3, <1>6, <1>7, <1>8 DEF One, s, L

\* What is not put back leaves the table as it was.
LEMMA PutBackMore ==
  ASSUME NEW n, NEW T, NEW h, NEW fp, NEW k \in Nat, NEW R,
         PutBack(T, n, h, fp, k, R)
  PROVE  PutBack(T, n, h, fp, k + 1, R)
<1>1. {T[After(h, c, n)] : c \in 0..(k - 1)} \ {fp}
        \subseteq {T[After(h, c, n)] : c \in 0..((k + 1) - 1)} \ {fp}
<2>1. 0..(k - 1) \subseteq 0..((k + 1) - 1)
  OBVIOUS
<2>2. QED
  BY <2>1
<1>2. \A c \in 0..(Cardinality(Cleared(T, n, h)) - 1) : c < k => c < k + 1
  OBVIOUS
<1>3. QED
  BY <1>1, <1>2 DEF PutBack

\* A master whose table was emptied of the run of fp.
EmptiedFor(e, m, fp) ==
  LET n == Length(m)
      h == HashFingerprint(fp, n)
  IN  /\ e \in Masters
      /\ e.table = ClearRun(m.table, n, h)
      /\ e.used = (m.used - 1) - Cardinality(Moved(m.table, n, fp))

\* An emptied table is one of the same length.
LEMMA ClearedTable ==
  ASSUME NEW m \in Masters, NEW h \in 0..(Length(m) - 1)
  PROVE  /\ ClearRun(m.table, Length(m), h) \in [0..(Length(m) - 1) -> Contents]
         /\ ClearRun(m.table, Length(m), h) \in Tables
<1> DEFINE n == Length(m)
           U == ClearRun(m.table, n, h)
           C == Cleared(m.table, n, h)
<1>1. n \in Sizes /\ m.table \in [0..(n - 1) -> Contents]
  BY LengthIs
<1>2. U = [i \in 0..(n - 1) |-> IF i \in C THEN 0 ELSE m.table[i]]
  BY DEF ClearRun
<1>3. 0 \in Contents
  BY DEF Contents
<1> HIDE DEF C
<1>4. U \in [0..(n - 1) -> Contents]
  BY <1>1, <1>2, <1>3
<1>5. QED
  BY <1>1, <1>4 DEF Tables

\* The other links of the run are put back, each of them.
LEMMA AllPutBack ==
  ASSUME NEW m \in Masters, NEW fp \in Fingerprints, NEW e, EmptiedFor(e, m, fp),
         SoundTable(m.table, Length(m)), IsVisited(m.table, Length(m), fp)
  PROVE  LET n == Length(m)
             h == HashFingerprint(fp, n)
             L == RunLength(m.table, n, h)
             b == InsertAll(e, Shuffled(m.table, n, fp))
         IN  /\ Extends(b, e)
             /\ b.used = m.used - 1
             /\ \A i \in 0..(n - 1) : i \notin {After(h, d, n) : d \in 0..(L - 1)}
                  => b.table[i] = m.table[i]
<1> DEFINE n == Length(m)
           h == HashFingerprint(fp, n)
           T == m.table
           L == RunLength(T, n, h)
           fps == Shuffled(T, n, fp)
           b == InsertAll(e, fps)
           C == Cleared(T, n, h)
<1>1. /\ n \in Nat \ {0} /\ T \in [0..(n - 1) -> Contents] /\ T \in TablesOf(n)
  BY LengthIs
<1>2. fp \in Nat \ {0} /\ h \in 0..(n - 1)
  BY <1>1, HomeSlot, SizesAssumption
<1>3. L \in 1..n /\ \E d \in 0..(n - 1) : d < L /\ T[After(h, d, n)] = fp
  BY <1>1, <1>2, FoundInRun
<1>4. /\ fps \in Seq(Contents)
      /\ (L < n => Len(fps) = L) /\ (L = n => fps = <<>>)
      /\ \A d \in 1..Len(fps) :
           fps[d] = IF T[After(h, d - 1, n)] = fp THEN 0 ELSE T[After(h, d - 1, n)]
<2> HIDE DEF n, T
<2>1. QED
  BY <1>1, <1>2, ShuffledIs
<1>5. /\ e \in Masters /\ e.table = ClearRun(T, n, h)
      /\ e.used = (m.used - 1) - Cardinality(Moved(T, n, fp))
  BY DEF EmptiedFor
<1>6. m.used \in Int /\ e.used \in Int
  BY <1>5 DEF Masters
<1>7. Extends(b, e)
  BY <1>4, <1>5, InsertAllExtends
<1>8. PICK done \in [0..Len(fps) -> Masters] :
        /\ done[0] = e
        /\ \A k \in 1..Len(fps) :
             done[k] = IF fps[k] = 0 THEN done[k - 1] ELSE Insert(done[k - 1], fps[k])
        /\ b = done[Len(fps)]
  BY <1>4, <1>5, InsertStepByStep
<1> HIDE DEF b
<1>9. CASE L = n
<2>1. Len(fps) = 0 /\ b = e
  BY <1>4, <1>8, <1>9
<2>2. e.table = T
  BY <1>1, <1>2, <1>5, <1>9, ClearCounts
<2>3. Cardinality(Moved(T, n, fp)) = 0
  BY <1>1, <1>2, <1>9, MovedCounts
<2>4. b.used = m.used - 1
  BY <1>5, <1>6, <2>1, <2>3
<2>5. QED
  BY <1>7, <2>1, <2>2, <2>4 DEF b
<1>10. CASE L < n
<2>1. PICK d \in 0..(n - 1) : d < L /\ T[After(h, d, n)] = fp
  BY <1>3
<2>2. Cardinality(Moved(T, n, fp)) = L - 1
  BY <1>1, <1>2, <1>10, MovedCounts
<2>3. /\ C = {After(h, c, n) : c \in 0..(L - 1)} /\ C \subseteq 0..(n - 1)
      /\ Cardinality(C) = L
  BY <1>1, <1>2, <1>10, ClearedIs
<2>4. Len(fps) = L
  BY <1>4, <1>10
<2>5. \A i \in 0..(n - 1) :
        ClearRun(T, n, h)[i] = IF i \in C THEN 0 ELSE T[i]
  BY DEF ClearRun
<2>6. ClearRun(T, n, h) \in TablesOf(n) /\ SoundTable(ClearRun(T, n, h), n)
  BY <1>1, <1>2, ClearKeepsSound
<2>7. \A c \in 0..(L - 1) : c \in 0..(n - 1) /\ After(h, c, n) \in C
  BY <1>3, <2>3
<2>8. PutBack(T, n, h, fp, 0, ClearRun(T, n, h))
  BY <2>3, <2>5, <2>6, <2>7 DEF PutBack
<2> DEFINE Kept(k) == IF d < k THEN k - 1 ELSE k
           Fine(k) == /\ PutBack(T, n, h, fp, k, done[k].table)
                      /\ Length(done[k]) = n
                      /\ done[k].used = e.used + Kept(k)
           S == {k \in Nat : k <= L => Fine(k)}
<2>9. Length(e) = n
<3>1. e.table \in [0..(n - 1) -> Contents]
  BY <1>2, <1>5, ClearedTable
<3>2. QED
  BY <1>1, <3>1, LengthOf
<2>10. 0 \in S
<3>1. Kept(0) = 0
<4>1. ~(d < 0)
  BY <2>1
<4>2. QED
  BY <4>1
<3> HIDE DEF Kept
<3>2. Fine(0)
  BY <1>5, <1>6, <1>8, <2>8, <2>9, <3>1
<3> HIDE DEF Fine
<3>3. QED
  BY <3>2
<2>11. ASSUME NEW k \in Nat, k \in S
       PROVE  k + 1 \in S
<3>1. SUFFICES ASSUME k + 1 <= L PROVE Fine(k + 1)
  OBVIOUS
<3>2. k + 1 \in 1..L /\ k \in 0..(L - 1) /\ (k + 1) - 1 = k /\ k \in 0..L /\ k < L
  BY <1>3, <3>1
<3>3. k <= L
  BY <3>2
<3>4. Fine(k)
<4> HIDE DEF Fine
<4>1. QED
  BY <2>11, <3>3
<3> DEFINE x == T[After(h, k, n)]
           v == done[k]
           w == done[k + 1]
<3>5. /\ v \in Masters
      /\ w = IF fps[k + 1] = 0 THEN v ELSE Insert(v, fps[k + 1])
  BY <1>8, <2>4, <3>2
<3>6. fps[k + 1] = IF x = fp THEN 0 ELSE x
  BY <1>4, <2>4, <3>2
<3> HIDE DEF x
<3>7. PutBack(T, n, h, fp, k, v.table) /\ Length(v) = n /\ v.used = e.used + Kept(k)
  BY <3>4
<3> HIDE DEF v, w, Fine, Kept
<3>8. CASE x = fp
<4>1. w = v
  BY <3>5, <3>6, <3>8
<4>2. k = d
<5>1. k \in 0..(n - 1) /\ d \in 0..(n - 1)
  BY <2>7, <3>2
<5>2. T[After(h, k, n)] = fp /\ T[After(h, d, n)] = fp
  BY <2>1, <3>8 DEF x
<5>3. After(h, k, n) \in 0..(n - 1) /\ After(h, d, n) \in 0..(n - 1)
  BY <1>1, <1>2, <5>1, AfterIsSlot
<5>4. After(h, k, n) = After(h, d, n)
  BY <1>2, <5>2, <5>3 DEF SoundTable, NoDuplicates
<5>5. QED
  BY <1>1, <1>2, <5>1, <5>4, AfterOnce
<4>3. Kept(k + 1) = Kept(k)
  BY <4>2, <3>2 DEF Kept
<4>4. PutBack(T, n, h, fp, k + 1, v.table)
  BY <3>2, <3>7, PutBackMore
<4>5. QED
  BY <3>7, <4>1, <4>3, <4>4 DEF w, Fine
<3>9. CASE x # fp
<4>1. /\ x \in Nat \ {0}
      /\ FreeSlot(v.table, n, x) # {}
      /\ PutBack(T, n, h, fp, k + 1, AddFingerprint(v.table, n, x))
<5>1. x = T[After(h, k, n)]
  BY DEF x
<5>2. k < L /\ L < n /\ k \in Nat
  BY <1>10, <3>2
<5>3. SoundTable(T, n)
  OBVIOUS
<5> HIDE DEF L, T, n, h
<5>4. QED
  BY <1>1, <1>2, <3>7, <3>9, <5>1, <5>2, <5>3, NextIsPutBack DEF L
<4>2. fps[k + 1] = x /\ w = Insert(v, x)
  BY <3>5, <3>6, <3>9, <4>1
<4>3. x \in Fingerprints
<5>1. fps[k + 1] \in Contents
  BY <1>4, <2>4, <3>2
<5>2. QED
  BY <4>1, <4>2, <5>1 DEF Contents
<4>4. /\ Extends(w, v)
      /\ w.table = AddFingerprint(v.table, n, x)
      /\ w.used = v.used + 1
<5>1. v \in Masters /\ Length(v) = n
  BY <3>5, <3>7
<5>2. /\ Extends(Insert(v, x), v)
      /\ Insert(v, x).table = AddFingerprint(v.table, Length(v), x)
      /\ FreeSlot(v.table, Length(v), x) # {} => Insert(v, x).used = v.used + 1
<6> HIDE DEF n, T, L
<6>1. QED
  BY <4>3, <5>1, InsertExtends
<5>3. QED
  BY <4>1, <4>2, <5>1, <5>2
<4>5. Length(w) = n
  BY <3>7, <4>4 DEF Extends
<4>6. k # d
<5>1. T[After(h, k, n)] # fp
  BY <3>9 DEF x
<5>2. QED
  BY <2>1, <5>1
<4>7. Kept(k + 1) = Kept(k) + 1 /\ Kept(k) \in Int
  BY <3>2, <4>6 DEF Kept
<4>8. w.used = e.used + Kept(k + 1)
  BY <1>6, <3>7, <4>4, <4>7
<4>9. PutBack(T, n, h, fp, k + 1, w.table)
  BY <4>1, <4>4
<4>10. QED
  BY <4>5, <4>8, <4>9 DEF w, Fine
<3>10. QED
  BY <3>8, <3>9
<2>12. Fine(L)
<3>1. L \in Nat
  BY <1>3
<3> HIDE DEF Fine, L
<3>2. Nat \subseteq S
<4> HIDE DEF S
<4>1. QED
  BY <2>10, <2>11, SetInduction
<3>3. L \in S
  BY <3>1, <3>2
<3>4. QED
  BY <3>1, <3>3
<2>13. Kept(L) = L - 1
  BY <1>3, <2>1
<2>14. PutBack(T, n, h, fp, L, b.table) /\ b.used = e.used + Kept(L)
<3>1. b = done[L]
  BY <1>8, <2>4
<3> HIDE DEF Kept
<3>2. QED
  BY <2>12, <3>1
<2>15. b.used = m.used - 1
  BY <1>3, <1>5, <1>6, <2>2, <2>13, <2>14
<2>16. \A i \in 0..(n - 1) : i \notin C => b.table[i] = T[i]
  BY <2>14 DEF PutBack
<2>17. QED
  BY <1>7, <2>3, <2>15, <2>16 DEF b
<1>11. QED
  BY <1>3, <1>9, <1>10

-----------------------------------------------------------------------------
(* Ranges of the table, written to the file. *)

\* The slots from first to last, around the end of the table if need be.
InRange(i, first, last) ==
  IF last < first THEN first <= i \/ i <= last ELSE first <= i /\ i <= last

\* The entries of a file are the table's, up to that range.
SameOutside(m, f, first, last) ==
  \A i \in 0..(Length(m) - 1) :
    ~InRange(i, first, last) => f.data[i + 1] = m.table[i]

\* What is written of them.
PartOf(m, a, b) ==
  [i \in 1..(b - a + 1) |-> IF a + i <= Length(m) THEN m.table[a + i - 1] ELSE 0]

\* The entries that are written are those of the table.
LEMMA PartIs ==
  ASSUME NEW m \in Masters, NEW a \in 0..(Length(m) - 1), NEW b \in a..Length(m)
  PROVE  /\ PartOf(m, a, b) \in Seq(Contents)
         /\ Len(PartOf(m, a, b)) = b - a + 1
         /\ \A i \in 1..(b - a + 1) :
              a + i <= Length(m) => PartOf(m, a, b)[i] = m.table[a + i - 1]
<1> DEFINE n == Length(m)
           One(i) == IF a + i <= n THEN m.table[a + i - 1] ELSE 0
           p == PartOf(m, a, b)
<1>1. n \in Nat \ {0} /\ m.table \in [0..(n - 1) -> Contents]
  BY LengthIs
<1>2. p = [i \in 1..(b - a + 1) |-> One(i)]
  BY DEF PartOf
<1> HIDE DEF p, n
<1>3. b - a + 1 \in Nat
  BY <1>1 DEF n
<1>4. \A i \in 1..(b - a + 1) : One(i) \in Contents
<2>1. SUFFICES ASSUME NEW i \in 1..(b - a + 1) PROVE One(i) \in Contents
  OBVIOUS
<2>2. CASE a + i <= n
<3>1. a + i - 1 \in 0..(n - 1)
  BY <1>1, <1>3, <2>2 DEF n
<3>2. QED
  BY <1>1, <2>2, <3>1
<2>3. CASE ~(a + i <= n)
  BY <2>3 DEF Contents
<2>4. QED
  BY <2>2, <2>3
<1>5. p \in [1..(b - a + 1) -> Contents]
  BY <1>2, <1>4
<1>6. p \in Seq(Contents) /\ Len(p) = b - a + 1
  BY <1>3, <1>5
<1>7. \A i \in 1..(b - a + 1) : p[i] = One(i)
  BY <1>2
<1>8. QED
  BY <1>6, <1>7 DEF p, n

\* A range that wraps is written in two parts.
LEMMA RangeTasks ==
  ASSUME NEW m, NEW first, NEW last
  PROVE  WriteHashRangeToFile(m, first, last) =
           IF ~m.opened THEN m
           ELSE IF last < first
             THEN PostIOTasks(m, <<Data(m, first, PartOf(m, first, Length(m))),
                                   Data(m, 0, PartOf(m, 0, last))>>)
             ELSE PostIOTasks(m, <<Data(m, first, PartOf(m, first, last))>>)
BY Zenon DEF WriteHashRangeToFile, PartOf

\* Posting tasks changes nothing else.
LEMMA PostIOTasksFields ==
  ASSUME NEW m \in Masters, NEW tasks \in Seq(WriteTasks)
  PROVE  LET a == PostIOTasks(m, tasks)
         IN  /\ a \in Masters /\ Alike(a, m)
             /\ a.table = m.table /\ a.used = m.used /\ a.opened = m.opened
             /\ a.unsaved = m.unsaved /\ a.told = m.told
             /\ a.io = m.io \o tasks
<1> DEFINE io == m.io \o tasks
           a == [m EXCEPT !.io = io]
<1>1. io \in Seq(WriteTasks)
<2>1. m.io \in Seq(WriteTasks)
  BY DEF Masters
<2>2. QED
  BY <2>1
<1>2. PostIOTasks(m, tasks) = a
  BY DEF PostIOTasks
<1> HIDE DEF io
<1>3. a \in Masters
  BY <1>1 DEF Masters
<1>4. /\ a.table = m.table /\ a.used = m.used /\ a.opened = m.opened
      /\ a.unsaved = m.unsaved /\ a.told = m.told /\ a.io = io
      /\ Alike(a, m)
  BY DEF Masters, Alike
<1> HIDE DEF a
<1>5. QED
  BY <1>2, <1>3, <1>4 DEF io

\* A range of the file written over with that of the table.
LEMMA OverwriteRange ==
  ASSUME NEW m \in Masters, NEW a \in 0..(Length(m) - 1), NEW b \in a..Length(m),
         NEW data \in Seq(Contents), Len(data) >= Length(m)
  PROVE  LET new == Overwrite(data, a, PartOf(m, a, b))
         IN  /\ new \in Seq(Contents)
             /\ Len(new) = IF Len(data) < b + 1 THEN b + 1 ELSE Len(data)
             /\ \A i \in 0..(Length(m) - 1) :
                  new[i + 1] = IF a <= i /\ i <= b THEN m.table[i] ELSE data[i + 1]
<1> DEFINE n == Length(m)
           s == PartOf(m, a, b)
           new == Overwrite(data, a, s)
<1>1. n \in Nat \ {0} /\ Len(data) \in Nat /\ a \in Nat /\ b \in Nat
  BY LengthIs
<1>2. /\ s \in Seq(Contents) /\ Len(s) = b - a + 1
      /\ \A i \in 1..(b - a + 1) : a + i <= n => s[i] = m.table[a + i - 1]
  BY PartIs
<1> HIDE DEF s
<1>3. /\ new \in Seq(Contents)
      /\ Len(new) = IF Len(data) < a + Len(s) THEN a + Len(s) ELSE Len(data)
      /\ \A i \in 1..Len(s) : new[a + i] = s[i]
      /\ \A i \in 1..Len(data) :
           i \notin (a + 1)..(a + Len(s)) => new[i] = data[i]
  BY <1>1, <1>2, OverwriteIs
<1> HIDE DEF new
<1>4. a + Len(s) = b + 1
  BY <1>1, <1>2
<1>5. ASSUME NEW i \in 0..(n - 1)
      PROVE  new[i + 1] = IF a <= i /\ i <= b THEN m.table[i] ELSE data[i + 1]
<2>1. CASE a <= i /\ i <= b
<3>1. i - a + 1 \in 1..(b - a + 1) /\ a + (i - a + 1) = i + 1 /\ i + 1 <= n
      /\ a + (i - a + 1) - 1 = i
  BY <1>1, <2>1
<3>2. new[a + (i - a + 1)] = s[i - a + 1]
  BY <1>2, <1>3, <3>1
<3>3. s[i - a + 1] = m.table[a + (i - a + 1) - 1]
  BY <1>2, <3>1
<3>4. QED
  BY <2>1, <3>1, <3>2, <3>3
<2>2. CASE ~(a <= i /\ i <= b)
<3>1. i + 1 \in 1..Len(data) /\ i + 1 \notin (a + 1)..(a + Len(s))
  BY <1>1, <1>4, <2>2
<3>2. new[i + 1] = data[i + 1]
  BY <1>3, <3>1
<3>3. QED
  BY <2>2, <3>2
<2>3. QED
  BY <2>1, <2>2
<1>6. QED
  BY <1>3, <1>4, <1>5 DEF n, s, new

-----------------------------------------------------------------------------
\* What is written of an unsaved or mixed table makes the file mixed.

\* Of a mixed file nothing is claimed.
LEMMA MixedIsFit ==
  ASSUME NEW f0, NEW tasks \in Seq(WriteTasks), NEW f, OnFile(f0, tasks, f),
         NEW t \in WriteTasks, Perform(f, t) \in FileStates, Perform(f, t).mixed
  PROVE  /\ OnFile(f0, Append(tasks, t), Perform(f, t))
         /\ DataFit(Perform(f, t)) /\ \A c : CountFit(Perform(f, t), c)
<1>1. Fit(Perform(f, t))
  BY DEF Fit
<1>2. OnFile(f0, Append(tasks, t), Perform(f, t))
  BY <1>1, OnFileAppend
<1>3. QED
  BY <1>2 DEF DataFit, CountFit

\* The file after the last task is fit.
LEMMA OnFileLast ==
  ASSUME NEW f0, NEW tasks \in Seq(WriteTasks), NEW f, OnFile(f0, tasks, f)
  PROVE  f \in FileStates /\ Fit(f)
<1>1. Len(tasks) \in 0..Len(tasks)
  OBVIOUS
<1>2. QED
  BY <1>1 DEF OnFile

\* A range of such a table, written to the file.
LEMMA MixedRangeWritten ==
  ASSUME NEW m \in Masters, NEW f0, NEW f, NEW cut,
         m.opened, m.unsaved \/ m.mixed, OnFile(f0, m.io, f),
         NEW first \in 0..(Length(m) - 1), NEW last \in 0..(Length(m) - 1)
  PROVE  \E g : Opens(WriteHashRangeToFile(m, first, last), f0, cut, g)
<1> DEFINE n == Length(m)
           a == WriteHashRangeToFile(m, first, last)
<1>1. n \in Nat \ {0} /\ m.io \in Seq(WriteTasks) /\ first \in Nat /\ last \in Nat
<2>1. n \in Nat \ {0}
  BY LengthIs
<2>2. QED
  BY <2>1 DEF Masters
<1>2. f \in FileStates
  BY <1>1, OnFileLast
<1>3. ASSUME NEW g \in FileStates, NEW p \in Nat, NEW s \in Seq(Contents)
      PROVE  /\ Data(m, p, s) \in WriteTasks
             /\ Perform(g, Data(m, p, s)) \in FileStates
             /\ Perform(g, Data(m, p, s)).mixed
  BY PerformData
<1>4. CASE last < first
<2> DEFINE s1 == PartOf(m, first, n)
           s2 == PartOf(m, 0, last)
           t1 == Data(m, first, s1)
           t2 == Data(m, 0, s2)
           f1 == Perform(f, t1)
           f2 == Perform(f1, t2)
<2>1. s1 \in Seq(Contents) /\ s2 \in Seq(Contents)
<3>1. n \in first..n /\ 0 \in 0..(n - 1) /\ last \in 0..n
  BY <1>1
<3>2. QED
  BY <3>1, PartIs
<2> HIDE DEF s1, s2
<2>2. t1 \in WriteTasks /\ f1 \in FileStates /\ f1.mixed
  BY <1>1, <1>2, <1>3, <2>1
<2> HIDE DEF f1
<2>3. t2 \in WriteTasks /\ f2 \in FileStates /\ f2.mixed
  BY <1>1, <1>3, <2>1, <2>2
<2> HIDE DEF t1, t2
<2>4. OnFile(f0, Append(m.io, t1), f1)
  BY <1>1, <2>2, MixedIsFit DEF f1
<2>5. Append(m.io, t1) \in Seq(WriteTasks)
  BY <1>1, <2>2
<2>6. /\ OnFile(f0, Append(Append(m.io, t1), t2), f2)
      /\ DataFit(f2) /\ \A c : CountFit(f2, c)
  BY <2>3, <2>4, <2>5, MixedIsFit
<2>7. a = PostIOTasks(m, <<t1, t2>>)
  BY <1>4, RangeTasks DEF t1, t2, s1, s2
<2>8. a.io = m.io \o <<t1, t2>>
<3>1. <<t1, t2>> \in Seq(WriteTasks)
  BY <2>2, <2>3
<3> HIDE DEF a
<3>2. QED
  BY <2>7, <3>1, PostIOTasksFields
<2>9. m.io \o <<t1, t2>> = Append(Append(m.io, t1), t2)
<3>1. m.io \in Seq(WriteTasks) /\ t1 \in WriteTasks /\ t2 \in WriteTasks
  BY <1>1, <2>2, <2>3
<3>2. QED
  BY <3>1, TwoAppends
<2>10. QED
  BY <2>6, <2>8, <2>9 DEF Opens
<1>5. CASE ~(last < first)
<2> DEFINE s1 == PartOf(m, first, last)
           t1 == Data(m, first, s1)
           f1 == Perform(f, t1)
<2>1. s1 \in Seq(Contents)
<3>1. last \in first..n
  BY <1>1, <1>5
<3>2. QED
  BY <3>1, PartIs
<2> HIDE DEF s1
<2>2. t1 \in WriteTasks /\ f1 \in FileStates /\ f1.mixed
  BY <1>1, <1>2, <1>3, <2>1
<2> HIDE DEF t1
<2>3. /\ OnFile(f0, Append(m.io, t1), f1)
      /\ DataFit(f1) /\ \A c : CountFit(f1, c)
  BY <1>1, <2>2, MixedIsFit
<2>4. a = PostIOTasks(m, <<t1>>)
  BY <1>5, RangeTasks DEF t1, s1
<2>5. a.io = m.io \o <<t1>>
<3>1. <<t1>> \in Seq(WriteTasks)
  BY <2>2
<3> HIDE DEF a
<3>2. QED
  BY <2>4, <3>1, PostIOTasksFields
<2>6. m.io \o <<t1>> = Append(m.io, t1)
  BY <1>1, <2>2
<2>7. QED
  BY <2>3, <2>5, <2>6 DEF Opens
<1>6. QED
  BY <1>4, <1>5

\* A file that holds a sound table may be loaded, or not, but not wrongly.
LEMMA SavedFits ==
  ASSUME NEW m \in Masters, NEW f \in FileStates, NEW cut \in BOOLEAN,
         Saved(m, f), Right(m, cut), ~m.mixed
  PROVE  Fit(f) /\ DataFit(f) /\ CountFit(f, cut)
<1> DEFINE n == Length(m)
<1>1. /\ n \in Nat \ {0} /\ n % 2 = 1 /\ m.table \in [0..(n - 1) -> Contents]
  BY LengthIs DEF Sizes
<1>2. /\ ~f.mixed /\ f.length = n /\ f.used = m.used
      /\ (Len(f.data) = n \/ Len(f.data) = n + 1)
      /\ \A i \in 1..n : f.data[i] = m.table[i - 1]
  BY DEF Saved
<1>3. SoundTable(m.table, n) /\ (~cut => Exact(m))
  BY DEF Right
<1> HIDE DEF n
<1>4. LoadedTable(f) = m.table
<2>1. n \in Nat
  BY <1>1
<2>2. f.length = n /\ \A i \in 1..n : f.data[i] = m.table[i - 1]
  BY <1>2
<2>3. QED
  BY <1>1, <2>1, <2>2, LoadedIs
<1>5. ASSUME Len(f.data) = n PROVE DataTable(f) = m.table
<2>1. n \in Nat
  BY <1>1
<2>2. \A i \in 1..n : f.data[i] = m.table[i - 1]
  BY <1>2
<2>3. QED
  BY <1>1, <1>5, <2>1, <2>2, DataTableIs
<1>6. Len(f.data) = n + 1 => Len(f.data) % 2 = 0
  BY <1>1
<1>7. Fit(f)
  BY <1>2, <1>3, <1>4 DEF Fit
<1>8. DataFit(f)
<2>1. CASE Len(f.data) = n
  BY <1>3, <1>5, <2>1 DEF DataFit
<2>2. CASE Len(f.data) = n + 1
  BY <1>6, <2>2 DEF DataFit
<2>3. QED
  BY <1>2, <2>1, <2>2
<1>9. CountFit(f, cut)
  BY <1>2, <1>3, <1>4 DEF CountFit, Exact, n
<1>10. QED
  BY <1>7, <1>8, <1>9

\* What is written of a saved table keeps it saved.
LEMMA RangeWritten ==
  ASSUME NEW m \in Masters, NEW f0, NEW f, NEW cut \in BOOLEAN,
         m.opened, ~m.mixed, Right(m, cut), OnFile(f0, m.io, f),
         ~m.unsaved, ~f.mixed, f.length = Length(m), f.used = m.used,
         Len(f.data) \in {Length(m), Length(m) + 1},
         NEW first \in 0..(Length(m) - 1), NEW last \in 0..(Length(m) - 1),
         SameOutside(m, f, first, last)
  PROVE  \E g : /\ Opens(WriteHashRangeToFile(m, first, last), f0, cut, g)
                /\ Saved(WriteHashRangeToFile(m, first, last), g)
<1> DEFINE n == Length(m)
           a == WriteHashRangeToFile(m, first, last)
<1>1. n \in Nat \ {0} /\ m.io \in Seq(WriteTasks) /\ first \in Nat /\ last \in Nat
<2>1. n \in Nat \ {0}
  BY LengthIs
<2>2. QED
  BY <2>1 DEF Masters
<1>2. /\ f \in FileStates /\ f.data \in Seq(Contents) /\ Len(f.data) \in Nat
      /\ Len(f.data) >= n
<2>1. f \in FileStates
  BY <1>1, OnFileLast
<2>2. f.data \in Seq(Contents) /\ Len(f.data) \in Nat
  BY <2>1, FileFields
<2>3. QED
  BY <1>1, <2>1, <2>2
<1>3. ASSUME NEW g \in FileStates, ~g.mixed, NEW p \in Nat, NEW s \in Seq(Contents)
      PROVE  /\ Data(m, p, s) \in WriteTasks
             /\ Perform(g, Data(m, p, s)) \in FileStates
             /\ Perform(g, Data(m, p, s)).length = g.length
             /\ Perform(g, Data(m, p, s)).used = g.used
             /\ Perform(g, Data(m, p, s)).data = Overwrite(g.data, p, s)
             /\ ~Perform(g, Data(m, p, s)).mixed
<2> DEFINE q == Perform(g, Data(m, p, s))
<2>1. /\ Data(m, p, s) \in WriteTasks /\ q \in FileStates
      /\ q.length = g.length /\ q.used = g.used
      /\ q.data = Overwrite(g.data, p, s)
      /\ q.mixed = (g.mixed \/ m.unsaved \/ m.mixed)
  BY PerformData
<2> HIDE DEF q
<2>2. ~q.mixed
  BY <1>3, <2>1
<2>3. QED
  BY <2>1, <2>2 DEF q
<1>4. CASE last < first
<2> DEFINE s1 == PartOf(m, first, n)
           s2 == PartOf(m, 0, last)
           t1 == Data(m, first, s1)
           t2 == Data(m, 0, s2)
           f1 == Perform(f, t1)
           f2 == Perform(f1, t2)
<2>1. s1 \in Seq(Contents) /\ s2 \in Seq(Contents)
<3>1. n \in first..n /\ 0 \in 0..(n - 1) /\ last \in 0..n
  BY <1>1
<3>2. QED
  BY <3>1, PartIs
<2>2. /\ Overwrite(f.data, first, s1) \in Seq(Contents)
      /\ Len(Overwrite(f.data, first, s1)) = n + 1
      /\ \A i \in 0..(n - 1) :
           Overwrite(f.data, first, s1)[i + 1]
             = IF first <= i /\ i <= n THEN m.table[i] ELSE f.data[i + 1]
<3>1. n \in first..n
  BY <1>1
<3>2. /\ Overwrite(f.data, first, s1) \in Seq(Contents)
      /\ Len(Overwrite(f.data, first, s1))
           = IF Len(f.data) < n + 1 THEN n + 1 ELSE Len(f.data)
      /\ \A i \in 0..(n - 1) :
           Overwrite(f.data, first, s1)[i + 1]
             = IF first <= i /\ i <= n THEN m.table[i] ELSE f.data[i + 1]
<4> DEFINE old == f.data
           new == Overwrite(old, first, s1)
<4>1. old \in Seq(Contents) /\ Len(old) >= Length(m)
  BY <1>2
<4>2. Length(m) \in first..Length(m)
  BY <3>1
<4> HIDE DEF old
<4>3. /\ new \in Seq(Contents)
      /\ Len(new) = IF Len(old) < n + 1 THEN n + 1 ELSE Len(old)
      /\ \A i \in 0..(n - 1) :
           new[i + 1] = IF first <= i /\ i <= n THEN m.table[i] ELSE old[i + 1]
  BY <4>1, <4>2, OverwriteRange
<4>4. QED
  BY <4>3 DEF old
<3> HIDE DEF s1
<3>3. QED
  BY <1>1, <1>2, <3>2
<2> HIDE DEF s1
<2>3. /\ t1 \in WriteTasks /\ f1 \in FileStates
      /\ f1.length = n /\ f1.used = m.used
      /\ f1.data = Overwrite(f.data, first, s1)
      /\ ~f1.mixed
<3>1. s1 \in Seq(Contents) /\ f \in FileStates /\ ~f.mixed /\ first \in Nat
  BY <1>1, <1>2, <2>1
<3> HIDE DEF n, s1
<3>2. /\ t1 \in WriteTasks /\ f1 \in FileStates
      /\ f1.length = f.length /\ f1.used = f.used
      /\ f1.data = Overwrite(f.data, first, s1) /\ ~f1.mixed
  BY <1>3, <3>1
<3> HIDE DEF f1, t1
<3>3. QED
  BY <3>2 DEF n
<2> HIDE DEF f1
<2>4. Len(f1.data) = n + 1 /\ f1.data \in Seq(Contents) /\ Len(f1.data) >= n
  BY <1>1, <2>2, <2>3
<2>5. Fit(f1)
<3>1. Len(f1.data) # f1.length
  BY <1>1, <2>3, <2>4
<3>2. QED
  BY <3>1 DEF Fit, Loads
<2>6. /\ Len(Overwrite(f1.data, 0, s2)) = n + 1
      /\ \A i \in 0..(n - 1) :
           Overwrite(f1.data, 0, s2)[i + 1]
             = IF 0 <= i /\ i <= last THEN m.table[i] ELSE f1.data[i + 1]
<3>1. 0 \in 0..(n - 1) /\ last \in 0..n
  BY <1>1
<3>2. /\ Len(Overwrite(f1.data, 0, s2))
           = IF Len(f1.data) < last + 1 THEN last + 1 ELSE Len(f1.data)
      /\ \A i \in 0..(n - 1) :
           Overwrite(f1.data, 0, s2)[i + 1]
             = IF 0 <= i /\ i <= last THEN m.table[i] ELSE f1.data[i + 1]
  BY <2>4, <3>1, OverwriteRange
<3> HIDE DEF s2
<3>3. QED
  BY <1>1, <2>4, <3>2
<2> HIDE DEF s2
<2>7. /\ t2 \in WriteTasks /\ f2 \in FileStates
      /\ f2.length = n /\ f2.used = m.used
      /\ f2.data = Overwrite(f1.data, 0, s2)
      /\ ~f2.mixed
<3>1. s2 \in Seq(Contents) /\ 0 \in Nat
  BY <2>1
<3>2. f1 \in FileStates /\ ~f1.mixed
  BY <2>3
<3>3. /\ t2 \in WriteTasks /\ f2 \in FileStates
      /\ f2.length = f1.length /\ f2.used = f1.used
      /\ f2.data = Overwrite(f1.data, 0, s2) /\ ~f2.mixed
<4> HIDE DEF s2
<4>1. QED
  BY <1>3, <3>1, <3>2
<3> HIDE DEF f2, t2
<3>4. QED
  BY <2>3, <3>3
<2> HIDE DEF t1, t2, f2
<2>8. \A i \in 1..n : f2.data[i] = m.table[i - 1]
<3>1. SUFFICES ASSUME NEW i \in 0..(n - 1) PROVE f2.data[i + 1] = m.table[i]
<4>1. \A j \in 1..n : j - 1 \in 0..(n - 1) /\ (j - 1) + 1 = j
  BY <1>1
<4>2. QED
  BY <4>1
<3>2. CASE i <= last
<4>1. 0 <= i
  BY <1>1
<4>2. QED
  BY <2>6, <2>7, <3>2, <4>1
<3>3. CASE ~(i <= last) /\ first <= i
<4>1. f2.data[i + 1] = f1.data[i + 1]
  BY <2>6, <2>7, <3>3
<4>2. i <= n
  BY <1>1
<4>3. QED
  BY <2>2, <2>3, <3>3, <4>1, <4>2
<3>4. CASE ~(i <= last) /\ ~(first <= i)
<4>1. f2.data[i + 1] = f1.data[i + 1]
  BY <2>6, <2>7, <3>4
<4>2. f1.data[i + 1] = f.data[i + 1]
  BY <2>2, <2>3, <3>4
<4>3. ~InRange(i, first, last)
  BY <1>4, <3>4 DEF InRange
<4>4. QED
  BY <4>1, <4>2, <4>3 DEF SameOutside
<3>5. QED
  BY <3>2, <3>3, <3>4
<2>9. Len(f2.data) = n + 1
  BY <2>6, <2>7
<2>10. Saved(m, f2)
  BY <2>7, <2>8, <2>9 DEF Saved
<2>11. Fit(f2) /\ DataFit(f2) /\ CountFit(f2, cut)
  BY <2>7, <2>10, SavedFits
<2>12. OnFile(f0, Append(m.io, t1), f1)
  BY <1>1, <2>3, <2>5, OnFileAppend DEF f1
<2>13. Append(m.io, t1) \in Seq(WriteTasks)
  BY <1>1, <2>3
<2>14. OnFile(f0, Append(Append(m.io, t1), t2), f2)
  BY <2>7, <2>11, <2>12, <2>13, OnFileAppend DEF f2
<2>15. a = PostIOTasks(m, <<t1, t2>>)
  BY <1>4, RangeTasks DEF t1, t2, s1, s2
<2>16. /\ a.io = m.io \o <<t1, t2>>
       /\ a.table = m.table /\ a.used = m.used
<3>1. <<t1, t2>> \in Seq(WriteTasks)
  BY <2>3, <2>7
<3> HIDE DEF a
<3>2. QED
  BY <2>15, <3>1, PostIOTasksFields DEF Alike
<2>17. m.io \o <<t1, t2>> = Append(Append(m.io, t1), t2)
<3>1. m.io \in Seq(WriteTasks) /\ t1 \in WriteTasks /\ t2 \in WriteTasks
  BY <1>1, <2>3, <2>7
<3>2. QED
  BY <3>1, TwoAppends
<2>18. Opens(a, f0, cut, f2)
  BY <2>11, <2>14, <2>16, <2>17 DEF Opens
<2>19. Saved(a, f2)
  BY <2>10, <2>16 DEF Saved, Length
<2>20. QED
  BY <2>18, <2>19
<1>5. CASE ~(last < first)
<2> DEFINE s1 == PartOf(m, first, last)
           t1 == Data(m, first, s1)
           f1 == Perform(f, t1)
<2>1. last \in first..n
  BY <1>1, <1>5
<2>2. s1 \in Seq(Contents)
  BY <2>1, PartIs
<2>3. /\ Len(Overwrite(f.data, first, s1))
           = IF Len(f.data) < last + 1 THEN last + 1 ELSE Len(f.data)
      /\ \A i \in 0..(n - 1) :
           Overwrite(f.data, first, s1)[i + 1]
             = IF first <= i /\ i <= last THEN m.table[i] ELSE f.data[i + 1]
  BY <1>2, <2>1, OverwriteRange
<2> HIDE DEF s1
<2>4. /\ t1 \in WriteTasks /\ f1 \in FileStates
      /\ f1.length = n /\ f1.used = m.used
      /\ f1.data = Overwrite(f.data, first, s1)
      /\ ~f1.mixed
<3>1. first \in Nat /\ f \in FileStates
  BY <1>1, <1>2
<3>2. /\ t1 \in WriteTasks /\ f1 \in FileStates
      /\ f1.length = f.length /\ f1.used = f.used
      /\ f1.data = Overwrite(f.data, first, s1)
      /\ ~f1.mixed
  BY <1>3, <2>2, <3>1
<3> HIDE DEF t1, f1
<3>3. QED
  BY <3>2
<2> HIDE DEF t1, f1
<2>5. Len(f1.data) = Len(f.data)
  BY <1>1, <1>2, <2>3, <2>4
<2>6. \A i \in 1..n : f1.data[i] = m.table[i - 1]
<3>1. SUFFICES ASSUME NEW i \in 0..(n - 1) PROVE f1.data[i + 1] = m.table[i]
<4>1. \A j \in 1..n : j - 1 \in 0..(n - 1) /\ (j - 1) + 1 = j
  BY <1>1
<4>2. QED
  BY <4>1
<3>2. CASE first <= i /\ i <= last
  BY <2>3, <2>4, <3>2
<3>3. CASE ~(first <= i /\ i <= last)
<4>1. f1.data[i + 1] = f.data[i + 1]
  BY <2>3, <2>4, <3>3
<4>2. ~InRange(i, first, last)
  BY <1>5, <3>3 DEF InRange
<4>3. QED
  BY <4>1, <4>2 DEF SameOutside
<3>4. QED
  BY <3>2, <3>3
<2>7. Saved(m, f1)
  BY <2>4, <2>5, <2>6 DEF Saved
<2>8. Fit(f1) /\ DataFit(f1) /\ CountFit(f1, cut)
  BY <2>4, <2>7, SavedFits
<2>9. OnFile(f0, Append(m.io, t1), f1)
  BY <1>1, <2>4, <2>8, OnFileAppend DEF f1
<2>10. a = PostIOTasks(m, <<t1>>)
  BY <1>5, RangeTasks DEF t1, s1
<2>11. /\ a.io = m.io \o <<t1>>
       /\ a.table = m.table /\ a.used = m.used
<3>1. <<t1>> \in Seq(WriteTasks)
  BY <2>4
<3> HIDE DEF a
<3>2. QED
  BY <2>10, <3>1, PostIOTasksFields
<2>12. m.io \o <<t1>> = Append(m.io, t1)
  BY <1>1, <2>4
<2>13. Opens(a, f0, cut, f1)
  BY <2>8, <2>9, <2>11, <2>12 DEF Opens
<2>14. Saved(a, f1)
  BY <2>7, <2>11 DEF Saved, Length
<2>15. QED
  BY <2>13, <2>14
<1>6. QED
  BY <1>4, <1>5

\* A change of the table, its count and the range where it was changed both
\* written, keeps the file what it was to the table.
LEMMA ChangeWritten ==
  ASSUME NEW m \in Masters, NEW b \in Masters, NEW x \in Masters,
         NEW f0, NEW cut \in BOOLEAN,
         Right(m, cut), Right(b, cut), FileKept(m, f0, cut),
         x.unsaved = m.unsaved, x.mixed = m.mixed,
         b.unsaved = m.unsaved, b.mixed = m.mixed, b.opened = m.opened,
         b.io = IF m.opened THEN Append(m.io, Used(x)) ELSE m.io,
         Length(b) = Length(m), ~m.mixed => b.used = x.used,
         NEW first \in 0..(Length(m) - 1), NEW last \in 0..(Length(m) - 1),
         ~m.mixed => \A i \in 0..(Length(m) - 1) :
                       ~InRange(i, first, last) => b.table[i] = m.table[i]
  PROVE  LET a == WriteHashRangeToFile(b, first, last)
         IN  /\ a \in Masters /\ Alike(a, b)
             /\ a.table = b.table /\ a.used = b.used /\ a.opened = b.opened
             /\ a.unsaved = b.unsaved /\ a.told = b.told
             /\ Right(a, cut) /\ FileKept(a, f0, cut)
<1> DEFINE n == Length(m)
           a == WriteHashRangeToFile(b, first, last)
           u == Used(x)
<1>1. n \in Nat \ {0} /\ m.io \in Seq(WriteTasks) /\ first \in Nat /\ last \in Nat
<2>1. n \in Nat \ {0}
  BY LengthIs
<2>2. QED
  BY <2>1 DEF Masters
<1>2. /\ a \in Masters /\ Alike(a, b)
      /\ a.table = b.table /\ a.used = b.used /\ a.opened = b.opened
      /\ a.unsaved = b.unsaved /\ a.told = b.told
<2>1. a = b \/ \E tasks \in Seq(WriteTasks) : a = PostIOTasks(b, tasks)
<3>1. CASE ~b.opened
  BY <3>1, RangeTasks
<3>2. CASE b.opened /\ last < first
<4>1. n \in first..n /\ 0 \in 0..(n - 1) /\ last \in 0..n
  BY <1>1
<4>2. PartOf(b, first, n) \in Seq(Contents) /\ PartOf(b, 0, last) \in Seq(Contents)
  BY <4>1, PartIs
<4>3. /\ Data(b, first, PartOf(b, first, n)) \in WriteTasks
      /\ Data(b, 0, PartOf(b, 0, last)) \in WriteTasks
  BY <1>1, <4>2, NoFileFits, PerformData
<4>4. a = PostIOTasks(b, <<Data(b, first, PartOf(b, first, n)),
                           Data(b, 0, PartOf(b, 0, last))>>)
  BY <3>2, RangeTasks
<4>5. <<Data(b, first, PartOf(b, first, n)), Data(b, 0, PartOf(b, 0, last))>>
        \in Seq(WriteTasks)
  BY <4>3
<4>6. QED
  BY <4>4, <4>5
<3>3. CASE b.opened /\ ~(last < first)
<4>1. last \in first..n
  BY <1>1, <3>3
<4>2. PartOf(b, first, last) \in Seq(Contents)
  BY <4>1, PartIs
<4>3. Data(b, first, PartOf(b, first, last)) \in WriteTasks
  BY <1>1, <4>2, NoFileFits, PerformData
<4>4. a = PostIOTasks(b, <<Data(b, first, PartOf(b, first, last))>>)
  BY <3>3, RangeTasks
<4>5. <<Data(b, first, PartOf(b, first, last))>> \in Seq(WriteTasks)
  BY <4>3
<4>6. QED
  BY <4>4, <4>5
<3>4. QED
  BY <3>1, <3>2, <3>3
<2>2. CASE a = b
  BY <2>2 DEF Alike
<2>3. CASE \E tasks \in Seq(WriteTasks) : a = PostIOTasks(b, tasks)
  BY <2>3, PostIOTasksFields
<2>4. QED
  BY <2>1, <2>2, <2>3
<1>3. Right(a, cut)
  BY <1>2, RightDepends DEF Alike
<1>4. CASE ~m.opened
<2>1. a = b
  BY <1>4, RangeTasks
<2>2. Unopened(m, f0, cut)
  BY <1>4 DEF FileKept
<2>3. Unopened(a, f0, cut)
  BY <1>4, <2>1, <2>2 DEF Unopened
<2>4. FileKept(a, f0, cut)
  BY <1>2, <1>4, <2>3 DEF FileKept
<2>5. QED
  BY <1>2, <1>3, <2>4
<1>5. CASE m.opened
<2>1. PICK f : /\ OnFile(f0, m.io, f) /\ DataFit(f) /\ CountFit(f, cut)
               /\ (~m.unsaved /\ ~m.mixed => Saved(m, f))
  BY <1>5 DEF FileKept, Opens
<2> DEFINE g == Perform(f, u)
<2>2. f \in FileStates /\ Fit(f)
  BY <1>1, <2>1, OnFileLast
<2>3. /\ u \in WriteTasks /\ g \in FileStates
      /\ g.length = f.length /\ g.used = x.used /\ g.data = f.data
      /\ g.mixed = (f.mixed \/ x.unsaved \/ x.mixed)
  BY <2>2, PerformUsed
<2>4. m.unsaved \in BOOLEAN /\ m.mixed \in BOOLEAN /\ f.mixed \in BOOLEAN
<3>1. f.mixed \in BOOLEAN
  BY <2>2, FileFields
<3>2. QED
  BY <3>1 DEF Masters
<2> HIDE DEF u
<2>5. b.io = Append(m.io, u)
  BY <1>5 DEF u
<2>6. CASE m.unsaved \/ m.mixed
<3>1. g.mixed
  BY <2>3, <2>6
<3> HIDE DEF g
<3>2. OnFile(f0, Append(m.io, u), g)
  BY <1>1, <2>1, <2>3, <3>1, MixedIsFit DEF g
<3>3. b.opened /\ (b.unsaved \/ b.mixed) /\ OnFile(f0, b.io, g)
  BY <1>5, <2>5, <2>6, <3>2
<3>4. \E p : Opens(a, f0, cut, p)
  BY <3>3, MixedRangeWritten
<3>5. FileKept(a, f0, cut)
  BY <1>2, <1>5, <2>6, <3>4 DEF FileKept, Alike
<3>6. QED
  BY <1>2, <1>3, <3>5
<2>7. CASE ~m.unsaved /\ ~m.mixed
<3>1. Saved(m, f) /\ ~f.mixed
  BY <2>1, <2>7 DEF Saved
<3>2. /\ f.length = n /\ Len(f.data) \in {n, n + 1}
      /\ \A i \in 1..n : f.data[i] = m.table[i - 1]
  BY <3>1 DEF Saved
<3>3. ~g.mixed /\ x.used = b.used
  BY <2>3, <2>7, <3>1
<3> HIDE DEF g
<3>4. Fit(g)
<4>1. SUFFICES ASSUME Loads(g) PROVE SoundTable(LoadedTable(g), g.length)
  BY DEF Fit
<4>2. m.table \in [0..(n - 1) -> Contents]
  BY LengthIs
<4>3. g.length = n /\ \A i \in 1..n : g.data[i] = m.table[i - 1]
  BY <2>3, <3>2
<4>4. SoundTable(m.table, n)
  BY <2>7 DEF Right
<4> HIDE DEF n
<4>5. LoadedTable(g) = m.table
  BY <1>1, <4>2, <4>3, LoadedIs
<4>6. QED
  BY <4>3, <4>4, <4>5
<3>5. OnFile(f0, b.io, g)
  BY <1>1, <2>1, <2>3, <2>5, <3>4, OnFileAppend DEF g
<3>6. \A i \in 0..(n - 1) : ~InRange(i, first, last) => g.data[i + 1] = b.table[i]
<4>1. SUFFICES ASSUME NEW i \in 0..(n - 1), ~InRange(i, first, last)
               PROVE  g.data[i + 1] = b.table[i]
  OBVIOUS
<4>2. i + 1 \in 1..n /\ (i + 1) - 1 = i
  BY <1>1
<4>3. g.data[i + 1] = m.table[i]
  BY <2>3, <3>2, <4>2
<4>4. QED
  BY <2>7, <4>1, <4>3
<3>7. \E p : Opens(a, f0, cut, p) /\ Saved(a, p)
<4>1. /\ b.opened /\ ~b.mixed /\ ~b.unsaved /\ Length(b) = n
      /\ g.length = Length(b) /\ g.used = b.used
      /\ Len(g.data) \in {Length(b), Length(b) + 1}
  BY <1>5, <2>3, <2>7, <3>2, <3>3
<4>2. SameOutside(b, g, first, last)
  BY <3>6, <4>1 DEF SameOutside
<4>3. first \in 0..(Length(b) - 1) /\ last \in 0..(Length(b) - 1)
  BY <4>1
<4> HIDE DEF n
<4>4. b \in Masters /\ Right(b, cut) /\ OnFile(f0, b.io, g)
  BY <1>3, <3>5
<4>5. /\ b.opened /\ ~b.mixed /\ ~b.unsaved /\ ~g.mixed
      /\ g.length = Length(b) /\ g.used = b.used
      /\ Len(g.data) \in {Length(b), Length(b) + 1}
  BY <3>3, <4>1
<4> HIDE DEF u
<4>6. \E p : /\ Opens(WriteHashRangeToFile(b, first, last), f0, cut, p)
             /\ Saved(WriteHashRangeToFile(b, first, last), p)
  BY <4>2, <4>3, <4>4, <4>5, RangeWritten
<4>7. QED
  BY <4>6
<3>8. FileKept(a, f0, cut)
  BY <1>2, <1>5, <3>7 DEF FileKept
<3>9. QED
  BY <1>2, <1>3, <3>8
<2>8. QED
  BY <2>4, <2>6, <2>7
<1>6. QED
  BY <1>4, <1>5

-----------------------------------------------------------------------------
(* Deletion, with the file. *)

\* The steps of DeleteFingerprint.
Counted(m) == [m EXCEPT !.used = @ - 1]

\* The count is written,
Headed(m, updateFile) ==
  IF updateFile THEN WriteUsedItemCountToFile(Counted(m)) ELSE Counted(m)

\* the run is emptied,
Emptied(m, fp, updateFile) ==
  [Headed(m, updateFile) EXCEPT
     !.table = ClearRun(m.table, Length(m), HashFingerprint(fp, Length(m))),
     !.used = @ - Cardinality(Moved(m.table, Length(m), fp))]

\* and what it held besides is put back.
Refilled(m, fp, updateFile) ==
  InsertAll(Emptied(m, fp, updateFile), Shuffled(m.table, Length(m), fp))

\* These are the steps,
LEMMA DeletionSteps ==
  ASSUME NEW m, NEW fp, NEW updateFile
  PROVE  DeleteFingerprint(m, fp, updateFile) =
           LET n == Length(m)
               h == HashFingerprint(fp, n)
               b == Refilled(m, fp, updateFile)
           IN  IF ~IsVisited(m.table, n, fp) THEN m
               ELSE IF updateFile
                 THEN WriteHashRangeToFile(b, h,
                        After(h, RunLength(m.table, n, h) - 1, n))
                 ELSE [b EXCEPT !.unsaved = TRUE]
BY Zenon DEF DeleteFingerprint, Refilled, Emptied, Headed, Counted

\* the first counts,
LEMMA CountedFields ==
  ASSUME NEW m \in Masters
  PROVE  LET a == Counted(m)
         IN  /\ a \in Masters /\ Alike(a, m) /\ a.table = m.table
             /\ a.used = m.used - 1 /\ a.used \in Int
             /\ a.opened = m.opened /\ a.io = m.io /\ a.unsaved = m.unsaved
<1> DEFINE u == m.used - 1
           a == [m EXCEPT !.used = u]
<1>1. u \in Int
<2>1. m.used \in Int
  BY DEF Masters
<2>2. QED
  BY <2>1
<1>2. Counted(m) = a
  BY DEF Counted
<1> HIDE DEF u
<1>3. a \in Masters
  BY <1>1 DEF Masters
<1>4. /\ a.table = m.table /\ a.used = u /\ a.building = m.building
      /\ a.added = m.added /\ a.deleted = m.deleted /\ a.mixed = m.mixed
      /\ a.opened = m.opened /\ a.io = m.io /\ a.unsaved = m.unsaved
  BY DEF Masters
<1> HIDE DEF a
<1>5. QED
  BY <1>1, <1>2, <1>3, <1>4 DEF Alike, u

\* the second posts,
LEMMA HeadedFields ==
  ASSUME NEW m \in Masters, NEW updateFile \in BOOLEAN
  PROVE  LET a == Headed(m, updateFile)
         IN  /\ a \in Masters /\ Alike(a, m) /\ a.table = m.table
             /\ a.used = m.used - 1
             /\ a.opened = m.opened /\ a.unsaved = m.unsaved
             /\ a.io = IF updateFile /\ m.opened
                       THEN Append(m.io, Used(Counted(m))) ELSE m.io
<1> DEFINE c == Counted(m)
           a == Headed(m, updateFile)
           t == Used(c)
<1>1. /\ c \in Masters /\ Alike(c, m) /\ c.table = m.table /\ c.used = m.used - 1
      /\ c.opened = m.opened /\ c.io = m.io /\ c.unsaved = m.unsaved
  BY CountedFields
<1>2. t \in WriteTasks
  BY <1>1, NoFileFits, PerformUsed
<1> HIDE DEF c
<1>3. CASE updateFile /\ m.opened
<2>1. a = PostIOTasks(c, <<t>>)
  BY <1>1, <1>3 DEF Headed, WriteUsedItemCountToFile, c
<2> HIDE DEF t, a
<2>2. <<t>> \in Seq(WriteTasks)
  BY <1>2
<2>3. /\ a \in Masters /\ Alike(a, c) /\ a.table = c.table /\ a.used = c.used
      /\ a.opened = c.opened /\ a.unsaved = c.unsaved /\ a.io = c.io \o <<t>>
  BY <1>1, <2>1, <2>2, PostIOTasksFields
<2>4. m.io \in Seq(WriteTasks)
  BY DEF Masters
<2>5. a.io = Append(m.io, t)
  BY <1>1, <1>2, <2>3, <2>4
<2>6. Alike(a, m)
  BY <1>1, <2>3 DEF Alike
<2>7. QED
  BY <1>1, <1>3, <2>3, <2>5, <2>6 DEF a, t, c
<1>4. CASE ~(updateFile /\ m.opened)
<2>1. a = c
  BY <1>1, <1>4 DEF Headed, WriteUsedItemCountToFile, c
<2>2. QED
  BY <1>1, <1>4, <2>1
<1>5. QED
  BY <1>3, <1>4

\* and the third empties the run.
LEMMA EmptiedFields ==
  ASSUME NEW m \in Masters, NEW fp \in Fingerprints, NEW updateFile \in BOOLEAN
  PROVE  LET a == Emptied(m, fp, updateFile)
         IN  /\ EmptiedFor(a, m, fp) /\ Alike(a, m) /\ Length(a) = Length(m)
             /\ a.opened = m.opened /\ a.unsaved = m.unsaved
             /\ a.io = IF updateFile /\ m.opened
                       THEN Append(m.io, Used(Counted(m))) ELSE m.io
<1> DEFINE n == Length(m)
           h == HashFingerprint(fp, n)
           T == ClearRun(m.table, n, h)
           c == Cardinality(Moved(m.table, n, fp))
           d == Headed(m, updateFile)
           io == IF updateFile /\ m.opened
                 THEN Append(m.io, Used(Counted(m))) ELSE m.io
           u == d.used - c
           a == [d EXCEPT !.table = T, !.used = u]
<1>1. n \in Nat \ {0} /\ m.table \in TablesOf(n) /\ fp \in Nat \ {0} /\ h \in 0..(n - 1)
<2>1. n \in Nat \ {0} /\ m.table \in TablesOf(n) /\ fp \in Nat \ {0}
  BY LengthIs, SizesAssumption
<2>2. QED
  BY <2>1, HomeSlot
<1>2. T \in [0..(n - 1) -> Contents] /\ T \in Tables
  BY <1>1, ClearedTable
<1>3. c \in Nat
  BY <1>1, MovedCounts
<1>4. /\ d \in Masters /\ Alike(d, m) /\ d.used = m.used - 1
      /\ d.opened = m.opened /\ d.unsaved = m.unsaved /\ d.io = io
  BY HeadedFields
<1>5. u \in Int /\ u = (m.used - 1) - c
<2>1. d.used \in Int
  BY <1>4 DEF Masters
<2>2. QED
  BY <1>3, <1>4, <2>1
<1>6. Emptied(m, fp, updateFile) = a
  BY DEF Emptied
<1> HIDE DEF u, T, d, c, io
<1>7. a \in Masters
  BY <1>2, <1>4, <1>5 DEF Masters
<1>8. /\ a.table = T /\ a.used = u /\ a.building = d.building
      /\ a.added = d.added /\ a.deleted = d.deleted /\ a.mixed = d.mixed
      /\ a.opened = d.opened /\ a.io = d.io /\ a.unsaved = d.unsaved
  BY <1>4 DEF Masters
<1> HIDE DEF a
<1>9. Length(a) = n
  BY <1>1, <1>2, <1>8, LengthOf
<1>10. EmptiedFor(a, m, fp)
  BY <1>5, <1>7, <1>8 DEF EmptiedFor, T, c
<1>11. Alike(a, m)
  BY <1>4, <1>8 DEF Alike
<1>12. QED
  BY <1>4, <1>6, <1>8, <1>9, <1>10, <1>11 DEF io

\* A table in use up to its last slot is one long run.
LEMMA FullTable ==
  ASSUME NEW n \in Nat \ {0}, NEW X, NEW T \in [0..(n - 1) -> X],
         NEW h \in 0..(n - 1), RunLength(T, n, h) = n
  PROVE  Cardinality(UsedSlots(T)) = n
<1>1. \A d \in 0..(n - 1) : T[After(h, d, n)] # 0
<2>1. \A d \in 0..(n - 1) : d < RunLength(T, n, h) => T[After(h, d, n)] # 0
  BY TableRunIs
<2>2. \A d \in 0..(n - 1) : d < n
  OBVIOUS
<2>3. QED
  BY <2>1, <2>2
<1>2. \A i \in 0..(n - 1) : T[i] # 0
<2>1. \A i \in 0..(n - 1) : \E d \in 0..(n - 1) : After(h, d, n) = i
  BY AfterReaches
<2>2. QED
  BY <1>1, <2>1
<1>3. UsedSlots(T) = 0..(n - 1)
  BY <1>2 DEF UsedSlots
<1>4. 0 \in Int /\ n - 1 \in Int
  OBVIOUS
<1>5. Cardinality(0..(n - 1)) = IF 0 > n - 1 THEN 0 ELSE n - 1 - 0 + 1
  BY <1>4, FS_Interval
<1>6. QED
  BY <1>3, <1>5

\* The table after a deletion is as right as the one before.
LEMMA RefilledIs ==
  ASSUME NEW m \in Masters, NEW fp \in Fingerprints, NEW updateFile \in BOOLEAN,
         NEW cut \in BOOLEAN, Right(m, cut),
         IsVisited(m.table, Length(m), fp)
  PROVE  LET n == Length(m)
             h == HashFingerprint(fp, n)
             a == Refilled(m, fp, updateFile)
         IN  /\ a \in Masters /\ Alike(a, m) /\ Length(a) = n
             /\ a.opened = m.opened /\ a.unsaved = m.unsaved
             /\ a.io = IF updateFile /\ m.opened
                       THEN Append(m.io, Used(Counted(m))) ELSE m.io
             /\ ~m.mixed => a.used = m.used - 1
             /\ ~m.mixed => \A i \in 0..(n - 1) :
                  i \notin {After(h, d, n) : d \in 0..(RunLength(m.table, n, h) - 1)}
                    => a.table[i] = m.table[i]
             /\ Right(a, cut)
<1> DEFINE n == Length(m)
           h == HashFingerprint(fp, n)
           T == m.table
           L == RunLength(T, n, h)
           e == Emptied(m, fp, updateFile)
           s == Shuffled(T, n, fp)
           a == Refilled(m, fp, updateFile)
           io == IF updateFile /\ m.opened
                 THEN Append(m.io, Used(Counted(m))) ELSE m.io
<1>1. /\ n \in Nat \ {0} /\ T \in TablesOf(n) /\ fp \in Nat \ {0}
      /\ T \in [0..(n - 1) -> Contents] /\ h \in 0..(n - 1)
<2>1. /\ n \in Nat \ {0} /\ T \in TablesOf(n) /\ fp \in Nat \ {0}
      /\ T \in [0..(n - 1) -> Contents]
  BY LengthIs, SizesAssumption
<2>2. QED
  BY <2>1, HomeSlot
<1>2. /\ EmptiedFor(e, m, fp) /\ Alike(e, m) /\ Length(e) = n
      /\ e.opened = m.opened /\ e.unsaved = m.unsaved /\ e.io = io
  BY EmptiedFields
<1> HIDE DEF e
<1>3. /\ e \in Masters /\ e.table = ClearRun(T, n, h)
      /\ e.used = (m.used - 1) - Cardinality(Moved(T, n, fp))
  BY <1>2 DEF EmptiedFor
<1>4. s \in Seq(Contents)
  BY <1>1, ShuffledIs
<1>5. a = InsertAll(e, s)
  BY DEF Refilled, e
<1>6. Extends(a, e)
  BY <1>3, <1>4, <1>5, InsertAllExtends
<1>7. ~m.mixed => /\ a.used = m.used - 1
                  /\ \A i \in 0..(n - 1) :
                       i \notin {After(h, d, n) : d \in 0..(L - 1)}
                         => a.table[i] = T[i]
<2>1. SUFFICES ASSUME ~m.mixed
               PROVE  /\ a.used = m.used - 1
                      /\ \A i \in 0..(n - 1) :
                           i \notin {After(h, d, n) : d \in 0..(L - 1)}
                             => a.table[i] = T[i]
  OBVIOUS
<2>2. SoundTable(T, n)
  BY <2>1 DEF Right
<2>3. QED
  BY <1>2, <1>5, <2>2, AllPutBack
<1> HIDE DEF a, s
<1>8. /\ a \in Masters /\ Alike(a, e) /\ Length(a) = n
      /\ a.opened = e.opened /\ a.io = e.io /\ a.unsaved = e.unsaved
      /\ (SoundTable(e.table, n) => SoundTable(a.table, n))
      /\ a.used - Cardinality(UsedSlots(a.table))
           = e.used - Cardinality(UsedSlots(e.table))
  BY <1>2, <1>6, ExtendsFields
<1>9. Alike(a, m)
  BY <1>2, <1>8 DEF Alike
<1>10. Right(a, cut)
<2>1. SUFFICES ASSUME ~a.mixed
               PROVE  SoundTable(a.table, n) /\ (~cut => Exact(a))
  BY <1>8 DEF Right
<2>2. ~m.mixed
  BY <1>9, <2>1 DEF Alike
<2>3. SoundTable(T, n) /\ (~cut => Exact(m))
  BY <2>2 DEF Right
<2>4. SoundTable(a.table, n)
  BY <1>1, <1>3, <1>8, <2>3, ClearKeepsSound
<2>5. ASSUME ~cut PROVE Exact(a)
<3>1. m.used = Cardinality(UsedSlots(T)) /\ m.used < n
  BY <2>3, <2>5 DEF Exact
<3>2. L \in 0..n /\ L # n
<4>1. L \in 0..n
  BY <1>1, TableRunIs
<4>2. m.used < n
  BY <3>1
<4>3. ASSUME L = n PROVE FALSE
<5>1. Cardinality(UsedSlots(T)) = n
  BY <1>1, <4>3, FullTable
<5>2. QED
  BY <1>1, <3>1, <5>1
<4>4. QED
  BY <4>1, <4>3
<3>3. L < n
  BY <1>1, <3>2
<3>4. Cardinality(Moved(T, n, fp)) = L - 1
  BY <1>1, <2>3, <3>3, MovedCounts
<3>5. Cardinality(UsedSlots(ClearRun(T, n, h)))
        = Cardinality(UsedSlots(T)) - Cardinality(Cleared(T, n, h))
  BY <1>1, ClearCounts
<3>6. Cardinality(Cleared(T, n, h)) = L
  BY <1>1, <3>3, ClearedIs
<3>7. m.used \in Int /\ a.used \in Int /\ e.used \in Int
  BY <1>3, <1>8 DEF Masters
<3>8. /\ Cardinality(UsedSlots(a.table)) \in Nat
      /\ Cardinality(UsedSlots(e.table)) \in Nat
  BY <1>3, <1>8, UsedIsNumber
<3> HIDE DEF L, n
<3>9. e.used = Cardinality(UsedSlots(e.table))
  BY <1>3, <3>1, <3>2, <3>4, <3>5, <3>6, <3>7
<3>10. a.used = Cardinality(UsedSlots(a.table))
  BY <1>8, <3>7, <3>8, <3>9
<3>11. a.used < n
  BY <1>1, <1>7, <2>2, <3>1, <3>7
<3>12. QED
  BY <1>8, <3>10, <3>11 DEF Exact
<2>6. QED
  BY <2>4, <2>5
<1>11. QED
  BY <1>2, <1>7, <1>8, <1>9, <1>10 DEF a

\* A deletion keeps the table right and the file what it was to it.
LEMMA DeleteFingerprintKeeps ==
  ASSUME NEW m \in Masters, NEW fp \in Fingerprints, NEW updateFile \in BOOLEAN,
         NEW f0, NEW cut \in BOOLEAN, Right(m, cut), FileKept(m, f0, cut)
  PROVE  LET a == DeleteFingerprint(m, fp, updateFile)
         IN  /\ a \in Masters /\ Alike(a, m) /\ a.opened = m.opened
             /\ Right(a, cut) /\ FileKept(a, f0, cut)
<1> DEFINE n == Length(m)
           h == HashFingerprint(fp, n)
           L == RunLength(m.table, n, h)
           b == Refilled(m, fp, updateFile)
           last == After(h, L - 1, n)
           a == DeleteFingerprint(m, fp, updateFile)
<1>1. CASE ~IsVisited(m.table, n, fp)
<2>1. a = m
  BY <1>1, DeletionSteps
<2>2. QED
  BY <2>1 DEF Alike
<1>2. CASE IsVisited(m.table, n, fp)
<2>1. /\ n \in Nat \ {0} /\ fp \in Nat \ {0} /\ h \in 0..(n - 1)
<3>1. n \in Nat \ {0} /\ fp \in Nat \ {0}
  BY LengthIs, SizesAssumption
<3>2. QED
  BY <3>1, HomeSlot
<2>2. L \in 1..n
  BY <1>2, <2>1, FoundInRun
<2>3. /\ b \in Masters /\ Alike(b, m) /\ Length(b) = n
      /\ b.opened = m.opened /\ b.unsaved = m.unsaved
      /\ b.io = IF updateFile /\ m.opened
                THEN Append(m.io, Used(Counted(m))) ELSE m.io
      /\ (~m.mixed => b.used = m.used - 1)
      /\ (~m.mixed => \A i \in 0..(n - 1) :
            i \notin {After(h, d, n) : d \in 0..(L - 1)} => b.table[i] = m.table[i])
      /\ Right(b, cut)
  BY <1>2, RefilledIs
<2>4. CASE updateFile
<3> DEFINE x == Counted(m)
<3>1. a = WriteHashRangeToFile(b, h, last)
  BY <1>2, <2>4, DeletionSteps
<3>2. /\ x \in Masters /\ Alike(x, m) /\ x.used = m.used - 1
      /\ x.unsaved = m.unsaved
  BY CountedFields
<3>3. last \in 0..(n - 1)
<4>1. L - 1 \in 0..(n - 1)
  BY <2>1, <2>2
<4>2. QED
  BY <2>1, <4>1, AfterIsSlot
<3>4. \A i \in 0..(n - 1) : ~InRange(i, h, last) =>
        i \notin {After(h, d, n) : d \in 0..(L - 1)}
<4>1. SUFFICES ASSUME NEW d \in 0..(L - 1)
               PROVE  InRange(After(h, d, n), h, last)
  OBVIOUS
<4> HIDE DEF h, L, n
<4>2. QED
  BY <2>1, <2>2 DEF InRange, After
<3> HIDE DEF b, last, x
<3>5. ~m.mixed => \A i \in 0..(n - 1) :
        ~InRange(i, h, last) => b.table[i] = m.table[i]
  BY <2>3, <3>4
<3>6. b.io = IF m.opened THEN Append(m.io, Used(x)) ELSE m.io
  BY <2>3, <2>4 DEF x
<3>7. x.mixed = m.mixed /\ b.mixed = m.mixed
  BY <2>3, <3>2 DEF Alike
<3>8. ~m.mixed => b.used = x.used
  BY <2>3, <3>2
<3>9. /\ a \in Masters /\ Alike(a, b) /\ a.opened = b.opened
      /\ Right(a, cut) /\ FileKept(a, f0, cut)
<4> HIDE DEF h, a
<4>1. Length(b) = Length(m)
  BY <2>3
<4>2. h \in 0..(Length(m) - 1) /\ last \in 0..(Length(m) - 1)
  BY <2>1, <3>3
<4>3. QED
  BY <2>3, <3>1, <3>2, <3>5, <3>6, <3>7, <3>8, <4>1, <4>2, ChangeWritten
<3>10. QED
  BY <2>3, <3>9 DEF Alike
<2>5. CASE ~updateFile
<3> DEFINE q == [b EXCEPT !.unsaved = TRUE]
<3>1. a = q
  BY <1>2, <2>5, DeletionSteps
<3> HIDE DEF b
<3>2. q \in Masters
  BY <2>3 DEF Masters
<3>3. /\ q.table = b.table /\ q.used = b.used /\ q.building = b.building
      /\ q.added = b.added /\ q.deleted = b.deleted /\ q.mixed = b.mixed
      /\ q.opened = b.opened /\ q.io = b.io /\ q.unsaved = TRUE
  BY <2>3 DEF Masters
<3> HIDE DEF q
<3>4. Right(q, cut)
  BY <2>3, <3>3, RightDepends
<3>5. q.opened = m.opened /\ q.io = m.io
  BY <2>3, <2>5, <3>3
<3>6. FileUsable(q, f0, cut)
  BY <3>5, KeptIsUsable, FileUsableDepends
<3>7. FileKept(q, f0, cut)
  BY <3>3, <3>6, UnsavedIsKept
<3>8. Alike(q, m)
  BY <2>3, <3>3 DEF Alike
<3>9. QED
  BY <3>1, <3>2, <3>4, <3>5, <3>7, <3>8
<2>6. QED
  BY <2>4, <2>5
<1>3. QED
  BY <1>1, <1>2

-----------------------------------------------------------------------------
(* Several links at once. *)

\* A finite set of numbers can be put in order.
LEMMA AscendingIs ==
  ASSUME NEW S, S \subseteq Nat, IsFiniteSet(S)
  PROVE  /\ Cardinality(S) \in Nat
         /\ Ascending(S) \in [1..Cardinality(S) -> S]
         /\ Ascending(S) \in Seq(S) /\ Len(Ascending(S)) = Cardinality(S)
<1> DEFINE Increasing(s, k) == \A i, j \in 1..k : i < j => s[i] < s[j]
           Good(k) == \A U : U \subseteq Nat /\ IsFiniteSet(U) /\ Cardinality(U) = k
                        => \E s \in [1..k -> U] : Increasing(s, k)
           N == {k \in Nat : Good(k)}
<1>1. 0 \in N
<2>1. SUFFICES ASSUME NEW U PROVE \E s \in [1..0 -> U] : Increasing(s, 0)
  OBVIOUS
<2> DEFINE s == [i \in 1..0 |-> 0]
<2>2. s \in [1..0 -> U] /\ Increasing(s, 0)
  OBVIOUS
<2>3. QED
  BY <2>2
<1>2. ASSUME NEW k \in Nat, k \in N
      PROVE  k + 1 \in N
<2>1. SUFFICES ASSUME NEW U, U \subseteq Nat, IsFiniteSet(U), Cardinality(U) = k + 1
               PROVE  \E s \in [1..(k + 1) -> U] : Increasing(s, k + 1)
  OBVIOUS
<2>2. U # {}
<3>1. SUFFICES ASSUME U = {} PROVE FALSE
  OBVIOUS
<3>2. Cardinality(U) = 0
  BY <3>1, FS_EmptySet
<3>3. QED
  BY <2>1, <3>2
<2>3. PICK x \in U : \A y \in U : x <= y
  BY <2>1, <2>2, LeastNatural
<2> DEFINE V == U \ {x}
<2>4. V \subseteq Nat /\ IsFiniteSet(V) /\ Cardinality(V) = k
<3>1. IsFiniteSet(V) /\ Cardinality(V) = Cardinality(U) - 1
  BY <2>1, <2>3, FS_RemoveElement
<3>2. QED
  BY <2>1, <3>1
<2> HIDE DEF V
<2>5. PICK t \in [1..k -> V] : Increasing(t, k)
<3>1. Good(k)
  BY <1>2
<3> HIDE DEF Increasing
<3>2. QED
  BY <2>4, <3>1
<2> DEFINE s == [i \in 1..(k + 1) |-> IF i = 1 THEN x ELSE t[i - 1]]
<2>6. \A i \in 1..(k + 1) : i # 1 => i - 1 \in 1..k /\ t[i - 1] \in V
  OBVIOUS
<2>7. V \subseteq U /\ \A y \in V : x < y
  BY <2>1, <2>3 DEF V
<2>8. s \in [1..(k + 1) -> U]
  BY <2>3, <2>6, <2>7
<2>9. ASSUME NEW i \in 1..(k + 1), NEW j \in 1..(k + 1), i < j
      PROVE  s[i] < s[j]
<3>1. j # 1 /\ s[j] = t[j - 1] /\ j - 1 \in 1..k /\ t[j - 1] \in V
  BY <2>6, <2>9
<3>2. CASE i = 1
  BY <2>7, <3>1, <3>2
<3>3. CASE i # 1
<4>1. s[i] = t[i - 1] /\ i - 1 \in 1..k /\ i - 1 < j - 1
  BY <2>6, <2>9, <3>3
<4>2. QED
  BY <2>5, <3>1, <4>1
<3>4. QED
  BY <3>2, <3>3
<2> HIDE DEF s
<2>10. QED
  BY <2>8, <2>9
<1>3. Nat \subseteq N
<2> HIDE DEF N
<2>1. QED
  BY <1>1, <1>2, SetInduction
<1> DEFINE c == Cardinality(S)
<1>4. c \in Nat
  BY FS_CardinalityType
<1>5. \E s \in [1..c -> S] : Increasing(s, c)
<2>1. Good(c)
  BY <1>3, <1>4
<2> HIDE DEF Increasing
<2>2. QED
  BY <2>1
<1>6. Ascending(S) = CHOOSE s \in [1..c -> S] : Increasing(s, c)
  BY DEF Ascending
<1>7. Ascending(S) \in [1..c -> S]
<2> HIDE DEF Increasing, c
<2>1. QED
  BY <1>5, <1>6
<1> HIDE DEF c
<1>8. Ascending(S) \in Seq(S) /\ Len(Ascending(S)) = c
  BY <1>4, <1>7
<1>9. QED
  BY <1>4, <1>7, <1>8 DEF c

\* So can some of the links.
LEMMA AscendingLinks ==
  ASSUME NEW S, S \subseteq Fingerprints
  PROVE  /\ Ascending(S) \in Seq(Fingerprints) /\ Ascending(S) \in Seq(Contents)
         /\ Len(Ascending(S)) = Cardinality(S) /\ Cardinality(S) \in Nat
<1>1. IsFiniteSet(S) /\ S \subseteq Nat
<2>1. IsFiniteSet(S)
  BY SizesAssumption, FS_Subset
<2>2. QED
  BY <2>1, SizesAssumption
<1>2. Ascending(S) \in Seq(S) /\ Len(Ascending(S)) = Cardinality(S)
      /\ Cardinality(S) \in Nat
  BY <1>1, AscendingIs
<1>3. S \subseteq Contents
  BY DEF Contents
<1>4. QED
  BY <1>2, <1>3

\* A master that went on from m, as right as m was and with its file kept.
GoesOn(m, f0, cut) ==
  {a \in Masters : /\ Alike(a, m) /\ a.opened = m.opened
                   /\ Right(a, cut) /\ FileKept(a, f0, cut)}

\* Any number of deletions, one after the other.
LEMMA DeleteAllKeeps ==
  ASSUME NEW m \in Masters, NEW fps \in Seq(Fingerprints), NEW updateFile \in BOOLEAN,
         NEW f0, NEW cut \in BOOLEAN, Right(m, cut), FileKept(m, f0, cut)
  PROVE  DeleteAll(m, fps, updateFile) \in GoesOn(m, f0, cut)
<1> DEFINE N == Len(fps)
           V == GoesOn(m, f0, cut)
           One(v, k) == DeleteFingerprint(v, fps[k], updateFile)
           Body(g) == [k \in 0..N |-> IF k = 0 THEN m ELSE One(g[k - 1], k)]
           left == CHOOSE g : g = Body(g)
           step == [k \in 1..N |-> [v \in V |-> One(v, k)]]
<1>1. N \in Nat
  OBVIOUS
<1>2. m \in V
  BY DEF GoesOn, Alike
<1>3. \A k \in 1..N, v \in V : One(v, k) \in V
<2>1. SUFFICES ASSUME NEW k \in 1..N, NEW v \in V PROVE One(v, k) \in V
  OBVIOUS
<2>2. fps[k] \in Fingerprints
  OBVIOUS
<2>3. /\ v \in Masters /\ Alike(v, m) /\ v.opened = m.opened
      /\ Right(v, cut) /\ FileKept(v, f0, cut)
  BY DEF GoesOn
<2>4. /\ One(v, k) \in Masters /\ Alike(One(v, k), v) /\ One(v, k).opened = v.opened
      /\ Right(One(v, k), cut) /\ FileKept(One(v, k), f0, cut)
  BY <2>2, <2>3, DeleteFingerprintKeeps
<2> HIDE DEF One
<2>5. Alike(One(v, k), m)
  BY <2>3, <2>4 DEF Alike
<2>6. QED
  BY <2>3, <2>4, <2>5 DEF GoesOn
<1> HIDE DEF One, V
<1>4. PICK f \in [0..N -> V] :
        f[0] = m /\ \A k \in 1..N : f[k] = step[k][f[k - 1]]
<2>1. StepsWithin(N, V, step)
  BY <1>3 DEF StepsWithin
<2> HIDE DEF step
<2>2. PICK f : FollowsSteps(f, N, V, m, step)
  BY <1>1, <1>2, <2>1, RecursionOnNaturals
<2>3. QED
  BY <2>2, Zenon DEF FollowsSteps
<1>5. ASSUME NEW k \in 1..N
      PROVE  f[k] = One(f[k - 1], k)
<2>1. k - 1 \in 0..N
  BY <1>1
<2>2. f[k - 1] \in V
  BY <2>1
<2>3. QED
  BY <1>4, <2>2
<1>6. f = Body(f)
<2>1. \A k \in 0..N : k = 0 \/ k \in 1..N
  BY <1>1
<2>2. \A k \in 0..N : f[k] = IF k = 0 THEN m ELSE One(f[k - 1], k)
  BY <1>4, <1>5, <2>1
<2>3. f = [k \in 0..N |-> f[k]]
  OBVIOUS
<2>4. QED
  BY <2>2, <2>3
<1>7. left = Body(left)
  BY <1>6
<1>8. DeleteAll(m, fps, updateFile) = left[N]
  BY DEF DeleteAll, One
<1> HIDE DEF left
<1>9. \A k \in 0..N : left[k] = IF k = 0 THEN m ELSE One(left[k - 1], k)
  BY <1>7, Zenon
<1>10. left[0] = m /\ \A k \in 1..N : left[k] = One(left[k - 1], k)
  BY <1>1, <1>9
<1>11. left[N] \in V
<2> DEFINE S == {k \in Nat : k <= N => left[k] \in V}
<2>1. 0 \in S
  BY <1>2, <1>10
<2>2. ASSUME NEW k \in Nat, k \in S
      PROVE  k + 1 \in S
<3>1. SUFFICES ASSUME k + 1 <= N PROVE left[k + 1] \in V
  OBVIOUS
<3>2. left[k] \in V /\ k + 1 \in 1..N /\ (k + 1) - 1 = k
  BY <1>1, <2>2, <3>1
<3>3. QED
  BY <1>3, <1>10, <3>2
<2>3. Nat \subseteq S
<3> HIDE DEF S
<3>1. QED
  BY <2>1, <2>2, SetInduction
<2>4. QED
  BY <1>1, <2>3
<1>12. QED
  BY <1>8, <1>11 DEF V

\* Deletions end with a resize, a full write, or what each of them wrote.
LEMMA DeletionsKeep ==
  ASSUME NEW m \in Masters, NEW S, S \subseteq Fingerprints, NEW granted \in BOOLEAN,
         NEW f0, NEW cut \in BOOLEAN, Right(m, cut), FileKept(m, f0, cut)
  PROVE  LET a == DeleteFingerprintsFromCurrentTable(m, S, granted)
         IN  /\ a \in Masters /\ Alike(a, m)
             /\ Right(a, cut) /\ FileKept(a, f0, cut)
<1> DEFINE bulk == Cardinality(S) > BigDelete
           p == DeleteAll(m, Ascending(S), ~bulk)
           a == DeleteFingerprintsFromCurrentTable(m, S, granted)
<1>1. p \in GoesOn(m, f0, cut)
<2>1. (~bulk) \in BOOLEAN
  OBVIOUS
<2> HIDE DEF bulk
<2>2. QED
  BY <2>1, AscendingLinks, DeleteAllKeeps
<1>2. a = p \/ a = ResizeTable(p, TRUE) \/ a = WriteFullTable(p)
  BY DEF DeleteFingerprintsFromCurrentTable, ResizeTable
<1> HIDE DEF p, a
<1>3. /\ p \in Masters /\ Alike(p, m)
      /\ Right(p, cut) /\ FileKept(p, f0, cut) /\ FileUsable(p, f0, cut)
  BY <1>1, KeptIsUsable DEF GoesOn
<1>4. CASE a = p
  BY <1>3, <1>4 DEF a
<1>5. CASE a = ResizeTable(p, TRUE)
<2>1. /\ a \in Masters /\ Alike(a, p)
      /\ Right(a, cut) /\ FileKept(a, f0, cut)
  BY <1>3, <1>5, ResizeTableKeeps
<2>2. QED
  BY <1>3, <2>1 DEF Alike, a
<1>6. CASE a = WriteFullTable(p)
<2>1. /\ a \in Masters /\ Alike(a, p)
      /\ Right(a, cut) /\ FileKept(a, f0, cut)
  BY <1>3, <1>6, WriteFullTableKeeps DEF Alike
<2>2. QED
  BY <1>3, <2>1 DEF Alike, a
<1>7. QED
  BY <1>2, <1>4, <1>5, <1>6

-----------------------------------------------------------------------------
(* Additions. *)

\* Remembering a link for the rebuild changes nothing else.
LEMMA RememberFields ==
  ASSUME NEW m \in Masters, NEW fp \in Fingerprints
  PROVE  LET a == Remember(m, fp)
         IN  /\ a \in Masters /\ a.table = m.table /\ a.used = m.used
             /\ a.building = m.building /\ a.mixed = m.mixed
             /\ a.opened = m.opened /\ a.io = m.io /\ a.unsaved = m.unsaved
<1> DEFINE d == m.deleted \ {fp}
           u == m.added \union {fp}
           a == [m EXCEPT !.deleted = d, !.added = u]
<1>1. d \in SUBSET Fingerprints /\ u \in SUBSET Fingerprints
  BY DEF Masters
<1>2. Remember(m, fp) = IF m.building THEN a ELSE m
  BY DEF Remember
<1> HIDE DEF d, u
<1>3. a \in Masters
  BY <1>1 DEF Masters
<1>4. /\ a.table = m.table /\ a.used = m.used
      /\ a.building = m.building /\ a.mixed = m.mixed
      /\ a.opened = m.opened /\ a.io = m.io /\ a.unsaved = m.unsaved
  BY DEF Masters
<1> HIDE DEF a
<1>5. CASE m.building
  BY <1>2, <1>3, <1>4, <1>5
<1>6. CASE ~m.building
  BY <1>2, <1>6
<1>7. QED
  BY <1>5, <1>6

\* A link is only added where a slot stays empty.
LEMMA RoomLeft ==
  ASSUME NEW n \in Sizes, NEW count \in Nat, count \div 8 <= n \div 10,
         NEW T \in [0..(n - 1) -> Contents], NoDuplicates(T, n),
         Cardinality(UsedSlots(T)) = count + 1
  PROVE  count + 1 < n
<1>1. n \in Nat \ {0}
  BY SizesArePositive
<1>2. Cardinality(Fingerprints) \in Nat
  BY SizesAssumption, FS_CardinalityType
<1>3. CASE n > Cardinality(Fingerprints)
<2>1. Cardinality(UsedSlots(T)) <= Cardinality(Fingerprints)
  BY <1>1, EntriesAreFingerprints
<2>2. QED
  BY <1>1, <1>2, <1>3, <2>1
<1>4. CASE n >= 50
<2>1. PICK q \in Nat, r \in 0..7 : count = 8 * q + r
<3>1. count = 8 * (count \div 8) + (count % 8) /\ count \div 8 \in Nat /\ count % 8 \in 0..7
  OBVIOUS
<3>2. QED
  BY <3>1
<2>2. PICK p \in Nat, s \in 0..9 : n = 10 * p + s
<3>1. n = 10 * (n \div 10) + (n % 10) /\ n \div 10 \in Nat /\ n % 10 \in 0..9
  BY <1>1
<3>2. QED
  BY <3>1
<2>3. count \div 8 = q /\ n \div 10 = p
  BY <2>1, <2>2
<2>4. q <= p
  BY <2>3
<2>5. QED
  BY <1>4, <2>1, <2>2, <2>4
<1>5. QED
  BY <1>3, <1>4 DEF Sizes

\* A link added or not: the table stays right, the file usable.
LEMMA TryToAddKeeps ==
  ASSUME NEW m \in Masters, NEW fp \in Fingerprints,
         NEW f0, NEW cut \in BOOLEAN,
         Right(m, cut), FileUsable(m, f0, cut)
  PROVE  LET a == TryToAddURL(m, fp)
         IN  /\ a \in Masters /\ a.building = m.building /\ a.mixed = m.mixed
             /\ a.opened = m.opened /\ a.io = m.io
             /\ Right(a, cut) /\ FileUsable(a, f0, cut)
             /\ (m.building \/ ~IsNew(m, fp)) /\ FileKept(m, f0, cut) =>
                  FileKept(a, f0, cut)
             /\ IsNew(m, fp) /\ ~m.building =>
                  /\ Length(a) = Length(m) /\ a.unsaved = m.unsaved
                  /\ a.table = AddFingerprint(m.table, Length(m), fp)
<1> DEFINE n == Length(m)
           r == Remember(m, fp)
           i == Insert(r, fp)
           t == Tell(i, "Add", fp)
           b == t.unsaved \/ m.building
           w == [t EXCEPT !.unsaved = b]
           a == TryToAddURL(m, fp)
<1>1. /\ r \in Masters /\ r.table = m.table /\ r.used = m.used
      /\ r.building = m.building /\ r.mixed = m.mixed
      /\ r.opened = m.opened /\ r.io = m.io /\ r.unsaved = m.unsaved
  BY RememberFields
<1>2. a = IF IsNew(m, fp) THEN w ELSE r
  BY DEF TryToAddURL
<1> HIDE DEF r
<1>3. Length(r) = n
  BY <1>1 DEF Length
<1>4. CASE ~IsNew(m, fp)
<2>1. a = r
  BY <1>2, <1>4
<2>2. Right(r, cut)
  BY <1>1, RightDepends
<2>3. FileUsable(r, f0, cut)
  BY <1>1, FileUsableDepends
<2>4. FileKept(m, f0, cut) => FileKept(r, f0, cut)
  BY <1>1, FileKeptDepends
<2>5. QED
  BY <1>1, <1>4, <2>1, <2>2, <2>3, <2>4
<1>5. CASE IsNew(m, fp)
<2>1. FreeSlot(m.table, n, fp) # {} /\ m.used \div 8 <= n \div 10
  BY <1>5 DEF IsNew
<2>2. /\ Extends(i, r) /\ i.table = AddFingerprint(m.table, n, fp)
      /\ i.used = m.used + 1
  BY <1>1, <1>3, <2>1, InsertExtends
<2> HIDE DEF i
<2>3. /\ i \in Masters /\ Alike(i, r) /\ Length(i) = n
      /\ i.opened = r.opened /\ i.io = r.io /\ i.unsaved = r.unsaved
      /\ (SoundTable(m.table, n) => SoundTable(i.table, n))
      /\ i.used - Cardinality(UsedSlots(i.table))
           = m.used - Cardinality(UsedSlots(m.table))
  BY <1>1, <1>3, <2>2, ExtendsFields
<2>4. /\ t \in Masters /\ Alike(t, i) /\ t.table = i.table /\ t.used = i.used
      /\ t.opened = i.opened /\ t.io = i.io /\ t.unsaved = i.unsaved
<3>1. fp \in Nat
  BY SizesAssumption
<3>2. QED
  BY <2>3, <3>1, TellFields
<2> HIDE DEF t
<2>5. b \in BOOLEAN
  BY <2>4 DEF Masters
<2> HIDE DEF b
<2>6. w \in Masters
  BY <2>4, <2>5 DEF Masters
<2>7. /\ w.table = t.table /\ w.used = t.used /\ w.building = t.building
      /\ w.added = t.added /\ w.deleted = t.deleted /\ w.mixed = t.mixed
      /\ w.opened = t.opened /\ w.io = t.io /\ w.unsaved = b
  BY <2>4 DEF Masters
<2> HIDE DEF w
<2>8. /\ w.table = i.table /\ w.used = m.used + 1 /\ Length(w) = n
      /\ w.building = m.building /\ w.mixed = m.mixed
      /\ w.opened = m.opened /\ w.io = m.io
<3>1. /\ w.table = i.table /\ w.used = m.used + 1
      /\ w.building = m.building /\ w.mixed = m.mixed
      /\ w.opened = m.opened /\ w.io = m.io
  BY <1>1, <2>2, <2>3, <2>4, <2>7 DEF Alike
<3>2. QED
  BY <2>3, <3>1 DEF Length
<2>9. Right(w, cut)
<3>1. SUFFICES ASSUME ~m.mixed
               PROVE  SoundTable(i.table, n) /\ (~cut => Exact(w))
  BY <2>8 DEF Right
<3>2. SoundTable(m.table, n) /\ (~cut => Exact(m))
  BY <3>1 DEF Right
<3>3. SoundTable(i.table, n)
  BY <2>3, <3>2
<3>4. ASSUME ~cut PROVE Exact(w)
<4>1. m.used = Cardinality(UsedSlots(m.table))
  BY <3>2, <3>4 DEF Exact
<4>2. /\ m.used \in Nat /\ Cardinality(UsedSlots(i.table)) \in Nat
      /\ i.used \in Int
  BY <2>3, <4>1, UsedIsNumber
<4>3. Cardinality(UsedSlots(i.table)) = m.used + 1
  BY <2>2, <2>3, <4>1, <4>2
<4>4. n \in Sizes /\ i.table \in [0..(n - 1) -> Contents]
  BY <2>3, LengthIs
<4>5. NoDuplicates(i.table, n)
  BY <3>3 DEF SoundTable
<4> HIDE DEF n
<4>6. m.used + 1 < n
  BY <2>1, <4>2, <4>3, <4>4, <4>5, RoomLeft
<4>7. QED
  BY <2>8, <4>3, <4>6 DEF Exact
<3>5. QED
  BY <3>3, <3>4
<2>10. FileUsable(w, f0, cut)
  BY <2>8, FileUsableDepends
<2>11. m.building => FileKept(w, f0, cut)
<3>1. m.building => w.unsaved
  BY <2>7 DEF b
<3>2. QED
  BY <2>10, <3>1, UnsavedIsKept
<2>12. ~m.building => w.unsaved = m.unsaved
<3>1. SUFFICES ASSUME ~m.building PROVE w.unsaved = m.unsaved
  OBVIOUS
<3>2. m.unsaved \in BOOLEAN /\ w.unsaved \in BOOLEAN
  BY <2>6 DEF Masters
<3>3. w.unsaved <=> m.unsaved
  BY <1>1, <2>3, <2>4, <2>7, <3>1 DEF b
<3>4. QED
  BY <3>2, <3>3
<2>13. a = w
  BY <1>2, <1>5
<2> HIDE DEF a
<2>14. QED
  BY <1>5, <2>2, <2>6, <2>8, <2>9, <2>10, <2>11, <2>12, <2>13 DEF a
<1>6. QED
  BY <1>4, <1>5

\* What AddURLs makes of a master: if a rebuild is under way the file stays
\* what it was to the table, otherwise it may be written over.
AddsOn(m, f0, cut) ==
  {a \in Masters : /\ a.building = m.building /\ a.mixed = m.mixed
                   /\ Right(a, cut) /\ FileUsable(a, f0, cut)
                   /\ (m.building => FileKept(a, f0, cut))}

\* One link of AddURLs, with the resize after it.
LEMMA AddOneKeeps ==
  ASSUME NEW m \in Masters, NEW fp \in Fingerprints, NEW granted \in BOOLEAN,
         NEW f0, NEW cut \in BOOLEAN,
         Right(m, cut), FileUsable(m, f0, cut),
         m.building => FileKept(m, f0, cut)
  PROVE  AddOne(m, fp, granted) \in AddsOn(m, f0, cut)
<1> DEFINE t == TryToAddURL(m, fp)
           a == ResizeTableIfNecessary(t, granted)
<1>1. /\ t \in Masters /\ t.building = m.building /\ t.mixed = m.mixed
      /\ Right(t, cut) /\ FileUsable(t, f0, cut)
      /\ (m.building /\ FileKept(m, f0, cut) => FileKept(t, f0, cut))
  BY TryToAddKeeps
<1>2. AddOne(m, fp, granted) = IF m.building \/ ~IsNew(m, fp) THEN t ELSE a
  BY DEF AddOne
<1> HIDE DEF t
<1>3. t \in AddsOn(m, f0, cut)
  BY <1>1 DEF AddsOn
<1>4. CASE m.building \/ ~IsNew(m, fp)
  BY <1>2, <1>3, <1>4
<1>5. CASE ~(m.building \/ ~IsNew(m, fp))
<2>1. /\ a \in Masters /\ Alike(a, t) /\ Right(a, cut)
      /\ FileUsable(a, f0, cut)
  BY <1>1, ResizeIfNecessaryKeeps
<2> HIDE DEF a
<2>2. a \in AddsOn(m, f0, cut)
  BY <1>1, <1>5, <2>1 DEF AddsOn, Alike
<2>3. QED
  BY <1>2, <1>5, <2>2
<1>6. QED
  BY <1>4, <1>5

\* All of them.
LEMMA AddAllKeeps ==
  ASSUME NEW m \in Masters, NEW fps \in Seq(Fingerprints), NEW granted \in BOOLEAN,
         NEW f0, NEW cut \in BOOLEAN, Right(m, cut), FileKept(m, f0, cut)
  PROVE  AddAll(m, fps, granted) \in AddsOn(m, f0, cut)
<1> DEFINE N == Len(fps)
           V == AddsOn(m, f0, cut)
           One(v, k) == AddOne(v, fps[k], granted)
           Body(g) == [k \in 0..N |-> IF k = 0 THEN m ELSE One(g[k - 1], k)]
           done == CHOOSE g : g = Body(g)
           step == [k \in 1..N |-> [v \in V |-> One(v, k)]]
<1>1. N \in Nat
  OBVIOUS
<1>2. m \in V
  BY KeptIsUsable DEF AddsOn
<1>3. \A k \in 1..N, v \in V : One(v, k) \in V
<2>1. SUFFICES ASSUME NEW k \in 1..N, NEW v \in V PROVE One(v, k) \in V
  OBVIOUS
<2>2. fps[k] \in Fingerprints
  OBVIOUS
<2>3. /\ v \in Masters /\ v.building = m.building /\ v.mixed = m.mixed
      /\ Right(v, cut) /\ FileUsable(v, f0, cut)
      /\ (m.building => FileKept(v, f0, cut))
  BY DEF AddsOn
<2>4. One(v, k) \in AddsOn(v, f0, cut)
  BY <2>2, <2>3, AddOneKeeps
<2> HIDE DEF One
<2>5. QED
  BY <2>3, <2>4 DEF AddsOn
<1> HIDE DEF One, V
<1>4. PICK f \in [0..N -> V] :
        f[0] = m /\ \A k \in 1..N : f[k] = step[k][f[k - 1]]
<2>1. StepsWithin(N, V, step)
  BY <1>3 DEF StepsWithin
<2> HIDE DEF step
<2>2. PICK f : FollowsSteps(f, N, V, m, step)
  BY <1>1, <1>2, <2>1, RecursionOnNaturals
<2>3. QED
  BY <2>2, Zenon DEF FollowsSteps
<1>5. ASSUME NEW k \in 1..N
      PROVE  f[k] = One(f[k - 1], k)
<2>1. k - 1 \in 0..N
  BY <1>1
<2>2. f[k - 1] \in V
  BY <2>1
<2>3. QED
  BY <1>4, <2>2
<1>6. f = Body(f)
<2>1. \A k \in 0..N : k = 0 \/ k \in 1..N
  BY <1>1
<2>2. \A k \in 0..N : f[k] = IF k = 0 THEN m ELSE One(f[k - 1], k)
  BY <1>4, <1>5, <2>1
<2>3. f = [k \in 0..N |-> f[k]]
  OBVIOUS
<2>4. QED
  BY <2>2, <2>3
<1>7. done = Body(done)
  BY <1>6
<1>8. AddAll(m, fps, granted) = done[N]
  BY DEF AddAll, One
<1> HIDE DEF done
<1>9. \A k \in 0..N : done[k] = IF k = 0 THEN m ELSE One(done[k - 1], k)
  BY <1>7, Zenon
<1>10. done[0] = m /\ \A k \in 1..N : done[k] = One(done[k - 1], k)
  BY <1>1, <1>9
<1>11. done[N] \in V
<2> DEFINE S == {k \in Nat : k <= N => done[k] \in V}
<2>1. 0 \in S
  BY <1>2, <1>10
<2>2. ASSUME NEW k \in Nat, k \in S
      PROVE  k + 1 \in S
<3>1. SUFFICES ASSUME k + 1 <= N PROVE done[k + 1] \in V
  OBVIOUS
<3>2. done[k] \in V /\ k + 1 \in 1..N /\ (k + 1) - 1 = k
  BY <1>1, <2>2, <3>1
<3>3. QED
  BY <1>3, <1>10, <3>2
<2>3. Nat \subseteq S
<3> HIDE DEF S
<3>1. QED
  BY <2>1, <2>2, SetInduction
<2>4. QED
  BY <1>1, <2>3
<1>12. QED
  BY <1>8, <1>11 DEF V

-----------------------------------------------------------------------------
(* The calls. *)

\* What every call preserves of the master.
Fine(m, f0, cut) ==
  m \in Masters /\ Right(m, cut) /\ FileKept(m, f0, cut)

\* The next call begins with nothing told, which changes nothing else.
LEMMA SilentFields ==
  ASSUME NEW m \in Masters
  PROVE  LET a == Silent(m)
         IN  /\ a \in Masters /\ Alike(a, m) /\ a.table = m.table /\ a.used = m.used
             /\ a.opened = m.opened /\ a.io = m.io /\ a.unsaved = m.unsaved
             /\ a.told = <<>>
<1> DEFINE a == [m EXCEPT !.told = <<>>]
<1>1. <<>> \in Seq(Calls)
  OBVIOUS
<1>2. a \in Masters
  BY <1>1 DEF Masters
<1>3. /\ a.table = m.table /\ a.used = m.used /\ a.building = m.building
      /\ a.added = m.added /\ a.deleted = m.deleted /\ a.mixed = m.mixed
      /\ a.opened = m.opened /\ a.io = m.io /\ a.unsaved = m.unsaved
      /\ a.told = <<>>
  BY DEF Masters
<1>4. Silent(m) = a
  BY DEF Silent
<1> HIDE DEF a
<1>5. QED
  BY <1>2, <1>3, <1>4 DEF Alike

\* The same for Fine.
LEMMA SilentIsFine ==
  ASSUME NEW m, NEW f0, NEW cut, Fine(m, f0, cut)
  PROVE  Fine(Silent(m), f0, cut)
<1>1. m \in Masters /\ Right(m, cut) /\ FileKept(m, f0, cut)
  BY DEF Fine
<1> DEFINE a == Silent(m)
<1>2. /\ a \in Masters /\ a.table = m.table /\ a.used = m.used
      /\ a.opened = m.opened /\ a.io = m.io /\ a.unsaved = m.unsaved
      /\ a.mixed = m.mixed
  BY <1>1, SilentFields DEF Alike
<1> HIDE DEF a
<1>3. Right(a, cut)
  BY <1>1, <1>2, RightDepends
<1>4. FileKept(a, f0, cut)
  BY <1>1, <1>2, FileKeptDepends
<1>5. QED
  BY <1>2, <1>3, <1>4 DEF Fine, a

\* A call to the listener keeps Fine.
LEMMA TellIsFine ==
  ASSUME NEW m, NEW f0, NEW cut, Fine(m, f0, cut),
         NEW call \in {"Add", "Reset", "NewTable"}, NEW fp \in Nat
  PROVE  Fine(Tell(m, call, fp), f0, cut)
<1>1. m \in Masters /\ Right(m, cut) /\ FileKept(m, f0, cut)
  BY DEF Fine
<1> DEFINE a == Tell(m, call, fp)
<1>2. /\ a \in Masters /\ a.table = m.table /\ a.used = m.used
      /\ a.opened = m.opened /\ a.io = m.io /\ a.unsaved = m.unsaved
      /\ a.mixed = m.mixed
  BY <1>1, TellFields DEF Alike
<1> HIDE DEF a
<1>3. Right(a, cut)
  BY <1>1, <1>2, RightDepends
<1>4. FileKept(a, f0, cut)
  BY <1>1, <1>2, FileKeptDepends
<1>5. QED
  BY <1>2, <1>3, <1>4 DEF Fine, a

\* The count is written if the file is open.
LEMMA WriteUsedFields ==
  ASSUME NEW m \in Masters
  PROVE  LET a == WriteUsedItemCountToFile(m)
         IN  /\ a \in Masters /\ Alike(a, m) /\ a.table = m.table /\ a.used = m.used
             /\ a.opened = m.opened /\ a.unsaved = m.unsaved
             /\ a.io = IF m.opened THEN Append(m.io, Used(m)) ELSE m.io
<1> DEFINE t == Used(m)
           a == WriteUsedItemCountToFile(m)
<1>1. t \in WriteTasks
  BY NoFileFits, PerformUsed
<1>2. CASE m.opened
<2>1. a = PostIOTasks(m, <<t>>)
  BY <1>2 DEF WriteUsedItemCountToFile
<2> HIDE DEF t, a
<2>2. <<t>> \in Seq(WriteTasks) /\ m.io \in Seq(WriteTasks)
  BY <1>1 DEF Masters
<2>3. /\ a \in Masters /\ Alike(a, m) /\ a.table = m.table /\ a.used = m.used
      /\ a.opened = m.opened /\ a.unsaved = m.unsaved /\ a.io = m.io \o <<t>>
  BY <2>1, <2>2, PostIOTasksFields
<2>4. a.io = Append(m.io, t)
  BY <1>1, <2>2, <2>3
<2>5. QED
  BY <1>2, <2>3, <2>4 DEF a, t
<1>3. CASE ~m.opened
<2>1. a = m
  BY <1>3 DEF WriteUsedItemCountToFile
<2>2. QED
  BY <1>3, <2>1 DEF Alike
<1>4. QED
  BY <1>2, <1>3

\* AddURL writes the count and the slot.
LEMMA AddingIsFine ==
  ASSUME NEW m, NEW fp \in Fingerprints, NEW granted \in BOOLEAN,
         NEW f0, NEW cut \in BOOLEAN, Fine(m, f0, cut),
         IsNew(m, fp), ~m.building,
         NEW i \in FreeSlot(m.table, Length(m), fp)
  PROVE  Fine(ResizeTableIfNecessary(
                WriteHashRangeToFile(
                  WriteUsedItemCountToFile(TryToAddURL(m, fp)), i, i), granted),
              f0, cut)
<1> DEFINE n == Length(m)
           t == TryToAddURL(m, fp)
           b == WriteUsedItemCountToFile(t)
           w == WriteHashRangeToFile(b, i, i)
           a == ResizeTableIfNecessary(w, granted)
<1>1. /\ m \in Masters /\ Right(m, cut) /\ FileKept(m, f0, cut)
      /\ FileUsable(m, f0, cut)
  BY KeptIsUsable DEF Fine
<1>2. /\ t \in Masters /\ t.building = m.building /\ t.mixed = m.mixed
      /\ t.opened = m.opened /\ t.io = m.io /\ Right(t, cut)
      /\ Length(t) = n /\ t.unsaved = m.unsaved
      /\ t.table = AddFingerprint(m.table, n, fp)
  BY <1>1, TryToAddKeeps
<1> HIDE DEF t
<1>3. /\ b \in Masters /\ Alike(b, t) /\ b.table = t.table /\ b.used = t.used
      /\ b.opened = t.opened /\ b.unsaved = t.unsaved
      /\ b.io = IF t.opened THEN Append(t.io, Used(t)) ELSE t.io
  BY <1>2, WriteUsedFields
<1> HIDE DEF b
<1>4. /\ i \in 0..(n - 1)
      /\ AddFingerprint(m.table, n, fp) = [m.table EXCEPT ![i] = fp]
<2>1. n \in Nat \ {0} /\ m.table \in TablesOf(n) /\ fp \in Nat \ {0}
  BY <1>1, LengthIs, SizesAssumption
<2>2. QED
  BY <2>1, AddsAtFreeSlot
<1>5. \A j \in 0..(n - 1) : ~InRange(j, i, i) => b.table[j] = m.table[j]
<2>1. SUFFICES ASSUME NEW j \in 0..(n - 1), ~InRange(j, i, i)
               PROVE  b.table[j] = m.table[j]
  OBVIOUS
<2>2. n \in Nat
  BY <1>1, LengthIs
<2>3. j # i
  BY <1>4, <2>1, <2>2 DEF InRange
<2>4. b.table = [m.table EXCEPT ![i] = fp]
  BY <1>2, <1>3, <1>4
<2>5. QED
  BY <2>3, <2>4
<1>6. Length(b) = n
  BY <1>2, <1>3 DEF Length
<1>7. Right(b, cut)
  BY <1>2, <1>3, RightDepends DEF Alike
<1>8. b.mixed = m.mixed /\ b.unsaved = m.unsaved /\ b.opened = m.opened
      /\ b.io = IF m.opened THEN Append(m.io, Used(t)) ELSE m.io
  BY <1>2, <1>3 DEF Alike
<1>9. w \in Masters /\ Right(w, cut) /\ FileKept(w, f0, cut)
<2> HIDE DEF w
<2>1. w = WriteHashRangeToFile(b, i, i)
  BY DEF w
<2>2. i \in 0..(Length(m) - 1)
  BY <1>4
<2>3. QED
  BY <1>1, <1>2, <1>3, <1>5, <1>6, <1>7, <1>8, <2>1, <2>2, ChangeWritten
<1> HIDE DEF w
<1>10. /\ a \in Masters /\ Right(a, cut) /\ FileKept(a, f0, cut)
<2>1. FileUsable(w, f0, cut)
  BY <1>9, KeptIsUsable
<2>2. QED
  BY <1>9, <2>1, ResizeIfNecessaryKeeps
<1>11. QED
  BY <1>10 DEF Fine, a, w, b, t

\* A master that was not shown the table in full: its whole table follows.
LEMMA WrittenIsFine ==
  ASSUME NEW m \in Masters, NEW f0, NEW cut \in BOOLEAN,
         Right(m, cut), FileUsable(m, f0, cut)
  PROVE  Fine(WriteFullTable(m), f0, cut)
BY WriteFullTableKeeps DEF Fine

\* AddURL of a link that is known, or while a rebuild is under way.
LEMMA AddURLIsFine ==
  ASSUME NEW m, NEW f0, NEW cut \in BOOLEAN, Fine(m, f0, cut),
         NEW fp \in Fingerprints, m.building \/ ~IsNew(m, fp)
  PROVE  Fine(TryToAddURL(m, fp), f0, cut)
<1>1. /\ m \in Masters /\ Right(m, cut) /\ FileKept(m, f0, cut)
      /\ FileUsable(m, f0, cut)
  BY KeptIsUsable DEF Fine
<1>2. QED
  BY <1>1, TryToAddKeeps DEF Fine

\* AddURLs writes the whole table, or leaves it to the rebuild.
LEMMA AddURLsIsFine ==
  ASSUME NEW m, NEW f0, NEW cut \in BOOLEAN, Fine(m, f0, cut),
         NEW S, S \subseteq Fingerprints, NEW granted \in BOOLEAN
  PROVE  LET a == AddAll(m, Ascending(S), granted)
         IN  Fine(IF a.building THEN a ELSE WriteFullTable(a), f0, cut)
<1> DEFINE a == AddAll(m, Ascending(S), granted)
<1>1. a \in AddsOn(m, f0, cut)
  BY AscendingLinks, AddAllKeeps DEF Fine
<1> HIDE DEF a
<1>2. /\ a \in Masters /\ a.building = m.building
      /\ Right(a, cut) /\ FileUsable(a, f0, cut)
      /\ (m.building => FileKept(a, f0, cut))
  BY <1>1 DEF AddsOn
<1>3. CASE a.building
  BY <1>2, <1>3 DEF Fine, a
<1>4. CASE ~a.building
<2>1. Fine(WriteFullTable(a), f0, cut)
  BY <1>2, WrittenIsFine
<2>2. QED
  BY <1>4, <2>1 DEF a
<1>5. QED
  BY <1>3, <1>4

\* DeleteURLs, and the same while a rebuild is under way.
LEMMA DeleteURLsIsFine ==
  ASSUME NEW m, NEW f0, NEW cut \in BOOLEAN, Fine(m, f0, cut),
         NEW S, S \subseteq Fingerprints, NEW granted \in BOOLEAN
  PROVE  /\ Fine(DeleteFingerprintsFromCurrentTable(m, S, granted), f0, cut)
         /\ Fine(DeleteAll([m EXCEPT !.deleted = @ \union S, !.added = @ \ S],
                           Ascending(S), FALSE), f0, cut)
<1>1. m \in Masters /\ Right(m, cut) /\ FileKept(m, f0, cut)
  BY DEF Fine
<1>2. Fine(DeleteFingerprintsFromCurrentTable(m, S, granted), f0, cut)
  BY <1>1, DeletionsKeep DEF Fine
<1> DEFINE d == m.deleted \union S
           u == m.added \ S
           b == [m EXCEPT !.deleted = d, !.added = u]
<1>3. d \in SUBSET Fingerprints /\ u \in SUBSET Fingerprints
  BY <1>1 DEF Masters
<1>4. b = [m EXCEPT !.deleted = @ \union S, !.added = @ \ S]
  OBVIOUS
<1> HIDE DEF d, u
<1>5. b \in Masters
  BY <1>1, <1>3 DEF Masters
<1>6. /\ b.table = m.table /\ b.used = m.used /\ b.opened = m.opened
      /\ b.io = m.io /\ b.unsaved = m.unsaved /\ b.mixed = m.mixed
  BY <1>1 DEF Masters
<1> HIDE DEF b
<1>7. Right(b, cut)
  BY <1>1, <1>6, RightDepends
<1>8. FileKept(b, f0, cut)
  BY <1>1, <1>6, FileKeptDepends
<1>9. DeleteAll(b, Ascending(S), FALSE) \in GoesOn(b, f0, cut)
  BY <1>5, <1>7, <1>8, AscendingLinks, DeleteAllKeeps
<1>10. Fine(DeleteAll(b, Ascending(S), FALSE), f0, cut)
  BY <1>9 DEF GoesOn, Fine
<1>11. QED
  BY <1>2, <1>4, <1>10

\* An empty table, of the size that there is or another, unsaved.
LEMMA BlankIsFine ==
  ASSUME NEW m, NEW f0, NEW cut \in BOOLEAN, Fine(m, f0, cut),
         NEW a \in Masters, NEW n \in Sizes,
         a.table = Empty(n), a.used = 0, a.unsaved, a.opened = m.opened, a.io = m.io
  PROVE  Fine(a, f0, cut)
<1>1. n \in Nat \ {0}
  BY SizesArePositive
<1>2. /\ Empty(n) \in [0..(n - 1) -> Contents] /\ SoundTable(Empty(n), n)
      /\ Cardinality(UsedSlots(Empty(n))) = 0
  BY EmptyTable
<1>3. Length(a) = n
<2>1. a.table \in [0..(n - 1) -> Contents]
  BY <1>2
<2>2. QED
  BY <1>1, <2>1, LengthOf
<1>4. Right(a, cut)
  BY <1>1, <1>2, <1>3 DEF Right, Exact
<1>5. FileUsable(a, f0, cut)
  BY KeptIsUsable, FileUsableDepends DEF Fine
<1>6. FileKept(a, f0, cut)
  BY <1>5, UnsavedIsKept
<1>7. QED
  BY <1>4, <1>6 DEF Fine

\* A resize, granted or refused.
LEMMA ResizeIsFine ==
  ASSUME NEW m, NEW f0, NEW cut \in BOOLEAN, Fine(m, f0, cut),
         NEW granted \in BOOLEAN
  PROVE  Fine(ResizeTable(m, granted), f0, cut)
<1>1. /\ m \in Masters /\ Right(m, cut) /\ FileUsable(m, f0, cut)
  BY KeptIsUsable DEF Fine
<1>2. Fine(ResizeTable(m, TRUE), f0, cut)
  BY <1>1, ResizeTableKeeps DEF Fine
<1>3. ResizeTable(m, FALSE) = m
  BY DEF ResizeTable
<1>4. QED
  BY <1>2, <1>3

\* A master that rebuilds no longer.
LEMMA NotBuildingIsFine ==
  ASSUME NEW m, NEW f0, NEW cut, Fine(m, f0, cut)
  PROVE  Fine([m EXCEPT !.building = FALSE], f0, cut)
<1>1. m \in Masters /\ Right(m, cut) /\ FileKept(m, f0, cut)
  BY DEF Fine
<1> DEFINE a == [m EXCEPT !.building = FALSE]
<1>2. a \in Masters
  BY <1>1 DEF Masters
<1>3. /\ a.table = m.table /\ a.used = m.used
      /\ a.opened = m.opened /\ a.io = m.io /\ a.unsaved = m.unsaved
      /\ a.mixed = m.mixed
  BY <1>1 DEF Masters
<1> HIDE DEF a
<1>4. Right(a, cut)
  BY <1>1, <1>3, RightDepends
<1>5. FileKept(a, f0, cut)
  BY <1>1, <1>3, FileKeptDepends
<1>6. QED
  BY <1>2, <1>4, <1>5 DEF Fine, a

\* The rebuilt table holds the links added meanwhile, less the deleted.
LEMMA RebuiltIsFine ==
  ASSUME NEW m, NEW f0, NEW cut \in BOOLEAN, Fine(m, f0, cut),
         NEW granted \in BOOLEAN
  PROVE  LET fresh == [BeginReplaceURLTable(m, NewTableSizeForCount(
                         Cardinality(History) + Cardinality(m.added)))
                       EXCEPT !.added = {}, !.deleted = {}]
             filled == InsertAll(fresh, Ascending(History) \o Ascending(m.added))
             pruned == DeleteFingerprintsFromCurrentTable(filled, m.deleted,
                                                          granted)
         IN  Fine(WriteFullTable(Tell(pruned, "NewTable", 0)), f0, cut)
<1> DEFINE n == NewTableSizeForCount(Cardinality(History) + Cardinality(m.added))
           blank == BeginReplaceURLTable(m, n)
           fresh == [blank EXCEPT !.added = {}, !.deleted = {}]
           links == Ascending(History) \o Ascending(m.added)
           filled == InsertAll(fresh, links)
           pruned == DeleteFingerprintsFromCurrentTable(filled, m.deleted, granted)
<1>1. m \in Masters /\ m.added \subseteq Fingerprints /\ m.deleted \subseteq Fingerprints
  BY DEF Fine, Masters
<1>2. /\ n \in Sizes /\ n > Cardinality(m.added) /\ Cardinality(m.added) \in Nat
      /\ links \in Seq(Contents) /\ Len(links) = Cardinality(m.added)
<2>1. /\ Ascending(m.added) \in Seq(Contents)
      /\ Len(Ascending(m.added)) = Cardinality(m.added)
      /\ Cardinality(m.added) \in Nat
  BY <1>1, AscendingLinks
<2>2. Ascending(History) \in Seq(Contents) /\ Len(Ascending(History)) = Cardinality(History)
  BY AscendingLinks DEF History
<2>3. Cardinality(History) = 0
  BY FS_EmptySet DEF History
<2>4. n \in Sizes /\ n > Cardinality(m.added)
<3>1. Cardinality(History) + Cardinality(m.added) = Cardinality(m.added)
  BY <2>1, <2>3
<3>2. QED
  BY <2>1, <3>1, NewSizes
<2>5. links \in Seq(Contents)
  BY <2>1, <2>2
<2>6. Len(links) = Cardinality(m.added)
<3>1. Len(links) = Len(Ascending(History)) + Len(Ascending(m.added))
  BY <2>1, <2>2
<3>2. QED
  BY <2>1, <2>2, <2>3, <3>1
<2>7. QED
  BY <2>1, <2>4, <2>5, <2>6
<1> HIDE DEF n, links
<1>3. /\ blank \in Masters /\ blank.table = Empty(n) /\ blank.used = 0 /\ blank.unsaved
      /\ blank.opened = m.opened /\ blank.io = m.io
  BY <1>1, <1>2, BlankTable
<1> HIDE DEF blank
<1>4. fresh \in Masters
<2>1. {} \in SUBSET Fingerprints
  OBVIOUS
<2>2. QED
  BY <1>3, <2>1 DEF Masters
<1>5. /\ fresh.table = Empty(n) /\ fresh.used = 0 /\ fresh.unsaved
      /\ fresh.opened = m.opened /\ fresh.io = m.io
  BY <1>3 DEF Masters
<1> HIDE DEF fresh
<1>6. Fine(fresh, f0, cut)
  BY <1>2, <1>4, <1>5, BlankIsFine
<1>7. /\ Length(fresh) = n /\ n \in Nat \ {0} /\ SoundTable(fresh.table, n)
      /\ Cardinality(UsedSlots(fresh.table)) = 0
<2>1. n \in Nat \ {0}
  BY <1>2, SizesArePositive
<2>2. /\ Empty(n) \in [0..(n - 1) -> Contents] /\ SoundTable(Empty(n), n)
      /\ Cardinality(UsedSlots(Empty(n))) = 0
  BY <1>2, EmptyTable
<2>3. fresh.table \in [0..(n - 1) -> Contents]
  BY <1>5, <2>2
<2>4. Length(fresh) = n
  BY <2>1, <2>3, LengthOf
<2>5. QED
  BY <1>5, <2>1, <2>2, <2>4
<1>8. /\ Extends(filled, fresh)
      /\ filled.used - fresh.used \in 0..Cardinality({j \in 1..Len(links) : links[j] # 0})
  BY <1>2, <1>4, InsertAllExtends
<1> HIDE DEF filled
<1>9. /\ filled \in Masters /\ filled.opened = fresh.opened /\ filled.io = fresh.io
      /\ filled.unsaved = fresh.unsaved /\ Length(filled) = n
      /\ SoundTable(filled.table, n)
      /\ filled.used - Cardinality(UsedSlots(filled.table)) = 0
<2>1. /\ filled \in Masters /\ filled.opened = fresh.opened /\ filled.io = fresh.io
      /\ filled.unsaved = fresh.unsaved /\ Length(filled) = Length(fresh)
      /\ SoundTable(fresh.table, Length(fresh)) =>
           SoundTable(filled.table, Length(fresh))
      /\ filled.used - Cardinality(UsedSlots(filled.table))
           = fresh.used - Cardinality(UsedSlots(fresh.table))
  BY <1>8, ExtendsFields
<2>2. fresh.used - Cardinality(UsedSlots(fresh.table)) = 0
  BY <1>5, <1>7
<2>3. QED
  BY <1>7, <2>1, <2>2
<1>10. filled.used <= Cardinality(m.added)
<2> DEFINE J == {j \in 1..Len(links) : links[j] # 0}
<2>1. IsFiniteSet(1..Len(links)) /\ Cardinality(1..Len(links)) = Cardinality(m.added)
<3>1. 1 \in Int /\ Cardinality(m.added) \in Int
  BY <1>2
<3>2. QED
  BY <1>2, <3>1, FS_Interval
<2>2. Cardinality(J) <= Cardinality(m.added) /\ Cardinality(J) \in Nat
<3>1. J \subseteq 1..Len(links)
  OBVIOUS
<3> HIDE DEF J
<3>2. QED
  BY <2>1, <3>1, FS_Subset, FS_CardinalityType
<2>3. filled.used - fresh.used \in 0..Cardinality(J)
  BY <1>8
<2> HIDE DEF J
<2>4. filled.used \in Int
  BY <1>9 DEF Masters
<2>5. QED
  BY <1>2, <1>5, <2>2, <2>3, <2>4
<1>11. Right(filled, cut)
<2>1. filled.used \in Int /\ Cardinality(UsedSlots(filled.table)) \in Int
  BY <1>9, UsedIsNumber
<2>2. Exact(filled)
  BY <1>2, <1>7, <1>9, <1>10, <2>1 DEF Exact
<2>3. QED
  BY <1>9, <2>2 DEF Right
<1>12. FileKept(filled, f0, cut)
<2>1. FileUsable(fresh, f0, cut)
  BY <1>6, KeptIsUsable DEF Fine
<2>2. FileUsable(filled, f0, cut)
  BY <1>9, <2>1, FileUsableDepends
<2>3. QED
  BY <1>5, <1>9, <2>2, UnsavedIsKept
<1>13. Fine(pruned, f0, cut)
  BY <1>1, <1>9, <1>11, <1>12, DeletionsKeep DEF Fine
<1> HIDE DEF pruned
<1>14. Fine(Tell(pruned, "NewTable", 0), f0, cut)
  BY <1>13, TellIsFine
<1> DEFINE told == Tell(pruned, "NewTable", 0)
<1> HIDE DEF told
<1>15. /\ told \in Masters /\ Right(told, cut) /\ FileUsable(told, f0, cut)
  BY <1>14, KeptIsUsable DEF Fine, told
<1>16. Fine(WriteFullTable(told), f0, cut)
  BY <1>15, WrittenIsFine
<1>17. QED
  BY <1>16 DEF told, pruned, filled, fresh, blank, n, links

\* What DeleteAllURLs leaves.
LEMMA AllDeletedIsFine ==
  ASSUME NEW m, NEW f0, NEW cut \in BOOLEAN, Fine(m, f0, cut),
         NEW granted \in BOOLEAN
  PROVE  LET a == [m EXCEPT !.added = {}, !.deleted = {}, !.used = 0,
                            !.table = Empty(Length(m)),
                            !.unsaved = TRUE, !.mixed = FALSE]
         IN  Fine(Tell(IF MustResize(a) THEN ResizeTable(a, granted)
                       ELSE WriteFullTable(a), "Reset", 0), f0, cut)
<1> DEFINE n == Length(m)
           blank == Empty(n)
           a == [m EXCEPT !.added = {}, !.deleted = {}, !.used = 0,
                          !.table = blank, !.unsaved = TRUE, !.mixed = FALSE]
<1>1. m \in Masters
  BY DEF Fine
<1>2. n \in Sizes
  BY <1>1, LengthIs
<1>3. blank \in Tables
  BY <1>2, EmptyTable
<1> HIDE DEF blank
<1>4. a \in Masters
<2> DEFINE b == [m EXCEPT !.added = {}, !.deleted = {}, !.used = 0]
<2>1. {} \in SUBSET Fingerprints
  OBVIOUS
<2>2. b \in Masters
<3>1. 0 \in Int
  OBVIOUS
<3>2. [m EXCEPT !.added = {}, !.deleted = {}] \in Masters
  BY <1>1, <2>1 DEF Masters
<3>3. [[m EXCEPT !.added = {}, !.deleted = {}] EXCEPT !.used = 0] \in Masters
  BY <3>1, <3>2 DEF Masters
<3>4. b = [[m EXCEPT !.added = {}, !.deleted = {}] EXCEPT !.used = 0]
  OBVIOUS
<3>5. QED
  BY <3>3, <3>4
<2>3. [b EXCEPT !.table = blank, !.unsaved = TRUE, !.mixed = FALSE] \in Masters
  BY <1>3, <2>2 DEF Masters
<2>4. a = [b EXCEPT !.table = blank, !.unsaved = TRUE, !.mixed = FALSE]
  BY <1>1 DEF Masters
<2>5. QED
  BY <2>3, <2>4
<1>5. /\ a.table = blank /\ a.used = 0 /\ a.unsaved
      /\ a.opened = m.opened /\ a.io = m.io
  BY <1>1 DEF Masters
<1> HIDE DEF a
<1>6. Fine(a, f0, cut)
  BY <1>2, <1>4, <1>5, BlankIsFine DEF blank
<1>7. /\ a \in Masters /\ Right(a, cut) /\ FileUsable(a, f0, cut)
  BY <1>6, KeptIsUsable DEF Fine
<1>8. Fine(ResizeTable(a, granted), f0, cut) /\ Fine(WriteFullTable(a), f0, cut)
  BY <1>6, <1>7, ResizeIsFine, WrittenIsFine
<1> DEFINE b == IF MustResize(a) THEN ResizeTable(a, granted) ELSE WriteFullTable(a)
<1>9. Fine(b, f0, cut)
  BY <1>8
<1> HIDE DEF b
<1>10. Fine(Tell(b, "Reset", 0), f0, cut)
  BY <1>9, TellIsFine
<1>11. QED
  BY <1>10 DEF b, a, blank, n

\* The master before the first call of Init.
LEMMA ScratchIs ==
  /\ Scratch \in Masters /\ ~Scratch.opened /\ Scratch.io = <<>>
  /\ ~Scratch.unsaved /\ ~Scratch.mixed
  /\ \A c \in BOOLEAN : Right(Scratch, c)
<1> DEFINE n == DefaultTableSize
           T == Empty(n)
<1>1. n \in Sizes /\ n \in Nat \ {0}
  BY DefaultSize, SizesArePositive
<1>2. /\ T \in Tables /\ T \in [0..(n - 1) -> Contents] /\ SoundTable(T, n)
      /\ Cardinality(UsedSlots(T)) = 0
  BY <1>1, EmptyTable
<1>3. /\ Scratch.table = T /\ Scratch.used = 0 /\ Scratch.io = <<>>
      /\ ~Scratch.opened /\ ~Scratch.unsaved /\ ~Scratch.mixed
  BY DEF Scratch
<1>4. Scratch \in Masters
<2>1. {} \in SUBSET Fingerprints /\ <<>> \in Seq(Calls) /\ <<>> \in Seq(WriteTasks)
  OBVIOUS
<2>2. Scratch = [table |-> T, used |-> 0, building |-> TRUE,
                 added |-> {}, deleted |-> {}, opened |-> FALSE, io |-> <<>>,
                 told |-> <<>>, unsaved |-> FALSE, mixed |-> FALSE]
  BY DEF Scratch
<2> HIDE DEF T
<2>3. QED
  BY <1>2, <2>1, <2>2 DEF Masters
<1>5. Length(Scratch) = n
  BY <1>1, <1>2, <1>3, LengthOf
<1> HIDE DEF n, T
<1>6. Exact(Scratch) /\ SoundTable(Scratch.table, Length(Scratch))
  BY <1>1, <1>2, <1>3, <1>5 DEF Exact
<1>7. QED
  BY <1>3, <1>4, <1>6 DEF Right

\* A start that cannot load the file leaves it alone.
LEMMA ScratchIsFine ==
  ASSUME NEW f \in FileStates, NEW cut \in BOOLEAN, Fit(f), CountFit(f, cut)
  PROVE  Fine(Scratch, f, cut)
<1>1. FileKept(Scratch, f, cut)
  BY ScratchIs DEF FileKept, Unopened
<1>2. QED
  BY <1>1, ScratchIs DEF Fine

\* A table read from a file that loads.
LEMMA LoadedIsFine ==
  ASSUME NEW f \in FileStates, NEW cut \in BOOLEAN, Fit(f), CountFit(f, cut),
         Loads(f)
  PROVE  Fine([Scratch EXCEPT !.table = LoadedTable(f), !.used = f.used,
                              !.building = FALSE, !.opened = TRUE,
                              !.mixed = f.mixed], f, cut)
<1> DEFINE n == f.length
           T == LoadedTable(f)
           u == f.used
           x == f.mixed
           a == [Scratch EXCEPT !.table = T, !.used = u, !.building = FALSE,
                                !.opened = TRUE, !.mixed = x]
<1>1. /\ n \in Sizes \union {0} /\ u \in Int /\ f.data \in Seq(Contents) /\ x \in BOOLEAN
  BY FileFields
<1>2. n > 0 /\ Len(f.data) = n /\ u <= n
  BY DEF Loads
<1>3. n \in Sizes /\ n \in Nat \ {0}
  BY <1>1, <1>2, SizesArePositive
<1>4. T \in [0..(n - 1) -> Contents] /\ \A i \in 0..(n - 1) : T[i] = f.data[i + 1]
<2>1. \A i \in 0..(n - 1) : f.data[i + 1] \in Contents
  BY <1>1, <1>2, <1>3
<2>2. T = [i \in 0..(n - 1) |-> f.data[i + 1]]
  BY DEF LoadedTable
<2>3. QED
  BY <2>1, <2>2
<1>5. T \in Tables
  BY <1>3, <1>4 DEF Tables
<1>6. DataTable(f) = T
<2>1. \A i \in 1..n : f.data[i] = T[i - 1]
  BY <1>3, <1>4
<2> HIDE DEF T
<2>2. QED
  BY <1>2, <1>3, <1>4, <2>1, DataTableIs
<1> HIDE DEF n, T, u, x
<1>7. a \in Masters
  BY <1>1, <1>5, ScratchIs DEF Masters
<1>8. /\ a.table = T /\ a.used = u /\ a.opened /\ a.mixed = x /\ a.io = <<>>
      /\ ~a.unsaved
  BY <1>1, ScratchIs DEF Masters
<1> HIDE DEF a
<1>9. Length(a) = n
  BY <1>3, <1>4, <1>8, LengthOf
<1>10. ~x => SoundTable(T, n)
  BY DEF Fit, T, n, x
<1>11. ~x /\ ~cut => u = Cardinality(UsedSlots(T)) /\ u < n
  BY DEF CountFit, T, n, x, u
<1>12. Right(a, cut)
  BY <1>8, <1>9, <1>10, <1>11 DEF Right, Exact
<1>13. Opens(a, f, cut, f)
<2>1. OnFile(f, <<>>, f)
  BY OnFileNone
<2>2. DataFit(f)
<3>1. f.mixed \/ SoundTable(DataTable(f), Len(f.data))
  BY <1>2, <1>6, <1>10 DEF x, n
<3>2. QED
  BY <3>1 DEF DataFit
<2>3. QED
  BY <1>8, <2>1, <2>2 DEF Opens
<1>14. ~a.mixed => Saved(a, f)
<2>1. \A i \in 1..n : f.data[i] = T[i - 1]
  BY <1>3, <1>4
<2>2. QED
  BY <1>2, <1>8, <1>9, <2>1 DEF Saved, n, u, x
<1>15. FileKept(a, f, cut)
  BY <1>8, <1>13, <1>14 DEF FileKept
<1>16. QED
  BY <1>7, <1>12, <1>15 DEF Fine, a, T, u, x

-----------------------------------------------------------------------------
(* The invariant and the actions. *)

\* The state of a master that runs, and of one that does not.
Works == Fine(master, disk, crashes > 0) /\ closing = <<>>

Stopped ==
  /\ master = Scratch
  /\ closing \in Seq(WriteTasks)
  /\ \E f : OnFile(disk, closing, f) /\ CountFit(f, crashes > 0)

\* The inductive invariant.
TableInv ==
  /\ running \in BOOLEAN
  /\ ops \in 0..MaxOps /\ crashes \in 0..MaxCrashes
  /\ IF running THEN Works ELSE Stopped

\* A running master is Fine when a call begins.
LEMMA RunningTold ==
  ASSUME TableInv, running
  PROVE  /\ Fine(Silent(master), disk, crashes > 0) /\ Silent(master) \in Masters
         /\ Silent(master).table = master.table /\ Length(Silent(master)) = Length(master)
         /\ Silent(master).used = master.used
         /\ Silent(master).building = master.building
         /\ Silent(master).added = master.added
         /\ Silent(master).deleted = master.deleted
         /\ (crashes > 0) \in BOOLEAN
<1>1. master \in Masters /\ Fine(master, disk, crashes > 0)
  BY DEF TableInv, Works, Fine
<1>2. Fine(Silent(master), disk, crashes > 0)
  BY <1>1, SilentIsFine
<1>3. /\ Silent(master) \in Masters /\ Alike(Silent(master), master)
      /\ Silent(master).table = master.table /\ Silent(master).used = master.used
  BY <1>1, SilentFields
<1>4. Length(Silent(master)) = Length(master)
  BY <1>3 DEF Length
<1>5. QED
  BY <1>2, <1>3, <1>4 DEF Alike

\* Memory is granted or refused.
LEMMA GrantedIs == Granted \subseteq BOOLEAN
BY DEF Granted

\* A call leaves the rest alone.
LEMMA CallKeeps ==
  ASSUME TableInv, running, Fine(master', disk, crashes > 0), ops' \in 0..MaxOps,
         UNCHANGED <<running, closing, disk, crashes>>
  PROVE  TableInv'
BY DEF TableInv, Works

\* Every call counts itself.
LEMMA CallCounts ==
  ASSUME TableInv, NEW operation, Call(operation)
  PROVE  running /\ ops' \in 0..MaxOps /\ UNCHANGED <<running, closing, disk, crashes>>
BY SizesAssumption DEF TableInv, Call

\* It holds at first,
LEMMA InitHolds == MasterInit => TableInv
<1> SUFFICES ASSUME MasterInit PROVE TableInv
  OBVIOUS
<1>1. ~running /\ master = Scratch /\ closing = <<>> /\ disk = NoFile /\ ops = 0 /\ crashes = 0
  BY DEF MasterInit
<1>2. OnFile(disk, closing, NoFile) /\ CountFit(NoFile, crashes > 0)
  BY <1>1, NoFileFits, OnFileNone
<1>3. closing \in Seq(WriteTasks)
  BY <1>1
<1>4. Stopped
  BY <1>1, <1>2, <1>3 DEF Stopped
<1>5. ops \in 0..MaxOps /\ crashes \in 0..MaxCrashes
  BY <1>1, SizesAssumption
<1>6. running \in BOOLEAN
  BY DEF MasterInit
<1>7. QED
  BY <1>1, <1>4, <1>5, <1>6 DEF TableInv

\* and after each action.
LEMMA AddURLHolds == TableInv /\ AddURL => TableInv'
<1> SUFFICES ASSUME TableInv, AddURL PROVE TableInv'
  OBVIOUS
<1>1. running /\ ops' \in 0..MaxOps /\ UNCHANGED <<running, closing, disk, crashes>>
  BY CallCounts DEF AddURL
<1>2. PICK fp \in Fingerprints :
        LET m == TryToAddURL(Silent(master), fp)
            i == CHOOSE s \in FreeSlot(master.table, Length(master), fp) : TRUE
        IN  master' \in
              IF master.building \/ ~IsNew(master, fp) THEN {m}
              ELSE {ResizeTableIfNecessary(
                      WriteHashRangeToFile(WriteUsedItemCountToFile(m), i, i),
                      granted) : granted \in Granted}
  BY DEF AddURL
<1> DEFINE q == Silent(master)
           m == TryToAddURL(q, fp)
           i == CHOOSE s \in FreeSlot(master.table, Length(master), fp) : TRUE
<1>3. /\ Fine(q, disk, crashes > 0)
      /\ q.table = master.table /\ Length(q) = Length(master)
      /\ q.used = master.used /\ q.building = master.building
      /\ (crashes > 0) \in BOOLEAN
  BY <1>1, RunningTold
<1>4. IsNew(q, fp) <=> IsNew(master, fp)
  BY <1>3 DEF IsNew
<1>5. CASE master.building \/ ~IsNew(master, fp)
<2>1. master' = m
  BY <1>2, <1>5
<2> HIDE DEF q
<2>2. Fine(m, disk, crashes > 0)
  BY <1>3, <1>4, <1>5, AddURLIsFine
<2>3. QED
  BY <1>1, <2>1, <2>2, CallKeeps
<1>6. CASE ~(master.building \/ ~IsNew(master, fp))
<2>1. PICK granted \in Granted :
        master' = ResizeTableIfNecessary(
                    WriteHashRangeToFile(WriteUsedItemCountToFile(m), i, i), granted)
  BY <1>2, <1>6
<2>2. i \in FreeSlot(q.table, Length(q), fp)
  BY <1>3, <1>6 DEF IsNew
<2> HIDE DEF q, i
<2>3. granted \in BOOLEAN
  BY GrantedIs
<2>4. Fine(master', disk, crashes > 0)
  BY <1>3, <1>4, <1>6, <2>1, <2>2, <2>3, AddingIsFine
<2>5. QED
  BY <1>1, <2>4, CallKeeps
<1>7. QED
  BY <1>5, <1>6

\* AddURLs.
LEMMA AddURLsHolds == TableInv /\ AddURLs => TableInv'
<1> SUFFICES ASSUME TableInv, AddURLs PROVE TableInv'
  OBVIOUS
<1>1. running /\ ops' \in 0..MaxOps /\ UNCHANGED <<running, closing, disk, crashes>>
  BY CallCounts DEF AddURLs
<1>2. PICK S \in SUBSET Fingerprints, granted \in Granted :
        LET m == AddAll(Silent(master), Ascending(S), granted)
        IN  master' = IF m.building THEN m ELSE WriteFullTable(m)
  BY DEF AddURLs
<1>3. Fine(Silent(master), disk, crashes > 0) /\ (crashes > 0) \in BOOLEAN
      /\ granted \in BOOLEAN
  BY <1>1, RunningTold, GrantedIs
<1>4. Fine(master', disk, crashes > 0)
  BY <1>2, <1>3, AddURLsIsFine
<1>5. QED
  BY <1>1, <1>4, CallKeeps

\* DeleteAllURLs.
LEMMA DeleteAllURLsHolds == TableInv /\ DeleteAllURLs => TableInv'
<1> SUFFICES ASSUME TableInv, DeleteAllURLs PROVE TableInv'
  OBVIOUS
<1>1. running /\ ops' \in 0..MaxOps /\ UNCHANGED <<running, closing, disk, crashes>>
  BY CallCounts DEF DeleteAllURLs
<1>2. /\ Fine(Silent(master), disk, crashes > 0) /\ (crashes > 0) \in BOOLEAN
      /\ Length(Silent(master)) = Length(master)
  BY <1>1, RunningTold
<1> DEFINE q == Silent(master)
           a == [q EXCEPT !.added = {}, !.deleted = {}, !.used = 0,
                          !.table = Empty(Length(q)),
                          !.unsaved = TRUE, !.mixed = FALSE]
<1>3. PICK granted \in Granted :
        master' = Tell(IF MustResize(a) THEN ResizeTable(a, granted)
                       ELSE WriteFullTable(a), "Reset", 0)
  BY <1>2 DEF DeleteAllURLs
<1>4. granted \in BOOLEAN
  BY GrantedIs
<1> HIDE DEF q
<1>5. Fine(q, disk, crashes > 0)
  BY <1>2 DEF q
<1>6. Fine(master', disk, crashes > 0)
  BY <1>2, <1>3, <1>4, <1>5, AllDeletedIsFine
<1>7. QED
  BY <1>1, <1>6, CallKeeps

\* DeleteURLs.
LEMMA DeleteURLsHolds == TableInv /\ DeleteURLs => TableInv'
<1> SUFFICES ASSUME TableInv, DeleteURLs PROVE TableInv'
  OBVIOUS
<1>1. running /\ ops' \in 0..MaxOps /\ UNCHANGED <<running, closing, disk, crashes>>
  BY CallCounts DEF DeleteURLs
<1> DEFINE m == Tell(Silent(master), "Reset", 0)
<1>2. PICK S \in SUBSET Fingerprints \ {{}} :
        LET noted == [m EXCEPT !.deleted = @ \union S, !.added = @ \ S]
        IN  master' \in
              IF master.building
                THEN {DeleteAll(noted, Ascending(S), FALSE)}
                ELSE {DeleteFingerprintsFromCurrentTable(m, S, granted) :
                        granted \in Granted}
  BY DEF DeleteURLs
<1>3. (crashes > 0) \in BOOLEAN
  BY <1>1, RunningTold
<1>4. Fine(m, disk, crashes > 0)
  BY <1>1, RunningTold, TellIsFine
<1> HIDE DEF m
<1>5. S \subseteq Fingerprints
  OBVIOUS
<1>6. CASE master.building
<2>1. master' = DeleteAll([m EXCEPT !.deleted = @ \union S, !.added = @ \ S],
                          Ascending(S), FALSE)
  BY <1>2, <1>6
<2>2. Fine(master', disk, crashes > 0)
  BY <1>3, <1>4, <1>5, <2>1, DeleteURLsIsFine, TRUE \in BOOLEAN
<2>3. QED
  BY <1>1, <2>2, CallKeeps
<1>7. CASE ~master.building
<2>1. PICK granted \in Granted :
        master' = DeleteFingerprintsFromCurrentTable(m, S, granted)
  BY <1>2, <1>7
<2>2. granted \in BOOLEAN
  BY GrantedIs
<2>3. Fine(master', disk, crashes > 0)
  BY <1>3, <1>4, <1>5, <2>1, <2>2, DeleteURLsIsFine
<2>4. QED
  BY <1>1, <2>3, CallKeeps
<1>8. QED
  BY <1>6, <1>7

\* The end of a rebuild.
LEMMA RebuildHolds == TableInv /\ OnTableRebuildComplete => TableInv'
<1> SUFFICES ASSUME TableInv, OnTableRebuildComplete PROVE TableInv'
  OBVIOUS
<1>1. running /\ UNCHANGED <<running, closing, disk, ops, crashes>>
  BY DEF OnTableRebuildComplete
<1>2. ops' \in 0..MaxOps
  BY <1>1 DEF TableInv
<1> DEFINE m == Silent(master)
           fresh == [BeginReplaceURLTable(m, NewTableSizeForCount(
                       Cardinality(History) + Cardinality(m.added)))
                     EXCEPT !.added = {}, !.deleted = {}]
           filled == InsertAll(fresh, Ascending(History) \o Ascending(m.added))
           pruned(granted) ==
             DeleteFingerprintsFromCurrentTable(filled, m.deleted, granted)
           full(granted) == WriteFullTable(Tell(pruned(granted), "NewTable", 0))
<1>3. PICK granted \in Granted :
        master' = [(IF granted THEN full(granted) ELSE m) EXCEPT !.building = FALSE]
  BY DEF OnTableRebuildComplete
<1>4. Fine(m, disk, crashes > 0) /\ (crashes > 0) \in BOOLEAN
  BY <1>1, RunningTold
<1>5. granted \in BOOLEAN
  BY GrantedIs
<1>6. Fine(full(granted), disk, crashes > 0)
<2> HIDE DEF m
<2>1. QED
  BY <1>4, <1>5, RebuiltIsFine
<1> HIDE DEF m, full
<1>7. Fine(IF granted THEN full(granted) ELSE m, disk, crashes > 0)
  BY <1>4, <1>6
<1> DEFINE done == IF granted THEN full(granted) ELSE m
<1> HIDE DEF done
<1>8. Fine([done EXCEPT !.building = FALSE], disk, crashes > 0)
  BY <1>7, NotBuildingIsFine DEF done
<1>9. Fine(master', disk, crashes > 0)
  BY <1>3, <1>8 DEF done
<1>10. QED
  BY <1>1, <1>2, <1>9, CallKeeps

\* A start, from the file.
LEMMA StartHolds == TableInv /\ Start => TableInv'
<1> SUFFICES ASSUME TableInv, Start PROVE TableInv'
  OBVIOUS
<1>1. /\ ~running /\ closing = <<>> /\ running'
      /\ UNCHANGED <<closing, disk, ops, crashes>>
  BY DEF Start
<1>2. PICK f : OnFile(disk, closing, f) /\ CountFit(f, crashes > 0)
  BY <1>1 DEF TableInv, Stopped
<1>3. /\ disk \in FileStates /\ Fit(disk) /\ CountFit(disk, crashes > 0)
<2>1. closing \in Seq(WriteTasks)
  BY <1>1
<2>2. QED
  BY <1>1, <1>2, <2>1, OnFileFirst
<1>4. (crashes > 0) \in BOOLEAN
  OBVIOUS
<1>5. Fine(master', disk, crashes > 0)
<2>1. CASE Loads(disk)
<3>1. master' = [Scratch EXCEPT !.table = LoadedTable(disk), !.used = disk.used,
                                !.building = FALSE, !.opened = TRUE,
                                !.mixed = disk.mixed]
  BY <2>1 DEF Start
<3>2. QED
  BY <1>3, <1>4, <2>1, <3>1, LoadedIsFine
<2>2. CASE ~Loads(disk)
<3>1. master' = Scratch
  BY <2>2 DEF Start
<3>2. QED
  BY <1>3, <1>4, <3>1, ScratchIsFine
<2>3. QED
  BY <2>1, <2>2
<1>6. QED
  BY <1>1, <1>5 DEF TableInv, Works

\* The destructor leaves its tasks to the worker.
LEMMA DestroyHolds == TableInv /\ Destroy => TableInv'
<1> SUFFICES ASSUME TableInv, Destroy PROVE TableInv'
  OBVIOUS
<1>1. /\ running /\ running' = FALSE /\ master' = Scratch /\ closing' = master.io
      /\ UNCHANGED <<disk, ops, crashes>>
  BY DEF Destroy
<1>2. master \in Masters /\ FileKept(master, disk, crashes > 0)
  BY <1>1 DEF TableInv, Works, Fine
<1>3. master.io \in Seq(WriteTasks)
  BY <1>2 DEF Masters
<1>4. \E f : OnFile(disk, master.io, f) /\ CountFit(f, crashes > 0)
<2>1. CASE master.opened
  BY <1>2, <2>1 DEF FileKept, Opens
<2>2. CASE ~master.opened
  BY <1>2, <2>2, OnFileNone DEF FileKept, Unopened
<2>3. QED
  BY <2>1, <2>2
<1>5. QED
  BY <1>1, <1>3, <1>4 DEF TableInv, Stopped

\* Nothing is known of the count after a crash.
LEMMA CrashHolds == TableInv /\ Crash => TableInv'
<1> SUFFICES ASSUME TableInv, Crash PROVE TableInv'
  OBVIOUS
<1>1. /\ crashes' \in 0..MaxCrashes /\ crashes' > 0 /\ running' = FALSE
      /\ master' = Scratch /\ closing' = <<>> /\ UNCHANGED <<disk, ops>>
  BY SizesAssumption DEF TableInv, Crash
<1>2. disk \in FileStates /\ Fit(disk)
<2>1. CASE running
<3>1. master \in Masters /\ FileKept(master, disk, crashes > 0)
  BY <2>1 DEF TableInv, Works, Fine
<3>2. master.io \in Seq(WriteTasks)
  BY <3>1 DEF Masters
<3>3. QED
  BY <3>1, <3>2, OnFileFirst DEF FileKept, Opens, Unopened
<2>2. CASE ~running
  BY <2>2, OnFileFirst DEF TableInv, Stopped
<2>3. QED
  BY <2>1, <2>2
<1>3. OnFile(disk, <<>>, disk) /\ CountFit(disk, TRUE)
  BY <1>2, OnFileNone DEF CountFit
<1>4. \E f : OnFile(disk, <<>>, f) /\ CountFit(f, crashes' > 0)
  BY <1>1, <1>3
<1>5. Stopped'
<2>1. <<>> \in Seq(WriteTasks)
  OBVIOUS
<2>2. QED
  BY <1>1, <1>4, <2>1 DEF Stopped
<1>6. running' \in BOOLEAN /\ ~running' /\ ops' \in 0..MaxOps
  BY <1>1 DEF TableInv
<1>7. QED
  BY <1>1, <1>5, <1>6 DEF TableInv

\* The worker, for a running master,
LEMMA WriteHolds == TableInv /\ Write => TableInv'
<1> SUFFICES ASSUME TableInv, Write PROVE TableInv'
  OBVIOUS
<1>1. /\ master.io # <<>> /\ disk' = Perform(disk, Head(master.io))
      /\ master' = [Silent(master) EXCEPT !.io = Tail(@)]
      /\ UNCHANGED <<running, closing, ops, crashes>>
  BY DEF Write
<1>2. running /\ Works
  BY <1>1, ScratchIs DEF TableInv, Stopped
<1> DEFINE q == Silent(master)
           io == Tail(q.io)
           a == [q EXCEPT !.io = io]
<1>3. master \in Masters /\ Right(master, crashes > 0) /\ FileKept(master, disk, crashes > 0)
      /\ closing = <<>>
  BY <1>2 DEF Works, Fine
<1>4. /\ q \in Masters /\ Alike(q, master) /\ q.table = master.table
      /\ q.used = master.used /\ q.opened = master.opened /\ q.io = master.io
      /\ q.unsaved = master.unsaved
  BY <1>3, SilentFields
<1>5. master' = a
  BY <1>1
<1> HIDE DEF q
<1>6. io = Tail(master.io) /\ io \in Seq(WriteTasks)
<2>1. master.io \in Seq(WriteTasks)
  BY <1>3 DEF Masters
<2>2. QED
  BY <1>1, <1>4, <2>1
<1> HIDE DEF io
<1>7. a \in Masters
  BY <1>4, <1>6 DEF Masters
<1>8. /\ a.table = q.table /\ a.used = q.used /\ a.opened = q.opened /\ a.io = io
      /\ a.unsaved = q.unsaved /\ a.mixed = q.mixed
  BY <1>4 DEF Masters
<1> HIDE DEF a
<1>9. /\ a.table = master.table /\ a.used = master.used /\ a.opened = master.opened
      /\ a.unsaved = master.unsaved /\ a.mixed = master.mixed
  BY <1>4, <1>8 DEF Alike
<1>10. Right(a, crashes > 0)
  BY <1>3, <1>9, RightDepends
<1>11. FileKept(a, disk', crashes > 0)
<2>1. master.opened
  BY <1>1, <1>3 DEF FileKept, Unopened
<2>2. PICK f : Opens(master, disk, crashes > 0, f)
               /\ (~master.unsaved /\ ~master.mixed => Saved(master, f))
  BY <1>3, <2>1 DEF FileKept
<2>3. OnFile(disk', io, f)
<3>1. master.io \in Seq(WriteTasks)
  BY <1>3 DEF Masters
<3>2. QED
  BY <1>1, <1>6, <2>2, <3>1, OnFileTail DEF Opens
<2>4. Opens(a, disk', crashes > 0, f)
  BY <1>8, <2>2, <2>3 DEF Opens
<2>5. ~a.unsaved /\ ~a.mixed => Saved(a, f)
<3>1. Length(a) = Length(master)
  BY <1>9 DEF Length
<3>2. QED
  BY <1>9, <2>2, <3>1 DEF Saved
<2>6. QED
  BY <1>9, <2>1, <2>4, <2>5 DEF FileKept
<1>12. Fine(master', disk', crashes > 0)
  BY <1>5, <1>7, <1>10, <1>11 DEF Fine
<1>13. QED
  BY <1>1, <1>2, <1>3, <1>12 DEF TableInv, Works

\* and for a destroyed one.
LEMMA WriteClosingHolds == TableInv /\ WriteClosing => TableInv'
<1> SUFFICES ASSUME TableInv, WriteClosing PROVE TableInv'
  OBVIOUS
<1>1. /\ closing # <<>> /\ disk' = Perform(disk, Head(closing))
      /\ closing' = Tail(closing) /\ master' = Silent(master)
      /\ UNCHANGED <<running, ops, crashes>>
  BY DEF WriteClosing
<1>2. ~running /\ Stopped
  BY <1>1 DEF TableInv, Works
<1>3. PICK f : OnFile(disk, closing, f) /\ CountFit(f, crashes > 0)
  BY <1>2 DEF Stopped
<1>4. closing \in Seq(WriteTasks) /\ closing' \in Seq(WriteTasks)
  BY <1>1, <1>2 DEF Stopped
<1>5. OnFile(disk', closing', f)
  BY <1>1, <1>3, <1>4, OnFileTail
<1>6. master' = Scratch
<2> DEFINE s == Scratch
<2>1. Silent(s) = s
<3>1. s.told = <<>> /\ s \in Masters
  BY ScratchIs DEF Scratch
<3> HIDE DEF s
<3>2. [s EXCEPT !.told = <<>>] = s
  BY <3>1 DEF Masters
<3>3. QED
  BY <3>2 DEF Silent
<2>2. QED
  BY <1>1, <1>2, <2>1 DEF Stopped
<1>7. QED
  BY <1>1, <1>2, <1>3, <1>4, <1>5, <1>6 DEF TableInv, Stopped

\* So it always holds.
LEMMA TableInvInductive == MasterSpec => []TableInv
<1>1. TableInv /\ [MasterNext]_masterVars => TableInv'
<2> SUFFICES ASSUME TableInv, [MasterNext]_masterVars PROVE TableInv'
  OBVIOUS
<2>1. CASE UNCHANGED masterVars
  BY <2>1 DEF masterVars, TableInv, Works, Stopped
<2>2. CASE MasterNext
  BY <2>2, AddURLHolds, AddURLsHolds, DeleteAllURLsHolds, DeleteURLsHolds,
     RebuildHolds, StartHolds, DestroyHolds, CrashHolds, WriteHolds,
     WriteClosingHolds DEF MasterNext
<2>3. QED
  BY <2>1, <2>2
<1>2. QED
  BY InitHolds, <1>1, PTL DEF MasterSpec

-----------------------------------------------------------------------------
(* The theorems. *)

\* The tasks have the types MasterTypeOK gives them.
LEMMA WriteTasksAreTasks == WriteTasks \subseteq FileTasks
<1>1. Sizes \subseteq Nat
  BY DEF Sizes
<1>2. QED
  BY <1>1 DEF WriteTasks, FileTasks, Contents

\* What the invariant says of a master that runs and of one that does not.
LEMMA EitherMaster ==
  ASSUME TableInv
  PROVE  /\ master \in Masters /\ Right(master, crashes > 0)
         /\ (master.io # <<>> => master.opened)
         /\ disk \in FileStates /\ closing \in Seq(WriteTasks)
<1>1. CASE running
<2>1. master \in Masters /\ Right(master, crashes > 0) /\ FileKept(master, disk, crashes > 0)
      /\ closing = <<>>
  BY <1>1 DEF TableInv, Works, Fine
<2>2. master.io \in Seq(WriteTasks)
  BY <2>1 DEF Masters
<2>3. disk \in FileStates /\ (master.io # <<>> => master.opened)
  BY <2>1, <2>2, OnFileFirst DEF FileKept, Opens, Unopened
<2>4. QED
  BY <2>1, <2>3
<1>2. CASE ~running
<2>1. Stopped
  BY <1>2 DEF TableInv
<2>2. disk \in FileStates /\ closing \in Seq(WriteTasks) /\ master = Scratch
  BY <2>1, OnFileFirst DEF Stopped
<2>3. (crashes > 0) \in BOOLEAN
  OBVIOUS
<2>4. Scratch \in Masters /\ Right(Scratch, crashes > 0) /\ Scratch.io = <<>>
  BY <2>3, ScratchIs
<2>5. QED
  BY <2>2, <2>4
<1>3. QED
  BY <1>1, <1>2 DEF TableInv

\* Type correctness.
LEMMA MasterTyped == TableInv => MasterTypeOK
<1> SUFFICES ASSUME TableInv PROVE MasterTypeOK
  OBVIOUS
<1>1. /\ master \in Masters /\ (master.io # <<>> => master.opened)
      /\ disk \in FileStates /\ closing \in Seq(WriteTasks)
  BY EitherMaster
<1>2. master.table \in [0..(Length(master) - 1) -> Fingerprints \union {0}]
  BY <1>1, LengthIs DEF Contents
<1>3. /\ master.used \in Int /\ master.building \in BOOLEAN /\ master.opened \in BOOLEAN
      /\ master.unsaved \in BOOLEAN /\ master.mixed \in BOOLEAN
      /\ master.added \subseteq Fingerprints /\ master.deleted \subseteq Fingerprints
      /\ master.io \in Seq(WriteTasks)
  BY <1>1 DEF Masters
<1>4. master.io \in Seq(FileTasks) /\ closing \in Seq(FileTasks)
<2> HIDE DEF Stopped
<2>1. \A s \in Seq(WriteTasks) : s \in Seq(FileTasks)
<3>1. TAKE s \in Seq(WriteTasks)
<3>2. \A i \in 1..Len(s) : s[i] \in FileTasks
  BY WriteTasksAreTasks
<3>3. Len(s) \in Nat /\ s = [i \in 1..Len(s) |-> s[i]]
  OBVIOUS
<3>4. QED
  BY <3>2, <3>3
<2>2. QED
  BY <1>1, <1>3, <2>1
<1>5. /\ disk.length \in Nat /\ disk.used \in Int
      /\ disk.data \in Seq(Fingerprints \union {0}) /\ disk.mixed \in BOOLEAN
  BY <1>1, FileFields DEF Contents
<1>6. QED
  BY <1>1, <1>2, <1>3, <1>4, <1>5 DEF MasterTypeOK, TableInv

\* Whatever is added, deleted, resized, rebuilt, lost in a crash and read back:
\* the table of a master that did not start from a mixed file has its types,
\* probing finds every entry of it, and it counts its entries, if there was no
\* crash.
THEOREM TableAlwaysSound == MasterSpec => []TableSound
<1>1. TableInv => TableSound
<2> SUFFICES ASSUME TableInv PROVE TableSound
  OBVIOUS
<2>1. MasterTypeOK
  BY MasterTyped
<2>2. Right(master, crashes > 0)
  BY EitherMaster
<2>3. ~master.mixed => ProbesComplete
  BY <2>2 DEF Right, SoundTable, ProbesComplete
<2>4. ~master.mixed => CountsUsed
<3>1. crashes = 0 => ~(crashes > 0)
  OBVIOUS
<3>2. QED
  BY <2>2, <3>1 DEF Right, Exact, CountsUsed
<2>5. QED
  BY <2>1, <2>3, <2>4 DEF TableSound
<1>2. QED
  BY <1>1, TableInvInductive, PTL

\* When the worker has nothing to do, an opened file holds the table, with its
\* count, unless the master knows it is unsaved.
THEOREM AlwaysSavedWhenQuiet == MasterSpec => []SavedWhenQuiet
<1>1. TableInv => SavedWhenQuiet
<2> SUFFICES ASSUME TableInv, running, master.opened, master.io = <<>>,
                    ~master.unsaved, ~master.mixed
             PROVE  /\ disk.length = Length(master) /\ disk.used = master.used
                    /\ SubSeq(disk.data, 1, disk.length) = Slots(master)
  BY DEF SavedWhenQuiet
<2>1. master \in Masters /\ FileKept(master, disk, crashes > 0)
  BY DEF TableInv, Works, Fine
<2>2. PICK f : Opens(master, disk, crashes > 0, f) /\ Saved(master, f)
  BY <2>1 DEF FileKept
<2>3. f = disk
<3>1. OnFile(disk, <<>>, f) /\ <<>> \in Seq(WriteTasks)
  BY <2>2 DEF Opens
<3>2. QED
  BY <3>1, OnFileFirst
<2>4. disk.data \in Seq(Contents)
  BY EitherMaster, FileFields
<2> DEFINE n == Length(master)
           s == Slots(master)
           d == disk.data
<2>5. /\ disk.length = n /\ disk.used = master.used /\ Len(d) \in {n, n + 1}
      /\ \A i \in 1..n : d[i] = master.table[i - 1]
  BY <2>2, <2>3 DEF Saved
<2>6. n \in Nat /\ s \in Seq(Contents) /\ Len(s) = n
      /\ \A i \in 1..n : s[i] = master.table[i - 1]
  BY <2>1, LengthIs, SlotsAre
<2> HIDE DEF n, s, d
<2>7. SubSeq(d, 1, n) = s
<3>1. d \in Seq(Contents) /\ n <= Len(d)
  BY <2>4, <2>5, <2>6 DEF d
<3>2. Len(SubSeq(d, 1, n)) = n /\ \A i \in 1..n : SubSeq(d, 1, n)[i] = d[i]
  BY <2>6, <3>1
<3>3. SubSeq(d, 1, n) \in Seq(Contents)
  BY <2>6, <3>1
<3>4. \A i \in 1..n : SubSeq(d, 1, n)[i] = s[i]
  BY <2>5, <2>6, <3>2
<3>5. QED
  BY <2>6, <3>2, <3>3, <3>4
<2>8. QED
  BY <2>5, <2>7 DEF n, s, d
<1>2. QED
  BY <1>1, TableInvInductive, PTL
=============================================================================
