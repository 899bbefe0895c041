---------------------- MODULE VisitedLinkListenerProofs ----------------------
(***************************************************************************)
(* Every renderer of VisitedLinkListener is served, and its pages are      *)
(* corrected, for every set of renderers and of links, every threshold and *)
(* any number of operations.                                               *)
(*                                                                         *)
(* ColoursCorrected is not inductive: a page may be painted from a table   *)
(* that is out of use, whatever it showed before.  The invariant says more *)
(* of each link a renderer has not been told about: from some message on   *)
(* its way to the renderer, or from now, every table that the renderer     *)
(* maps is right about the link, and the page looks it up again there      *)
(* (Settled).                                                              *)
(***************************************************************************)
EXTENDS VisitedLinkListener, ListLemmas, FiniteSetTheorems

(* The table a renderer maps after some of its messages. *)

\* The table mapped after n of the messages c, when t is mapped at first.
After(c, t, n) ==
  LET Tables == {i \in 1..n : c[i].kind = "NewTable"}
  IN  IF Tables = {} THEN t
      ELSE c[CHOOSE i \in Tables : \A j \in Tables : j <= i].table

\* The message k is the last of the first n that brings a table.
LastTable(c, n, k) ==
  /\ k \in 1..n /\ c[k].kind = "NewTable"
  /\ \A j \in 1..n : c[j].kind = "NewTable" => j <= k

\* No message brings a table, or a last one does.
LEMMA LastTableExists ==
  ASSUME NEW c, NEW n \in Nat, NEW i \in 1..n, c[i].kind = "NewTable"
  PROVE  \E k \in 1..n : LastTable(c, n, k)
<1> DEFINE T == {d \in Nat : d < n /\ c[n - d].kind = "NewTable"}
<1>1. n - i \in T
  OBVIOUS
<1>2. PICK d \in T : \A e \in T : d <= e
  BY <1>1, LeastNatural
<1>3. \A j \in 1..n : c[j].kind = "NewTable" => j <= n - d
  <2> SUFFICES ASSUME NEW j \in 1..n, c[j].kind = "NewTable"
               PROVE  j <= n - d
    OBVIOUS
  <2>1. n - j \in T
    OBVIOUS
  <2>2. d <= n - j
    BY <1>2, <2>1
  <2>3. QED
    BY <2>2
<1>4. n - d \in 1..n
  OBVIOUS
<1>5. QED
  BY <1>3, <1>4 DEF LastTable

\* That last one is the table mapped.
LEMMA AfterLast ==
  ASSUME NEW c, NEW t, NEW n \in Nat, NEW k, LastTable(c, n, k)
  PROVE  After(c, t, n) = c[k].table
<1> DEFINE T == {i \in 1..n : c[i].kind = "NewTable"}
<1>1. k \in T /\ \A j \in T : j <= k
  BY DEF LastTable
<1>2. (CHOOSE i \in T : \A j \in T : j <= i) = k
  <2>1. \A i \in T : (\A j \in T : j <= i) => i = k
    BY <1>1
  <2>2. QED
    BY <1>1, <2>1
<1>3. QED
  BY <1>1, <1>2 DEF After

\* Without a table among the messages what is mapped stays.
LEMMA AfterNone ==
  ASSUME NEW c, NEW t, NEW n \in Nat, \A i \in 1..n : c[i].kind # "NewTable"
  PROVE  After(c, t, n) = t
BY DEF After

\* The table mapped depends on the messages handled and on no other.
LEMMA AfterSame ==
  ASSUME NEW c, NEW d, NEW t, NEW n \in Nat, \A i \in 1..n : c[i] = d[i]
  PROVE  After(c, t, n) = After(d, t, n)
<1>1. CASE \A i \in 1..n : c[i].kind # "NewTable"
  BY <1>1, AfterNone
<1>2. CASE \E i \in 1..n : c[i].kind = "NewTable"
  <2>1. PICK k \in 1..n : LastTable(c, n, k)
    BY <1>2, LastTableExists
  <2>2. LastTable(d, n, k)
    BY <2>1 DEF LastTable
  <2>3. QED
    BY <2>1, <2>2, AfterLast
<1>3. QED
  BY <1>1, <1>2

\* One message more.
LEMMA AfterNext ==
  ASSUME NEW c, NEW t, NEW n \in Nat
  PROVE  After(c, t, n + 1) =
           IF c[n + 1].kind = "NewTable" THEN c[n + 1].table ELSE After(c, t, n)
<1>1. CASE c[n + 1].kind = "NewTable"
  <2>1. LastTable(c, n + 1, n + 1)
    BY <1>1 DEF LastTable
  <2>2. QED
    BY <1>1, <2>1, AfterLast
<1>2. CASE c[n + 1].kind # "NewTable"
  <2>1. CASE \A i \in 1..n : c[i].kind # "NewTable"
    <3>1. \A i \in 1..(n + 1) : c[i].kind # "NewTable"
      BY <1>2, <2>1
    <3>2. QED
      BY <1>2, <2>1, <3>1, AfterNone
  <2>2. CASE \E i \in 1..n : c[i].kind = "NewTable"
    <3>1. PICK k \in 1..n : LastTable(c, n, k)
      BY <2>2, LastTableExists
    <3>2. LastTable(c, n + 1, k)
      BY <1>2, <3>1 DEF LastTable
    <3>3. QED
      BY <1>2, <3>1, <3>2, AfterLast
  <2>3. QED
    BY <2>1, <2>2
<1>3. QED
  BY <1>1, <1>2

\* A message that is handled leaves what is mapped after the next ones.
LEMMA AfterTail ==
  ASSUME NEW c \in Seq(Messages), c # <<>>, NEW t, NEW n \in 0..Len(c) - 1
  PROVE  After(Tail(c), After(c, t, 1), n) = After(c, t, n + 1)
<1> DEFINE d == Tail(c)
           u == After(c, t, 1)
<1>0. n \in Nat
  OBVIOUS
<1>1. \A i \in 1..n : d[i] = c[i + 1]
  OBVIOUS
<1>5. u = After(c, t, 1)
  OBVIOUS
<1>6. SUFFICES After(d, u, n) = After(c, t, n + 1)
  OBVIOUS
<1> HIDE DEF d, u
<1>2. CASE \A i \in 1..n : d[i].kind # "NewTable"
  <2>1. After(d, u, n) = u
    BY <1>0, <1>2, AfterNone
  <2>2. \A i \in 2..(n + 1) : c[i].kind # "NewTable"
    <3>1. SUFFICES ASSUME NEW i \in 2..(n + 1) PROVE c[i].kind # "NewTable"
      OBVIOUS
    <3>2. i - 1 \in 1..n /\ (i - 1) + 1 = i
      OBVIOUS
    <3>3. QED
      BY <1>1, <1>2, <3>2
  <2>3. CASE c[1].kind = "NewTable"
    <3>1. LastTable(c, 1, 1) /\ LastTable(c, n + 1, 1)
      BY <2>2, <2>3 DEF LastTable
    <3>2. QED
      BY <1>0, <2>1, <3>1, <1>5, AfterLast
  <2>4. CASE c[1].kind # "NewTable"
    <3>1. (\A i \in 1..1 : c[i].kind # "NewTable") /\ \A i \in 1..(n + 1) : c[i].kind # "NewTable"
      BY <2>2, <2>4
    <3>2. QED
      BY <1>0, <2>1, <3>1, <1>5, AfterNone
  <2>5. QED
    BY <2>3, <2>4
<1>3. CASE \E i \in 1..n : d[i].kind = "NewTable"
  <2>1. PICK k \in 1..n : LastTable(d, n, k)
    BY <1>0, <1>3, LastTableExists
  <2>2. LastTable(c, n + 1, k + 1)
    <3>1. c[k + 1].kind = "NewTable"
      BY <1>1, <2>1 DEF LastTable
    <3>2. ASSUME NEW j \in 1..(n + 1), c[j].kind = "NewTable"
          PROVE  j <= k + 1
      <4>1. CASE j = 1
        BY <4>1
      <4>2. CASE j # 1
        <5>1. j - 1 \in 1..n /\ (j - 1) + 1 = j
          BY <4>2
        <5>2. j - 1 <= k
          BY <1>1, <2>1, <3>2, <5>1 DEF LastTable
        <5>3. QED
          BY <5>2
      <4>3. QED
        BY <4>1, <4>2
    <3>3. QED
      BY <3>1, <3>2 DEF LastTable
  <2>3. d[k] = c[k + 1]
    BY <1>1
  <2>4. After(d, u, n) = d[k].table
    BY <1>0, <2>1, AfterLast
  <2>5. After(c, t, n + 1) = c[k + 1].table
    BY <1>0, <2>2, AfterLast
  <2>6. QED
    BY <2>3, <2>4, <2>5
<1>4. QED
  BY <1>2, <1>3

\* The table i of ts says of the link l what the last one, the master's, says.
Right(ts, i, l) ==
  l \in (IF i = 0 THEN {} ELSE ts[i]) <=> l \in ts[Len(ts)]

\* When the message n of c is handled, l is looked up again.
Looked(c, t, n, l) ==
  c[n].kind = "Reset" \/ l \in c[n].links \/ After(c, t, n - 1) = 0

\* From some point on, now (m = 0) or after the message m of c, the renderer
\* has l right: it shows l right now, or looks it up again then, and every
\* table it maps from there on is right about l.
Settled(ts, c, t, sh, l) ==
  \E m \in 0..Len(c) :
    /\ IF m = 0 THEN l \in sh <=> l \in ts[Len(ts)] ELSE Looked(c, t, m, l)
    /\ \A k \in m..Len(c) : Right(ts, After(c, t, k), l)

\* What the listener or an updater has not sent yet.
Collected(l) == timer /\ l \in pendingLinks
HeldBack(r, l) == resetNeeded[r] \/ l \in pending[r]

\* The tables that the messages c bring are among the first n, and the last
\* one that is mapped is n.
ChannelSound(c, t, n) ==
  /\ \A i \in 1..Len(c) : c[i].kind = "NewTable" => c[i].table \in 1..n
  /\ After(c, t, Len(c)) = n

\* What IInv says of a renderer with an updater, and of what it holds back.
Served(ts, c, t) ==
  c \in Seq(Messages) /\ t \in 0..Len(ts) /\ ChannelSound(c, t, Len(ts))

Bounded(rs, pd) == Cardinality(pd) <= Threshold /\ (rs => pd = {})

\* What the updaters hold back and the messages under way, for given values.
Typed(rs, pd, ch) ==
  /\ rs \in [Renderers -> BOOLEAN] /\ pd \in [Renderers -> SUBSET Links]
  /\ ch \in [Renderers -> Seq(Messages)]
  /\ \A r \in Renderers : IsFiniteSet(pd[r])
  /\ \A r \in updaters : Bounded(rs[r], pd[r])
  /\ \A r \in Renderers \ updaters : ch[r] = <<>>

\* The renderer r knows, or will, what the master's table says of the link l.
Aware(r, l) ==
  \/ Collected(l) \/ HeldBack(r, l)
  \/ Settled(tables, channel[r], mapped[r], shown[r], l)

IInv ==
  /\ tables \in Seq(SUBSET Links) /\ Len(tables) > 0
  /\ pendingLinks \subseteq Links /\ IsFiniteSet(pendingLinks) /\ timer \in BOOLEAN
  /\ updaters \subseteq Renderers /\ visible \subseteq updaters
  /\ mapped \in [Renderers -> Nat] /\ shown \in [Renderers -> SUBSET Links]
  /\ deleting \subseteq Links /\ raced \in BOOLEAN /\ ops \in 0..MaxOps
  /\ Typed(resetNeeded, pending, channel)
  /\ \A r \in Renderers \ updaters : mapped[r] = 0 /\ shown[r] = {}
  /\ \A r \in updaters : Served(tables, channel[r], mapped[r])
  /\ ~raced => deleting = {} /\ \A r \in updaters, l \in Links : Aware(r, l)

(* Channels to which messages are added. *)

\* A message appended changes nothing about those before it.
LEMMA AfterAppend ==
  ASSUME NEW c \in Seq(Messages), NEW x \in Messages, NEW t, NEW n \in 0..Len(c)
  PROVE  After(Append(c, x), t, n) = After(c, t, n)
<1> DEFINE d == Append(c, x)
<1>1. n \in Nat /\ \A i \in 1..n : c[i] = d[i]
  OBVIOUS
<1> HIDE DEF d
<1>2. QED
  BY <1>1, AfterSame DEF d

\* A channel that ends with the table n only maps tables up to n.
LEMMA AfterRange ==
  ASSUME NEW c \in Seq(Messages), NEW n \in Nat, NEW t \in 0..n,
         ChannelSound(c, t, n), NEW k \in 0..Len(c)
  PROVE  After(c, t, k) \in 0..n
<1>0. k \in Nat
  OBVIOUS
<1>1. CASE \A i \in 1..k : c[i].kind # "NewTable"
  BY <1>0, <1>1, AfterNone
<1>2. CASE \E i \in 1..k : c[i].kind = "NewTable"
  <2>1. PICK j \in 1..k : LastTable(c, k, j)
    BY <1>0, <1>2, LastTableExists
  <2>2. After(c, t, k) = c[j].table
    BY <1>0, <2>1, AfterLast
  <2>3. c[j].table \in 1..n
    BY <2>1 DEF ChannelSound, LastTable
  <2>4. QED
    BY <2>2, <2>3
<1>3. QED
  BY <1>1, <1>2

\* A message after which the table mapped is right takes nothing away.
LEMMA SettledAppend ==
  ASSUME NEW c \in Seq(Messages), NEW x \in Messages, NEW t, NEW sh, NEW l, NEW ts,
         Settled(ts, c, t, sh, l),
         Right(ts, After(Append(c, x), t, Len(c) + 1), l)
  PROVE  Settled(ts, Append(c, x), t, sh, l)
<1> DEFINE d == Append(c, x)
<1>1. Len(d) = Len(c) + 1 /\ Len(c) \in Nat /\ \A i \in 1..Len(c) : d[i] = c[i]
  OBVIOUS
<1>2. \A n \in 0..Len(c) : After(d, t, n) = After(c, t, n)
  BY AfterAppend
<1>3. Right(ts, After(d, t, Len(c) + 1), l)
  OBVIOUS
<1> HIDE DEF d
<1>4. PICK m \in 0..Len(c) :
        /\ IF m = 0 THEN l \in sh <=> l \in ts[Len(ts)] ELSE Looked(c, t, m, l)
        /\ \A k \in m..Len(c) : Right(ts, After(c, t, k), l)
  BY DEF Settled
<1>5. IF m = 0 THEN l \in sh <=> l \in ts[Len(ts)] ELSE Looked(d, t, m, l)
  <2>1. CASE m = 0
    BY <1>4, <2>1
  <2>2. CASE m # 0
    <3>1. m - 1 \in 0..Len(c) /\ m \in 1..Len(c)
      BY <2>2, <1>1
    <3>2. QED
      BY <1>1, <1>2, <1>4, <2>2, <3>1 DEF Looked
  <2>3. QED
    BY <2>1, <2>2
<1>6. ASSUME NEW k \in m..Len(d) PROVE Right(ts, After(d, t, k), l)
  <2>1. CASE k = Len(c) + 1
    BY <1>3, <2>1
  <2>2. CASE k # Len(c) + 1
    <3>1. k \in m..Len(c) /\ k \in 0..Len(c)
      BY <1>1, <2>2
    <3>2. QED
      BY <1>2, <1>4, <3>1
  <2>3. QED
    BY <2>1, <2>2
<1>7. m \in 0..Len(d)
  BY <1>1
<1>8. Settled(ts, d, t, sh, l)
  BY <1>5, <1>6, <1>7 DEF Settled
<1>9. QED
  BY <1>8 DEF d

\* A message other than a table leaves the channel sound, and a link that it
\* makes the renderer look up is settled.
LEMMA MessageSent ==
  ASSUME NEW ts \in Seq(SUBSET Links), Len(ts) > 0,
         NEW c \in Seq(Messages), NEW x \in Messages, x.kind # "NewTable",
         NEW t \in 0..Len(ts), ChannelSound(c, t, Len(ts))
  PROVE  /\ ChannelSound(Append(c, x), t, Len(ts))
         /\ \A l, sh :
              Settled(ts, c, t, sh, l) \/ x.kind = "Reset" \/ l \in x.links =>
                Settled(ts, Append(c, x), t, sh, l)
<1> DEFINE d == Append(c, x)
<1>1. Len(d) = Len(c) + 1 /\ Len(c) \in Nat /\ d[Len(c) + 1] = x
      /\ (\A i \in 1..Len(c) : d[i] = c[i]) /\ d \in Seq(Messages)
  OBVIOUS
<1>2. \A n \in 0..Len(c) : After(d, t, n) = After(c, t, n)
  BY AfterAppend
<1> HIDE DEF d
<1>3. After(d, t, Len(c) + 1) = Len(ts)
  <2>1. After(d, t, Len(c) + 1) = After(d, t, Len(c))
    BY <1>1, AfterNext
  <2>2. QED
    BY <1>1, <1>2, <2>1 DEF ChannelSound
<1>4. ChannelSound(d, t, Len(ts))
  <2>1. ASSUME NEW i \in 1..Len(d), d[i].kind = "NewTable"
        PROVE  d[i].table \in 1..Len(ts)
    <3>1. i # Len(c) + 1
      BY <1>1, <2>1
    <3>2. i \in 1..Len(c)
      BY <1>1, <3>1
    <3>3. QED
      BY <1>1, <2>1, <3>2 DEF ChannelSound
  <2>2. QED
    BY <1>1, <1>3, <2>1 DEF ChannelSound
<1>5. ASSUME NEW l PROVE Right(ts, Len(ts), l)
  BY DEF Right
<1>6. ASSUME NEW l, NEW sh, x.kind = "Reset" \/ l \in x.links
      PROVE  Settled(ts, d, t, sh, l)
  <2>1. Looked(d, t, Len(c) + 1, l)
    BY <1>1, <1>6 DEF Looked
  <2>2. \A k \in (Len(c) + 1)..Len(d) : Right(ts, After(d, t, k), l)
    <3>1. \A k \in (Len(c) + 1)..Len(d) : k = Len(c) + 1
      BY <1>1
    <3>2. QED
      BY <1>3, <1>5, <3>1
  <2>3. Len(c) + 1 \in 0..Len(d) /\ Len(c) + 1 # 0
    BY <1>1
  <2>4. QED
    BY <2>1, <2>2, <2>3 DEF Settled
<1>7. ASSUME NEW l, NEW sh, Settled(ts, c, t, sh, l)
      PROVE  Settled(ts, d, t, sh, l)
  BY <1>3, <1>5, <1>7, SettledAppend DEF d
<1>8. QED
  BY <1>4, <1>6, <1>7 DEF d

\* What was settled stays so, of links that are in S as they were in the table.
Carries(ts, c, us, d, t, S) ==
  \A l, sh : Settled(ts, c, t, sh, l) /\ (l \in S <=> l \in ts[Len(ts)]) =>
    Settled(us, d, t, sh, l)

\* The master's table becomes S, in place or in another shared memory, whose
\* message is sent: nothing is lost of links that stay as they were.
LEMMA TableSent ==
  ASSUME NEW ts \in Seq(SUBSET Links), Len(ts) > 0, NEW S \in SUBSET Links,
         NEW replaced \in BOOLEAN, NEW c \in Seq(Messages),
         NEW t \in 0..Len(ts), ChannelSound(c, t, Len(ts)), NEW us, NEW d,
         us = (IF replaced THEN Append([ts EXCEPT ![Len(ts)] = S], S)
               ELSE [ts EXCEPT ![Len(ts)] = S]),
         d = (IF replaced THEN Append(c, NewTable(Len(us))) ELSE c)
  PROVE  /\ d \in Seq(Messages) /\ ChannelSound(d, t, Len(us))
         /\ Carries(ts, c, us, d, t, S)
<1> DEFINE n == Len(ts)
           new == NewTable(Len(us))
<1>1. /\ us \in Seq(SUBSET Links) /\ n \in Nat \ {0} /\ us[Len(us)] = S
      /\ us[n] = S /\ \A i \in 1..n : i # n => us[i] = ts[i]
      /\ Len(us) = IF replaced THEN n + 1 ELSE n
  <2> DEFINE vs == [ts EXCEPT ![Len(ts)] = S]
  <2>1. n \in Nat \ {0} /\ n \in 1..n
    OBVIOUS
  <2>2. /\ vs \in Seq(SUBSET Links) /\ Len(vs) = n /\ vs[n] = S
        /\ \A i \in 1..n : i # n => vs[i] = ts[i]
    OBVIOUS
  <2> HIDE DEF vs, n
  <2>3. CASE replaced
    <3>1. us = Append(vs, S)
      BY <2>3 DEF vs
    <3>2. /\ us \in Seq(SUBSET Links) /\ Len(us) = n + 1 /\ us[n + 1] = S
          /\ \A i \in 1..n : us[i] = vs[i]
      <4>1. \A X : \A q \in Seq(X), v \in X :
              /\ Append(q, v) \in Seq(X) /\ Len(Append(q, v)) = Len(q) + 1
              /\ Append(q, v)[Len(q) + 1] = v
              /\ \A i \in 1..Len(q) : Append(q, v)[i] = q[i]
        OBVIOUS
      <4>2. /\ Append(vs, S) \in Seq(SUBSET Links)
            /\ Len(Append(vs, S)) = Len(vs) + 1
            /\ Append(vs, S)[Len(vs) + 1] = S
            /\ \A i \in 1..Len(vs) : Append(vs, S)[i] = vs[i]
        BY <2>2, <4>1
      <4>3. QED
        BY <2>2, <3>1, <4>2
    <3>3. QED
      BY <2>1, <2>2, <2>3, <3>2
  <2>4. CASE ~replaced
    <3>1. us = vs
      BY <2>4 DEF vs
    <3>2. QED
      BY <2>1, <2>2, <2>4, <3>1
  <2>5. QED
    BY <2>3, <2>4
<1>2. new \in Messages /\ new.kind = "NewTable" /\ new.table = Len(us)
  BY <1>1 DEF NewTable, Messages
<1>3. Len(c) \in Nat
  OBVIOUS
<1> HIDE DEF n, new
<1>4. d \in Seq(Messages) /\ (\A i \in 1..Len(c) : d[i] = c[i])
      /\ Len(d) = (IF replaced THEN Len(c) + 1 ELSE Len(c))
      /\ (replaced => d[Len(c) + 1] = new)
  <2>1. d = IF replaced THEN Append(c, new) ELSE c
    BY DEF new
  <2>2. QED
    BY <1>2, <2>1
<1>5. \A k \in 0..Len(c) : After(d, t, k) = After(c, t, k)
  <2>1. d = IF replaced THEN Append(c, new) ELSE c
    BY DEF new
  <2>2. QED
    BY <1>2, <2>1, AfterAppend
<1>6. After(d, t, Len(d)) = Len(us)
  <2>1. CASE replaced
    <3>1. After(d, t, Len(c) + 1) =
            IF d[Len(c) + 1].kind = "NewTable" THEN d[Len(c) + 1].table
            ELSE After(d, t, Len(c))
      BY <1>3, AfterNext
    <3>2. d[Len(c) + 1] = new /\ Len(d) = Len(c) + 1
      BY <1>4, <2>1
    <3>3. QED
      BY <1>2, <3>1, <3>2
  <2>2. CASE ~replaced
    BY <1>1, <1>3, <1>4, <1>5, <2>2 DEF ChannelSound, n
  <2>3. QED
    BY <2>1, <2>2
<1>7. ChannelSound(d, t, Len(us))
  <2>1. ASSUME NEW i \in 1..Len(d), d[i].kind = "NewTable"
        PROVE  d[i].table \in 1..Len(us)
    <3>1. CASE i \in 1..Len(c)
      <4>1. c[i].table \in 1..n
        BY <1>4, <2>1, <3>1 DEF ChannelSound, n
      <4>2. QED
        BY <1>1, <1>4, <3>1, <4>1
    <3>2. CASE i \notin 1..Len(c)
      <4>1. replaced /\ i = Len(c) + 1
        BY <1>3, <1>4, <3>2
      <4>2. QED
        BY <1>1, <1>2, <1>4, <4>1
    <3>3. QED
      BY <3>1, <3>2
  <2>2. QED
    BY <1>6, <2>1 DEF ChannelSound
<1>8. ASSUME NEW l, NEW sh, Settled(ts, c, t, sh, l), l \in S <=> l \in ts[n]
      PROVE  Settled(us, d, t, sh, l)
  <2>1. PICK m \in 0..Len(c) :
          /\ IF m = 0 THEN l \in sh <=> l \in ts[n] ELSE Looked(c, t, m, l)
          /\ \A k \in m..Len(c) : Right(ts, After(c, t, k), l)
    BY <1>8 DEF Settled, n
  <2>2. IF m = 0 THEN l \in sh <=> l \in us[Len(us)] ELSE Looked(d, t, m, l)
    <3>1. CASE m = 0
      BY <1>1, <1>8, <2>1, <3>1
    <3>2. CASE m # 0
      <4>1. m - 1 \in 0..Len(c) /\ m \in 1..Len(c)
        BY <1>3, <3>2
      <4>2. QED
        BY <1>4, <1>5, <2>1, <3>2, <4>1 DEF Looked
    <3>3. QED
      BY <3>1, <3>2
  <2>3. ASSUME NEW k \in m..Len(d) PROVE Right(us, After(d, t, k), l)
    <3>1. CASE k = Len(d)
      BY <1>6, <3>1 DEF Right
    <3>2. CASE k # Len(d)
      <4>1. k \in m..Len(c) /\ k \in 0..Len(c)
        BY <1>3, <1>4, <3>2
      <4>2. After(c, t, k) \in 0..n
        BY <1>1, <4>1, AfterRange DEF n
      <4>3. Right(ts, After(c, t, k), l)
        BY <2>1, <4>1
      <4>4. After(d, t, k) = After(c, t, k)
        BY <1>5, <4>1
      <4> DEFINE a == After(c, t, k)
      <4> HIDE DEF a
      <4>5. l \in (IF a = 0 THEN {} ELSE ts[a]) <=> l \in ts[n]
        BY <4>3 DEF Right, a, n
      <4>6. a # 0 => (l \in us[a] <=> l \in ts[a])
        <5>1. CASE a = n
          BY <1>1, <1>8, <5>1
        <5>2. CASE a # n
          BY <1>1, <4>2, <5>2 DEF a
        <5>3. QED
          BY <5>1, <5>2
      <4>7. Right(us, a, l)
        BY <1>1, <1>8, <4>5, <4>6 DEF Right
      <4>8. QED
        BY <4>4, <4>7 DEF a
    <3>3. QED
      BY <3>1, <3>2
  <2>4. m \in 0..Len(d)
    BY <1>3, <1>4
  <2>5. QED
    BY <2>2, <2>3, <2>4 DEF Settled
<1>9. QED
  BY <1>4, <1>7, <1>8 DEF n, Carries

\* What was settled stays so when the first message of c is handled, where u
\* is the table mapped from then on.
LooksUp(ts, c, t, u) ==
  \A l, sh, tt :
    /\ Settled(ts, c, t, sh, l)
    /\ \/ l \in tt <=> l \in (IF u = 0 THEN {} ELSE ts[u])
       \/ ~Looked(c, t, 1, l) /\ (l \in tt <=> l \in sh)
    => Settled(ts, Tail(c), u, tt, l)

\* The renderer handles the first message: of a link, what it shows in tt is
\* what the table says, or what it showed in sh if it need not look it up.
LEMMA Handled ==
  ASSUME NEW ts, NEW n \in Nat, NEW c \in Seq(Messages), c # <<>>,
         NEW t \in 0..n, ChannelSound(c, t, n), NEW u, u = After(c, t, 1)
  PROVE  /\ u = (IF c[1].kind = "NewTable" THEN c[1].table ELSE t)
         /\ u \in 0..n /\ ChannelSound(Tail(c), u, n)
         /\ LooksUp(ts, c, t, u)
<1> DEFINE d == Tail(c)
<1>1. /\ d \in Seq(Messages) /\ Len(d) = Len(c) - 1 /\ Len(c) \in Nat \ {0}
      /\ Len(d) \in Nat /\ \A i \in 1..Len(d) : d[i] = c[i + 1]
  OBVIOUS
<1>2. \A k \in 0..Len(d) : After(d, u, k) = After(c, t, k + 1)
  <2>1. SUFFICES ASSUME NEW k \in 0..Len(c) - 1
                 PROVE  After(Tail(c), After(c, t, 1), k) = After(c, t, k + 1)
    BY <1>1
  <2>2. QED
    BY AfterTail
<1> HIDE DEF d
<1>3. After(c, t, 0) = t
  BY AfterNone
<1>4. u = (IF c[1].kind = "NewTable" THEN c[1].table ELSE t)
  <2>1. After(c, t, 0 + 1) = IF c[0 + 1].kind = "NewTable" THEN c[0 + 1].table ELSE After(c, t, 0)
    BY AfterNext
  <2>2. QED
    BY <1>3, <2>1
<1>5. u \in 0..n
  BY <1>1, AfterRange
<1>6. ChannelSound(d, u, n)
  <2>1. ASSUME NEW i \in 1..Len(d), d[i].kind = "NewTable"
        PROVE  d[i].table \in 1..n
    <3>1. i + 1 \in 1..Len(c) /\ d[i] = c[i + 1]
      BY <1>1, <2>1
    <3>2. QED
      BY <2>1, <3>1 DEF ChannelSound
  <2>2. After(d, u, Len(d)) = n
    BY <1>1, <1>2 DEF ChannelSound
  <2>3. QED
    BY <2>1, <2>2 DEF ChannelSound
<1>7. ASSUME NEW l, NEW sh, NEW tt, Settled(ts, c, t, sh, l),
             \/ l \in tt <=> l \in (IF u = 0 THEN {} ELSE ts[u])
             \/ ~Looked(c, t, 1, l) /\ (l \in tt <=> l \in sh)
      PROVE  Settled(ts, d, u, tt, l)
  <2>1. PICK m \in 0..Len(c) :
          /\ IF m = 0 THEN l \in sh <=> l \in ts[Len(ts)] ELSE Looked(c, t, m, l)
          /\ \A k \in m..Len(c) : Right(ts, After(c, t, k), l)
    BY <1>7 DEF Settled
  <2>2. CASE m \in {0, 1}
    <3>1. Right(ts, u, l)
      BY <1>1, <2>1, <2>2
    <3>2. l \in tt <=> l \in ts[Len(ts)]
      BY <1>7, <2>1, <2>2, <3>1 DEF Right
    <3>3. ASSUME NEW k \in 0..Len(d) PROVE Right(ts, After(d, u, k), l)
      <4>1. k + 1 \in m..Len(c)
        BY <1>1, <2>2
      <4>2. QED
        BY <1>2, <2>1, <4>1
    <3>4. 0 \in 0..Len(d)
      BY <1>1
    <3>5. QED
      BY <3>2, <3>3, <3>4 DEF Settled
  <2>3. CASE m \notin {0, 1}
    <3>1. m - 1 \in 1..Len(d) /\ m - 1 \in 0..Len(d) /\ m - 1 # 0
          /\ (m - 1) + 1 = m /\ (m - 1) - 1 \in 0..Len(d) /\ ((m - 1) - 1) + 1 = m - 1
      BY <1>1, <2>3
    <3>2. Looked(d, u, m - 1, l)
      <4>1. d[m - 1] = c[m]
        BY <1>1, <3>1
      <4>2. After(d, u, (m - 1) - 1) = After(c, t, m - 1)
        BY <1>2, <3>1
      <4>3. QED
        BY <2>1, <2>3, <4>1, <4>2 DEF Looked
    <3>3. ASSUME NEW k \in (m - 1)..Len(d) PROVE Right(ts, After(d, u, k), l)
      <4>1. k + 1 \in m..Len(c) /\ k \in 0..Len(d)
        BY <1>1, <3>1
      <4>2. QED
        BY <1>2, <2>1, <4>1
    <3>4. QED
      BY <3>1, <3>2, <3>3 DEF Settled
  <2>4. QED
    BY <2>2, <2>3
<1>8. QED
  BY <1>4, <1>5, <1>6, <1>7 DEF d, LooksUp

\* A page is painted: of a link, it shows what the table says or what it did.
LEMMA Painted ==
  ASSUME NEW ts, NEW c \in Seq(Messages), NEW t, NEW l, NEW sh, NEW tt,
         Settled(ts, c, t, sh, l),
         \/ l \in tt <=> l \in (IF t = 0 THEN {} ELSE ts[t])
         \/ l \in tt <=> l \in sh
  PROVE  Settled(ts, c, t, tt, l)
<1>1. PICK m \in 0..Len(c) :
        /\ IF m = 0 THEN l \in sh <=> l \in ts[Len(ts)] ELSE Looked(c, t, m, l)
        /\ \A k \in m..Len(c) : Right(ts, After(c, t, k), l)
  BY DEF Settled
<1>2. CASE m = 0
  <2>1. Right(ts, t, l)
    BY <1>1, <1>2, AfterNone
  <2>2. l \in tt <=> l \in ts[Len(ts)]
    BY <1>1, <1>2, <2>1 DEF Right
  <2>3. QED
    BY <1>1, <1>2, <2>2 DEF Settled
<1>3. CASE m # 0
  BY <1>1, <1>3 DEF Settled
<1>4. QED
  BY <1>2, <1>3

\* The messages d settle what c did, and what was held back as rs or in pd.
Keeps(ts, c, d, t, rs, pd) ==
  \A l, sh : Settled(ts, c, t, sh, l) \/ rs \/ l \in pd => Settled(ts, d, t, sh, l)

\* An updater sends what it holds back, if anything.
LEMMA MessageUpdates ==
  ASSUME NEW R, NEW P, NEW r \in Renderers, R[r] \in BOOLEAN, P[r] \subseteq Links,
         NEW ts \in Seq(SUBSET Links), Len(ts) > 0, NEW c \in Seq(Messages),
         NEW t \in 0..Len(ts), ChannelSound(c, t, Len(ts)), NEW d,
         d = c \o Message(R, P, r)
  PROVE  /\ d \in Seq(Messages) /\ ChannelSound(d, t, Len(ts))
         /\ Keeps(ts, c, d, t, R[r], P[r])
<1>1. CASE R[r]
  <2>1. Reset \in Messages /\ Reset.kind = "Reset"
    BY DEF Reset, Messages
  <2>2. d = Append(c, Reset)
    BY <1>1, <2>1 DEF Message
  <2>3. QED
    BY <1>1, <2>1, <2>2, MessageSent DEF Keeps
<1>2. CASE R[r] = FALSE /\ P[r] # {}
  <2> DEFINE x == AddLinks(P[r])
  <2>1. x \in Messages /\ x.kind = "Add" /\ x.links = P[r]
    BY DEF AddLinks, Messages
  <2>2. d = c \o <<x>>
    BY <1>2 DEF Message
  <2> HIDE DEF x
  <2>3. d = Append(c, x)
    BY <2>1, <2>2
  <2>4. QED
    BY <1>2, <2>1, <2>3, MessageSent DEF Keeps
<1>3. CASE R[r] = FALSE /\ P[r] = {}
  <2>1. d = c \o <<>> /\ c \o <<>> = c
    BY <1>3 DEF Message
  <2>2. QED
    BY <1>3, <2>1 DEF Keeps
<1>4. QED
  BY <1>1, <1>2, <1>3

-----------------------------------------------------------------------------
(* The steps. *)

\* With messages d for c, and rs2 and pd2 held back for rs and pd, no link is
\* forgotten.
Passes(ts, c, d, t, rs, pd, rs2, pd2) ==
  \A l, sh : Settled(ts, c, t, sh, l) \/ rs \/ l \in pd =>
    rs2 \/ l \in pd2 \/ Settled(ts, d, t, sh, l)

\* The updaters of all renderers send what they hold back to those visible.
LEMMA Updates ==
  ASSUME NEW R \in [Renderers -> BOOLEAN], NEW P \in [Renderers -> SUBSET Links],
         NEW sent \in [Renderers -> Seq(Messages)],
         NEW ts \in Seq(SUBSET Links), Len(ts) > 0, Typed(R, P, sent),
         visible \subseteq updaters, updaters \subseteq Renderers,
         \A r \in updaters : Served(ts, sent[r], mapped[r]),
         Threshold \in Nat,
         Update(updaters, R, P, sent)
  PROVE  /\ Typed(resetNeeded', pending', channel')
         /\ \A r \in updaters : Served(ts, channel'[r], mapped[r])
         /\ \A r \in updaters :
              Passes(ts, sent[r], channel'[r], mapped[r], R[r], P[r],
                     resetNeeded'[r], pending'[r])
<1> DEFINE Now == updaters \cap visible
<1>1. ASSUME NEW r \in Renderers
      PROVE  /\ channel'[r] = (IF r \in Now THEN sent[r] \o Message(R, P, r) ELSE sent[r])
             /\ resetNeeded'[r] = (R[r] /\ r \notin Now)
             /\ pending'[r] = (IF r \in Now /\ ~R[r] THEN {} ELSE P[r])
  BY DEF Update
<1>2. /\ DOMAIN channel' = Renderers /\ channel' = [r \in Renderers |-> channel'[r]]
      /\ resetNeeded' = [r \in Renderers |-> resetNeeded'[r]]
      /\ pending' = [r \in Renderers |-> pending'[r]]
  BY DEF Update
<1> HIDE DEF Now
<1>3. ASSUME NEW r \in updaters
      PROVE  /\ Served(ts, channel'[r], mapped[r])
             /\ Passes(ts, sent[r], channel'[r], mapped[r], R[r], P[r],
                       resetNeeded'[r], pending'[r])
  <2>1. CASE r \in Now
    <3>1. channel'[r] = sent[r] \o Message(R, P, r)
      BY <1>1, <2>1
    <3>2. R[r] \in BOOLEAN /\ P[r] \subseteq Links /\ sent[r] \in Seq(Messages)
          /\ mapped[r] \in 0..Len(ts) /\ ChannelSound(sent[r], mapped[r], Len(ts))
      BY DEF Served
    <3> DEFINE d == channel'[r]
    <3> HIDE DEF d
    <3>3. /\ d \in Seq(Messages) /\ ChannelSound(d, mapped[r], Len(ts))
          /\ Keeps(ts, sent[r], d, mapped[r], R[r], P[r])
      <4>1. d = sent[r] \o Message(R, P, r)
        BY <3>1 DEF d
      <4>2. r \in Renderers
        OBVIOUS
      <4>3. QED
        BY <3>2, <4>1, <4>2, MessageUpdates
    <3>4. QED
      BY <3>2, <3>3 DEF d, Served, Keeps, Passes
  <2>2. CASE r \notin Now
    BY <1>1, <2>2 DEF Passes
  <2>3. QED
    BY <2>1, <2>2
<1>4. Typed(resetNeeded', pending', channel')
  <2>1. \A r \in Renderers : resetNeeded'[r] \in BOOLEAN /\ pending'[r] \subseteq Links
                              /\ IsFiniteSet(pending'[r])
    BY <1>1, FS_EmptySet DEF Typed
  <2>2. \A r \in Renderers \ updaters : channel'[r] = <<>>
    BY <1>1 DEF Now, Typed
  <2>3. \A r \in Renderers : channel'[r] \in Seq(Messages)
    <3>1. <<>> \in Seq(Messages)
      OBVIOUS
    <3>2. QED
      BY <1>3, <2>2, <3>1 DEF Served
  <2>4. \A r \in updaters : Bounded(resetNeeded'[r], pending'[r])
    BY <1>1, FS_EmptySet DEF Typed, Bounded
  <2>5. resetNeeded' \in [Renderers -> BOOLEAN] /\ pending' \in [Renderers -> SUBSET Links]
        /\ channel' \in [Renderers -> Seq(Messages)]
    BY <1>2, <2>1, <2>3
  <2>6. QED
    BY <2>1, <2>2, <2>4, <2>5 DEF Typed
<1>5. QED
  BY <1>3, <1>4

\* The table is replaced or changed, and its message sent to every updater.
LEMMA TableStep ==
  ASSUME IInv, NEW replaced \in BOOLEAN, NEW S \in SUBSET Links,
         tables' = Replace(replaced, S), NEW sent,
         sent = SendTable(replaced, Len(tables'))
  PROVE  /\ tables' \in Seq(SUBSET Links) /\ Len(tables') > 0
         /\ tables'[Len(tables')] = S
         /\ Typed(resetNeeded, pending, sent)
         /\ sent \in [Renderers -> Seq(Messages)]
         /\ \A r \in updaters : Served(tables', sent[r], mapped[r])
         /\ \A r \in updaters :
              Carries(tables, channel[r], tables', sent[r], mapped[r], S)
<1> DEFINE ts == tables
           us == tables'
<1>1. ts \in Seq(SUBSET Links) /\ Len(ts) > 0 /\ updaters \subseteq Renderers
  BY DEF IInv
<1>2. us = (IF replaced THEN Append([ts EXCEPT ![Len(ts)] = S], S)
            ELSE [ts EXCEPT ![Len(ts)] = S])
  BY DEF Replace
<1>3. \A r \in Renderers :
        sent[r] = IF replaced /\ r \in updaters
                  THEN Append(channel[r], NewTable(Len(us))) ELSE channel[r]
  BY DEF SendTable
<1>4. sent = [r \in Renderers |-> sent[r]]
  BY DEF SendTable
<1> HIDE DEF ts, us
<1>5. /\ us \in Seq(SUBSET Links) /\ Len(us) > 0 /\ us[Len(us)] = S
      /\ Len(us) >= Len(ts) /\ Len(us) \in Nat /\ Len(ts) \in Nat
  BY <1>1, <1>2
<1>6. ASSUME NEW r \in updaters
      PROVE  /\ Served(us, sent[r], mapped[r])
             /\ Carries(ts, channel[r], us, sent[r], mapped[r], S)
  <2>1. Served(ts, channel[r], mapped[r])
    BY DEF IInv, ts
  <2> DEFINE d == sent[r]
  <2>2. d = (IF replaced THEN Append(channel[r], NewTable(Len(us))) ELSE channel[r])
    BY <1>1, <1>3
  <2> HIDE DEF d
  <2>3. channel[r] \in Seq(Messages) /\ mapped[r] \in 0..Len(ts)
        /\ ChannelSound(channel[r], mapped[r], Len(ts))
    BY <2>1 DEF Served
  <2>4. /\ d \in Seq(Messages) /\ ChannelSound(d, mapped[r], Len(us))
        /\ Carries(ts, channel[r], us, d, mapped[r], S)
    BY <1>1, <1>2, <2>2, <2>3, TableSent
  <2>5. mapped[r] \in 0..Len(us)
    BY <1>5, <2>3
  <2>6. QED
    BY <2>4, <2>5 DEF d, Served
<1>7. \A r \in Renderers : sent[r] \in Seq(Messages)
  <2>1. \A r \in Renderers \ updaters : sent[r] = channel[r]
    BY <1>3
  <2>2. QED
    BY <1>6, <2>1 DEF Served, IInv, Typed
<1>8. sent \in [Renderers -> Seq(Messages)]
  BY <1>4, <1>7
<1>9. Typed(resetNeeded, pending, sent)
  <2>1. \A r \in Renderers \ updaters : sent[r] = <<>>
    BY <1>3 DEF IInv, Typed
  <2>2. QED
    BY <1>8, <2>1 DEF IInv, Typed
<1>10. QED
  BY <1>5, <1>6, <1>8, <1>9 DEF ts, us

\* What an operation leaves alone, when pages are.
LEMMA OperationKeeps ==
  ASSUME IInv, NEW op, Operation(op)
  PROVE  /\ ops' \in 0..MaxOps /\ raced' \in BOOLEAN /\ deleting = {}
         /\ raced' = FALSE => raced = FALSE /\ op # "DeleteURLs"
         /\ UNCHANGED <<visible, mapped, shown>>
<1>1. op \in Operations /\ ops < MaxOps /\ ops' = ops + 1
      /\ raced' = (raced \/ op = "DeleteURLs") /\ deleting = {}
      /\ UNCHANGED <<visible, mapped, shown>>
  BY DEF Operation, pages
<1>2. ops \in 0..MaxOps /\ raced \in BOOLEAN /\ MaxOps \in Nat
  BY ListenerAssumption DEF IInv
<1>3. ops' \in 0..MaxOps
  BY <1>1, <1>2
<1>4. raced' \in BOOLEAN
  BY <1>1, <1>2
<1>5. raced' = FALSE => raced = FALSE /\ op # "DeleteURLs"
  BY <1>1, <1>2, Zenon
<1>6. QED
  BY <1>1, <1>3, <1>4, <1>5

\* The link added is collected with the timer running; others stay as they were.
LEMMA AddURLStep ==
  ASSUME IInv, AddURL
  PROVE  IInv'
<1>1. Operation("AddURL") /\ UNCHANGED <<updaters, resetNeeded, pending, deleting>>
  BY DEF AddURL
<1>2. /\ ops' \in 0..MaxOps /\ raced' \in BOOLEAN /\ deleting = {}
      /\ raced' = FALSE => raced = FALSE
      /\ UNCHANGED <<visible, mapped, shown>>
  BY <1>1, OperationKeeps
<1>3. PICK x \in Links \ Current, replaced \in BOOLEAN :
        /\ tables' = Replace(replaced, Current \union {x})
        /\ pendingLinks' = pendingLinks \union {x} /\ timer' = TRUE
        /\ channel' = SendTable(replaced, Len(tables'))
  BY DEF AddURL
<1> DEFINE S == Current \union {x}
           sent == channel'
<1>4. S \in SUBSET Links
  BY DEF IInv, Current
<1>5. sent = SendTable(replaced, Len(tables')) /\ tables' = Replace(replaced, S)
  BY <1>3
<1> HIDE DEF S, sent
<1>6. /\ tables' \in Seq(SUBSET Links) /\ Len(tables') > 0
      /\ Typed(resetNeeded, pending, sent)
      /\ \A r \in updaters : Served(tables', sent[r], mapped[r])
      /\ \A r \in updaters :
           Carries(tables, channel[r], tables', sent[r], mapped[r], S)
  BY <1>4, <1>5, TableStep
<1>7. ASSUME raced' = FALSE, NEW r \in updaters, NEW l \in Links
      PROVE  Aware(r, l)'
  <2>1. CASE l = x
    BY <1>3, <2>1 DEF Aware, Collected
  <2>2. CASE l # x
    <3>1. Aware(r, l)
      BY <1>2, <1>7 DEF IInv
    <3>2. l \in S <=> l \in Current
      BY <2>2 DEF S
    <3>3. CASE Settled(tables, channel[r], mapped[r], shown[r], l)
      BY <1>2, <1>6, <3>2, <3>3 DEF Aware, sent, Carries, Current
    <3>4. CASE Collected(l) \/ HeldBack(r, l)
      BY <1>1, <1>3, <3>4 DEF Aware, Collected, HeldBack
    <3>5. QED
      BY <3>1, <3>3, <3>4 DEF Aware
  <2>3. QED
    BY <2>1, <2>2
<1>8. IsFiniteSet(pendingLinks') /\ pendingLinks' \subseteq Links
  BY <1>3, FS_AddElement DEF IInv
<1>9. QED
  BY <1>1, <1>2, <1>3, <1>6, <1>7, <1>8 DEF IInv, Typed, sent

\* Every updater is told to reset, whatever was collected.
LEMMA ResetStep ==
  ASSUME IInv, NEW sent \in [Renderers -> Seq(Messages)],
         NEW ts \in Seq(SUBSET Links), Len(ts) > 0, Typed(resetNeeded, pending, sent),
         \A r \in updaters : Served(ts, sent[r], mapped[r]),
         ResetAll(sent)
  PROVE  /\ pendingLinks' = {} /\ timer' = FALSE
         /\ Typed(resetNeeded', pending', channel')
         /\ \A r \in updaters : Served(ts, channel'[r], mapped[r])
         /\ \A r \in updaters : \A l, sh :
              \/ resetNeeded'[r] \/ l \in pending'[r]
              \/ Settled(ts, channel'[r], mapped[r], sh, l)
<1> DEFINE R == [r \in Renderers |-> r \in updaters \/ resetNeeded[r]]
           P == [r \in Renderers |-> IF r \in updaters THEN {} ELSE pending[r]]
<1>1. /\ pendingLinks' = {} /\ timer' = FALSE
      /\ Update(updaters, R, P, sent)
  BY DEF ResetAll
<1>2. /\ updaters \subseteq Renderers /\ visible \subseteq updaters /\ Threshold \in Nat
      /\ resetNeeded \in [Renderers -> BOOLEAN] /\ pending \in [Renderers -> SUBSET Links]
  BY ListenerAssumption DEF IInv, Typed
<1>3. R \in [Renderers -> BOOLEAN] /\ P \in [Renderers -> SUBSET Links]
  BY <1>2
<1>4. \A r \in updaters : R[r] = TRUE /\ P[r] = {}
  BY <1>2
<1>5. \A r \in Renderers \ updaters : P[r] = pending[r]
  OBVIOUS
<1> HIDE DEF R, P
<1>6. Typed(R, P, sent)
  <2>0. IsFiniteSet({}) /\ Cardinality({}) = 0
    BY FS_EmptySet
  <2>1. ASSUME NEW r \in Renderers PROVE IsFiniteSet(P[r])
    <3>1. CASE r \in updaters
      BY <1>4, <2>0, <3>1
    <3>2. CASE r \notin updaters
      BY <1>5, <3>2 DEF Typed
    <3>3. QED
      BY <3>1, <3>2
  <2>2. ASSUME NEW r \in updaters PROVE Bounded(R[r], P[r])
    <3>1. P[r] = {}
      BY <1>4
    <3>2. 0 <= Threshold
      BY <1>2
    <3>3. QED
      BY <2>0, <3>1, <3>2 DEF Bounded
  <2>3. QED
    BY <1>3, <2>1, <2>2 DEF Typed
<1>7. /\ Typed(resetNeeded', pending', channel')
      /\ \A r \in updaters : Served(ts, channel'[r], mapped[r])
      /\ \A r \in updaters :
           Passes(ts, sent[r], channel'[r], mapped[r], R[r], P[r],
                  resetNeeded'[r], pending'[r])
  BY <1>1, <1>2, <1>3, <1>6, Updates
<1>8. QED
  BY <1>1, <1>4, <1>7 DEF Passes

\* Every link is announced by the reset.
LEMMA DeleteAllURLsStep ==
  ASSUME IInv, DeleteAllURLs
  PROVE  IInv'
<1>1. Operation("DeleteAllURLs") /\ UNCHANGED <<updaters, deleting>>
  BY DEF DeleteAllURLs
<1>2. /\ ops' \in 0..MaxOps /\ raced' \in BOOLEAN /\ deleting = {}
      /\ UNCHANGED <<visible, mapped, shown>>
  BY <1>1, OperationKeeps
<1>3. PICK replaced \in BOOLEAN :
        /\ tables' = Replace(replaced, {})
        /\ ResetAll(SendTable(replaced, Len(tables')))
  BY DEF DeleteAllURLs
<1> DEFINE sent == SendTable(replaced, Len(tables'))
<1>4. sent = SendTable(replaced, Len(tables')) /\ ResetAll(sent)
  BY <1>3
<1> HIDE DEF sent
<1>5. /\ tables' \in Seq(SUBSET Links) /\ Len(tables') > 0
      /\ Typed(resetNeeded, pending, sent)
      /\ sent \in [Renderers -> Seq(Messages)]
      /\ \A r \in updaters : Served(tables', sent[r], mapped[r])
  BY <1>3, <1>4, TableStep
<1>6. /\ pendingLinks' = {} /\ timer' = FALSE
      /\ Typed(resetNeeded', pending', channel')
      /\ \A r \in updaters : Served(tables', channel'[r], mapped[r])
      /\ \A r \in updaters : \A l, sh :
           \/ resetNeeded'[r] \/ l \in pending'[r]
           \/ Settled(tables', channel'[r], mapped[r], sh, l)
  BY <1>4, <1>5, ResetStep
<1>7. \A r \in updaters, l \in Links : Aware(r, l)'
  BY <1>2, <1>6 DEF Aware, HeldBack
<1>8. QED
  BY <1>1, <1>2, <1>5, <1>6, <1>7, FS_EmptySet DEF IInv, Typed

\* From here on raced holds: only the types and the tables are left to show.
LEMMA DeleteURLsStep ==
  ASSUME IInv, DeleteURLs
  PROVE  IInv'
<1>1. Operation("DeleteURLs") /\ ResetAll(channel) /\ UNCHANGED <<tables, updaters>>
      /\ deleting' \subseteq Links
  BY DEF DeleteURLs
<1>2. /\ ops' \in 0..MaxOps /\ raced' \in BOOLEAN /\ raced' # FALSE
      /\ UNCHANGED <<visible, mapped, shown>>
  BY <1>1, OperationKeeps
<1>3. channel \in [Renderers -> Seq(Messages)] /\ Typed(resetNeeded, pending, channel)
      /\ \A r \in updaters : Served(tables, channel[r], mapped[r])
  BY DEF IInv, Typed
<1>4. tables \in Seq(SUBSET Links) /\ Len(tables) > 0
  BY DEF IInv
<1>5. /\ pendingLinks' = {} /\ timer' = FALSE
      /\ Typed(resetNeeded', pending', channel')
      /\ \A r \in updaters : Served(tables, channel'[r], mapped[r])
  BY <1>1, <1>3, <1>4, ResetStep
<1>6. QED
  BY <1>1, <1>2, <1>4, <1>5, FS_EmptySet DEF IInv, Typed

\* The same: a deletion under way means that raced holds.
LEMMA FinishDeleteURLsStep ==
  ASSUME IInv, FinishDeleteURLs
  PROVE  IInv'
<1>1. /\ deleting # {} /\ deleting' = {}
      /\ UNCHANGED <<pendingLinks, timer, updaters, resetNeeded, pending, raced, ops>>
      /\ UNCHANGED <<visible, mapped, shown>>
  BY DEF FinishDeleteURLs, pages
<1>2. raced = TRUE
  BY <1>1 DEF IInv
<1>3. PICK replaced \in BOOLEAN :
        /\ tables' = Replace(replaced, Current \ deleting)
        /\ channel' = SendTable(replaced, Len(tables'))
  BY DEF FinishDeleteURLs
<1> DEFINE S == Current \ deleting
           sent == channel'
<1>4. S \in SUBSET Links
  BY DEF IInv, Current
<1>5. sent = SendTable(replaced, Len(tables')) /\ tables' = Replace(replaced, S)
  BY <1>3
<1> HIDE DEF S, sent
<1>6. /\ tables' \in Seq(SUBSET Links) /\ Len(tables') > 0
      /\ Typed(resetNeeded, pending, sent)
      /\ \A r \in updaters : Served(tables', sent[r], mapped[r])
  BY <1>4, <1>5, TableStep
<1>7. QED
  BY <1>1, <1>2, <1>6 DEF IInv, Typed, sent

\* The new table holds the same links.
LEMMA RebuildStep ==
  ASSUME IInv, Rebuild
  PROVE  IInv'
<1>1. /\ Operation("Rebuild")
      /\ UNCHANGED <<pendingLinks, timer, updaters, resetNeeded, pending, deleting>>
  BY DEF Rebuild
<1>2. /\ ops' \in 0..MaxOps /\ raced' \in BOOLEAN /\ deleting = {}
      /\ raced' = FALSE => raced = FALSE
      /\ UNCHANGED <<visible, mapped, shown>>
  BY <1>1, OperationKeeps
<1> DEFINE S == Current
           sent == channel'
<1>3. S \in SUBSET Links
  BY DEF IInv, Current
<1>0. PICK replaced \in BOOLEAN : replaced = TRUE
  OBVIOUS
<1>4. sent = SendTable(replaced, Len(tables'))
  BY <1>0 DEF Rebuild
<1>5. tables' = Replace(replaced, S)
  BY <1>0 DEF Rebuild, Replace, IInv, Current
<1> HIDE DEF S, sent
<1>6. /\ tables' \in Seq(SUBSET Links) /\ Len(tables') > 0
      /\ Typed(resetNeeded, pending, sent)
      /\ \A r \in updaters : Served(tables', sent[r], mapped[r])
      /\ \A r \in updaters :
           Carries(tables, channel[r], tables', sent[r], mapped[r], S)
  BY <1>3, <1>4, <1>5, TableStep
<1>7. ASSUME raced' = FALSE, NEW r \in updaters, NEW l \in Links
      PROVE  Aware(r, l)'
  <2>1. Aware(r, l)
    BY <1>2, <1>7 DEF IInv
  <2>2. CASE Settled(tables, channel[r], mapped[r], shown[r], l)
    BY <1>2, <1>6, <2>2 DEF Aware, sent, Carries, Current, S
  <2>3. CASE Collected(l) \/ HeldBack(r, l)
    BY <1>1, <2>3 DEF Aware, Collected, HeldBack
  <2>4. QED
    BY <2>1, <2>2, <2>3 DEF Aware
<1>8. QED
  BY <1>1, <1>2, <1>6, <1>7 DEF IInv, Typed, sent

\* What was collected is buffered or, beyond the threshold, becomes a reset.
LEMMA CommitStep ==
  ASSUME IInv, CommitVisitedLinks
  PROVE  IInv'
<1> DEFINE R == [r \in Renderers |-> resetNeeded[r] \/ (r \in updaters /\ Overflows(r))]
           P == [r \in Renderers |-> Buffered(r)]
<1>1. /\ timer' = FALSE /\ pendingLinks' = {}
      /\ Update(updaters, R, P, channel)
      /\ UNCHANGED <<tables, deleting, raced, ops, updaters, visible, mapped, shown>>
  BY DEF CommitVisitedLinks, master, pages
<1>2. /\ updaters \subseteq Renderers /\ visible \subseteq updaters /\ Threshold \in Nat
      /\ resetNeeded \in [Renderers -> BOOLEAN] /\ pending \in [Renderers -> SUBSET Links]
      /\ pendingLinks \subseteq Links /\ IsFiniteSet(pendingLinks)
      /\ \A r \in Renderers : IsFiniteSet(pending[r])
  BY ListenerAssumption DEF IInv, Typed
<1>3. ASSUME NEW r \in Renderers
      PROVE  /\ R[r] = (resetNeeded[r] \/ (r \in updaters /\ Overflows(r)))
             /\ P[r] = (IF resetNeeded[r] \/ r \notin updaters THEN pending[r]
                        ELSE IF Overflows(r) THEN {} ELSE pending[r] \union pendingLinks)
  BY DEF Buffered
<1>4. Typed(R, P, channel)
  <2>1. ASSUME NEW r \in Renderers
        PROVE  P[r] \in SUBSET Links /\ IsFiniteSet(P[r])
    <3>1. IsFiniteSet(pending[r] \union pendingLinks) /\ IsFiniteSet({})
      BY <1>2, FS_Union, FS_EmptySet
    <3>2. QED
      BY <1>2, <1>3, <3>1
  <2>2. R \in [Renderers -> BOOLEAN]
    <3>1. ASSUME NEW r \in Renderers
          PROVE  (resetNeeded[r] \/ (r \in updaters /\ Overflows(r))) \in BOOLEAN
      OBVIOUS
    <3>2. QED
      BY <3>1
  <2>3. P \in [Renderers -> SUBSET Links]
    BY <2>1
  <2>4. ASSUME NEW r \in updaters PROVE Bounded(R[r], P[r])
    <3>1. Bounded(resetNeeded[r], pending[r]) /\ r \in Renderers
      BY <1>2 DEF IInv, Typed
    <3>2. CASE resetNeeded[r]
      <4>1. P[r] = pending[r] /\ pending[r] = {} /\ Cardinality(pending[r]) <= Threshold
        BY <1>3, <3>1, <3>2 DEF Bounded
      <4>2. QED
        BY <4>1 DEF Bounded
    <3>3. CASE ~resetNeeded[r] /\ Overflows(r)
      <4>1. P[r] = {} /\ Cardinality({}) = 0
        BY <1>3, <3>1, <3>3, FS_EmptySet
      <4>2. QED
        BY <1>2, <4>1 DEF Bounded
    <3>4. CASE ~resetNeeded[r] /\ ~Overflows(r)
      <4>1. P[r] = pending[r] \union pendingLinks /\ R[r] = FALSE
        BY <1>3, <3>1, <3>4
      <4> DEFINE a == Cardinality(pending[r])
                 b == Cardinality(pendingLinks)
                 n == Cardinality(pending[r] \cap pendingLinks)
                 u == Cardinality(pending[r] \union pendingLinks)
      <4>2. IsFiniteSet(pending[r]) /\ IsFiniteSet(pending[r] \cap pendingLinks)
            /\ IsFiniteSet(pending[r] \union pendingLinks)
        BY <1>2, <3>1, FS_Intersection, FS_Union
      <4>3. u = a + b - n
        BY <1>2, <4>2, FS_Union
      <4>4. a \in Nat /\ b \in Nat /\ n \in Nat
        BY <1>2, <4>2, FS_CardinalityType
      <4>5. ~(a + b > Threshold)
        BY <3>4 DEF Overflows
      <4> HIDE DEF a, b, n, u
      <4>6. u <= Threshold
        BY <1>2, <4>3, <4>4, <4>5
      <4>7. QED
        BY <4>1, <4>6 DEF Bounded, u
    <3>5. QED
      BY <3>2, <3>3, <3>4
  <2>5. channel \in [Renderers -> Seq(Messages)]
        /\ \A r \in Renderers \ updaters : channel[r] = <<>>
    BY DEF IInv, Typed
  <2> HIDE DEF R, P
  <2>6. QED
    BY <2>1, <2>2, <2>3, <2>4, <2>5 DEF Typed
<1>5. R \in [Renderers -> BOOLEAN] /\ P \in [Renderers -> SUBSET Links]
      /\ channel \in [Renderers -> Seq(Messages)]
  BY <1>4 DEF Typed
<1> HIDE DEF R, P
<1>6. /\ Typed(resetNeeded', pending', channel')
      /\ \A r \in updaters : Served(tables, channel'[r], mapped[r])
      /\ \A r \in updaters :
           Passes(tables, channel[r], channel'[r], mapped[r], R[r], P[r],
                  resetNeeded'[r], pending'[r])
  <2>1. tables \in Seq(SUBSET Links) /\ Len(tables) > 0
        /\ \A r \in updaters : Served(tables, channel[r], mapped[r])
    BY DEF IInv
  <2>2. QED
    BY <1>1, <1>2, <1>4, <1>5, <2>1, Updates
<1>7. ASSUME raced = FALSE, NEW r \in updaters, NEW l \in Links
      PROVE  Aware(r, l)'
  <2>1. Aware(r, l)
    BY <1>7 DEF IInv
  <2>2. r \in Renderers /\ Bounded(resetNeeded[r], pending[r])
    BY <1>2 DEF IInv, Typed
  <2>3. Settled(tables, channel[r], mapped[r], shown[r], l) \/ R[r] \/ l \in P[r]
    <3>1. CASE Settled(tables, channel[r], mapped[r], shown[r], l)
      BY <3>1
    <3>2. CASE Collected(l) \/ HeldBack(r, l)
      <4>1. CASE resetNeeded[r] \/ Overflows(r)
        BY <1>3, <2>2, <4>1
      <4>2. CASE ~(resetNeeded[r] \/ Overflows(r))
        <5>1. P[r] = pending[r] \union pendingLinks
          BY <1>3, <2>2, <4>2
        <5>2. QED
          BY <3>2, <4>2, <5>1 DEF Collected, HeldBack
      <4>3. QED
        BY <4>1, <4>2
    <3>3. QED
      BY <2>1, <3>1, <3>2 DEF Aware
  <2>4. \/ resetNeeded'[r] \/ l \in pending'[r]
        \/ Settled(tables, channel'[r], mapped[r], shown[r], l)
    BY <1>6, <2>3 DEF Passes
  <2>5. QED
    BY <1>1, <2>4 DEF Aware, HeldBack
<1>8. QED
  BY <1>1, <1>6, <1>7, FS_EmptySet DEF IInv, Typed

\* The first table makes a renderer look up every link.
LEMMA ProcessCreatedStep ==
  ASSUME IInv, NEW r \in Renderers, ProcessCreated(r)
  PROVE  IInv'
<1>1. /\ r \notin updaters /\ updaters' = updaters \union {r}
      /\ resetNeeded' = [resetNeeded EXCEPT ![r] = FALSE]
      /\ pending' = [pending EXCEPT ![r] = {}]
      /\ channel' = [channel EXCEPT ![r] = <<NewTable(Len(tables))>>]
      /\ UNCHANGED <<tables, deleting, raced, ops, pendingLinks, timer, visible, mapped, shown>>
  BY DEF ProcessCreated, master, pages
<1> DEFINE n == Len(tables)
           x == NewTable(n)
           c == <<x>>
<1>2. n \in Nat \ {0}
  BY DEF IInv
<1>3. x \in Messages /\ x.kind = "NewTable" /\ x.table = n
  BY <1>2 DEF NewTable, Messages
<1> HIDE DEF x
<1>4. c \in Seq(Messages) /\ Len(c) = 1 /\ c[1] = x
  BY <1>3
<1>5. channel'[r] = c /\ resetNeeded'[r] = FALSE /\ pending'[r] = {} /\ mapped[r] = 0
      /\ shown[r] = {}
  BY <1>1 DEF IInv, Typed, x
<1>6. \A q \in Renderers : q # r => channel'[q] = channel[q] /\ pending'[q] = pending[q]
                                    /\ resetNeeded'[q] = resetNeeded[q]
  BY <1>1 DEF IInv, Typed
<1> HIDE DEF c, n
<1>7. After(c, 0, 0) = 0 /\ After(c, 0, 1) = n
  <2>1. After(c, 0, 0) = 0
    BY AfterNone
  <2>2. After(c, 0, 0 + 1) = IF c[0 + 1].kind = "NewTable" THEN c[0 + 1].table ELSE After(c, 0, 0)
    BY AfterNext
  <2>3. QED
    BY <1>3, <1>4, <2>1, <2>2
<1>8. Served(tables, c, 0)
  BY <1>2, <1>3, <1>4, <1>7 DEF Served, ChannelSound, n
<1>9. \A l, sh : Settled(tables, c, 0, sh, l)
  <2>1. SUFFICES ASSUME NEW l, NEW sh PROVE Settled(tables, c, 0, sh, l)
    OBVIOUS
  <2>2. Looked(c, 0, 1, l)
    BY <1>7 DEF Looked
  <2>3. \A k \in 1..Len(c) : Right(tables, After(c, 0, k), l)
    <3>1. \A k \in 1..Len(c) : k = 1
      BY <1>4
    <3>2. Right(tables, n, l)
      BY <1>2 DEF Right, n
    <3>3. QED
      BY <1>7, <3>1, <3>2
  <2>4. 1 \in 0..Len(c)
    BY <1>4
  <2>5. QED
    BY <2>2, <2>3, <2>4 DEF Settled
<1>10. Bounded(FALSE, {}) /\ IsFiniteSet({})
  BY FS_EmptySet, ListenerAssumption DEF Bounded
<1>11. Typed(resetNeeded, pending, channel)' 
  <2>1. resetNeeded' \in [Renderers -> BOOLEAN] /\ pending' \in [Renderers -> SUBSET Links]
        /\ channel' \in [Renderers -> Seq(Messages)]
    BY <1>1, <1>4 DEF IInv, Typed, c, x, n
  <2>2. \A q \in Renderers : IsFiniteSet(pending'[q])
    BY <1>5, <1>6, <1>10 DEF IInv, Typed
  <2>3. \A q \in updaters' : Bounded(resetNeeded'[q], pending'[q])
    BY <1>1, <1>5, <1>6, <1>10 DEF IInv, Typed
  <2>4. \A q \in Renderers \ updaters' : channel'[q] = <<>>
    BY <1>1, <1>6 DEF IInv, Typed
  <2>5. QED
    BY <2>1, <2>2, <2>3, <2>4 DEF Typed
<1>12. \A q \in updaters' : Served(tables, channel'[q], mapped[q])
  BY <1>1, <1>5, <1>6, <1>8 DEF IInv
<1>13. ASSUME raced = FALSE, NEW q \in updaters', NEW l \in Links
       PROVE  Aware(q, l)'
  <2>1. CASE q = r
    BY <1>1, <1>5, <1>9, <2>1 DEF Aware
  <2>2. CASE q # r
    <3>1. q \in updaters /\ q \in Renderers
      BY <1>1, <2>2 DEF IInv
    <3>2. Aware(q, l)
      BY <1>13, <3>1 DEF IInv
    <3>3. QED
      BY <1>1, <1>6, <2>2, <3>1, <3>2 DEF Aware, Collected, HeldBack
  <2>3. QED
    BY <2>1, <2>2
<1>14. QED
  BY <1>1, <1>11, <1>12, <1>13 DEF IInv

\* A renderer that ends is owed nothing.
LEMMA ProcessTerminatedStep ==
  ASSUME IInv, NEW r \in Renderers, ProcessTerminated(r)
  PROVE  IInv'
<1>1. /\ updaters' = updaters \ {r} /\ visible' = visible \ {r}
      /\ channel' = [channel EXCEPT ![r] = <<>>]
      /\ mapped' = [mapped EXCEPT ![r] = 0]
      /\ shown' = [shown EXCEPT ![r] = {}]
      /\ UNCHANGED <<tables, deleting, raced, ops, pendingLinks, timer, resetNeeded, pending>>
  BY DEF ProcessTerminated, master
<1>2. channel'[r] = <<>> /\ mapped'[r] = 0 /\ shown'[r] = {}
  BY <1>1 DEF IInv, Typed
<1>3. \A q \in Renderers : q # r =>
        channel'[q] = channel[q] /\ mapped'[q] = mapped[q] /\ shown'[q] = shown[q]
  BY <1>1 DEF IInv, Typed
<1>4. Typed(resetNeeded, pending, channel)'
  <2>1. channel' \in [Renderers -> Seq(Messages)]
    BY <1>1 DEF IInv, Typed
  <2>2. \A q \in Renderers \ updaters' : channel'[q] = <<>>
    BY <1>1, <1>2, <1>3 DEF IInv, Typed
  <2>3. QED
    BY <1>1, <2>1, <2>2 DEF IInv, Typed
<1>5. mapped' \in [Renderers -> Nat] /\ shown' \in [Renderers -> SUBSET Links]
  BY <1>1 DEF IInv
<1>6. ASSUME NEW q \in updaters'
      PROVE  Served(tables, channel'[q], mapped'[q])
  BY <1>1, <1>3 DEF IInv
<1>7. ASSUME raced = FALSE, NEW q \in updaters', NEW l \in Links
      PROVE  Aware(q, l)'
  <2>1. q \in updaters /\ q \in Renderers /\ q # r
    BY <1>1 DEF IInv
  <2>2. Aware(q, l)
    BY <1>7, <2>1 DEF IInv
  <2>3. QED
    BY <1>1, <1>3, <2>1, <2>2 DEF Aware, Collected, HeldBack
<1>8. \A q \in Renderers \ updaters' : mapped'[q] = 0 /\ shown'[q] = {}
  BY <1>1, <1>2, <1>3 DEF IInv
<1>9. QED
  BY <1>1, <1>4, <1>5, <1>6, <1>7, <1>8 DEF IInv

\* To be hidden delays what is sent and changes nothing else.
LEMMA HideStep ==
  ASSUME IInv, NEW r \in Renderers, Hide(r)
  PROVE  IInv'
BY DEF IInv, Hide, master, listener, Typed, Aware, Collected, HeldBack

\* What was held back is sent.
LEMMA ShowStep ==
  ASSUME IInv, NEW r \in Renderers, Show(r)
  PROVE  IInv'
<1> DEFINE d == channel[r] \o Message(resetNeeded, pending, r)
<1>1. /\ r \in updaters /\ visible' = visible \union {r}
      /\ channel' = [channel EXCEPT ![r] = d]
      /\ resetNeeded' = [resetNeeded EXCEPT ![r] = FALSE]
      /\ pending' = [pending EXCEPT ![r] = IF resetNeeded[r] THEN @ ELSE {}]
      /\ UNCHANGED <<tables, deleting, raced, ops, pendingLinks, timer, updaters, mapped, shown>>
  BY DEF Show, master
<1> HIDE DEF d
<1>2. channel'[r] = d /\ resetNeeded'[r] = FALSE
      /\ pending'[r] = (IF resetNeeded[r] THEN pending[r] ELSE {})
  BY <1>1 DEF IInv, Typed
<1>3. \A q \in Renderers : q # r => channel'[q] = channel[q] /\ pending'[q] = pending[q]
                                    /\ resetNeeded'[q] = resetNeeded[q]
  BY <1>1 DEF IInv, Typed
<1>4. Bounded(resetNeeded[r], pending[r])
  BY <1>1 DEF IInv, Typed
<1>5. /\ d \in Seq(Messages) /\ ChannelSound(d, mapped[r], Len(tables))
      /\ Keeps(tables, channel[r], d, mapped[r], resetNeeded[r], pending[r])
  <2>1. Served(tables, channel[r], mapped[r]) /\ tables \in Seq(SUBSET Links) /\ Len(tables) > 0
    BY <1>1 DEF IInv
  <2>2. resetNeeded[r] \in BOOLEAN /\ pending[r] \subseteq Links
    BY DEF IInv, Typed
  <2>3. d = channel[r] \o Message(resetNeeded, pending, r)
    BY DEF d
  <2>4. QED
    BY <2>1, <2>2, <2>3, MessageUpdates DEF Served
<1>6. Served(tables, d, mapped[r])
  BY <1>1, <1>5 DEF Served, IInv
<1>7. Typed(resetNeeded, pending, channel)'
  <2>1. resetNeeded' \in [Renderers -> BOOLEAN] /\ pending' \in [Renderers -> SUBSET Links]
        /\ channel' \in [Renderers -> Seq(Messages)]
    BY <1>1, <1>5 DEF IInv, Typed
  <2>2. IsFiniteSet({}) /\ Cardinality({}) = 0 /\ Threshold \in Nat
    BY FS_EmptySet, ListenerAssumption
  <2>3. IsFiniteSet(pending'[r])
    BY <1>2, <2>2 DEF IInv, Typed
  <2>4. Bounded(resetNeeded'[r], pending'[r])
    <3>1. CASE resetNeeded[r]
      BY <1>2, <1>4, <3>1 DEF Bounded
    <3>2. CASE ~resetNeeded[r]
      <4>1. pending'[r] = {} /\ 0 <= Threshold
        BY <1>2, <2>2, <3>2
      <4>2. QED
        BY <2>2, <4>1 DEF Bounded
    <3>3. QED
      BY <3>1, <3>2
  <2>5. \A q \in Renderers : IsFiniteSet(pending'[q])
    BY <1>3, <2>3 DEF IInv, Typed
  <2>6. \A q \in updaters' : Bounded(resetNeeded'[q], pending'[q])
    BY <1>1, <1>3, <2>4 DEF IInv, Typed
  <2>7. \A q \in Renderers \ updaters' : channel'[q] = <<>>
    BY <1>1, <1>3 DEF IInv, Typed
  <2>8. QED
    BY <2>1, <2>5, <2>6, <2>7 DEF Typed
<1>8. \A q \in updaters : Served(tables, channel'[q], mapped[q])
  BY <1>2, <1>3, <1>6 DEF IInv
<1>9. ASSUME raced = FALSE, NEW q \in updaters, NEW l \in Links
      PROVE  Aware(q, l)'
  <2>1. Aware(q, l) /\ q \in Renderers
    BY <1>9 DEF IInv
  <2>2. CASE q = r
    <3>1. Collected(l) \/ Settled(tables, d, mapped[r], shown[r], l)
      BY <1>5, <2>1, <2>2 DEF Aware, HeldBack, Keeps
    <3>2. QED
      BY <1>1, <1>2, <2>2, <3>1 DEF Aware, Collected
  <2>3. CASE q # r
    BY <1>1, <1>3, <2>1, <2>3 DEF Aware, Collected, HeldBack
  <2>4. QED
    BY <2>2, <2>3
<1>10. QED
  BY <1>1, <1>7, <1>8, <1>9 DEF IInv

\* A renderer handles a message: the place from which it is right moves up by one.
LEMMA MessageStep ==
  ASSUME IInv, NEW r \in Renderers, OnControlMessageReceived(r)
  PROVE  IInv'
<1> DEFINE c == channel[r]
           x == Head(c)
           u == IF x.kind = "NewTable" THEN x.table ELSE mapped[r]
           S == IF x.kind = "Reset" \/ mapped[r] = 0 THEN Links ELSE x.links
           tt == Repaint(r, S, u)
<1>1. /\ c # <<>>
      /\ mapped' = [mapped EXCEPT ![r] = u]
      /\ shown' = [shown EXCEPT ![r] = tt]
      /\ channel' = [channel EXCEPT ![r] = Tail(c)]
      /\ UNCHANGED <<tables, deleting, raced, ops, pendingLinks, timer, updaters,
                     resetNeeded, pending, visible>>
  BY DEF OnControlMessageReceived, master
<1>2. r \in updaters /\ Served(tables, c, mapped[r])
  BY <1>1 DEF IInv, Typed
<1>3. c \in Seq(Messages) /\ x = c[1] /\ x \in Messages /\ Tail(c) \in Seq(Messages)
      /\ mapped[r] \in 0..Len(tables) /\ ChannelSound(c, mapped[r], Len(tables))
      /\ Len(tables) \in Nat
  BY <1>1, <1>2 DEF Served, IInv
<1>4. tt = (shown[r] \ S) \union (S \intersect Lookup(u))
  BY DEF Repaint
<1>5. S \subseteq Links
  BY <1>3 DEF Messages
<1> HIDE DEF c, x, S, tt
<1> DEFINE t == mapped[r]
           n == Len(tables)
           v == After(c, t, 1)
<1>6. /\ After(c, mapped[r], 1) = u
      /\ u \in 0..Len(tables) /\ ChannelSound(Tail(c), u, Len(tables))
      /\ LooksUp(tables, c, mapped[r], u)
  <2>1. c \in Seq(Messages) /\ c # <<>> /\ n \in Nat /\ t \in 0..n /\ ChannelSound(c, t, n)
    BY <1>1, <1>3
  <2>2. v = After(c, t, 1)
    OBVIOUS
  <2>3. u = IF c[1].kind = "NewTable" THEN c[1].table ELSE t
    BY <1>3
  <2> HIDE DEF t, n, v, u
  <2>4. /\ v = (IF c[1].kind = "NewTable" THEN c[1].table ELSE t)
        /\ v \in 0..n /\ ChannelSound(Tail(c), v, n)
        /\ LooksUp(tables, c, t, v)
    BY <2>1, <2>2, Handled
  <2>5. u = v
    BY <2>3, <2>4
  <2>6. QED
    BY <2>2, <2>4, <2>5 DEF t, n
<1> HIDE DEF u, t, n, v
<1>7. ASSUME NEW l \in Links, Settled(tables, c, mapped[r], shown[r], l)
      PROVE  Settled(tables, Tail(c), u, tt, l)
  <2>1. Lookup(u) = IF u = 0 THEN {} ELSE tables[u]
    BY DEF Lookup
  <2>2. CASE l \in S
    <3>1. l \in tt <=> l \in (IF u = 0 THEN {} ELSE tables[u])
      BY <1>4, <2>1, <2>2
    <3>2. QED
      BY <1>6, <1>7, <3>1 DEF LooksUp
  <2>3. CASE l \notin S
    <3>1. l \in tt <=> l \in shown[r]
      BY <1>4, <2>3
    <3>2. ~Looked(c, mapped[r], 1, l)
      <4>1. After(c, mapped[r], 0) = mapped[r]
        BY AfterNone
      <4>2. QED
        BY <1>3, <2>3, <4>1 DEF Looked, S
    <3>3. QED
      BY <1>6, <1>7, <3>1, <3>2 DEF LooksUp
  <2>4. QED
    BY <2>2, <2>3
<1>8. tt \subseteq Links
  <2>1. Lookup(u) \subseteq Links
    BY <1>6 DEF Lookup, IInv
  <2>2. QED
    BY <1>4, <2>1 DEF IInv
<1>9. channel'[r] = Tail(c) /\ mapped'[r] = u /\ shown'[r] = tt
  BY <1>1 DEF IInv, Typed
<1>10. \A q \in Renderers : q # r =>
         channel'[q] = channel[q] /\ mapped'[q] = mapped[q] /\ shown'[q] = shown[q]
  BY <1>1 DEF IInv, Typed
<1>11. Typed(resetNeeded, pending, channel)'
  <2>1. channel' \in [Renderers -> Seq(Messages)]
    BY <1>1, <1>3 DEF IInv, Typed
  <2>2. \A q \in Renderers \ updaters' : channel'[q] = <<>>
    BY <1>1, <1>2, <1>10 DEF IInv, Typed
  <2>3. QED
    BY <1>1, <2>1, <2>2 DEF IInv, Typed
<1>12. mapped' \in [Renderers -> Nat] /\ shown' \in [Renderers -> SUBSET Links]
  BY <1>1, <1>3, <1>6, <1>8 DEF IInv
<1>13. \A q \in updaters : Served(tables, channel'[q], mapped'[q])
  <2>1. Served(tables, Tail(c), u)
    BY <1>3, <1>6 DEF Served
  <2>2. QED
    BY <1>9, <1>10, <2>1 DEF IInv
<1>14. ASSUME raced = FALSE, NEW q \in updaters, NEW l \in Links
       PROVE  Aware(q, l)'
  <2>1. Aware(q, l) /\ q \in Renderers
    BY <1>14 DEF IInv
  <2>2. CASE q = r
    BY <1>1, <1>7, <1>9, <2>1, <2>2 DEF Aware, Collected, HeldBack, c
  <2>3. CASE q # r
    BY <1>1, <1>10, <2>1, <2>3 DEF Aware, Collected, HeldBack
  <2>4. QED
    BY <2>2, <2>3
<1>15. \A q \in Renderers \ updaters : mapped'[q] = 0 /\ shown'[q] = {}
  BY <1>2, <1>10 DEF IInv
<1>16. QED
  BY <1>1, <1>11, <1>12, <1>13, <1>14, <1>15 DEF IInv

\* Painting from the table mapped harms nothing that a message does not correct.
LEMMA PaintStep ==
  ASSUME IInv, NEW r \in Renderers, Paint(r)
  PROVE  IInv'
<1>1. PICK S \in SUBSET Links : shown' = [shown EXCEPT ![r] = Repaint(r, S, mapped[r])]
  BY DEF Paint
<1>2. mapped[r] # 0 /\ UNCHANGED <<master, listener, visible, mapped>>
  BY DEF Paint
<1> DEFINE tt == Repaint(r, S, mapped[r])
<1>3. tt = (shown[r] \ S) \union (S \intersect Lookup(mapped[r]))
  BY DEF Repaint
<1> HIDE DEF tt
<1>4. shown' = [shown EXCEPT ![r] = tt]
  BY <1>1 DEF tt
<1>5. r \in updaters /\ Served(tables, channel[r], mapped[r])
  BY <1>2 DEF IInv
<1>6. Lookup(mapped[r]) \subseteq Links
  BY <1>2, <1>5 DEF Lookup, IInv, Served
<1>7. shown' \in [Renderers -> SUBSET Links] /\ shown'[r] = tt
      /\ \A q \in Renderers : q # r => shown'[q] = shown[q]
  BY <1>3, <1>4, <1>6 DEF IInv
<1>8. ASSUME raced = FALSE, NEW q \in updaters, NEW l \in Links
      PROVE  Aware(q, l)'
  <2>1. Aware(q, l) /\ q \in Renderers
    BY <1>8 DEF IInv
  <2>2. CASE q = r /\ Settled(tables, channel[r], mapped[r], shown[r], l)
    <3>1. \/ l \in tt <=> l \in (IF mapped[r] = 0 THEN {} ELSE tables[mapped[r]])
          \/ l \in tt <=> l \in shown[r]
      BY <1>3 DEF Lookup
    <3>2. Settled(tables, channel[r], mapped[r], tt, l)
      BY <1>5, <2>2, <3>1, Painted DEF Served
    <3>3. QED
      BY <1>2, <1>7, <2>2, <3>2 DEF Aware, master, listener
  <2>3. CASE q # r \/ Collected(l) \/ HeldBack(q, l)
    BY <1>2, <1>7, <2>1, <2>3 DEF Aware, Collected, HeldBack, master, listener
  <2>4. QED
    BY <2>1, <2>2, <2>3 DEF Aware
<1>9. QED
  BY <1>2, <1>5, <1>7, <1>8 DEF IInv, Typed, master, listener

-----------------------------------------------------------------------------

\* There is no renderer at first.
LEMMA InitIInv == Init => IInv
<1> SUFFICES ASSUME Init PROVE IInv
  OBVIOUS
<1>1. tables \in Seq(SUBSET Links) /\ Len(tables) > 0
  <2>1. PICK S \in SUBSET Links : tables = <<S>>
    BY DEF Init
  <2>2. QED
    BY <2>1
<1>2. Typed(resetNeeded, pending, channel)
  BY FS_EmptySet DEF Init, Typed
<1>3. IsFiniteSet({}) /\ 0 \in 0..MaxOps
  BY FS_EmptySet, ListenerAssumption
<1>4. mapped \in [Renderers -> Nat] /\ shown \in [Renderers -> SUBSET Links]
  BY DEF Init
<1>5. QED
  BY <1>1, <1>2, <1>3, <1>4 DEF Init, IInv

\* One step for each action.
LEMMA NextIInv == IInv /\ [Next]_vars => IInv'
<1> SUFFICES ASSUME IInv, [Next]_vars PROVE IInv'
  OBVIOUS
<1>1. CASE AddURL \/ DeleteAllURLs \/ DeleteURLs \/ FinishDeleteURLs \/ Rebuild
  BY <1>1, AddURLStep, DeleteAllURLsStep, DeleteURLsStep, FinishDeleteURLsStep, RebuildStep
<1>2. CASE CommitVisitedLinks
  BY <1>2, CommitStep
<1>3. CASE \E r \in Renderers :
             \/ ProcessCreated(r) \/ ProcessTerminated(r) \/ Hide(r) \/ Show(r)
             \/ OnControlMessageReceived(r) \/ Paint(r)
  BY <1>3, ProcessCreatedStep, ProcessTerminatedStep, HideStep, ShowStep, MessageStep, PaintStep
<1>4. CASE UNCHANGED vars
  BY <1>4 DEF vars, master, listener, pages, IInv, Typed, Aware, Collected, HeldBack
<1>5. QED
  BY <1>1, <1>2, <1>3, <1>4 DEF Next

\* IInv is an invariant of the specification.
LEMMA AlwaysIInv == Spec => []IInv
<1>1. Init => IInv
  BY InitIInv
<1>2. IInv /\ [Next]_vars => IInv'
  BY NextIInv
<1>3. QED
  BY <1>1, <1>2, PTL DEF Spec

\* The table of the definitions of the specification is the one used here.
LEMMA TableAfterIs ==
  ASSUME NEW r, NEW n
  PROVE  TableAfter(r, n) = After(channel[r], mapped[r], n)
BY DEF TableAfter, After

\* Only renderers alive are sent anything, none is left with a table out of use,
\* and a hidden one costs no more than the threshold of links.
THEOREM RenderersAlwaysServed == Spec => []EveryRendererServed
<1>1. ASSUME IInv PROVE EveryRendererServed
  <2> USE <1>1
  <2>1. TypeOK
    <3>1. mapped \in [Renderers -> 0..Len(tables)]
      BY DEF IInv, Served
    <3>2. QED
      BY <3>1 DEF IInv, Typed, TypeOK
  <2>2. BufferBounded
    BY DEF IInv, Typed, Bounded, BufferBounded
  <2>3. NoRendererLeftBehind
    BY TableAfterIs DEF IInv, Served, ChannelSound, NoRendererLeftBehind
  <2>4. QED
    BY <2>1, <2>2, <2>3 DEF EveryRendererServed
<1>2. IInv => EveryRendererServed
  BY <1>1
<1>3. QED
  BY <1>2, AlwaysIInv, PTL

\* Of every link that a page shows wrongly the correction is on its way,
\* whatever was painted, hidden, dropped or replaced in between, as long as
\* DeleteURLs was not called.
THEOREM ColoursAlwaysCorrected == Spec => []ColoursCorrected
<1>1. ASSUME IInv PROVE ColoursCorrected
  <2> USE <1>1
  <2>1. SUFFICES ASSUME ~raced, NEW r \in updaters, NEW l \in Links
                 PROVE  \/ l \in shown[r] <=> l \in Current
                        \/ timer /\ l \in pendingLinks
                        \/ resetNeeded[r] \/ l \in pending[r]
                        \/ MessageRepaints(r, l)
    BY DEF ColoursCorrected, ChangesAnnounced
  <2>2. Aware(r, l)
    BY <2>1 DEF IInv
  <2>3. CASE Settled(tables, channel[r], mapped[r], shown[r], l)
    <3> DEFINE c == channel[r]
               t == mapped[r]
    <3>1. PICK m \in 0..Len(c) :
            /\ IF m = 0 THEN l \in shown[r] <=> l \in tables[Len(tables)]
               ELSE Looked(c, t, m, l)
            /\ \A k \in m..Len(c) : Right(tables, After(c, t, k), l)
      BY <2>3 DEF Settled
    <3>2. CASE m = 0
      BY <3>1, <3>2 DEF Current
    <3>3. CASE m # 0
      <4>1. c \in Seq(Messages)
        BY DEF IInv, Served
      <4>2. m \in DOMAIN c
        BY <3>3, <4>1
      <4>3. Looked(c, t, m, l) /\ Right(tables, After(c, t, m), l)
        BY <3>1, <3>3
      <4>4. TableAfter(r, m - 1) = After(c, t, m - 1) /\ TableAfter(r, m) = After(c, t, m)
        BY TableAfterIs
      <4>5. MessageRepaints(r, l)
        BY <4>2, <4>3, <4>4 DEF MessageRepaints, Looked, Right, Lookup, Current
      <4>6. QED
        BY <4>5
    <3>4. QED
      BY <3>2, <3>3
  <2>4. QED
    BY <2>2, <2>3 DEF Aware, Collected, HeldBack
<1>2. IInv => ColoursCorrected
  BY <1>1
<1>3. QED
  BY <1>2, AlwaysIInv, PTL
=============================================================================
