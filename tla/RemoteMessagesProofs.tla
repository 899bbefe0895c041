----------------------- MODULE RemoteMessagesProofs -----------------------
(***************************************************************************)
(* Theorems about RemoteMessages.                                          *)
(***************************************************************************)
EXTENDS RemoteMessages, ListLemmas, FiniteSetTheorems

(* No listener is in a list twice. *)
NoTwice(ls) == \A i, j \in DOMAIN ls : ls[i] = ls[j] => i = j

ContextSound(c, last) ==
  /\ c.handler /\ c.modules = DOMAIN Needs /\ c.enabled = 0
  /\ c.doc \in 1..last
  /\ NoTwice(c.listeners)

ContextsSound == \A i \in DOMAIN contexts : ContextSound(contexts[i], shown)

(* Where the walk w over the list ls is: what it has called is the list up   *)
(* to its index, unless an entry before it was removed, and those that stay  *)
(* are in the part of the list it will reach.                                *)
Reached(w, ls) ==
  ~w.shifted => /\ Len(w.heard) = w.k - 1 /\ w.k - 1 <= Len(ls)
                /\ \A i \in 1..(w.k - 1) : w.heard[i] = ls[i]

ToReach(w, ls) ==
  \A l \in w.stay : \E i \in 1..w.len : i \in DOMAIN ls /\ ls[i] = l

WalkSound == dispatch.on => Reached(dispatch, List) /\ ToReach(dispatch, List)

(* A document that may still speak has lost nothing, and one that is to come *)
(* has said nothing.                                                         *)
Speakers == {contexts[i].doc : i \in DOMAIN contexts}

SpeakersHeard ==
  /\ \A d \in Speakers : Arrives(d)
  /\ \A d \in Documents : d > shown => said[d] = <<>>
  /\ frame = "gone" => contexts = <<>>

Counted == \A d \in Documents : Len(said[d]) <= calls

RendererInv == TypeOK /\ ContextsSound /\ WalkSound /\ Counted

ClientInv == ClientHearsInOrder /\ SpeakersHeard

IInv == RendererInv /\ ClientInv

-----------------------------------------------------------------------------
(* The list of listeners. *)

\* remove takes the listener out of a list that has it once, and leaves any
\* other list as it is.
LEMMA RemoveExact ==
  ASSUME NEW S, NEW ls \in Seq(S), NEW l, NoTwice(ls)
  PROVE  remove(ls, l) = IF Has(ls, l) THEN RemoveAt(ls, IndexOf(ls, l)) ELSE ls
<1> DEFINE n == Len(ls)
           p == IndexOf(ls, l)
           without == RemoveAt(ls, p)
           Walk_(f) == [i \in 0..n |-> IF i = 0 THEN ls
                          ELSE LET at == n - i + 1
                               IN  IF ls[at] = l THEN RemoveAt(f[i - 1], at) ELSE f[i - 1]]
           w == [i \in 0..n |-> IF Has(ls, l) /\ n - i + 1 <= p THEN without ELSE ls]
           walked == CHOOSE f : f = Walk_(f)
<1>1. n \in Nat /\ DOMAIN ls = 1..n
  OBVIOUS
<1>2. Has(ls, l) => p \in 1..n /\ ls[p] = l /\ \A i \in 1..n : ls[i] = l => i = p
  BY <1>1 DEF Has, IndexOf, NoTwice
<1>3. ~Has(ls, l) => \A i \in 1..n : ls[i] # l
  BY <1>1 DEF Has
<1> HIDE DEF p, without
<1>4. ASSUME NEW i \in 0..n PROVE w[i] = Walk_(w)[i]
<2>1. CASE i = 0
<3>1. ~(n - 0 + 1 <= p) \/ ~Has(ls, l)
  BY <1>1, <1>2
<3>2. QED
  BY <2>1, <3>1
<2>2. CASE i # 0
<3>1. i \in 1..n /\ i - 1 \in 0..n /\ n - i + 1 \in 1..n
  BY <1>1, <2>2
<3>2. Walk_(w)[i] = IF ls[n - i + 1] = l THEN RemoveAt(w[i - 1], n - i + 1) ELSE w[i - 1]
  BY <2>2
<3>3. w[i - 1] = IF Has(ls, l) /\ n - (i - 1) + 1 <= p THEN without ELSE ls
  BY <3>1
<3>4. CASE ~Has(ls, l)
  BY <1>3, <3>1, <3>2, <3>3, <3>4
<3>5. CASE Has(ls, l)
<4>1. CASE n - i + 1 = p
<5>1. w[i - 1] = ls
  BY <1>1, <1>2, <3>1, <3>3, <3>5, <4>1
<5>2. Walk_(w)[i] = RemoveAt(ls, p)
  BY <1>2, <3>2, <3>5, <4>1, <5>1
<5>3. w[i] = without
  BY <1>1, <1>2, <3>5, <4>1
<5>4. QED
  BY <5>2, <5>3 DEF without
<4>2. CASE n - i + 1 # p
<5>1. ls[n - i + 1] # l
  BY <1>2, <3>1, <3>5, <4>2
<5>2. (n - (i - 1) + 1 <= p) <=> (n - i + 1 <= p)
  BY <1>1, <1>2, <3>5, <4>2
<5>3. QED
  BY <3>1, <3>2, <3>3, <5>1, <5>2
<4>3. QED
  BY <4>1, <4>2
<3>6. QED
  BY <3>4, <3>5
<2>3. QED
  BY <2>1, <2>2
<1>5. w = Walk_(w)
  BY <1>4
<1>6. walked = Walk_(walked)
  BY <1>5
<1> DEFINE Same == {i \in Nat : i <= n => walked[i] = w[i]}
<1>7. \A i \in 0..n : walked[i] = IF i = 0 THEN ls
          ELSE IF ls[n - i + 1] = l THEN RemoveAt(walked[i - 1], n - i + 1) ELSE walked[i - 1]
<2> HIDE DEF walked
<2>1. QED
  BY <1>6
<1>8. \A i \in 0..n : w[i] = IF i = 0 THEN ls
          ELSE IF ls[n - i + 1] = l THEN RemoveAt(w[i - 1], n - i + 1) ELSE w[i - 1]
  BY <1>4
<1>9. remove(ls, l) = walked[n]
  BY DEF remove
<1>10. w[n] = IF Has(ls, l) THEN without ELSE ls
  BY <1>1, <1>2
<1> HIDE DEF walked, w
<1>11. 0 \in Same
  BY <1>1, <1>7, <1>8
<1>12. \A i \in Nat : i \in Same => i + 1 \in Same
<2>1. SUFFICES ASSUME NEW i \in Nat, i \in Same, i + 1 <= n
               PROVE  walked[i + 1] = w[i + 1]
  OBVIOUS
<2>2. walked[i] = w[i]
  BY <1>1, <2>1
<2>3. i + 1 \in 0..n /\ i + 1 # 0 /\ (i + 1) - 1 = i
  BY <1>1, <2>1
<2>4. QED
  BY <1>7, <1>8, <2>2, <2>3
<1>13. n \in Same
<2> HIDE DEF Same
<2>1. QED
  BY <1>1, <1>11, <1>12, SetInduction
<1>14. QED
  BY <1>1, <1>9, <1>10, <1>13 DEF without, p

(* What a listener or the page makes of the list. *)
Edit(op, ls, l) == IF op = "remove" THEN remove(ls, l) ELSE listen(ls, l)

\* What remove and listen make of a list: the listeners before the one that
\* is removed stay where they are, those after it are one place nearer.
LEMMA Edited ==
  ASSUME NEW ls \in Seq(Listeners), NEW l \in Listeners, NoTwice(ls),
         NEW op \in {"remove", "listen"}
  PROVE  LET e == Edit(op, ls, l)
         IN  /\ e \in Seq(Listeners) /\ NoTwice(e)
             /\ \A i \in DOMAIN ls :
                  ls[i] # l => \E j \in 1..i : j \in DOMAIN e /\ e[j] = ls[i]
             /\ \A i \in DOMAIN ls :
                  ~Has(ls, l) \/ i < IndexOf(ls, l) => i \in DOMAIN e /\ e[i] = ls[i]
<1> DEFINE r == remove(ls, l)
           p == IndexOf(ls, l)
<1>1. Len(ls) \in Nat /\ DOMAIN ls = 1..Len(ls)
  OBVIOUS
<1>2. /\ r \in Seq(Listeners) /\ NoTwice(r) /\ ~Has(r, l)
      /\ \A i \in DOMAIN ls :
           ls[i] # l => \E j \in 1..i : j \in DOMAIN r /\ r[j] = ls[i]
      /\ \A i \in DOMAIN ls :
           ~Has(ls, l) \/ i < p => i \in DOMAIN r /\ r[i] = ls[i]
<2>1. CASE ~Has(ls, l)
<3>1. r = ls
  BY <2>1, RemoveExact
<3>2. QED
  BY <1>1, <2>1, <3>1
<2>2. CASE Has(ls, l)
<3>1. r = RemoveAt(ls, p)
  BY <2>2, RemoveExact
<3>2. p \in 1..Len(ls) /\ ls[p] = l /\ \A i \in 1..Len(ls) : ls[i] = l => i = p
  BY <1>1, <2>2 DEF Has, IndexOf, NoTwice
<3> HIDE DEF p, r
<3>3. /\ r \in Seq(Listeners) /\ Len(r) = Len(ls) - 1
      /\ \A j \in 1..Len(r) : r[j] = IF j < p THEN ls[j] ELSE ls[j + 1]
  BY <3>1, <3>2, RemoveAtElements
<3>4. DOMAIN r = 1..Len(r)
  BY <3>3
<3>5. NoTwice(r)
<4>1. SUFFICES ASSUME NEW i \in 1..Len(r), NEW j \in 1..Len(r), r[i] = r[j]
               PROVE  i = j
  BY <3>4 DEF NoTwice
<4>2. \A h \in 1..Len(r) :
        \E k \in 1..Len(ls) : k = (IF h < p THEN h ELSE h + 1) /\ r[h] = ls[k]
  BY <1>1, <3>2, <3>3
<4>3. PICK k \in 1..Len(ls) : k = (IF i < p THEN i ELSE i + 1) /\ r[i] = ls[k]
  BY <4>2
<4>4. PICK h \in 1..Len(ls) : h = (IF j < p THEN j ELSE j + 1) /\ r[j] = ls[h]
  BY <4>2
<4>5. k = h
  BY <1>1, <4>1, <4>3, <4>4 DEF NoTwice
<4>6. QED
  BY <3>2, <3>3, <4>3, <4>4, <4>5
<3>6. ~Has(r, l)
  BY <1>1, <3>2, <3>3, <3>4 DEF Has
<3>7. ASSUME NEW i \in DOMAIN ls, ls[i] # l
      PROVE  \E j \in 1..i : j \in DOMAIN r /\ r[j] = ls[i]
<4>1. CASE i < p
<5>1. i \in 1..i /\ i \in DOMAIN r /\ r[i] = ls[i]
  BY <1>1, <3>2, <3>3, <3>4, <4>1
<5>2. QED
  BY <5>1
<4>2. CASE i > p
<5>1. i - 1 \in 1..i /\ i - 1 \in DOMAIN r /\ r[i - 1] = ls[i]
  BY <1>1, <3>2, <3>3, <3>4, <4>2
<5>2. QED
  BY <5>1
<4>3. QED
  BY <1>1, <3>2, <3>7, <4>1, <4>2
<3>8. \A i \in DOMAIN ls : i < p => i \in DOMAIN r /\ r[i] = ls[i]
  BY <1>1, <3>2, <3>3, <3>4
<3>9. QED
  BY <2>2, <3>3, <3>5, <3>6, <3>7, <3>8
<2>3. QED
  BY <2>1, <2>2
<1> HIDE DEF r, p
<1>3. CASE op = "remove"
<2>1. Edit(op, ls, l) = r
  BY <1>3 DEF Edit, r
<2>2. QED
  BY <1>2, <2>1 DEF p
<1>4. CASE op = "listen"
<2> DEFINE e == Append(r, l)
<2>1. Edit(op, ls, l) = e
  BY <1>4 DEF Edit, listen, r
<2>2. Len(r) \in Nat /\ DOMAIN r = 1..Len(r)
  BY <1>2
<2>3. /\ e \in Seq(Listeners) /\ Len(e) = Len(r) + 1
      /\ e[Len(r) + 1] = l /\ \A i \in 1..Len(r) : e[i] = r[i]
  BY <1>2
<2> HIDE DEF e
<2>4. DOMAIN e = 1..(Len(r) + 1)
  BY <2>3
<2>5. NoTwice(e)
<3>1. \A i \in 1..Len(r) : r[i] # l
  BY <1>2, <2>2 DEF Has
<3>2. \A i, j \in 1..Len(r) : r[i] = r[j] => i = j
  BY <1>2, <2>2 DEF NoTwice
<3>3. \A i \in 1..(Len(r) + 1) : i = Len(r) + 1 \/ i \in 1..Len(r)
  BY <2>2
<3>4. QED
  BY <2>3, <2>4, <3>1, <3>2, <3>3 DEF NoTwice
<2>6. \A i \in DOMAIN r : i \in DOMAIN e /\ e[i] = r[i]
  BY <2>2, <2>3, <2>4
<2>7. QED
  BY <1>2, <2>1, <2>3, <2>5, <2>6 DEF p
<1>5. QED
  BY <1>3, <1>4

-----------------------------------------------------------------------------
(* The walk over it. *)

\* A list without repetitions is no longer than there are listeners.
LEMMA ListBounded ==
  ASSUME NEW ls \in Seq(Listeners), NoTwice(ls)
  PROVE  Len(ls) \in 0..Cardinality(Listeners)
<1>0. Len(ls) \in Nat /\ DOMAIN ls = 1..Len(ls) /\ ls \in [1..Len(ls) -> Listeners]
  OBVIOUS
<1>1. ls \in Injection(1..Len(ls), Listeners)
  BY <1>0 DEF Injection, IsInjective, NoTwice
<1>2. Cardinality(1..Len(ls)) <= Cardinality(Listeners)
  BY <1>1, FS_Injection, RemoteAssumption
<1>3. Cardinality(1..Len(ls)) = Len(ls)
<2>1. Cardinality(1..Len(ls)) = IF 1 > Len(ls) THEN 0 ELSE Len(ls) - 1 + 1
  BY <1>0, FS_Interval
<2>2. QED
  BY <1>0, <2>1
<1>4. Cardinality(Listeners) \in Nat
  BY FS_CardinalityType, RemoteAssumption
<1>5. QED
  BY <1>0, <1>2, <1>3, <1>4

(* A walk in the middle of the list ls. *)
Middle(w, ls) ==
  /\ w \in Dispatch /\ w.k \in 1..w.len
  /\ ls \in Seq(Listeners) /\ w.k <= Len(ls)
  /\ Reached(w, ls) /\ ToReach(w, ls)

(* The call of the listener at the index, with or without the removal of l. *)
CalledIn(w, ls) == [w EXCEPT !.heard = Append(@, ls[w.k])]

\* The fields of a walk that goes on.
LEMMA OnwardFields ==
  ASSUME NEW d \in Dispatch
  PROVE  LET c == Onward(d)
         IN  /\ c \in Dispatch
             /\ c.k = d.k + 1 /\ c.heard = d.heard
             /\ c.on = d.on /\ c.msg = d.msg /\ c.at = d.at /\ c.len = d.len
             /\ c.stay = d.stay /\ c.shifted = d.shifted
<1>1. Onward(d) = [d EXCEPT !.k = d.k + 1]
  BY DEF Onward
<1>2. /\ d.k + 1 \in Nat
      /\ d = [on |-> d.on, msg |-> d.msg, at |-> d.at, k |-> d.k, len |-> d.len,
              stay |-> d.stay, heard |-> d.heard, shifted |-> d.shifted, threw |-> d.threw]
  BY DEF Dispatch
<1>3. QED
  BY <1>1, <1>2 DEF Dispatch

\* The fields of a walk after a call.
LEMMA CalledFields ==
  ASSUME NEW w \in Dispatch, NEW ls \in Seq(Listeners), w.k \in 1..Len(ls)
  PROVE  LET c == Onward(CalledIn(w, ls))
         IN  /\ c \in Dispatch
             /\ c.k = w.k + 1 /\ c.heard = Append(w.heard, ls[w.k])
             /\ c.on /\ c.msg = w.msg /\ c.at = w.at /\ c.len = w.len
             /\ c.stay = w.stay /\ c.shifted = w.shifted
<1> DEFINE d == CalledIn(w, ls)
<1>1. /\ Append(w.heard, ls[w.k]) \in Seq(Listeners) /\ w.k \in Nat
      /\ w = [on |-> w.on, msg |-> w.msg, at |-> w.at, k |-> w.k, len |-> w.len,
              stay |-> w.stay, heard |-> w.heard, shifted |-> w.shifted, threw |-> w.threw]
  BY DEF Dispatch
<1>2. /\ d \in Dispatch
      /\ d.k = w.k /\ d.heard = Append(w.heard, ls[w.k])
      /\ d.on /\ d.msg = w.msg /\ d.at = w.at /\ d.len = w.len
      /\ d.stay = w.stay /\ d.shifted = w.shifted
  BY <1>1 DEF Dispatch, CalledIn
<1> HIDE DEF d
<1>3. QED
  BY <1>2, OnwardFields DEF d

\* A listener that returns leaves a walk that has called one more of the list.
LEMMA CallKeeps ==
  ASSUME NEW w, NEW ls, Middle(w, ls)
  PROVE  LET c == Onward(CalledIn(w, ls))
         IN  Reached(c, ls) /\ ToReach(c, ls)
<1> DEFINE c == Onward(CalledIn(w, ls))
<1>1. /\ w \in Dispatch /\ ls \in Seq(Listeners) /\ w.k \in 1..Len(ls)
      /\ w.k \in Nat /\ w.heard \in Seq(Listeners)
<2>1. /\ w \in Dispatch /\ ls \in Seq(Listeners) /\ w.k <= Len(ls)
      /\ w.k \in 1..w.len
  BY DEF Middle
<2>2. w.k \in Nat /\ w.heard \in Seq(Listeners)
  BY <2>1 DEF Dispatch
<2>3. w.k >= 1
  BY <2>1, <2>2 DEF Dispatch
<2>4. QED
  BY <2>1, <2>2, <2>3
<1>2. /\ c.k = w.k + 1 /\ c.heard = Append(w.heard, ls[w.k])
      /\ c.len = w.len /\ c.stay = w.stay /\ c.shifted = w.shifted
  BY <1>1, CalledFields
<1> HIDE DEF c
<1>3. ToReach(c, ls)
  BY <1>2 DEF Middle, ToReach
<1>4. ASSUME ~w.shifted
      PROVE  Len(c.heard) = w.k /\ \A i \in 1..w.k : c.heard[i] = ls[i]
<2>1. Len(w.heard) = w.k - 1 /\ \A i \in 1..(w.k - 1) : w.heard[i] = ls[i]
  BY <1>4 DEF Middle, Reached
<2>2. QED
  BY <1>1, <1>2, <2>1
<1>5. Reached(c, ls)
  BY <1>1, <1>2, <1>4 DEF Reached
<1>6. QED
  BY <1>3, <1>5 DEF c

(* The walk that runs, when l is removed from the list ls it goes over. *)
RemovedIn(w, ls, l) ==
  IF ~Has(ls, l) THEN w
  ELSE [w EXCEPT !.stay = @ \ {l}, !.shifted = @ \/ IndexOf(ls, l) <= w.k]

\* The fields of a walk after a removal.
LEMMA RemovedFields ==
  ASSUME NEW w \in Dispatch, NEW ls, NEW l
  PROVE  LET r == RemovedIn(w, ls, l)
         IN  /\ r \in Dispatch
             /\ r.k = w.k /\ r.heard = w.heard /\ r.on /\ r.msg = w.msg
             /\ r.at = w.at /\ r.len = w.len
             /\ r.stay \subseteq w.stay
             /\ Has(ls, l) => l \notin r.stay
             /\ ~r.shifted => ~w.shifted /\ (Has(ls, l) => ~(IndexOf(ls, l) <= w.k))
<1>1. CASE ~Has(ls, l)
<2>1. RemovedIn(w, ls, l) = w
  BY <1>1, Zenon DEF RemovedIn
<2>2. QED
  BY <1>1, <2>1 DEF Dispatch
<1>2. CASE Has(ls, l)
<2> DEFINE late == IndexOf(ls, l) <= w.k
           r == RemovedIn(w, ls, l)
<2>1. r = [w EXCEPT !.stay = @ \ {l}, !.shifted = @ \/ late]
  BY <1>2, Zenon DEF RemovedIn
<2>2. /\ DOMAIN w = {"on", "msg", "at", "k", "len", "stay", "heard", "shifted", "threw"}
      /\ w.stay \in SUBSET Listeners /\ w.shifted \in BOOLEAN /\ w.threw \in BOOLEAN
  BY DEF Dispatch
<2> HIDE DEF late
<2>3. /\ r.k = w.k /\ r.heard = w.heard /\ r.on = w.on /\ r.msg = w.msg
      /\ r.at = w.at /\ r.len = w.len /\ r.threw = w.threw
  BY <2>1, <2>2
<2>4. r.stay = w.stay \ {l}
  BY <2>1, <2>2
<2>5. r.shifted = (w.shifted \/ late)
  BY <2>1, <2>2, Zenon
<2>6. r = [on |-> r.on, msg |-> r.msg, at |-> r.at, k |-> r.k, len |-> r.len,
           stay |-> r.stay, heard |-> r.heard, shifted |-> r.shifted, threw |-> r.threw]
  BY <2>1, <2>2
<2> HIDE DEF r
<2>7. r.shifted \in BOOLEAN
  BY <2>5, Zenon
<2>8. r \in Dispatch
  BY <2>2, <2>3, <2>4, <2>6, <2>7 DEF Dispatch
<2>9. ~r.shifted => ~w.shifted /\ ~late
  BY <2>5, Zenon
<2>10. r.on
  BY <2>3 DEF Dispatch
<2>11. QED
  BY <1>2, <2>3, <2>4, <2>8, <2>9, <2>10 DEF late, r
<1>3. QED
  BY <1>1, <1>2

\* The fields of a walk in the middle of a call.
LEMMA CalledRecord ==
  ASSUME NEW w \in Dispatch, NEW ls \in Seq(Listeners), w.k \in 1..Len(ls)
  PROVE  LET c == CalledIn(w, ls)
         IN  /\ c \in Dispatch
             /\ c.k = w.k /\ c.heard = Append(w.heard, ls[w.k])
             /\ c.at = w.at /\ c.len = w.len /\ c.stay = w.stay
             /\ c.shifted = w.shifted
<1>1. ls[w.k] \in Listeners
  OBVIOUS
<1>2. /\ Append(w.heard, ls[w.k]) \in Seq(Listeners)
      /\ w = [on |-> w.on, msg |-> w.msg, at |-> w.at, k |-> w.k, len |-> w.len,
              stay |-> w.stay, heard |-> w.heard, shifted |-> w.shifted, threw |-> w.threw]
  BY <1>1 DEF Dispatch
<1>3. QED
  BY <1>2 DEF Dispatch, CalledIn

\* A listener that removes or registers a listener leaves a walk that reaches
\* everyone who stays.
LEMMA EditKeeps ==
  ASSUME NEW w, NEW ls, Middle(w, ls), NoTwice(ls),
         NEW l \in Listeners, NEW op \in {"remove", "listen"}
  PROVE  LET e == Edit(op, ls, l)
             c == Onward(RemovedIn(CalledIn(w, ls), ls, l))
         IN  Reached(c, e) /\ ToReach(c, e)
<1> DEFINE e == Edit(op, ls, l)
           p == IndexOf(ls, l)
           d == RemovedIn(CalledIn(w, ls), ls, l)
           c == Onward(d)
<1>1. w \in Dispatch /\ ls \in Seq(Listeners) /\ w.k \in 1..Len(ls) /\ w.k \in Nat
<2>1. /\ w \in Dispatch /\ ls \in Seq(Listeners) /\ w.k <= Len(ls)
      /\ w.k \in 1..w.len
  BY DEF Middle
<2>2. w.k \in Nat
  BY <2>1 DEF Dispatch
<2>3. w.k >= 1
  BY <2>1, <2>2 DEF Dispatch
<2>4. QED
  BY <2>1, <2>2, <2>3
<1>2. /\ e \in Seq(Listeners)
      /\ \A i \in DOMAIN ls :
           ls[i] # l => \E j \in 1..i : j \in DOMAIN e /\ e[j] = ls[i]
      /\ \A i \in DOMAIN ls : ~Has(ls, l) \/ i < p => i \in DOMAIN e /\ e[i] = ls[i]
  BY <1>1, Edited
<1>3. /\ CalledIn(w, ls) \in Dispatch
      /\ CalledIn(w, ls).k = w.k /\ CalledIn(w, ls).heard = Append(w.heard, ls[w.k])
      /\ CalledIn(w, ls).len = w.len /\ CalledIn(w, ls).stay = w.stay
      /\ CalledIn(w, ls).shifted = w.shifted
  BY <1>1, CalledRecord
<1>4. /\ d \in Dispatch /\ d.k = w.k /\ d.heard = Append(w.heard, ls[w.k])
      /\ d.len = w.len /\ d.stay \subseteq w.stay
      /\ Has(ls, l) => l \notin d.stay
      /\ ~d.shifted => ~w.shifted /\ (Has(ls, l) => ~(p <= w.k))
  BY <1>3, RemovedFields
<1>5. /\ c.k = w.k + 1 /\ c.heard = d.heard /\ c.len = d.len /\ c.stay = d.stay
      /\ c.shifted = d.shifted
<2> HIDE DEF d
<2>1. QED
  BY <1>4 DEF Onward, Dispatch
<1> HIDE DEF c, d, e, p
<1>6. DOMAIN ls = 1..Len(ls) /\ Len(ls) \in Nat /\ DOMAIN e = 1..Len(e)
  BY <1>1, <1>2
<1>7. ToReach(c, e)
<2>1. SUFFICES ASSUME NEW x \in c.stay
               PROVE  \E i \in 1..c.len : i \in DOMAIN e /\ e[i] = x
  BY DEF ToReach
<2>2. PICK i \in 1..w.len : i \in DOMAIN ls /\ ls[i] = x
  BY <1>4, <1>5, <2>1 DEF Middle, ToReach
<2>3. w.len \in Int
  BY <1>1 DEF Dispatch
<2>4. CASE x = l
<3>1. ~Has(ls, l)
  BY <1>4, <1>5, <2>1, <2>4
<3>2. QED
  BY <2>2, <2>4, <3>1 DEF Has
<2>5. CASE x # l
<3>1. PICK j \in 1..i : j \in DOMAIN e /\ e[j] = x
  BY <1>2, <2>2, <2>5
<3>2. j \in 1..w.len
  BY <2>2, <2>3, <3>1
<3>3. QED
  BY <1>4, <1>5, <3>1, <3>2
<2>6. QED
  BY <2>4, <2>5
<1>8. ASSUME ~c.shifted
      PROVE  Len(c.heard) = w.k /\ w.k <= Len(e) /\ \A i \in 1..w.k : c.heard[i] = e[i]
<2>1. ~w.shifted /\ (Has(ls, l) => ~(p <= w.k))
  BY <1>4, <1>5, <1>8
<2>2. Len(w.heard) = w.k - 1 /\ \A i \in 1..(w.k - 1) : w.heard[i] = ls[i]
  BY <2>1 DEF Middle, Reached
<2>3. w.heard \in Seq(Listeners)
  BY <1>1 DEF Dispatch
<2>4. Len(c.heard) = w.k /\ \A i \in 1..w.k : c.heard[i] = ls[i]
  BY <1>1, <1>4, <1>5, <2>2, <2>3
<2>5. \A i \in 1..w.k : i \in DOMAIN e /\ e[i] = ls[i]
<3>1. Has(ls, l) => p \in Nat
  BY <1>6 DEF Has, IndexOf, p
<3>2. \A i \in 1..w.k : i \in DOMAIN ls /\ (~Has(ls, l) \/ i < p)
  BY <1>1, <1>6, <2>1, <3>1
<3>3. QED
  BY <1>2, <3>2
<2>6. w.k \in DOMAIN e
  BY <1>1, <2>5
<2>7. QED
  BY <1>1, <1>2, <1>6, <2>4, <2>5, <2>6
<1>9. Reached(c, e)
  BY <1>1, <1>5, <1>8 DEF Reached
<1>10. QED
  BY <1>7, <1>9 DEF c, d, e

-----------------------------------------------------------------------------
(* The documents. *)

(* A context in the course of its making. *)
Making(c, d, m) ==
  /\ c \in Context /\ c.doc = d /\ c.natives = Natives /\ c.enabled = 1
  /\ c.modules = m /\ c.listeners = <<>>

\* A source that needs natives only loads while they are enabled.
LEMMA Requires ==
  ASSUME NEW c, NEW d, NEW s, NEW m \in DOMAIN Needs, m \notin s,
         Making(c, d, s)
  PROVE  /\ Making(Require(c, m), d, s \cup {m})
         /\ Require(c, m).handler = (c.handler \/ m = "remote")
<1>1. Needs[m] \subseteq Natives
  BY DEF Needs, Natives
<1>2. \A n \in Needs[m] : RequireNative(c, n)
  BY <1>1 DEF RequireNative, Making
<1> DEFINE r == Require(c, m)
           ran == [c EXCEPT !.modules = @ \cup {m}, !.handler = @ \/ m = "remote"]
<1>3. r = ran
  BY <1>2, Zenon DEF Require, RunModule, Making
<1>4. /\ DOMAIN c = {"doc", "natives", "enabled", "modules", "handler", "listeners"}
      /\ c \in Context
  BY DEF Making, Context
<1>5. /\ r.doc = c.doc /\ r.natives = c.natives /\ r.enabled = c.enabled
      /\ r.listeners = c.listeners
  BY <1>3, <1>4
<1>6. r.modules = c.modules \cup {m}
  BY <1>3, <1>4
<1>7. r.handler = (c.handler \/ m = "remote")
  BY <1>3, <1>4, Zenon
<1>8. r = [doc |-> r.doc, natives |-> r.natives, enabled |-> r.enabled,
           modules |-> r.modules, handler |-> r.handler, listeners |-> r.listeners]
  BY <1>3, <1>4
<1> HIDE DEF r
<1>9. r.handler \in BOOLEAN
  BY <1>7, Zenon
<1>10. r \in Context
  BY <1>4, <1>5, <1>6, <1>8, <1>9 DEF Context
<1>11. QED
  BY <1>5, <1>6, <1>7, <1>10 DEF Making, r

\* A document starts with both modules loaded, no listener, and no way to the
\* natives.
LEMMA Started ==
  ASSUME NEW d \in Documents
  PROVE  LET c == StartedContext(d)
         IN  /\ c \in Context /\ c.doc = d /\ c.handler
             /\ c.modules = DOMAIN Needs /\ c.enabled = 0 /\ c.listeners = <<>>
<1> DEFINE a == EnterNatives(NewContext(d))
           b == RegisterNativeHandlers(a)
           w == Require(b, "webview")
           r == Require(w, "remote")
<1> DEFINE n == NewContext(d)
<1>0. /\ n \in Context /\ n.doc = d /\ n.enabled = 0
      /\ n.modules = {} /\ n.listeners = <<>> /\ ~n.handler
  BY DEF NewContext, Context
<1>1. /\ a \in Context /\ a.doc = d /\ a.enabled = 1
      /\ a.modules = {} /\ a.listeners = <<>> /\ ~a.handler
<2> HIDE DEF n
<2>1. a = [n EXCEPT !.enabled = @ + 1]
  BY DEF EnterNatives, n
<2>2. QED
  BY <1>0, <2>1 DEF Context
<1>2. Making(b, d, {})
<2> HIDE DEF a
<2>1. b = [a EXCEPT !.natives = Natives]
  BY DEF RegisterNativeHandlers
<2>2. QED
  BY <1>1, <2>1 DEF Context, Making
<1>3. DOMAIN Needs = {"webview", "remote"}
  BY DEF Needs
<1> HIDE DEF b
<1>4. Making(w, d, {"webview"})
<2>1. Making(w, d, {} \cup {"webview"})
  BY <1>2, <1>3, Requires
<2>2. QED
  BY <2>1
<1> HIDE DEF w
<1>5. Making(r, d, {"webview"} \cup {"remote"}) /\ r.handler = (w.handler \/ "remote" = "remote")
  BY <1>3, <1>4, Requires
<1>6. r.handler
  BY <1>5
<1> HIDE DEF r
<1>7. StartedContext(d) = [r EXCEPT !.enabled = @ - 1]
  BY DEF StartedContext, LeaveNatives, r, w, b
<1>8. QED
  BY <1>3, <1>5, <1>6, <1>7 DEF Making, Context

-----------------------------------------------------------------------------
(* Every document answers, so that a dispatch goes from one to the next. *)

(* What TypeOK and WalkSound say of a walk that runs. *)
WalkOK(w) ==
  /\ w \in Dispatch /\ w.at \in DOMAIN contexts /\ w.k \in 1..(w.len + 1)
  /\ Reached(w, contexts[w.at].listeners) /\ ToReach(w, contexts[w.at].listeners)

\* A walk that begins is sound.
LEMMA WalkBegins ==
  ASSUME TypeOK, ContextsSound, NEW m \in 1..MaxMessages, NEW i \in DOMAIN contexts
  PROVE  WalkOK(Walk(m, i)) /\ Walk(m, i).at = i
<1> DEFINE ls == contexts[i].listeners
           w == Walk(m, i)
<1>1. contexts \in Seq(Context) /\ i \in Nat
  BY DEF TypeOK
<1>2. ls \in Seq(Listeners) /\ NoTwice(ls)
<2>1. contexts[i] \in Context
  BY <1>1
<2>2. QED
  BY <2>1 DEF ContextsSound, ContextSound, Context
<1> HIDE DEF ls
<1>3. Len(ls) \in 0..Cardinality(Listeners) /\ Len(ls) \in Nat /\ DOMAIN ls = 1..Len(ls)
  BY <1>2, ListBounded
<1>4. w = [on |-> TRUE, msg |-> m, at |-> i, k |-> 1, len |-> Len(ls),
           stay |-> {ls[j] : j \in DOMAIN ls}, heard |-> <<>>, shifted |-> FALSE, threw |-> FALSE]
  BY DEF Walk, ls
<1>5. {ls[j] : j \in DOMAIN ls} \in SUBSET Listeners
  BY <1>2
<1>6. w \in Dispatch
  BY <1>1, <1>3, <1>4, <1>5 DEF Dispatch
<1> HIDE DEF w
<1>7. Reached(w, ls)
  BY <1>3, <1>4 DEF Reached
<1>8. ToReach(w, ls)
  BY <1>3, <1>4 DEF ToReach
<1>9. QED
  BY <1>1, <1>3, <1>4, <1>6, <1>7, <1>8 DEF WalkOK, w, ls

\* The next document that handles a message is the next one of the frame.
LEMMA NextAnswers ==
  ASSUME TypeOK, ContextsSound, NEW m, NEW i \in Nat, i > 0
  PROVE  NextContext(m, i) = IF i \in DOMAIN contexts THEN Walk(m, i) ELSE Idle
<1> DEFINE later == {j \in i..Len(contexts) : Answering(j)}
<1>1. DOMAIN contexts = 1..Len(contexts) /\ Len(contexts) \in Nat
  BY DEF TypeOK
<1>2. later = i..Len(contexts)
  BY <1>1 DEF ContextsSound, ContextSound, Answering
<1>3. CASE i \in DOMAIN contexts
<2>1. later # {} /\ i \in later /\ \A h \in later : i <= h
  BY <1>1, <1>2, <1>3
<2>2. \A j \in later : (\A h \in later : j <= h) => j = i
  BY <1>1, <1>2, <2>1
<2> HIDE DEF later
<2>3. (CHOOSE j \in later : \A h \in later : j <= h) = i
  BY <2>1, <2>2
<2>4. QED
  BY <1>3, <2>1, <2>3 DEF NextContext, later
<1>4. CASE i \notin DOMAIN contexts
<2>1. later = {}
  BY <1>1, <1>2, <1>4
<2>2. QED
  BY <1>4, <2>1 DEF NextContext
<1>5. QED
  BY <1>3, <1>4

\* Where a dispatch goes on is sound.
LEMMA NextSound ==
  ASSUME TypeOK, ContextsSound, NEW m \in 1..MaxMessages, NEW i \in Nat, i > 0
  PROVE  LET n == NextContext(m, i)
         IN  n = Idle \/ WalkOK(n)
  BY NextAnswers, WalkBegins

-----------------------------------------------------------------------------
(* The steps, as far as the renderer is concerned. *)

\* Between two steps the walk is over or sound.
LEMMA WalkIs ==
  ASSUME TypeOK, WalkSound
  PROVE  dispatch = Idle \/ WalkOK(dispatch)
  BY DEF TypeOK, WalkSound, WalkOK, List, Dispatch

\* What the steps of a walk leave is what TypeOK and WalkSound ask for.
LEMMA WalkMakes ==
  ASSUME dispatch' = Idle \/ WalkOK(dispatch)'
  PROVE  /\ WalkSound'
         /\ \/ dispatch' = Idle
            \/ /\ dispatch' \in Dispatch /\ dispatch'.at \in DOMAIN contexts'
               /\ dispatch'.k \in 1..(dispatch'.len + 1)
  BY DEF WalkSound, WalkOK, List, Idle

EditAt(cs, a, op, l) == [cs EXCEPT ![a].listeners = Edit(op, @, l)]

\* Whoever changes the list of a document leaves every document sound.
LEMMA EditedContexts ==
  ASSUME TypeOK, ContextsSound, NEW a \in DOMAIN contexts,
         NEW l \in Listeners, NEW op \in {"remove", "listen"}
  PROVE  LET cs == EditAt(contexts, a, op, l)
         IN  /\ cs \in Seq(Context) /\ DOMAIN cs = DOMAIN contexts
             /\ \A i \in DOMAIN cs : ContextSound(cs[i], shown) /\ cs[i].doc = contexts[i].doc
             /\ cs[a].listeners = Edit(op, contexts[a].listeners, l)
<1> DEFINE c == contexts[a]
           e == Edit(op, c.listeners, l)
           d == [c EXCEPT !.listeners = e]
           cs == [contexts EXCEPT ![a] = d]
<1>0. contexts \in Seq(Context) /\ c \in Context /\ ContextSound(c, shown)
  BY DEF TypeOK, ContextsSound
<1>1. c.listeners \in Seq(Listeners) /\ NoTwice(c.listeners)
  BY <1>0 DEF Context, ContextSound
<1> HIDE DEF c
<1>2. e \in Seq(Listeners) /\ NoTwice(e)
  BY <1>1, Edited
<1> HIDE DEF e
<1>3. d \in Context /\ ContextSound(d, shown) /\ d.doc = c.doc /\ d.listeners = e
  BY <1>0, <1>2 DEF Context, ContextSound
<1> HIDE DEF d
<1>4. cs \in Seq(Context) /\ DOMAIN cs = DOMAIN contexts
  BY <1>0, <1>3
<1>5. \A i \in DOMAIN cs : cs[i] = IF i = a THEN d ELSE contexts[i]
  BY <1>0
<1>6. cs = EditAt(contexts, a, op, l)
  BY Zenon DEF EditAt, c, d, e
<1> HIDE DEF cs
<1>7. \A i \in DOMAIN cs : ContextSound(cs[i], shown) /\ cs[i].doc = contexts[i].doc
  BY <1>3, <1>4, <1>5 DEF ContextsSound, c
<1>8. cs[a].listeners = Edit(op, contexts[a].listeners, l)
  BY <1>3, <1>4, <1>5 DEF c, e
<1>9. QED
  BY <1>4, <1>6, <1>7, <1>8

\* A document passes a value to send: its number is the next one, and unless
\* it is an array it is to be sent.
LEMMA SendIs ==
  ASSUME TypeOK, NEW d \in Documents, send(d)
  PROVE  /\ calls < MaxCalls /\ calls' = calls + 1
         /\ said[d] \in Seq(Values) /\ Len(said[d]) \in Nat
         /\ \E v \in Values :
              /\ said' = [said EXCEPT ![d] = Append(said[d], v)]
              /\ toClient' = IF v = "array" THEN toClient
                             ELSE Append(toClient, <<d, Len(said[d]) + 1>>)
<1>1. said[d] \in Seq(Values) /\ Len(said[d]) \in Nat
  BY DEF TypeOK
<1>2. \A v \in Values : Wrapped(v) = "object" <=> v # "array"
  BY DEF Values, Wrapped
<1>3. PICK v \in Values :
        /\ said' = [said EXCEPT ![d] = Append(said[d], v)]
        /\ SendMessage(<<d, Len(said[d]) + 1>>, Wrapped(v))
  BY DEF send
<1>4. toClient' = IF v = "array" THEN toClient ELSE Append(toClient, <<d, Len(said[d]) + 1>>)
  BY <1>2, <1>3 DEF SendMessage
<1>5. calls < MaxCalls /\ calls' = calls + 1
  BY DEF send
<1>6. QED
  BY <1>1, <1>3, <1>4, <1>5, Zenon

\* What a document sends is of its type.
LEMMA SendTypes ==
  ASSUME TypeOK, Counted, NEW d \in Documents, send(d)
  PROVE  /\ toClient' \in Seq(Documents \X (1..MaxCalls))
         /\ said' \in [Documents -> Seq(Values)] /\ calls' \in 0..MaxCalls
         /\ Counted'
<1>1. PICK v \in Values :
        /\ said' = [said EXCEPT ![d] = Append(said[d], v)]
        /\ toClient' = IF v = "array" THEN toClient
                       ELSE Append(toClient, <<d, Len(said[d]) + 1>>)
  BY SendIs
<1>2. /\ calls \in Nat /\ MaxCalls \in Nat /\ said \in [Documents -> Seq(Values)]
      /\ said[d] \in Seq(Values) /\ Len(said[d]) \in Nat /\ Len(said[d]) <= calls
      /\ toClient \in Seq(Documents \X (1..MaxCalls))
      /\ calls < MaxCalls /\ calls' = calls + 1
  BY RemoteAssumption, SendIs DEF TypeOK, Counted
<1>3. Len(said[d]) + 1 \in 1..MaxCalls /\ calls' \in 0..MaxCalls
  BY <1>2
<1>4. toClient' \in Seq(Documents \X (1..MaxCalls))
  BY <1>1, <1>2, <1>3
<1>5. Append(said[d], v) \in Seq(Values) /\ Len(Append(said[d], v)) = Len(said[d]) + 1
  BY <1>2
<1>6. said' \in [Documents -> Seq(Values)]
  BY <1>1, <1>2, <1>5
<1>7. Counted'
<2>1. SUFFICES ASSUME NEW e \in Documents PROVE Len(said'[e]) <= calls'
  BY DEF Counted
<2>2. Len(said[e]) <= calls /\ Len(said[e]) \in Nat
  BY <1>2 DEF Counted
<2>3. Len(said'[e]) = Len(said[e]) + 1 \/ said'[e] = said[e]
  BY <1>1, <1>2, <1>5
<2>4. QED
  BY <1>2, <2>2, <2>3
<1>8. QED
  BY <1>3, <1>4, <1>6, <1>7

\* Whoever sends nothing leaves the numbers as they are.
LEMMA CountedStays ==
  ASSUME TypeOK, Counted, said' = said, calls' = calls \/ calls' = calls + 1
  PROVE  Counted'
<1>1. calls \in Nat /\ \A d \in Documents : Len(said[d]) \in Nat
  BY DEF TypeOK
<1>2. QED
  BY <1>1 DEF Counted

\* A message goes out to the frame.
LEMMA SendingKeeps ==
  ASSUME RendererInv, RemoteDispatchSent
  PROVE  RendererInv'
<1>1. sent + 1 \in 1..MaxMessages /\ sent' \in 0..MaxMessages
  BY RemoteAssumption DEF RendererInv, TypeOK, RemoteDispatchSent
<1>2. toFrame' \in Seq(1..MaxMessages)
<2>1. toFrame \in Seq(1..MaxMessages)
  BY DEF RendererInv, TypeOK
<2>2. toFrame' = Append(toFrame, sent + 1) \/ toFrame' = toFrame
  BY DEF RemoteDispatchSent
<2>3. CASE toFrame' = Append(toFrame, sent + 1)
  BY <1>1, <2>1, <2>3
<2>4. QED
  BY <2>1, <2>2, <2>3
<1>3. UNCHANGED <<renderer, up, calls>>
  BY DEF RemoteDispatchSent
<1>4. TypeOK'
  BY <1>1, <1>2, <1>3 DEF RendererInv, TypeOK, renderer, up
<1>5. ContextsSound' /\ WalkSound' /\ Counted'
  BY <1>3, CountedStays DEF RendererInv, renderer, up, ContextsSound, ContextSound, WalkSound, List
<1>6. QED
  BY <1>4, <1>5 DEF RendererInv

\* The client takes a message.
LEMMA ReceivingKeeps ==
  ASSUME RendererInv, RemoteSendReceived
  PROVE  RendererInv'
<1>1. /\ toClient' \in Seq(Documents \X (1..MaxCalls))
      /\ got' \in Seq(Documents \X (1..MaxCalls))
  BY DEF RendererInv, TypeOK, RemoteSendReceived
<1>2. UNCHANGED <<renderer, down, said, lost, calls>>
  BY DEF RemoteSendReceived
<1>3. TypeOK'
  BY <1>1, <1>2 DEF RendererInv, TypeOK, renderer, down
<1>4. ContextsSound' /\ WalkSound' /\ Counted'
  BY <1>2, CountedStays DEF RendererInv, renderer, ContextsSound, ContextSound, WalkSound, List
<1>5. QED
  BY <1>3, <1>4 DEF RendererInv

\* A document is shown.
LEMMA ShowingKeeps ==
  ASSUME RendererInv, DidCreateScriptContext
  PROVE  RendererInv'
<1> DEFINE d == shown + 1
           c == StartedContext(d)
<1>1. /\ d \in Documents /\ shown \in Nat /\ shown' = d /\ shown' \in 0..MaxDocuments
      /\ contexts' = Append(contexts, c) /\ dispatch = Idle /\ dispatch' = Idle
      /\ UNCHANGED <<frame, down, up, calls>>
  BY RemoteAssumption DEF RendererInv, TypeOK, DidCreateScriptContext, Documents
<1>2. /\ c \in Context /\ c.doc = d /\ c.handler
      /\ c.modules = DOMAIN Needs /\ c.enabled = 0 /\ c.listeners = <<>>
  BY <1>1, Started
<1> HIDE DEF c
<1>3. NoTwice(<<>>)
  BY DEF NoTwice
<1>4. contexts \in Seq(Context)
  BY DEF RendererInv, TypeOK
<1>5. /\ contexts' \in Seq(Context) /\ Len(contexts') = Len(contexts) + 1
      /\ contexts'[Len(contexts) + 1] = c
      /\ \A i \in 1..Len(contexts) : contexts'[i] = contexts[i]
  BY <1>1, <1>2, <1>4
<1>6. ContextsSound'
<2>1. SUFFICES ASSUME NEW i \in 1..Len(contexts')
               PROVE  ContextSound(contexts'[i], shown')
  BY <1>5 DEF ContextsSound
<2>2. CASE i = Len(contexts) + 1
  BY <1>1, <1>2, <1>3, <1>5, <2>2 DEF ContextSound
<2>3. CASE i # Len(contexts) + 1
<3>1. i \in DOMAIN contexts /\ contexts'[i] = contexts[i]
  BY <1>4, <1>5, <2>3
<3>2. ContextSound(contexts[i], shown)
  BY <3>1 DEF RendererInv, ContextsSound
<3>3. QED
  BY <1>1, <3>1, <3>2 DEF ContextSound
<2>4. QED
  BY <2>2, <2>3
<1>7. TypeOK'
  BY <1>1, <1>5 DEF RendererInv, TypeOK, down, up
<1>8. WalkSound' /\ Counted'
  BY <1>1, CountedStays DEF RendererInv, WalkSound, Idle, up
<1>9. QED
  BY <1>6, <1>7, <1>8 DEF RendererInv

\* The renderer process goes, or another is made.
LEMMA ProcessesKeep ==
  ASSUME RendererInv, RenderProcessGone \/ RenderFrameCreated
  PROVE  RendererInv'
<1>1. CASE RenderProcessGone
<2>1. /\ frame' = "gone" /\ lost' = TRUE /\ contexts' = <<>> /\ dispatch' = Idle
      /\ toFrame' = <<>> /\ UNCHANGED <<shown, sent, said, got, calls>>
  BY <1>1 DEF RenderProcessGone
<2>2. PICK n \in 0..Len(toClient) : toClient' = SubSeq(toClient, 1, n)
  BY <1>1 DEF RenderProcessGone
<2>3. toClient' \in Seq(Documents \X (1..MaxCalls))
  BY <2>2, SubSeqProperties DEF RendererInv, TypeOK
<2>4. TypeOK'
  BY <2>1, <2>3 DEF RendererInv, TypeOK
<2>5. ContextsSound' /\ WalkSound' /\ Counted'
  BY <2>1, CountedStays DEF RendererInv, ContextsSound, WalkSound, Idle
<2>6. QED
  BY <2>4, <2>5 DEF RendererInv
<1>2. CASE RenderFrameCreated
<2>1. frame' = "live" /\ UNCHANGED <<shown, contexts, dispatch, down, up, calls>>
  BY <1>2 DEF RenderFrameCreated
<2>2. TypeOK'
  BY <2>1 DEF RendererInv, TypeOK, down, up
<2>3. ContextsSound' /\ WalkSound' /\ Counted'
  BY <2>1, CountedStays DEF RendererInv, ContextsSound, ContextSound, WalkSound, List, up
<2>4. QED
  BY <2>2, <2>3 DEF RendererInv
<1>3. QED
  BY <1>1, <1>2

\* The frame begins to handle a message.
LEMMA DispatchKeeps ==
  ASSUME RendererInv, RemoteDispatch
  PROVE  RendererInv'
<1>1. /\ toFrame # <<>> /\ toFrame \in Seq(1..MaxMessages)
      /\ dispatch' = NextContext(Head(toFrame), 1) /\ toFrame' = Tail(toFrame)
      /\ UNCHANGED <<frame, shown, contexts, sent, up, calls>>
  BY DEF RendererInv, TypeOK, RemoteDispatch
<1>2. Head(toFrame) \in 1..MaxMessages /\ Tail(toFrame) \in Seq(1..MaxMessages)
  BY <1>1, HeadTailProperties
<1>3. dispatch' = Idle \/ WalkOK(dispatch')
  BY <1>1, <1>2, NextSound DEF RendererInv
<1>4. dispatch' = Idle \/ WalkOK(dispatch)'
  BY <1>1, <1>3 DEF WalkOK
<1>5. WalkSound' /\ TypeOK' /\ Counted'
  BY <1>1, <1>2, <1>4, WalkMakes, CountedStays DEF RendererInv, TypeOK, up
<1>6. ContextsSound'
  BY <1>1 DEF RendererInv, ContextsSound
<1>7. QED
  BY <1>5, <1>6 DEF RendererInv

\* In the middle of a walk.
LEMMA WalkingMiddle ==
  ASSUME RendererInv, Walking
  PROVE  /\ Middle(dispatch, List) /\ NoTwice(List)
         /\ dispatch.at \in DOMAIN contexts /\ dispatch.k \in Nat
         /\ dispatch.k \in 1..Len(List)
         /\ Called = CalledIn(dispatch, List)
         /\ \A l : Removed(Called, l) = RemovedIn(Called, List, l)
<1>1. WalkOK(dispatch) /\ dispatch.k <= dispatch.len /\ dispatch.k <= Len(List)
  BY WalkIs DEF RendererInv, Walking, Idle
<1>2. contexts[dispatch.at] \in Context /\ ContextSound(contexts[dispatch.at], shown)
  BY <1>1 DEF RendererInv, TypeOK, ContextsSound, WalkOK
<1>3. List \in Seq(Listeners) /\ NoTwice(List)
  BY <1>2 DEF List, Context, ContextSound
<1>4. /\ dispatch.at \in DOMAIN contexts /\ dispatch.k \in 1..(dispatch.len + 1)
      /\ dispatch \in Dispatch /\ Reached(dispatch, List) /\ ToReach(dispatch, List)
  BY <1>1 DEF WalkOK, List
<1>5. dispatch.k \in Nat /\ dispatch.len \in Int
  BY <1>4 DEF Dispatch
<1>6. dispatch.k \in 1..dispatch.len /\ dispatch.k \in 1..Len(List)
  BY <1>1, <1>3, <1>4, <1>5
<1>7. Middle(dispatch, List)
  BY <1>1, <1>3, <1>4, <1>6 DEF Middle
<1>8. Called = CalledIn(dispatch, List)
  BY Zenon DEF Called, CalledIn
<1>9. \A l : Removed(Called, l) = RemovedIn(Called, List, l)
  BY Zenon DEF Removed, RemovedIn
<1>10. QED
  BY <1>3, <1>4, <1>5, <1>6, <1>7, <1>8, <1>9

\* A call that leaves the lists alone leaves a sound walk.
LEMMA CallSound ==
  ASSUME RendererInv, Walking
  PROVE  WalkOK(Onward(Called))
<1> DEFINE c == Onward(Called)
<1>1. /\ Middle(dispatch, List) /\ dispatch.at \in DOMAIN contexts
      /\ dispatch.k \in Nat /\ dispatch.k \in 1..Len(List)
      /\ c = Onward(CalledIn(dispatch, List))
  BY WalkingMiddle
<1>2. dispatch \in Dispatch /\ List \in Seq(Listeners) /\ dispatch.k \in 1..dispatch.len
  BY <1>1 DEF Middle
<1>3. c \in Dispatch /\ c.k = dispatch.k + 1 /\ c.at = dispatch.at /\ c.len = dispatch.len
  BY <1>1, <1>2, CalledFields
<1>4. Reached(c, List) /\ ToReach(c, List)
  BY <1>1, CallKeeps
<1> HIDE DEF c
<1>5. dispatch.len \in Int
  BY <1>2 DEF Dispatch
<1>6. c.k \in 1..(c.len + 1)
  BY <1>1, <1>2, <1>3, <1>5
<1>7. QED
  BY <1>1, <1>3, <1>4, <1>6 DEF WalkOK, List, c

\* A listener that throws ends a sound walk.
LEMMA EndSound ==
  ASSUME NEW w, WalkOK(w)
  PROVE  WalkOK(Ended(w)) /\ Ended(w).at = w.at
<1>1. w \in Dispatch
  BY DEF WalkOK
<1>2. /\ Ended(w) \in Dispatch /\ Ended(w).at = w.at /\ Ended(w).k = w.k
      /\ Ended(w).len = w.len /\ Ended(w).stay = w.stay
      /\ Ended(w).heard = w.heard /\ Ended(w).shifted = w.shifted
  BY <1>1 DEF Ended, Dispatch
<1>3. QED
  BY <1>2 DEF WalkOK, Reached, ToReach

\* A listener returns, or answers, or throws, or the walk is over.
LEMMA CallingKeeps ==
  ASSUME RendererInv,
         CallListener \/ CallListenerThatSends \/ CallListenerThatThrows \/ HandlerReturns
  PROVE  RendererInv'
<1>1. /\ UNCHANGED <<frame, shown, contexts, down, got, lost>>
      /\ dispatch.on
      /\ \/ Walking /\ dispatch' = Onward(Called)
         \/ Walking /\ dispatch' = Ended(Onward(Called))
         \/ dispatch' = NextContext(dispatch.msg, dispatch.at + 1)
  BY DEF CallListener, CallListenerThatSends, CallListenerThatThrows, HandlerReturns,
         Walking, up
<1>2. dispatch \in Dispatch /\ dispatch.at \in Nat /\ dispatch.msg \in 1..MaxMessages
<2>1. dispatch # Idle
  BY <1>1 DEF Idle
<2>2. dispatch \in Dispatch
  BY <2>1 DEF RendererInv, TypeOK
<2>3. QED
  BY <2>2 DEF Dispatch
<1>3. dispatch' = Idle \/ WalkOK(dispatch')
<2>1. CASE Walking /\ dispatch' = Onward(Called)
  BY <2>1, CallSound
<2>2. CASE dispatch' = NextContext(dispatch.msg, dispatch.at + 1)
<3>1. dispatch.at + 1 \in Nat /\ dispatch.at + 1 > 0
  BY <1>2
<3>2. QED
  BY <1>2, <2>2, <3>1, NextSound DEF RendererInv
<2>3. CASE Walking /\ dispatch' = Ended(Onward(Called))
  BY <2>3, CallSound, EndSound
<2>4. QED
  BY <1>1, <2>1, <2>2, <2>3
<1>4. dispatch' = Idle \/ WalkOK(dispatch)'
  BY <1>1, <1>3 DEF WalkOK
<1>5. /\ toClient' \in Seq(Documents \X (1..MaxCalls))
      /\ said' \in [Documents -> Seq(Values)] /\ calls' \in 0..MaxCalls
      /\ Counted'
<2>1. CASE UNCHANGED <<toClient, said>> /\ (calls' = calls \/ (calls < MaxCalls /\ calls' = calls + 1))
  BY <2>1, RemoteAssumption, CountedStays DEF RendererInv, TypeOK
<2>2. CASE CallListenerThatSends
<3>1. contexts[dispatch.at].doc \in Documents
<4>1. dispatch # Idle
  BY <1>1 DEF Idle
<4>2. contexts[dispatch.at] \in Context
  BY <4>1 DEF RendererInv, TypeOK
<4>3. QED
  BY <4>2 DEF Context
<3>2. QED
  BY <2>2, <3>1, SendTypes DEF RendererInv, CallListenerThatSends
<2>3. QED
  BY <2>1, <2>2 DEF CallListener, CallListenerThatSends, CallListenerThatThrows,
                    HandlerReturns, up
<1>6. WalkSound' /\ TypeOK'
  BY <1>1, <1>4, <1>5, WalkMakes DEF RendererInv, TypeOK, down
<1>7. ContextsSound'
  BY <1>1 DEF RendererInv, ContextsSound
<1>8. QED
  BY <1>5, <1>6, <1>7 DEF RendererInv

\* A listener that removes or registers a listener.
LEMMA EditingCallKeeps ==
  ASSUME RendererInv, CallListenerThatEdits
  PROVE  RendererInv'
<1>1. /\ Walking /\ calls < MaxCalls /\ calls' = calls + 1
      /\ UNCHANGED <<frame, shown, down, up>>
  BY DEF CallListenerThatEdits
<1>2. PICK l \in Listeners, op \in {"remove", "listen"} :
        /\ contexts' = [contexts EXCEPT ![dispatch.at].listeners =
             IF op = "remove" THEN remove(@, l) ELSE listen(@, l)]
        /\ dispatch' = Onward(Removed(Called, l))
  BY DEF CallListenerThatEdits
<1>3. /\ Middle(dispatch, List) /\ NoTwice(List) /\ dispatch.at \in DOMAIN contexts
      /\ dispatch.k \in Nat /\ dispatch.k \in 1..Len(List)
      /\ Called = CalledIn(dispatch, List)
      /\ Removed(Called, l) = RemovedIn(Called, List, l)
  BY <1>1, WalkingMiddle
<1>4. contexts' = EditAt(contexts, dispatch.at, op, l)
  BY <1>2, Zenon DEF EditAt, Edit
<1>5. /\ contexts' \in Seq(Context) /\ DOMAIN contexts' = DOMAIN contexts
      /\ \A i \in DOMAIN contexts' : ContextSound(contexts'[i], shown)
      /\ contexts'[dispatch.at].listeners = Edit(op, List, l)
  BY <1>3, <1>4, EditedContexts DEF RendererInv, List
<1>6. ContextsSound'
  BY <1>1, <1>5 DEF ContextsSound
<1> DEFINE c == Onward(RemovedIn(CalledIn(dispatch, List), List, l))
<1>7. dispatch' = c
  BY <1>2, <1>3
<1>8. Reached(c, Edit(op, List, l)) /\ ToReach(c, Edit(op, List, l))
  BY <1>3, EditKeeps
<1>9. /\ c \in Dispatch /\ c.k = dispatch.k + 1 /\ c.at = dispatch.at
      /\ c.len = dispatch.len
<2>1. dispatch \in Dispatch /\ List \in Seq(Listeners)
  BY <1>3 DEF Middle
<2> DEFINE r == RemovedIn(CalledIn(dispatch, List), List, l)
<2>2. /\ CalledIn(dispatch, List) \in Dispatch
      /\ CalledIn(dispatch, List).k = dispatch.k
      /\ CalledIn(dispatch, List).at = dispatch.at
      /\ CalledIn(dispatch, List).len = dispatch.len
  BY <1>3, <2>1, CalledRecord
<2>3. r \in Dispatch /\ r.k = dispatch.k /\ r.at = dispatch.at /\ r.len = dispatch.len
  BY <2>2, RemovedFields
<2> HIDE DEF r
<2>4. QED
  BY <1>3, <2>3, OnwardFields DEF r
<1>10. c.k \in 1..(c.len + 1)
<2>1. dispatch.k \in 1..dispatch.len /\ dispatch.len \in Int
  BY <1>3 DEF Middle, Dispatch
<2>2. QED
  BY <1>9, <2>1
<1> HIDE DEF c
<1>11. WalkOK(dispatch)'
  BY <1>3, <1>5, <1>7, <1>8, <1>9, <1>10 DEF WalkOK
<1>12. WalkSound' /\ TypeOK'
<2>1. calls' \in 0..MaxCalls
  BY <1>1, RemoteAssumption DEF RendererInv, TypeOK
<2>2. QED
  BY <1>1, <1>5, <1>11, <2>1, WalkMakes DEF RendererInv, TypeOK, down, up
<1>13. QED
  BY <1>1, <1>6, <1>12, CountedStays DEF RendererInv, up

\* The document that is shown calls THRUST.remote.
LEMMA PagesKeep ==
  ASSUME RendererInv, PageEdits \/ PageSends
  PROVE  RendererInv'
<1>1. dispatch = Idle /\ contexts # <<>> /\ calls < MaxCalls /\ calls' = calls + 1
  BY DEF PageEdits, PageSends, Scripted, send
<1>2. Current \in DOMAIN contexts /\ contexts \in Seq(Context)
  BY <1>1 DEF Current, RendererInv, TypeOK
<1>3. calls' \in 0..MaxCalls
  BY <1>1, RemoteAssumption DEF RendererInv, TypeOK
<1>4. CASE PageEdits
<2>1. UNCHANGED <<frame, shown, dispatch, down, up>>
  BY <1>4 DEF PageEdits
<2>2. PICK l \in Listeners, op \in {"remove", "listen"} :
        contexts' = [contexts EXCEPT ![Current].listeners =
          IF op = "remove" THEN remove(@, l) ELSE listen(@, l)]
  BY <1>4 DEF PageEdits
<2>3. contexts' = EditAt(contexts, Current, op, l)
  BY <2>2, Zenon DEF EditAt, Edit
<2>4. /\ contexts' \in Seq(Context)
      /\ \A i \in DOMAIN contexts' : ContextSound(contexts'[i], shown)
  BY <1>2, <2>3, EditedContexts DEF RendererInv
<2>5. TypeOK' /\ WalkSound' /\ ContextsSound'
  BY <1>1, <1>3, <2>1, <2>4
     DEF RendererInv, TypeOK, ContextsSound, WalkSound, Idle, down, up
<2>6. QED
  BY <1>1, <2>1, <2>5, CountedStays DEF RendererInv, up
<1>5. CASE PageSends
<2>1. send(contexts[Current].doc) /\ UNCHANGED <<renderer, down, got, lost>>
  BY <1>5 DEF PageSends
<2>2. contexts[Current].doc \in Documents
<3>1. contexts[Current] \in Context
  BY <1>2
<3>2. QED
  BY <3>1 DEF Context
<2>3. /\ toClient' \in Seq(Documents \X (1..MaxCalls))
      /\ said' \in [Documents -> Seq(Values)] /\ Counted'
  BY <2>1, <2>2, SendTypes DEF RendererInv
<2>4. TypeOK' /\ WalkSound' /\ ContextsSound'
  BY <1>1, <1>3, <2>1, <2>3
     DEF RendererInv, TypeOK, ContextsSound, WalkSound, Idle, renderer, down
<2>5. QED
  BY <2>3, <2>4 DEF RendererInv
<1>6. QED
  BY <1>4, <1>5

-----------------------------------------------------------------------------
(* What the client receives. *)

Messages == Documents \X (1..MaxCalls)

\* Two sequences of messages, one after the other.
LEMMA ConcatIs ==
  ASSUME NEW g \in Seq(Messages), NEW t \in Seq(Messages)
  PROVE  /\ Len(g) \in Nat /\ Len(t) \in Nat
         /\ g \o t \in Seq(Messages)
         /\ Len(g \o t) = Len(g) + Len(t)
         /\ DOMAIN (g \o t) = 1..Len(g \o t)
         /\ \A i \in 1..Len(g \o t) :
              /\ (g \o t)[i] \in Messages
              /\ (g \o t)[i] = IF i <= Len(g) THEN g[i] ELSE t[i - Len(g)]
<1>1. /\ g \o t \in Seq(Messages) /\ Len(g \o t) = Len(g) + Len(t)
      /\ \A i \in 1..Len(g) + Len(t) :
           (g \o t)[i] = IF i <= Len(g) THEN g[i] ELSE t[i - Len(g)]
  BY ConcatProperties
<1>2. QED
  BY <1>1

\* The messages received and those on their way, as one sequence.
LEMMA ArrivingIs ==
  ASSUME TypeOK
  PROVE  /\ got \in Seq(Messages) /\ toClient \in Seq(Messages)
         /\ Arriving \in Seq(Messages)
         /\ Len(got) \in Nat /\ Len(toClient) \in Nat
         /\ Len(Arriving) = Len(got) + Len(toClient)
         /\ DOMAIN Arriving = 1..Len(Arriving)
         /\ \A i \in 1..Len(Arriving) :
              /\ Arriving[i] \in Messages
              /\ Arriving[i] = IF i <= Len(got) THEN got[i] ELSE toClient[i - Len(got)]
<1>1. got \in Seq(Messages) /\ toClient \in Seq(Messages)
  BY DEF TypeOK, Messages
<1>2. QED
  BY <1>1, ConcatIs DEF Arriving

\* The same of the next state.
LEMMA ArrivingIsNext ==
  ASSUME TypeOK'
  PROVE  /\ got' \in Seq(Messages) /\ toClient' \in Seq(Messages)
         /\ Arriving' \in Seq(Messages)
         /\ Len(got') \in Nat /\ Len(toClient') \in Nat
         /\ Len(Arriving') = Len(got') + Len(toClient')
         /\ DOMAIN Arriving' = 1..Len(Arriving')
         /\ \A i \in 1..Len(Arriving') :
              /\ Arriving'[i] \in Messages
              /\ Arriving'[i] = IF i <= Len(got') THEN got'[i] ELSE toClient'[i - Len(got')]
<1>1. got' \in Seq(Messages) /\ toClient' \in Seq(Messages)
  BY DEF TypeOK, Messages
<1>2. QED
  BY <1>1, ConcatIs DEF Arriving

(* The first n of what arrives is as it was. *)
Kept(n) ==
  /\ n <= Len(Arriving) /\ n <= Len(Arriving')
  /\ \A i \in 1..n : Arriving'[i] = Arriving[i]

\* The client receives the message that is first on its way.
LEMMA ReceivedArrives ==
  ASSUME TypeOK, TypeOK', RemoteSendReceived
  PROVE  Kept(Len(Arriving)) /\ Len(Arriving') = Len(Arriving)
<1>1. /\ toClient # <<>> /\ got' = Append(got, Head(toClient)) /\ toClient' = Tail(toClient)
  BY DEF RemoteSendReceived
<1>2. /\ got \in Seq(Messages) /\ toClient \in Seq(Messages)
      /\ Len(got) \in Nat /\ Len(toClient) \in Nat
      /\ Len(Arriving) = Len(got) + Len(toClient)
      /\ \A i \in 1..Len(Arriving) :
           Arriving[i] = IF i <= Len(got) THEN got[i] ELSE toClient[i - Len(got)]
  BY ArrivingIs
<1>3. /\ Len(Arriving') = Len(got') + Len(toClient')
      /\ \A i \in 1..Len(Arriving') :
           Arriving'[i] = IF i <= Len(got') THEN got'[i] ELSE toClient'[i - Len(got')]
  BY ArrivingIsNext
<1>4. /\ Len(toClient') = Len(toClient) - 1
      /\ \A i \in 1..Len(toClient') : toClient'[i] = toClient[i + 1]
      /\ Head(toClient) = toClient[1] /\ Len(toClient) >= 1
  BY <1>1, <1>2, HeadTailProperties
<1>5. /\ Len(got') = Len(got) + 1 /\ got'[Len(got) + 1] = Head(toClient)
      /\ \A i \in 1..Len(got) : got'[i] = got[i]
  BY <1>1, <1>2, <1>4
<1>6. Len(Arriving') = Len(Arriving)
  BY <1>2, <1>3, <1>4, <1>5
<1>7. ASSUME NEW i \in 1..Len(Arriving)
      PROVE  Arriving'[i] = Arriving[i]
<2>1. CASE i <= Len(got)
  BY <1>2, <1>3, <1>5, <1>6, <2>1
<2>2. CASE i = Len(got) + 1
<3>1. Arriving[i] = toClient[1]
  BY <1>2, <2>2
<3>2. Arriving'[i] = got'[i]
  BY <1>3, <1>5, <1>6, <2>2
<3>3. QED
  BY <1>4, <1>5, <2>2, <3>1, <3>2
<2>3. CASE i > Len(got) + 1
<3>1. Arriving[i] = toClient[i - Len(got)]
  BY <1>2, <2>3
<3>2. Arriving'[i] = toClient'[i - Len(got')]
  BY <1>2, <1>3, <1>5, <1>6, <2>3
<3>3. i - Len(got') \in 1..Len(toClient') /\ (i - Len(got')) + 1 = i - Len(got)
  BY <1>2, <1>4, <1>5, <2>3
<3>4. QED
  BY <1>4, <3>1, <3>2, <3>3
<2>4. QED
  BY <1>2, <2>1, <2>2, <2>3
<1>8. QED
  BY <1>2, <1>6, <1>7 DEF Kept

\* A message is on its way.
LEMMA SentArrives ==
  ASSUME TypeOK, TypeOK', NEW m, toClient' = Append(toClient, m), got' = got
  PROVE  /\ Kept(Len(Arriving)) /\ Len(Arriving') = Len(Arriving) + 1
         /\ Arriving'[Len(Arriving) + 1] = m
<1>2. /\ got \in Seq(Messages) /\ toClient \in Seq(Messages)
      /\ Len(got) \in Nat /\ Len(toClient) \in Nat
      /\ Len(Arriving) = Len(got) + Len(toClient)
      /\ \A i \in 1..Len(Arriving) :
           Arriving[i] = IF i <= Len(got) THEN got[i] ELSE toClient[i - Len(got)]
  BY ArrivingIs
<1>3. /\ Len(Arriving') = Len(got') + Len(toClient')
      /\ \A i \in 1..Len(Arriving') :
           Arriving'[i] = IF i <= Len(got') THEN got'[i] ELSE toClient'[i - Len(got')]
  BY ArrivingIsNext
<1>4. /\ Len(toClient') = Len(toClient) + 1
      /\ toClient'[Len(toClient) + 1] = m
      /\ \A i \in 1..Len(toClient) : toClient'[i] = toClient[i]
  BY <1>2
<1>6. Len(Arriving') = Len(Arriving) + 1
  BY <1>2, <1>3, <1>4
<1>7. Arriving'[Len(Arriving) + 1] = m
<2>1. /\ Len(Arriving) + 1 \in 1..Len(Arriving') /\ ~(Len(Arriving) + 1 <= Len(got'))
      /\ (Len(Arriving) + 1) - Len(got') = Len(toClient) + 1
  BY <1>2, <1>3, <1>4, <1>6
<2>2. QED
  BY <1>3, <1>4, <2>1
<1>8. ASSUME NEW i \in 1..Len(Arriving)
      PROVE  Arriving'[i] = Arriving[i]
<2>1. /\ i \in 1..Len(Arriving') /\ Len(got') = Len(got)
  BY <1>2, <1>6
<2>2. CASE i <= Len(got)
  BY <1>2, <1>3, <2>1, <2>2
<2>3. CASE i > Len(got)
<3>1. i - Len(got) \in 1..Len(toClient)
  BY <1>2, <2>3
<3>2. Arriving[i] = toClient[i - Len(got)] /\ Arriving'[i] = toClient'[i - Len(got)]
  BY <1>2, <1>3, <2>1, <2>3
<3>3. QED
  BY <1>4, <3>1, <3>2
<2>4. QED
  BY <1>2, <2>2, <2>3
<1>9. QED
  BY <1>2, <1>6, <1>7, <1>8 DEF Kept

\* What is on its way is cut off with its process.
LEMMA CutArrives ==
  ASSUME TypeOK, TypeOK', got' = got, NEW n \in 0..Len(toClient),
         toClient' = SubSeq(toClient, 1, n)
  PROVE  Kept(Len(Arriving'))
<1>2. /\ got \in Seq(Messages) /\ toClient \in Seq(Messages)
      /\ Len(got) \in Nat /\ Len(toClient) \in Nat
      /\ Len(Arriving) = Len(got) + Len(toClient)
      /\ \A i \in 1..Len(Arriving) :
           Arriving[i] = IF i <= Len(got) THEN got[i] ELSE toClient[i - Len(got)]
  BY ArrivingIs
<1>3. /\ Len(Arriving') = Len(got') + Len(toClient')
      /\ \A i \in 1..Len(Arriving') :
           Arriving'[i] = IF i <= Len(got') THEN got'[i] ELSE toClient'[i - Len(got')]
  BY ArrivingIsNext
<1>4. /\ Len(toClient') = n /\ \A i \in 1..n : toClient'[i] = toClient[i]
  BY <1>2, SubSeqProperties
<1>5. Len(Arriving') <= Len(Arriving) /\ Len(Arriving') \in Nat
  BY <1>2, <1>3, <1>4
<1>6. ASSUME NEW i \in 1..Len(Arriving')
      PROVE  Arriving'[i] = Arriving[i]
<2>1. /\ i \in 1..Len(Arriving) /\ Len(got') = Len(got)
  BY <1>2, <1>5
<2>2. CASE i <= Len(got)
  BY <1>2, <1>3, <2>1, <2>2
<2>3. CASE i > Len(got)
<3>1. i - Len(got) \in 1..n
  BY <1>2, <1>3, <1>4, <2>3
<3>2. Arriving[i] = toClient[i - Len(got)] /\ Arriving'[i] = toClient'[i - Len(got)]
  BY <1>2, <1>3, <2>1, <2>3
<3>3. QED
  BY <1>4, <3>1, <3>2
<2>4. QED
  BY <1>2, <2>2, <2>3
<1>7. QED
  BY <1>5, <1>6 DEF Kept

\* The parts of a message.
LEMMA MessageParts ==
  ASSUME NEW m \in Messages
  PROVE  m[1] \in Documents /\ m[2] \in 1..MaxCalls /\ m[2] \in Nat
BY DEF Messages

\* What has arrived in order and without gaps is so for a first part of it.
LEMMA FirstPartInOrder ==
  ASSUME TypeOK, TypeOK', InOrder, WithoutGaps, Kept(Len(Arriving')),
         \A d \in Documents : Sendable(d)' = Sendable(d)
  PROVE  InOrder' /\ WithoutGaps'
<1>1. DOMAIN Arriving = 1..Len(Arriving) /\ Len(Arriving) \in Nat
  BY ArrivingIs
<1>2. DOMAIN Arriving' = 1..Len(Arriving') /\ Len(Arriving') \in Nat
  BY ArrivingIsNext
<1>3. /\ Len(Arriving') <= Len(Arriving)
      /\ \A i \in DOMAIN Arriving' : i \in DOMAIN Arriving /\ Arriving'[i] = Arriving[i]
  BY <1>1, <1>2 DEF Kept
<1>4. InOrder'
  BY <1>3 DEF InOrder
<1>5. WithoutGaps'
<2> SUFFICES ASSUME NEW i \in DOMAIN Arriving'
             PROVE  /\ Arriving'[i][2] \in Sendable(Arriving[i][1])'
                    /\ \A n \in Sendable(Arriving[i][1])' :
                         n <= Arriving'[i][2] =>
                           \E j \in 1..i : Arriving'[j] = <<Arriving'[i][1], n>>
  BY DEF WithoutGaps, Sendable
<2>1. i \in DOMAIN Arriving /\ Arriving'[i] = Arriving[i]
  BY <1>3
<2>2. Arriving[i][1] \in Documents
  BY <2>1, ArrivingIs, MessageParts
<2>3. /\ Arriving[i][2] \in Sendable(Arriving[i][1])
      /\ \A n \in Sendable(Arriving[i][1]) :
           n <= Arriving[i][2] => \E j \in 1..i : Arriving[j] = <<Arriving[i][1], n>>
  BY <2>1 DEF WithoutGaps
<2>4. \A j \in 1..i : j \in DOMAIN Arriving'
  BY <1>2
<2>5. Sendable(Arriving[i][1])' = Sendable(Arriving[i][1])
  BY <2>1, <2>2 DEF Sendable
<2>6. QED
  BY <1>3, <2>1, <2>3, <2>4, <2>5
<1>6. QED
  BY <1>4, <1>5

\* What has arrived stays.
LEMMA StillArrives ==
  ASSUME TypeOK, TypeOK', Kept(Len(Arriving)), NEW d \in Documents, Arrives(d),
         Sendable(d)' = Sendable(d)
  PROVE  Arrives(d)'
<1>1. DOMAIN Arriving = 1..Len(Arriving) /\ Len(Arriving) \in Nat
  BY ArrivingIs
<1>2. DOMAIN Arriving' = 1..Len(Arriving') /\ Len(Arriving') \in Nat
  BY ArrivingIsNext
<1>3. \A i \in DOMAIN Arriving : i \in DOMAIN Arriving' /\ Arriving'[i] = Arriving[i]
  BY <1>1, <1>2 DEF Kept
<1>4. QED
  BY <1>3 DEF Arrives

\* The documents that may speak are documents the frame has shown.
LEMMA SpeakersShown ==
  ASSUME TypeOK, ContextsSound
  PROVE  Speakers \subseteq Documents /\ \A d \in Speakers : d <= shown
<1> SUFFICES ASSUME NEW i \in DOMAIN contexts
             PROVE  contexts[i].doc \in Documents /\ contexts[i].doc <= shown
  BY DEF Speakers
<1>1. contexts[i] \in Context
  BY DEF TypeOK
<1>2. contexts[i].doc \in 1..shown
  BY DEF ContextsSound, ContextSound
<1>3. QED
  BY <1>1, <1>2 DEF Context, TypeOK

\* A step that sends nothing and loses nothing, and gives no document the
\* right to speak.
LEMMA QuietKeepsClient ==
  ASSUME IInv, TypeOK', Kept(Len(Arriving)), Len(Arriving') = Len(Arriving),
         said' = said, lost' = lost, shown' = shown, Speakers' \subseteq Speakers,
         frame' = "gone" => contexts' = <<>>
  PROVE  ClientInv'
<1>1. /\ TypeOK /\ ContextsSound /\ InOrder /\ WithoutGaps /\ SpeakersHeard
      /\ \A d \in Documents : Sendable(d)' = Sendable(d)
  BY DEF IInv, RendererInv, ClientInv, ClientHearsInOrder, Sendable
<1>2. InOrder' /\ WithoutGaps'
  BY <1>1, FirstPartInOrder
<1>3. \A d \in Documents : Arrives(d) => Arrives(d)'
  BY <1>1, StillArrives
<1>4. ClientHearsInOrder'
  BY <1>2, <1>3 DEF IInv, ClientInv, ClientHearsInOrder
<1>5. \A d \in Speakers' : Arrives(d)'
  BY <1>1, <1>3, SpeakersShown DEF SpeakersHeard
<1>6. SpeakersHeard'
  BY <1>1, <1>5 DEF SpeakersHeard
<1>7. QED
  BY <1>4, <1>6 DEF ClientInv

\* What arrives depends on what was received and what is on its way.
LEMMA NothingArrives ==
  ASSUME TypeOK, up' = up
  PROVE  /\ Kept(Len(Arriving)) /\ Len(Arriving') = Len(Arriving)
         /\ said' = said /\ lost' = lost
<1>1. Arriving' = Arriving /\ said' = said /\ lost' = lost
  BY DEF up, Arriving
<1>2. Len(Arriving) \in Nat
  BY ArrivingIs
<1>3. QED
  BY <1>1, <1>2 DEF Kept

\* A document of which everything has arrived sends its next message.
LEMMA NextNumberArrives ==
  ASSUME TypeOK, TypeOK', got' = got, InOrder, WithoutGaps,
         NEW d \in Documents, Arrives(d), NEW number \in Nat,
         toClient' = Append(toClient, <<d, number>>),
         Sendable(d) \subseteq 1..(number - 1),
         Sendable(d)' = Sendable(d) \cup {number},
         \A e \in Documents : e # d => Sendable(e)' = Sendable(e)
  PROVE  /\ InOrder' /\ WithoutGaps'
         /\ \A e \in Documents : Arrives(e) => Arrives(e)'
<1> DEFINE last == Len(Arriving) + 1
<1>1. /\ Kept(Len(Arriving)) /\ Len(Arriving') = last
      /\ Arriving'[last] = <<d, number>>
  BY SentArrives
<1>2. /\ DOMAIN Arriving = 1..Len(Arriving) /\ Len(Arriving) \in Nat
      /\ \A i \in DOMAIN Arriving : Arriving[i] \in Messages
  BY ArrivingIs
<1>3. DOMAIN Arriving' = 1..last /\ last \in Nat
  BY <1>1, <1>2, ArrivingIsNext
<1>4. /\ \A i \in DOMAIN Arriving' : i = last \/ i \in DOMAIN Arriving
      /\ \A i \in DOMAIN Arriving :
           i \in DOMAIN Arriving' /\ i < last /\ Arriving'[i] = Arriving[i]
      /\ last \in DOMAIN Arriving'
  BY <1>1, <1>2, <1>3 DEF Kept
<1> HIDE DEF last
<1>5. \A i \in DOMAIN Arriving :
        /\ Arriving[i][1] \in Documents /\ Arriving[i][2] \in Nat
        /\ Arriving[i][2] \in Sendable(Arriving[i][1])
        /\ \A n \in Sendable(Arriving[i][1]) :
             n <= Arriving[i][2] => \E j \in 1..i : Arriving[j] = <<Arriving[i][1], n>>
  BY <1>2, MessageParts DEF WithoutGaps
<1>6. Arriving'[last][1] = d /\ Arriving'[last][2] = number
  BY <1>1
<1>7. InOrder'
<2> SUFFICES ASSUME NEW i \in DOMAIN Arriving', NEW j \in DOMAIN Arriving', i < j,
                    Arriving'[i][1] = Arriving'[j][1]
             PROVE  Arriving'[i][2] < Arriving'[j][2]
  BY DEF InOrder
<2>1. i \in DOMAIN Arriving /\ Arriving'[i] = Arriving[i]
  BY <1>3, <1>4
<2>2. CASE j = last
<3>1. Arriving[i][1] = d
  BY <1>6, <2>1, <2>2
<3>2. Arriving[i][2] \in 1..(number - 1)
  BY <1>5, <2>1, <3>1
<3>3. QED
  BY <1>6, <2>1, <2>2, <3>2
<2>3. CASE j \in DOMAIN Arriving
  BY <1>4, <2>1, <2>3 DEF InOrder
<2>4. QED
  BY <1>4, <2>2, <2>3
<1>8. ASSUME NEW n \in Sendable(d)'
      PROVE  \E i \in 1..last : Arriving'[i] = <<d, n>>
<2>1. CASE n = number
  BY <1>1, <1>3, <1>4, <2>1
<2>2. CASE n \in Sendable(d)
  BY <1>3, <1>4, <2>2 DEF Arrives
<2>3. QED
  BY <1>8, <2>1, <2>2
<1>9. WithoutGaps'
<2> SUFFICES ASSUME NEW i \in DOMAIN Arriving'
             PROVE  /\ Arriving'[i][2] \in Sendable(Arriving[i][1])'
                    /\ \A n \in Sendable(Arriving[i][1])' :
                         n <= Arriving'[i][2] =>
                           \E j \in 1..i : Arriving'[j] = <<Arriving'[i][1], n>>
  BY DEF WithoutGaps, Sendable
<2>1. CASE i = last
<3>1. Sendable(Arriving[i][1])' = Sendable(d)'
  BY <1>6, <2>1 DEF Sendable
<3>2. QED
  BY <1>6, <1>8, <2>1, <3>1
<2>2. CASE i \in DOMAIN Arriving
<3> DEFINE e == Arriving[i][1]
<3>1. /\ Arriving'[i] = Arriving[i] /\ i \in Nat /\ e \in Documents
      /\ Arriving[i][2] \in Sendable(e) /\ Arriving[i][2] \in Nat
      /\ \A j \in 1..i : j \in DOMAIN Arriving /\ Arriving'[j] = Arriving[j]
  BY <1>2, <1>4, <1>5, <2>2
<3>2. Sendable(Arriving[i][1])' = Sendable(e)'
  BY <3>1 DEF Sendable
<3>3. Arriving[i][2] \in Sendable(e)'
  BY <3>1
<3>4. ASSUME NEW n \in Sendable(e)', n <= Arriving[i][2]
      PROVE  \E j \in 1..i : Arriving'[j] = <<e, n>>
<4>1. n \in Sendable(e)
  BY <3>1, <3>4
<4>2. QED
  BY <1>5, <2>2, <3>1, <3>4, <4>1
<3>5. QED
  BY <3>1, <3>2, <3>3, <3>4
<2>3. QED
  BY <1>4, <2>1, <2>2
<1>10. ASSUME NEW e \in Documents, Arrives(e)
       PROVE  Arrives(e)'
<2>1. CASE e = d
  BY <1>3, <1>8, <2>1 DEF Arrives
<2>2. CASE e # d
  BY <1>1, <2>2, <1>10, StillArrives
<2>3. QED
  BY <2>1, <2>2
<1>11. QED
  BY <1>7, <1>9, <1>10

\* A document that may speak passes a value to send.
LEMMA SpeakerSends ==
  ASSUME IInv, TypeOK', NEW d \in Speakers, send(d),
         got' = got, lost' = lost, contexts' = contexts, shown' = shown, frame' = frame
  PROVE  ClientInv'
<1>1. /\ TypeOK /\ ContextsSound /\ InOrder /\ WithoutGaps /\ SpeakersHeard /\ Counted
      /\ ~lost => \A e \in Documents : Arrives(e)
  BY DEF IInv, RendererInv, ClientInv, ClientHearsInOrder
<1>2. d \in Documents /\ d <= shown /\ d \in Nat
  BY <1>1, SpeakersShown DEF Documents
<1> DEFINE number == Len(said[d]) + 1
<1>3. PICK v \in Values :
        /\ said' = [said EXCEPT ![d] = Append(said[d], v)]
        /\ toClient' = IF v = "array" THEN toClient ELSE Append(toClient, <<d, number>>)
  BY <1>1, <1>2, SendIs
<1>4. said[d] \in Seq(Values) /\ Len(said[d]) \in Nat /\ said \in [Documents -> Seq(Values)]
  BY <1>1, <1>2 DEF TypeOK
<1>5. /\ \A e \in Documents : e # d => said'[e] = said[e]
      /\ said'[d] = Append(said[d], v)
  BY <1>2, <1>3, <1>4
<1>6. /\ \A e \in Documents : e # d => Sendable(e)' = Sendable(e)
      /\ Sendable(d) \subseteq 1..(number - 1)
      /\ Sendable(d)' = IF v = "array" THEN Sendable(d) ELSE Sendable(d) \cup {number}
  BY <1>4, <1>5 DEF Sendable
<1> HIDE DEF number
<1>7. /\ InOrder' /\ WithoutGaps'
      /\ \A e \in Documents : Arrives(e) => Arrives(e)'
<2>1. CASE v = "array"
<3>1. Arriving' = Arriving
  BY <1>3, <2>1 DEF Arriving
<3>2. Len(Arriving) \in Nat
  BY <1>1, ArrivingIs
<3>3. Kept(Len(Arriving)) /\ Kept(Len(Arriving'))
  BY <3>1, <3>2 DEF Kept
<3>4. \A e \in Documents : Sendable(e)' = Sendable(e)
  BY <1>6, <2>1
<3>5. QED
  BY <1>1, <3>3, <3>4, FirstPartInOrder, StillArrives
<2>2. CASE v # "array"
<3>1. toClient' = Append(toClient, <<d, number>>) /\ number \in Nat
  BY <1>3, <1>4, <2>2 DEF number
<3>2. Sendable(d)' = Sendable(d) \cup {number}
  BY <1>6, <2>2
<3>3. Arrives(d)
  BY <1>1 DEF SpeakersHeard
<3>4. QED
  BY <1>1, <1>2, <1>6, <3>1, <3>2, <3>3, NextNumberArrives
<2>3. QED
  BY <2>1, <2>2
<1>8. ClientHearsInOrder'
  BY <1>1, <1>7 DEF ClientHearsInOrder
<1>9. SpeakersHeard'
<2>1. Speakers' = Speakers /\ \A e \in Speakers : Arrives(e)'
  BY <1>1, <1>7, SpeakersShown DEF Speakers, SpeakersHeard
<2>2. ASSUME NEW e \in Documents, e > shown
      PROVE  said'[e] = <<>>
<3>1. e # d
  BY <1>1, <1>2, <2>2 DEF TypeOK, Documents
<3>2. QED
  BY <1>1, <1>5, <2>2, <3>1 DEF SpeakersHeard
<2>3. QED
  BY <1>1, <2>1, <2>2 DEF SpeakersHeard
<1>10. QED
  BY <1>8, <1>9 DEF ClientInv


-----------------------------------------------------------------------------
(* The steps, and what the client hears. *)

\* The client sends, or receives.
LEMMA ClientSteps ==
  ASSUME IInv, RendererInv', RemoteDispatchSent \/ RemoteSendReceived
  PROVE  ClientInv'
<1>1. TypeOK /\ TypeOK' /\ SpeakersHeard
  BY DEF IInv, RendererInv, ClientInv
<1>2. /\ frame' = frame /\ shown' = shown /\ contexts' = contexts
      /\ Speakers' = Speakers /\ (frame' = "gone" => contexts' = <<>>)
  BY <1>1 DEF RemoteDispatchSent, RemoteSendReceived, renderer, Speakers, SpeakersHeard
<1>3. /\ Kept(Len(Arriving)) /\ Len(Arriving') = Len(Arriving)
      /\ said' = said /\ lost' = lost
<2>1. CASE RemoteDispatchSent
  BY <1>1, <2>1, NothingArrives DEF RemoteDispatchSent
<2>2. CASE RemoteSendReceived
  BY <1>1, <2>2, ReceivedArrives DEF RemoteSendReceived
<2>3. QED
  BY <2>1, <2>2
<1>4. QED
  BY <1>1, <1>2, <1>3, QuietKeepsClient

\* A document is shown: it has said nothing yet.
LEMMA ShownSteps ==
  ASSUME IInv, RendererInv', DidCreateScriptContext
  PROVE  ClientInv'
<1>1. TypeOK /\ TypeOK' /\ SpeakersHeard /\ ContextsSound' /\ ContextsSound /\ ClientHearsInOrder
  BY DEF IInv, RendererInv, ClientInv
<1>2. /\ frame = "live" /\ frame' = frame /\ shown' = shown + 1 /\ up' = up
      /\ shown < MaxDocuments /\ contexts' = Append(contexts, StartedContext(shown + 1))
  BY DEF DidCreateScriptContext
<1>3. /\ Kept(Len(Arriving)) /\ Len(Arriving') = Len(Arriving)
      /\ said' = said /\ lost' = lost /\ Arriving' = Arriving
  BY <1>1, <1>2, NothingArrives DEF up, Arriving
<1>4. ClientHearsInOrder'
  BY <1>1, <1>3 DEF ClientHearsInOrder, InOrder, WithoutGaps, Arrives, Sendable
<1>5. shown + 1 \in Documents /\ shown \in Nat /\ said[shown + 1] = <<>>
  BY <1>1, <1>2, RemoteAssumption DEF TypeOK, Documents, SpeakersHeard
<1>6. ASSUME NEW d \in Speakers'
      PROVE  Arrives(d)'
<2>1. PICK i \in DOMAIN contexts' : contexts'[i].doc = d
  BY <1>6 DEF Speakers
<2>2. CASE i \in DOMAIN contexts
<3>1. d \in Speakers
<4>1. contexts \in Seq(Context)
  BY <1>1 DEF TypeOK
<4>2. contexts'[i] = contexts[i]
  BY <1>2, <2>2, <4>1
<4>3. QED
  BY <2>1, <2>2, <4>2 DEF Speakers
<3>2. d \in Documents
  BY <1>1, <3>1, SpeakersShown
<3>3. QED
  BY <1>1, <1>3, <3>1, <3>2, StillArrives DEF SpeakersHeard, Sendable
<2>3. CASE i \notin DOMAIN contexts
<3>1. contexts'[i] = StartedContext(shown + 1)
<4>1. contexts \in Seq(Context)
  BY <1>1 DEF TypeOK
<4>2. /\ Len(contexts) \in Nat /\ DOMAIN contexts = 1..Len(contexts)
      /\ DOMAIN contexts' = 1..(Len(contexts) + 1)
      /\ contexts'[Len(contexts) + 1] = StartedContext(shown + 1)
  BY <1>2, <4>1
<4>3. i = Len(contexts) + 1
  BY <2>1, <2>3, <4>2
<4>4. QED
  BY <4>2, <4>3
<3>2. d = shown + 1
  BY <1>5, <2>1, <3>1, Started
<3>3. QED
  BY <1>3, <1>5, <3>2 DEF Arrives, Sendable
<2>4. QED
  BY <2>2, <2>3
<1>7. \A d \in Documents : d > shown' => said'[d] = <<>>
  BY <1>1, <1>2, <1>3, <1>5 DEF SpeakersHeard, Documents
<1>8. SpeakersHeard'
  BY <1>2, <1>6, <1>7 DEF SpeakersHeard
<1>9. QED
  BY <1>4, <1>8 DEF ClientInv

\* The process goes or another one is made.
LEMMA ProcessSteps ==
  ASSUME IInv, RendererInv', RenderProcessGone \/ RenderFrameCreated
  PROVE  ClientInv'
<1>1. TypeOK /\ TypeOK' /\ SpeakersHeard /\ InOrder /\ WithoutGaps
  BY DEF IInv, RendererInv, ClientInv, ClientHearsInOrder
<1>2. CASE RenderProcessGone
<2>1. /\ lost' = TRUE /\ contexts' = <<>> /\ said' = said /\ got' = got /\ shown' = shown
  BY <1>2 DEF RenderProcessGone
<2>2. PICK n \in 0..Len(toClient) : toClient' = SubSeq(toClient, 1, n)
  BY <1>2 DEF RenderProcessGone
<2>3. Kept(Len(Arriving'))
  BY <1>1, <2>1, <2>2, CutArrives
<2>4. ClientHearsInOrder'
  BY <1>1, <2>1, <2>3, FirstPartInOrder DEF ClientHearsInOrder, Sendable
<2>5. Speakers' = {}
  BY <2>1 DEF Speakers
<2>6. QED
  BY <1>1, <2>1, <2>4, <2>5 DEF ClientInv, SpeakersHeard
<1>3. CASE RenderFrameCreated
<2>1. /\ frame' = "live" /\ shown' = shown /\ contexts' = contexts /\ up' = up
  BY <1>3 DEF RenderFrameCreated
<2>2. Speakers' = Speakers
  BY <2>1 DEF Speakers
<2>3. QED
  BY <1>1, <2>1, <2>2, NothingArrives, QuietKeepsClient
<1>4. QED
  BY <1>2, <1>3

\* The dispatch of a message tells the client nothing.
LEMMA DispatchSteps ==
  ASSUME IInv, RendererInv',
         RemoteDispatch \/ CallListener \/ CallListenerThatThrows \/ HandlerReturns
  PROVE  ClientInv'
<1>1. TypeOK /\ TypeOK' /\ SpeakersHeard
  BY DEF IInv, RendererInv, ClientInv
<1>2. frame' = frame /\ shown' = shown /\ contexts' = contexts /\ up' = up
  BY DEF RemoteDispatch, CallListener, CallListenerThatThrows, HandlerReturns
<1>3. Speakers' = Speakers /\ (frame' = "gone" => contexts' = <<>>)
  BY <1>1, <1>2 DEF Speakers, SpeakersHeard
<1>4. QED
  BY <1>1, <1>2, <1>3, NothingArrives, QuietKeepsClient

\* A page that changes its list of listeners stays the document it is.
LEMMA EditSteps ==
  ASSUME IInv, RendererInv', CallListenerThatEdits \/ PageEdits
  PROVE  ClientInv'
<1>1. TypeOK /\ TypeOK' /\ SpeakersHeard /\ ContextsSound
  BY DEF IInv, RendererInv, ClientInv
<1>2. DOMAIN contexts' = DOMAIN contexts /\ \A i \in DOMAIN contexts : contexts'[i].doc = contexts[i].doc
<2>1. PICK at \in DOMAIN contexts, l \in Listeners, op \in {"remove", "listen"} :
        contexts' = EditAt(contexts, at, op, l)
<3>1. CASE CallListenerThatEdits
<4>1. PICK l \in Listeners, op \in {"remove", "listen"} :
        contexts' = [contexts EXCEPT ![dispatch.at].listeners =
          IF op = "remove" THEN remove(@, l) ELSE listen(@, l)]
  BY <3>1 DEF CallListenerThatEdits
<4>2. dispatch.at \in DOMAIN contexts
  BY <3>1, WalkingMiddle DEF IInv, CallListenerThatEdits
<4>3. contexts' = EditAt(contexts, dispatch.at, op, l)
  BY <4>1, Zenon DEF EditAt, Edit
<4>4. QED
  BY <4>2, <4>3
<3>2. CASE PageEdits
<4>1. PICK l \in Listeners, op \in {"remove", "listen"} :
        contexts' = [contexts EXCEPT ![Current].listeners =
          IF op = "remove" THEN remove(@, l) ELSE listen(@, l)]
  BY <3>2 DEF PageEdits
<4>2. Current \in DOMAIN contexts
  BY <1>1, <3>2 DEF Current, PageEdits, Scripted, TypeOK
<4>3. contexts' = EditAt(contexts, Current, op, l)
  BY <4>1, Zenon DEF EditAt, Edit
<4>4. QED
  BY <4>2, <4>3
<3>3. QED
  BY <3>1, <3>2
<2>2. QED
  BY <1>1, <2>1, EditedContexts
<1>3. frame' = frame /\ shown' = shown /\ up' = up
  BY DEF CallListenerThatEdits, PageEdits
<1>4. Speakers' = Speakers
  BY <1>2 DEF Speakers
<1>5. frame' = "gone" => contexts' = <<>>
<2>1. frame = "gone" => DOMAIN contexts = {}
  BY <1>1 DEF SpeakersHeard
<2>2. contexts' \in Seq(Context)
  BY <1>1 DEF TypeOK
<2>3. QED
  BY <1>2, <1>3, <2>1, <2>2
<1>6. QED
  BY <1>1, <1>3, <1>4, <1>5, NothingArrives, QuietKeepsClient

\* A page sends, from a listener or from its own scripts.
LEMMA SendSteps ==
  ASSUME IInv, RendererInv', CallListenerThatSends \/ PageSends
  PROVE  ClientInv'
<1>1. TypeOK /\ TypeOK'
  BY DEF IInv, RendererInv
<1>2. /\ got' = got /\ lost' = lost /\ contexts' = contexts /\ shown' = shown /\ frame' = frame
  BY DEF CallListenerThatSends, PageSends, renderer
<1>3. PICK i \in DOMAIN contexts : send(contexts[i].doc)
<2>1. CASE CallListenerThatSends
  BY <1>1, <2>1 DEF CallListenerThatSends, Walking, TypeOK, Idle
<2>2. CASE PageSends
<3>1. contexts # <<>> /\ contexts \in Seq(Context)
  BY <1>1, <2>2 DEF PageSends, Scripted, TypeOK
<3>2. Current \in DOMAIN contexts
  BY <3>1 DEF Current
<3>3. QED
  BY <2>2, <3>2 DEF PageSends
<2>3. QED
  BY <2>1, <2>2
<1>4. contexts[i].doc \in Speakers
  BY DEF Speakers
<1>5. QED
  BY <1>1, <1>2, <1>3, <1>4, SpeakerSends

-----------------------------------------------------------------------------
(* The theorems. *)

\* The invariant holds of the initial state.
LEMMA InitInv == Init => IInv
<1> SUFFICES ASSUME Init PROVE IInv
  OBVIOUS
<1>1. TypeOK
<2>1. MaxDocuments \in Nat /\ MaxMessages \in Nat /\ MaxCalls \in Nat
  BY RemoteAssumption
<2>2. 0 \in 0..MaxDocuments /\ 0 \in 0..MaxMessages /\ 0 \in 0..MaxCalls
  BY <2>1
<2>3. said \in [Documents -> Seq(Values)]
  BY DEF Init
<2>4. lost \in BOOLEAN
  BY DEF Init
<2>5. QED
  BY <2>2, <2>3, <2>4 DEF Init, TypeOK
<1>2. ContextsSound /\ WalkSound
  BY DEF Init, ContextsSound, WalkSound, Idle
<1>3. Counted
<2>1. Len(<<>>) = 0
  OBVIOUS
<2>2. QED
  BY <2>1 DEF Init, Counted
<1>4. /\ got = <<>> /\ toClient = <<>> /\ contexts = <<>> /\ frame = "live"
      /\ \A d \in Documents : said[d] = <<>>
  BY DEF Init
<1>5. DOMAIN Arriving = {}
<2>1. Len(Arriving) = 0 /\ DOMAIN Arriving = 1..Len(Arriving)
  BY <1>1, <1>4, ArrivingIs
<2>2. QED
  BY <2>1
<1>6. ClientHearsInOrder
  BY <1>4, <1>5 DEF ClientHearsInOrder, InOrder, WithoutGaps, Arrives, Sendable
<1>7. SpeakersHeard
  BY <1>4 DEF SpeakersHeard, Speakers
<1>8. QED
  BY <1>1, <1>2, <1>3, <1>6, <1>7 DEF IInv, RendererInv, ClientInv

\* Every step keeps it.
LEMMA StepInv == IInv /\ [Next]_vars => IInv'
<1> SUFFICES ASSUME IInv, [Next]_vars PROVE IInv'
  OBVIOUS
<1>1. RendererInv
  BY DEF IInv
<1>2. CASE RemoteDispatchSent \/ RemoteSendReceived
  BY <1>1, <1>2, SendingKeeps, ReceivingKeeps, ClientSteps DEF IInv
<1>3. CASE DidCreateScriptContext
  BY <1>1, <1>3, ShowingKeeps, ShownSteps DEF IInv
<1>4. CASE RenderProcessGone \/ RenderFrameCreated
  BY <1>1, <1>4, ProcessesKeep, ProcessSteps DEF IInv
<1>5. CASE RemoteDispatch
  BY <1>1, <1>5, DispatchKeeps, DispatchSteps DEF IInv
<1>6. CASE CallListener \/ CallListenerThatThrows \/ HandlerReturns
  BY <1>1, <1>6, CallingKeeps, DispatchSteps DEF IInv
<1>7. CASE CallListenerThatSends
  BY <1>1, <1>7, CallingKeeps, SendSteps DEF IInv
<1>8. CASE CallListenerThatEdits
  BY <1>1, <1>8, EditingCallKeeps, EditSteps DEF IInv
<1>9. CASE PageEdits
  BY <1>1, <1>9, PagesKeep, EditSteps DEF IInv
<1>10. CASE PageSends
  BY <1>1, <1>10, PagesKeep, SendSteps DEF IInv
<1>11. CASE UNCHANGED vars
<2>1. UNCHANGED <<renderer, down, up, calls>>
  BY <1>11 DEF vars
<2>2. /\ frame' = frame /\ shown' = shown /\ contexts' = contexts /\ dispatch' = dispatch
      /\ toFrame' = toFrame /\ sent' = sent /\ toClient' = toClient /\ said' = said
      /\ got' = got /\ lost' = lost /\ calls' = calls
  BY <2>1 DEF renderer, down, up
<2>3. TypeOK'
  BY <2>2 DEF IInv, RendererInv, TypeOK
<2>4. ContextsSound' /\ WalkSound' /\ Counted'
  BY <2>2 DEF IInv, RendererInv, ContextsSound, WalkSound, Counted, List
<2>5. Arriving' = Arriving /\ Speakers' = Speakers
  BY <2>2 DEF Arriving, Speakers
<2>6. ClientInv'
  BY <2>2, <2>5 DEF IInv, ClientInv, ClientHearsInOrder, SpeakersHeard, InOrder,
     WithoutGaps, Arrives, Sendable
<2>7. QED
  BY <2>3, <2>4, <2>6 DEF IInv, RendererInv
<1>12. QED
  BY <1>2, <1>3, <1>4, <1>5, <1>6, <1>7, <1>8, <1>9, <1>10, <1>11 DEF Next

\* The invariant holds in every reachable state, for any listeners and bounds.
THEOREM InvariantHolds == Spec => []IInv
<1>1. QED
  BY InitInv, StepInv, PTL DEF Spec

\* When a walk ends, it has called exactly the list up to its index, once each:
\* all of those that stayed, or if one of them threw those up to it.
LEMMA EachHearsOnce == RendererInv => EveryListenerHearsOnce
<1> SUFFICES ASSUME RendererInv, dispatch.on, ~Walking, ~dispatch.shifted,
                    NEW l \in dispatch.stay
             PROVE  Times(l) = IF AfterThrower(l) THEN 0 ELSE 1
  BY DEF EveryListenerHearsOnce
<1>1. /\ dispatch \in Dispatch /\ dispatch.at \in DOMAIN contexts
      /\ dispatch.k \in 1..(dispatch.len + 1)
  BY DEF RendererInv, TypeOK, Idle
<1>2. Reached(dispatch, List) /\ ToReach(dispatch, List)
  BY DEF RendererInv, WalkSound
<1>3. NoTwice(List) /\ List \in Seq(Listeners)
<2>1. contexts[dispatch.at] \in Context
  BY <1>1 DEF RendererInv, TypeOK
<2>2. QED
  BY <1>1, <2>1 DEF RendererInv, ContextsSound, ContextSound, List, Context
<1> DEFINE k == dispatch.k
           len == dispatch.len
           heard == dispatch.heard
           ls == List
           threw == dispatch.threw
<1>4. /\ k \in Nat /\ len \in Nat /\ k <= len + 1 /\ heard \in Seq(Listeners)
      /\ Len(ls) \in Nat /\ DOMAIN ls = 1..Len(ls) /\ k >= 1
  BY <1>1, <1>3, FS_CardinalityType, RemoteAssumption DEF Dispatch
<1>5. /\ Len(heard) = k - 1 /\ k - 1 <= Len(ls)
      /\ \A i \in 1..(k - 1) : heard[i] = ls[i]
  BY <1>2 DEF Reached
<1>6. threw \/ k > len \/ k > Len(ls)
  BY <1>4 DEF Walking
<1>7. PICK i \in 1..len : i \in DOMAIN ls /\ ls[i] = l
  BY <1>2 DEF ToReach
<1>8. \A j \in DOMAIN ls : ls[j] = l => j = i
  BY <1>3, <1>7 DEF NoTwice
<1>9. IndexOf(ls, l) = i
  BY <1>7, <1>8 DEF IndexOf
<1>10. AfterThrower(l) <=> threw /\ i >= k
  BY <1>9 DEF AfterThrower
<1> HIDE DEF k, len, heard, ls, threw
<1>11. DOMAIN heard = 1..(k - 1)
  BY <1>4, <1>5
<1>12. \A j \in DOMAIN heard : heard[j] = l => j = i
  BY <1>4, <1>5, <1>8, <1>11
<1>13. CASE AfterThrower(l)
<2>1. {j \in DOMAIN heard : heard[j] = l} = {}
  BY <1>4, <1>7, <1>10, <1>11, <1>12, <1>13
<2>2. QED
  BY <1>13, <2>1, FS_EmptySet DEF Times, heard
<1>14. CASE ~AfterThrower(l)
<2>1. i \in 1..(k - 1)
  BY <1>4, <1>6, <1>7, <1>10, <1>14
<2>2. heard[i] = l
  BY <1>5, <1>7, <2>1
<2>3. {j \in DOMAIN heard : heard[j] = l} = {i}
  BY <1>11, <1>12, <2>1, <2>2
<2>4. QED
  BY <1>14, <2>3, FS_Singleton DEF Times, heard
<1>15. QED
  BY <1>13, <1>14

\* Every document of a frame can listen and send, keeps no right to the
\* natives, and each of its listeners hears every message once unless one of
\* them removed an entry the walk had reached; after one that threw, those
\* behind it and they alone do not hear it.  For any number of listeners,
\* documents, messages and calls.
THEOREM MessagesAlwaysHeard == Spec => []MessagesHeard
<1>1. IInv => MessagesHeard
<2> SUFFICES ASSUME IInv PROVE MessagesHeard
  OBVIOUS
<2>1. RendererInv
  BY DEF IInv
<2>2. TypeOK /\ EveryDocumentHasRemote
  BY <2>1 DEF RendererInv, ContextsSound, ContextSound, EveryDocumentHasRemote
<2>3. QED
  BY <2>1, <2>2, EachHearsOnce DEF MessagesHeard
<1>2. QED
  BY <1>1, InvariantHolds, PTL

\* What the client receives of a document is what the document sent but for
\* its arrays, in order and without gaps, and all of that arrives unless a
\* process has gone.
THEOREM ClientAlwaysHearsInOrder == Spec => []ClientHearsInOrder
<1>1. IInv => ClientHearsInOrder
  BY DEF IInv, ClientInv
<1>2. QED
  BY <1>1, InvariantHolds, PTL

\* A walk over the documents of a frame goes on to the last of them, the one
\* that is shown: no document before it lacks the handler that would end it.
THEOREM ShownDocumentAlwaysHandles == Spec => ShownDocumentHandles
<1>1. ASSUME IInv, [Next]_vars
      PROVE  [dispatch.on /\ dispatch' = Idle /\ frame' = "live" =>
                dispatch.at = Len(contexts)]_vars
<2> SUFFICES ASSUME dispatch.on, dispatch' = Idle, frame' = "live", Next
             PROVE  dispatch.at = Len(contexts)
  BY <1>1
<2>1. RendererInv /\ TypeOK /\ ContextsSound
  BY <1>1 DEF IInv, RendererInv
<2>2. /\ dispatch \in Dispatch /\ dispatch.at \in DOMAIN contexts /\ contexts \in Seq(Context)
  BY <2>1 DEF TypeOK, Idle
<2>3. "msg" \in DOMAIN dispatch /\ "msg" \notin DOMAIN Idle
  BY <2>2 DEF Dispatch, Idle
<2>4. ~UNCHANGED dispatch
  BY <2>3
<2>5. ~(RemoteDispatchSent \/ RemoteSendReceived \/ RenderFrameCreated
         \/ RenderProcessGone \/ PageEdits \/ PageSends)
  BY <2>4 DEF RemoteDispatchSent, RemoteSendReceived, RenderFrameCreated,
     RenderProcessGone, PageEdits, PageSends, renderer
<2>6. ~(DidCreateScriptContext \/ RemoteDispatch)
  BY <2>3 DEF DidCreateScriptContext, RemoteDispatch
<2>7. /\ DOMAIN Onward(Called) = DOMAIN dispatch
      /\ DOMAIN Ended(Onward(Called)) = DOMAIN dispatch
      /\ \A l : DOMAIN Onward(Removed(Called, l)) = DOMAIN dispatch
  BY DEF Onward, Called, Removed, Ended
<2>8. ~(CallListener \/ CallListenerThatEdits \/ CallListenerThatSends
         \/ CallListenerThatThrows)
  BY <2>3, <2>7 DEF CallListener, CallListenerThatEdits, CallListenerThatSends,
                    CallListenerThatThrows
<2>9. NextContext(dispatch.msg, dispatch.at + 1) = Idle
  BY <2>5, <2>6, <2>8 DEF Next, HandlerReturns
<2>10. Len(contexts) \in Nat /\ dispatch.at \in 1..Len(contexts) /\ dispatch.at \in Nat
  BY <2>2
<2>11. dispatch.at + 1 \notin DOMAIN contexts
<3>1. DOMAIN Walk(dispatch.msg, dispatch.at + 1) # DOMAIN Idle
  BY DEF Walk, Idle
<3>2. QED
  BY <2>1, <2>9, <2>10, <3>1, NextAnswers
<2>12. QED
  BY <2>2, <2>10, <2>11
<1>2. QED
  BY <1>1, InvariantHolds, PTL DEF Spec, ShownDocumentHandles
=============================================================================
