---------------------------- MODULE MenusAndDialogsProofs ----------------------------
(***************************************************************************)
(* The menus of Menus, for every finite set of menus and of windows, every *)
(* number of calls and every length of a menu: the bars follow the         *)
(* application menu, a careful client is served well, and the registrar    *)
(* learns of every bar.  And the dialogs of Dialogs, for every set of web  *)
(* contents, every number of requests, every disk and each platform: the   *)
(* colour choosers are sound, the colours kept, and pages get the files    *)
(* they ask for; and the accelerators of the menus, for texts of every     *)
(* length, do not depend on the order of their parts.  The menus and the   *)
(* dialogs share no variable.                                              *)
(*                                                                         *)
(* The inductive invariant IInv of the menus has one part for each of      *)
(* their theorems.  BarsInv says which windows may have a bar and of which *)
(* menu.  CarefulInv says what a careful client guarantees: submenus are   *)
(* alive, menus have no cycle (so that a menu cleared is not below         *)
(* itself), and every list on display is how the items of a live menu      *)
(* begin.  RegistrarInv speaks of calls still under way: what the owner    *)
(* will know when they have arrived is what is mapped.  The one of the     *)
(* colour choosers is ChooserInv.                                          *)
(***************************************************************************)
EXTENDS MenuShortcuts, Dialogs, ListLemmas, FiniteSetTheorems

(* Sequences. *)

\* A sequence is one over every set that has its elements.
LEMMA SeqOver ==
  ASSUME NEW S, NEW T, NEW s \in Seq(S), \A i \in 1..Len(s) : s[i] \in T
  PROVE  s \in Seq(T)
OBVIOUS

\* What a concatenation holds, and where.
LEMMA Concatenation ==
  ASSUME NEW S, NEW s \in Seq(S), NEW t \in Seq(S)
  PROVE  /\ s \o t \in Seq(S) /\ Len(s) \in Nat /\ Len(t) \in Nat
         /\ Len(s \o t) = Len(s) + Len(t)
         /\ \A i \in 1..Len(s) : (s \o t)[i] = s[i]
         /\ \A i \in 1..Len(t) : (s \o t)[Len(s) + i] = t[i]
OBVIOUS

-----------------------------------------------------------------------------
(* The calls to the registrar. *)

CallSet == [op : {"register", "unregister"}, window : Windows, to : Int]

\* The list s holds one call op to the owner to for each window of ws, and no
\* other call.
CallsFor(s, op, ws, to) ==
  /\ s \in Seq(CallSet)
  /\ \A i \in 1..Len(s) : s[i].window \in ws /\ s[i].op = op /\ s[i].to = to
  /\ \A w \in ws : \E i \in 1..Len(s) : s[i].window = w

\* InOrder makes one call for each window of a finite set: ordering the windows
\* by their number is a bijection from the positions.
LEMMA InOrderCalls ==
  ASSUME NEW op \in {"register", "unregister"}, NEW to \in Int,
         NEW ws \in SUBSET Windows
  PROVE  CallsFor(InOrder(op, ws, to), op, ws, to)
<1> DEFINE n == Cardinality(ws)
           upTo(w) == {v \in ws : v <= w}
           rank == [w \in ws |-> Cardinality(upTo(w))]
           at(i) == CHOOSE w \in ws : Cardinality(upTo(w)) = i
<1>1. IsFiniteSet(ws) /\ n \in Nat /\ ws \subseteq Int
  BY MenusAssumption, FS_Subset, FS_CardinalityType
<1>2. ASSUME NEW w \in ws
      PROVE  IsFiniteSet(upTo(w)) /\ Cardinality(upTo(w)) \in 1..n
  <2>1. upTo(w) \in SUBSET ws
    OBVIOUS
  <2>2. IsFiniteSet(upTo(w)) /\ Cardinality(upTo(w)) <= n /\ Cardinality(upTo(w)) \in Nat
    BY <1>1, <2>1, FS_Subset, FS_CardinalityType
  <2>3. w \in upTo(w)
    BY <1>1
  <2>4. Cardinality(upTo(w)) # 0
    BY <2>2, <2>3, FS_EmptySet
  <2>5. QED
    BY <1>1, <2>2, <2>4
<1>3. ASSUME NEW u \in ws, NEW w \in ws, u < w
      PROVE  Cardinality(upTo(u)) # Cardinality(upTo(w))
  <2>0. u \in Int /\ w \in Int /\ \A v \in ws : v \in Int
    BY <1>1
  <2>1. w \in upTo(w) /\ w \notin upTo(u)
    BY <2>0, <1>3
  <2>a. \A v \in ws : v <= u => v <= w
    BY <2>0, <1>3
  <2>b. upTo(u) \in SUBSET upTo(w)
    BY <2>a
  <2>2. IsFiniteSet(upTo(w))
    BY <1>2
  <2>3. QED
    BY <2>1, <2>2, <2>b, FS_Subset
<1> HIDE DEF upTo
<1>4. \A u, w \in ws : Cardinality(upTo(u)) = Cardinality(upTo(w)) => u = w
  <2>1. ASSUME NEW u \in ws, NEW w \in ws, Cardinality(upTo(u)) = Cardinality(upTo(w))
        PROVE  u = w
    <3>1. u \in Int /\ w \in Int
      BY <1>1
    <3>2. ~(u < w) /\ ~(w < u)
      BY <1>3, <2>1
    <3>3. QED
      BY <3>1, <3>2
  <2>2. QED
    BY <2>1
<1>5. rank \in Injection(ws, 1..n)
  BY <1>2, <1>4 DEF Injection, IsInjective
<1>6. IsFiniteSet(1..n) /\ Cardinality(1..n) = n
  BY <1>1, FS_Interval
<1>7. rank \in Surjection(ws, 1..n)
  BY <1>5, <1>6, FS_Injection
<1>8. \A i \in 1..n : \E w \in ws : Cardinality(upTo(w)) = i
  BY <1>7 DEF Surjection
<1>9. \A i \in 1..n : at(i) \in ws /\ Cardinality(upTo(at(i))) = i
  BY <1>8
<1>10. \A w \in ws : Cardinality(upTo(w)) \in 1..n /\ at(Cardinality(upTo(w))) = w
  BY <1>2, <1>4, <1>9
<1>11. InOrder(op, ws, to) = [i \in 1..n |-> Call(op, at(i), to)]
  BY DEF InOrder, upTo
<1> HIDE DEF n, at
<1>12. \A i \in 1..n : Call(op, at(i), to) \in CallSet
  BY <1>9 DEF Call, CallSet
<1> DEFINE s == InOrder(op, ws, to)
<1>13. s \in Seq(CallSet) /\ Len(s) = n
  BY <1>1, <1>11, <1>12
<1>14. \A i \in 1..n : s[i].window = at(i) /\ s[i].op = op /\ s[i].to = to
  BY <1>11 DEF Call
<1>15. \A w \in ws : \E i \in 1..n : s[i].window = w
  BY <1>10, <1>14
<1>16. QED
  BY <1>9, <1>13, <1>14, <1>15 DEF CallsFor

\* A call by which the owner o learns of a window, or forgets it.
Adds(c, w, o) == c.to = o /\ c.window = w /\ c.op = "register"
Drops(c, w, o) == c.to = o /\ c.window = w /\ c.op = "unregister"

\* Whether the owner o will know a window when the calls of b have arrived.
Learns(b, reg, o, w) ==
  \/ \E i \in 1..Len(b) :
       Adds(b[i], w, o) /\ \A j \in 1..Len(b) : j > i => ~Drops(b[j], w, o)
  \/ w \in reg /\ \A j \in 1..Len(b) : ~Drops(b[j], w, o)

\* A call that is delivered changes nothing about what will be known.
LEMMA LearnsTail ==
  ASSUME NEW b \in Seq(CallSet), b # <<>>, NEW reg, NEW o, NEW w,
         NEW reg1,
         reg1 = (IF Head(b).to # o THEN reg
                 ELSE IF Head(b).op = "register" THEN reg \cup {Head(b).window}
                 ELSE reg \ {Head(b).window})
  PROVE  Learns(Tail(b), reg1, o, w) <=> Learns(b, reg, o, w)
<1> DEFINE t == Tail(b)
<1>1. /\ Len(b) \in Nat /\ Len(b) > 0 /\ Len(t) = Len(b) - 1
      /\ \A i \in 1..Len(t) : t[i] = b[i + 1]
      /\ Head(b) = b[1] /\ b[1] \in CallSet
  OBVIOUS
<1> HIDE DEF t
<1>2. \A i \in 2..Len(b) : i - 1 \in 1..Len(t) /\ t[i - 1] = b[i]
  BY <1>1
<1>3. b[1].op \in {"register", "unregister"}
  BY <1>1 DEF CallSet
<1>4. (\A j \in 1..Len(t) : ~Drops(t[j], w, o)) <=> \A j \in 2..Len(b) : ~Drops(b[j], w, o)
  <2>1. ASSUME \A j \in 2..Len(b) : ~Drops(b[j], w, o), NEW j \in 1..Len(t)
        PROVE  ~Drops(t[j], w, o)
    <3>1. j + 1 \in 2..Len(b) /\ t[j] = b[j + 1]
      BY <1>1
    <3>2. QED
      BY <2>1, <3>1
  <2>2. QED
    BY <1>2, <2>1
<1>5. (\E i \in 1..Len(t) :
         Adds(t[i], w, o) /\ \A j \in 1..Len(t) : j > i => ~Drops(t[j], w, o))
      <=> \E i \in 2..Len(b) :
            Adds(b[i], w, o) /\ \A j \in 1..Len(b) : j > i => ~Drops(b[j], w, o)
  <2>1. ASSUME NEW i \in 1..Len(t), Adds(t[i], w, o),
               \A j \in 1..Len(t) : j > i => ~Drops(t[j], w, o)
        PROVE  /\ i + 1 \in 2..Len(b) /\ Adds(b[i + 1], w, o)
               /\ \A j \in 1..Len(b) : j > i + 1 => ~Drops(b[j], w, o)
    <3>1. i + 1 \in 2..Len(b) /\ b[i + 1] = t[i]
      BY <1>1
    <3>2. ASSUME NEW j \in 1..Len(b), j > i + 1 PROVE ~Drops(b[j], w, o)
      <4>1. j - 1 \in 1..Len(t) /\ t[j - 1] = b[j] /\ j - 1 > i
        BY <1>1, <1>2, <3>2
      <4>2. QED
        BY <2>1, <4>1
    <3>3. QED
      BY <2>1, <3>1, <3>2
  <2>2. ASSUME NEW i \in 2..Len(b), Adds(b[i], w, o),
               \A j \in 1..Len(b) : j > i => ~Drops(b[j], w, o)
        PROVE  /\ i - 1 \in 1..Len(t) /\ Adds(t[i - 1], w, o)
               /\ \A j \in 1..Len(t) : j > i - 1 => ~Drops(t[j], w, o)
    <3>1. i - 1 \in 1..Len(t) /\ t[i - 1] = b[i]
      BY <1>2
    <3>2. ASSUME NEW j \in 1..Len(t), j > i - 1 PROVE ~Drops(t[j], w, o)
      <4>1. j + 1 \in 1..Len(b) /\ t[j] = b[j + 1] /\ j + 1 > i
        BY <1>1, <3>2
      <4>2. QED
        BY <2>2, <4>1
    <3>3. QED
      BY <2>2, <3>1, <3>2
  <2>3. QED
    BY <2>1, <2>2
<1> DEFINE later == \E i \in 2..Len(b) :
                      Adds(b[i], w, o) /\ \A j \in 1..Len(b) : j > i => ~Drops(b[j], w, o)
           kept == \A j \in 2..Len(b) : ~Drops(b[j], w, o)
<1>6. Learns(t, reg1, o, w) <=> later \/ (w \in reg1 /\ kept)
  BY <1>4, <1>5 DEF Learns
<1>7. Learns(b, reg, o, w) <=>
        later \/ (Adds(b[1], w, o) /\ kept) \/ (w \in reg /\ ~Drops(b[1], w, o) /\ kept)
  <2>1. /\ 1 \in 1..Len(b)
        /\ \A i : i \in 1..Len(b) <=> i = 1 \/ i \in 2..Len(b)
        /\ \A i \in 1..Len(b) : i > 1 <=> i \in 2..Len(b)
    BY <1>1
  <2>2. (\A j \in 1..Len(b) : j > 1 => ~Drops(b[j], w, o)) <=> kept
    BY <2>1
  <2>3. (\A j \in 1..Len(b) : ~Drops(b[j], w, o)) <=> kept /\ ~Drops(b[1], w, o)
    BY <2>1
  <2>4. (\E i \in 1..Len(b) :
          Adds(b[i], w, o) /\ \A j \in 1..Len(b) : j > i => ~Drops(b[j], w, o))
        <=> later \/ (Adds(b[1], w, o) /\ \A j \in 1..Len(b) : j > 1 => ~Drops(b[j], w, o))
    BY <2>1
  <2>5. QED
    BY <2>2, <2>3, <2>4 DEF Learns
<1> HIDE DEF later, kept
<1>8. w \in reg1 <=> Adds(b[1], w, o) \/ (w \in reg /\ ~Drops(b[1], w, o))
  BY <1>1, <1>3 DEF Adds, Drops
<1>9. QED
  BY <1>6, <1>7, <1>8 DEF t

\* What the calls c tell the owner o of the window w, after those of b and one
\* of the kind op for each window of ws.
Tells(c, b, reg, o, w, op, ws) ==
  /\ c \in Seq(CallSet)
  /\ \A i \in 1..Len(c) : c[i].to = o \/ \E j \in 1..Len(b) : c[i] = b[j]
  /\ Learns(c, reg, o, w) <=>
       IF w \in ws THEN op = "register" ELSE Learns(b, reg, o, w)

\* Each new call settles what is known of its window and of no other.
LEMMA LearnsMore ==
  ASSUME NEW b \in Seq(CallSet), NEW reg, NEW o \in Int, NEW w \in Windows,
         NEW op \in {"register", "unregister"}, NEW ws \in SUBSET Windows
  PROVE  Tells(b \o InOrder(op, ws, o), b, reg, o, w, op, ws)
<1> DEFINE a == InOrder(op, ws, o)
           n == Len(a)
           c == b \o a
<1>0. CallsFor(a, op, ws, o)
  BY InOrderCalls
<1> HIDE DEF a
<1>1. /\ n \in Nat /\ a \in Seq(CallSet)
      /\ \A i \in 1..n : a[i].window \in ws /\ a[i].op = op /\ a[i].to = o
      /\ \A v \in ws : \E i \in 1..n : a[i].window = v
  BY <1>0 DEF CallsFor
<1> HIDE DEF n
<1>3. /\ c \in Seq(CallSet) /\ Len(b) \in Nat /\ Len(c) = Len(b) + n
      /\ \A i \in 1..Len(b) : c[i] = b[i]
      /\ \A i \in 1..n : c[Len(b) + i] = a[i]
  BY <1>1, Concatenation DEF n
<1> HIDE DEF c
<1>4. \A i \in 1..Len(c) : i \in 1..Len(b) \/ (i - Len(b) \in 1..n /\ c[i] = a[i - Len(b)])
  BY <1>1, <1>3
<1>5. ASSUME w \in ws
      PROVE  Learns(c, reg, o, w) <=> op = "register"
  <2>1. PICK k \in 1..n : a[k].window = w
    BY <1>1, <1>5
  <2>2. /\ Len(b) + k \in 1..Len(c) /\ c[Len(b) + k].to = o
        /\ c[Len(b) + k].window = w /\ c[Len(b) + k].op = op
    BY <1>1, <1>3, <2>1
  <2>3. \A j \in 1..Len(c) : j > Len(b) + k => c[j].op = op
    <3>1. ASSUME NEW j \in 1..Len(c), j > Len(b) + k
          PROVE  c[j].op = op
      <4>1. j - Len(b) \in 1..n /\ c[j] = a[j - Len(b)]
        BY <1>3, <1>4, <3>1
      <4>2. QED
        BY <1>1, <4>1
    <3>2. QED
      BY <3>1
  <2>4. CASE op = "register"
    <3>1. Adds(c[Len(b) + k], w, o)
      BY <2>2, <2>4 DEF Adds
    <3>2. \A j \in 1..Len(c) : j > Len(b) + k => ~Drops(c[j], w, o)
      BY <2>3, <2>4 DEF Drops
    <3>3. Learns(c, reg, o, w)
      BY <2>2, <3>1, <3>2 DEF Learns
    <3>4. QED
      BY <2>4, <3>3
  <2>5. CASE op = "unregister"
    <3>1. Drops(c[Len(b) + k], w, o)
      BY <2>2, <2>5 DEF Drops
    <3>2. ASSUME NEW i \in 1..Len(c), Adds(c[i], w, o)
          PROVE  Len(b) + k > i
      <4>1. ~(i > Len(b) + k) /\ i # Len(b) + k
        BY <2>2, <2>3, <2>5, <3>2 DEF Adds
      <4>2. QED
        BY <1>3, <4>1
    <3>3. ~Learns(c, reg, o, w)
      BY <2>2, <3>1, <3>2 DEF Learns
    <3>4. QED
      BY <2>5, <3>3
  <2>6. QED
    BY <2>4, <2>5
<1>6. ASSUME w \notin ws
      PROVE  Learns(c, reg, o, w) <=> Learns(b, reg, o, w)
  <2>1. \A i \in 1..Len(c) : Adds(c[i], w, o) \/ Drops(c[i], w, o) => i \in 1..Len(b)
    BY <1>1, <1>4, <1>6 DEF Adds, Drops
  <2>2. \A i \in 1..Len(b) : i \in 1..Len(c)
    BY <1>1, <1>3
  <2>3. (\A j \in 1..Len(c) : ~Drops(c[j], w, o)) <=> \A j \in 1..Len(b) : ~Drops(b[j], w, o)
    BY <1>3, <2>1, <2>2
  <2>4. \A i \in 1..Len(b) :
          (\A j \in 1..Len(c) : j > i => ~Drops(c[j], w, o))
          <=> \A j \in 1..Len(b) : j > i => ~Drops(b[j], w, o)
    BY <1>3, <2>1, <2>2
  <2>5. (\E i \in 1..Len(c) :
          Adds(c[i], w, o) /\ \A j \in 1..Len(c) : j > i => ~Drops(c[j], w, o))
        <=> \E i \in 1..Len(b) :
              Adds(b[i], w, o) /\ \A j \in 1..Len(b) : j > i => ~Drops(b[j], w, o)
    BY <1>3, <2>1, <2>2, <2>4
  <2>6. QED
    BY <2>3, <2>5 DEF Learns
<1>7. QED
  BY <1>1, <1>3, <1>4, <1>5, <1>6 DEF c, a, Tells

-----------------------------------------------------------------------------
(* Menus and their submenus, as a graph: E[x] is the set of submenus of x.   *)

Reach(E, m) ==
  {x \in Menus : \A ms \in SUBSET Menus :
     m \in ms /\ (\A y \in ms : E[y] \subseteq ms) => x \in ms}

Acyclic(E) == \A x \in Menus : \A s \in E[x] : x \notin Reach(E, s)

\* The tree of a menu is the least set that has it and is closed.
LEMMA ReachClosed ==
  ASSUME NEW E \in [Menus -> SUBSET Menus], NEW m \in Menus
  PROVE  /\ m \in Reach(E, m) /\ Reach(E, m) \subseteq Menus
         /\ \A x \in Reach(E, m) : E[x] \subseteq Reach(E, m)
BY DEF Reach

\* Every closed set that has the menu has its tree.
LEMMA ReachLeast ==
  ASSUME NEW E \in [Menus -> SUBSET Menus], NEW m \in Menus,
         NEW ms \in SUBSET Menus, m \in ms, \A y \in ms : E[y] \subseteq ms
  PROVE  Reach(E, m) \subseteq ms
BY DEF Reach

\* With fewer edges less is reached.
LEMMA ReachFewer ==
  ASSUME NEW E \in [Menus -> SUBSET Menus], NEW F \in [Menus -> SUBSET Menus],
         \A x \in Menus : F[x] \subseteq E[x], NEW m \in Menus
  PROVE  Reach(F, m) \subseteq Reach(E, m)
<1>1. /\ m \in Reach(E, m) /\ Reach(E, m) \subseteq Menus
      /\ \A x \in Reach(E, m) : E[x] \subseteq Reach(E, m)
  BY ReachClosed
<1>2. \A x \in Reach(E, m) : F[x] \subseteq Reach(E, m)
  BY <1>1
<1>3. QED
  BY <1>1, <1>2, ReachLeast

\* To take submenus away makes no cycle.
LEMMA FewerAcyclic ==
  ASSUME NEW E \in [Menus -> SUBSET Menus], NEW F \in [Menus -> SUBSET Menus],
         \A x \in Menus : F[x] \subseteq E[x], Acyclic(E)
  PROVE  Acyclic(F)
<1>1. \A s \in Menus : Reach(F, s) \subseteq Reach(E, s)
  BY ReachFewer
<1>2. QED
  BY <1>1 DEF Acyclic

\* Nor does it to put s below m, if m is not below s.
LEMMA EdgeAcyclic ==
  ASSUME NEW E \in [Menus -> SUBSET Menus], Acyclic(E),
         NEW m \in Menus, NEW s \in Menus, m \notin Reach(E, s)
  PROVE  Acyclic([E EXCEPT ![m] = E[m] \cup {s}])
<1> DEFINE F == [E EXCEPT ![m] = E[m] \cup {s}]
<1>1. /\ F \in [Menus -> SUBSET Menus]
      /\ F[m] = E[m] \cup {s} /\ \A x \in Menus \ {m} : F[x] = E[x]
  OBVIOUS
<1> HIDE DEF F
<1>2. \A y \in Menus :
        /\ y \in Reach(E, y) /\ Reach(E, y) \subseteq Menus
        /\ \A x \in Reach(E, y) : E[x] \subseteq Reach(E, y)
  BY ReachClosed
<1>3. ASSUME NEW y \in Menus, m \notin Reach(E, y)
      PROVE  Reach(F, y) \subseteq Reach(E, y)
  <2>1. \A x \in Reach(E, y) : F[x] \subseteq Reach(E, y)
    BY <1>1, <1>2, <1>3
  <2>2. QED
    BY <1>1, <1>2, <2>1, ReachLeast
<1>4. ASSUME NEW y \in Menus
      PROVE  Reach(F, y) \subseteq Reach(E, y) \cup Reach(E, s)
  <2> DEFINE ms == Reach(E, y) \cup Reach(E, s)
  <2>1. ms \in SUBSET Menus /\ y \in ms /\ s \in ms
    BY <1>2
  <2>2. \A x \in ms : E[x] \subseteq ms
    BY <1>2
  <2>3. \A x \in ms : F[x] \subseteq ms
    BY <1>1, <2>1, <2>2
  <2> HIDE DEF ms
  <2>4. Reach(F, y) \subseteq ms
    BY <1>1, <2>1, <2>3, ReachLeast
  <2>5. QED
    BY <2>4 DEF ms
<1>5. ASSUME NEW x \in Menus, NEW t \in E[x], x \in Reach(F, t)
      PROVE  FALSE
  <2>1. t \in Menus /\ x \notin Reach(E, t)
    BY DEF Acyclic
  <2>2. m \in Reach(E, t) /\ x \in Reach(E, s)
    BY <1>3, <1>4, <1>5, <2>1
  <2>3. t \in Reach(E, s)
    BY <1>2, <2>2
  <2>4. Reach(E, t) \subseteq Reach(E, s)
    BY <1>2, <2>1, <2>3, ReachLeast
  <2>5. QED
    BY <2>2, <2>4
<1>6. m \notin Reach(F, s)
  BY <1>3
<1>7. QED
  BY <1>1, <1>5, <1>6 DEF Acyclic, F

\* The submenus among the items of a menu, and those of each menu of mn.
SubsOf(r) == {r.items[i].sub : i \in DOMAIN r.items} \ {None}
EdgesOf(mn) == [x \in Menus |-> SubsOf(mn[x])]

Items == [cmd : Commands, sub : Menus \cup {None}]
MenuRecord == [state : {"absent", "alive", "deleted"}, items : Seq(Items)]

\* The submenus of a menu are menus.
LEMMA SubsTyped ==
  ASSUME NEW r \in MenuRecord
  PROVE  SubsOf(r) \subseteq Menus
<1>1. r.items \in Seq(Items)
  BY DEF MenuRecord
<1>2. \A i \in DOMAIN r.items : r.items[i] \in Items
  BY <1>1
<1>3. \A i \in DOMAIN r.items : r.items[i].sub \in Menus \cup {None}
  BY <1>2 DEF Items
<1>4. QED
  BY <1>3 DEF SubsOf

\* And so they are for all menus at once.
LEMMA EdgesTyped ==
  ASSUME NEW mn \in [Menus -> MenuRecord]
  PROVE  /\ EdgesOf(mn) \in [Menus -> SUBSET Menus]
         /\ \A m \in Menus : EdgesOf(mn)[m] = SubsOf(mn[m])
<1>1. \A x \in Menus : SubsOf(mn[x]) \subseteq Menus
  BY SubsTyped
<1>2. QED
  BY <1>1 DEF EdgesOf

\* The tree of a menu in Menus is what its edges reach.
LEMMA TreeReach ==
  ASSUME menu \in [Menus -> MenuRecord]
  PROVE  /\ \A m \in Menus : Subs(m) = SubsOf(menu[m])
         /\ \A m \in Menus : Tree(m) = Reach(EdgesOf(menu), m)
         /\ (\A m \in Menus : ~Cyclic(m)) <=> Acyclic(EdgesOf(menu))
<1> DEFINE E == EdgesOf(menu)
<1>1. \A m \in Menus : Subs(m) = SubsOf(menu[m])
  BY DEF Subs, SubsOf
<1>2. /\ E \in [Menus -> SUBSET Menus]
      /\ \A m \in Menus : E[m] = Subs(m)
  BY <1>1, EdgesTyped
<1> HIDE DEF E
<1>3. ASSUME NEW m \in Menus
      PROVE  Tree(m) = Reach(E, m)
  <2>1. ASSUME NEW ms \in SUBSET Menus
        PROVE  (\A y \in ms : Subs(y) \subseteq ms) <=> (\A y \in ms : E[y] \subseteq ms)
    BY <1>2
  <2>2. QED
    BY <2>1 DEF Tree, Reach
<1>4. (\A m \in Menus : ~Cyclic(m)) <=> Acyclic(E)
  BY <1>2, <1>3 DEF Cyclic, Acyclic
<1>5. QED
  BY <1>1, <1>3, <1>4 DEF E

-----------------------------------------------------------------------------
(* The inductive invariant. *)

Level == [model : Menus, items : Seq(Items)]

MenuTypes ==
  /\ menu \in [Menus -> MenuRecord]
  /\ \A m \in Menus :
       /\ Len(menu[m].items) <= MaxItems
       /\ menu[m].state # "alive" => menu[m].items = <<>>
  /\ app \in Menus \cup {None} /\ popup \in Menus \cup {None}
  /\ win \in [Windows -> {"absent", "open", "closed", "deleted"}]
  /\ bar \in [Windows -> Seq(Level)]
  /\ careless \in BOOLEAN /\ mistaken \in BOOLEAN

\* Bars belong to windows not deleted and begin with the application menu.
BarsInv ==
  /\ app # None => menu[app].state = "alive"
  /\ \A w \in Windows : bar[w] # <<>> => win[w] \in {"open", "closed"}
  /\ \A w \in Windows : app # None /\ win[w] = "open" =>
       bar[w] # <<>> /\ bar[w][1].model = app
  /\ app = None => \A w \in Windows : bar[w] = <<>>

\* The list l of a bar is how the items of a live menu begin.
Faithful(mn, l) ==
  /\ mn[l.model].state = "alive"
  /\ Len(l.items) <= Len(mn[l.model].items)
  /\ \A i \in 1..Len(l.items) : l.items[i] = mn[l.model].items[i]

\* With a careful client every pointer to a model is to one alive, and the
\* menus have no cycle.
CarefulInv ==
  careless = FALSE =>
    /\ crashed \in {"no", "window"} /\ mistaken = FALSE
    /\ \A m \in Menus : \A s \in SubsOf(menu[m]) : menu[s].state = "alive"
    /\ \A w \in Windows : \A d \in 1..Len(bar[w]) : Faithful(menu, bar[w][d])
    /\ popup # None => menu[popup].state = "alive"
    /\ Acyclic(EdgesOf(menu))

\* What the owner of the registrar's name will know, when the calls on their
\* way have arrived, is what is mapped; another owner is told nothing.
RegistrarInv ==
  /\ live = {w \in Windows : bar[w] # <<>>}
  /\ restarts \in Nat /\ owner \in Int /\ known \in Int
  /\ owner <= restarts /\ known <= restarts
  /\ proxy \in {"none", "pending", "ready", "failed"}
  /\ registered \subseteq Windows
  /\ bus \in Seq(CallSet) /\ \A i \in 1..Len(bus) : bus[i].to <= restarts
  /\ proxy # "ready" => bus = <<>> /\ registered = {}
  /\ known # owner => registered = {}
  /\ known # owner /\ owner # 0 => \A i \in 1..Len(bus) : bus[i].to # owner
  /\ proxy = "ready" /\ known = owner /\ owner # 0 =>
       \A w \in Windows : Learns(bus, registered, owner, w) <=> w \in live

IInv == MenuTypes /\ BarsInv /\ CarefulInv /\ RegistrarInv

-----------------------------------------------------------------------------
(* The steps of the registrar's part. *)

\* The parts of RegistrarInv about the calls, for given values of the state.
CallsInv(px, lv, ow, kn, bs, rg, rs) ==
  /\ bs \in Seq(CallSet) /\ \A i \in 1..Len(bs) : bs[i].to <= rs
  /\ px # "ready" => bs = <<>> /\ rg = {}
  /\ kn # ow => rg = {}
  /\ kn # ow /\ ow # 0 => \A i \in 1..Len(bs) : bs[i].to # ow
  /\ px = "ready" /\ kn = ow /\ ow # 0 =>
       \A w \in Windows : Learns(bs, rg, ow, w) <=> w \in lv

RegistrarTypes ==
  /\ restarts \in Nat /\ owner \in Int /\ known \in Int
  /\ owner <= restarts /\ known <= restarts
  /\ proxy \in {"none", "pending", "ready", "failed"}
  /\ registered \subseteq Windows

\* RegistrarInv, in terms of values of the state.
LEMMA RegistrarParts ==
  RegistrarInv <=>
    /\ live = {w \in Windows : bar[w] # <<>>}
    /\ RegistrarTypes
    /\ CallsInv(proxy, live, owner, known, bus, registered, restarts)
BY DEF RegistrarInv, RegistrarTypes, CallsInv

\* Windows are mapped or unmapped.
LEMMA CallsMore ==
  ASSUME NEW px, NEW lv \in SUBSET Windows, NEW ow \in Int, NEW kn \in Int,
         NEW bs, NEW rg, NEW rs \in Nat, kn <= rs,
         CallsInv(px, lv, ow, kn, bs, rg, rs), px = "ready",
         NEW op \in {"register", "unregister"}, NEW ws \in SUBSET Windows
  PROVE  CallsInv(px, IF op = "register" THEN lv \cup ws ELSE lv \ ws,
                  ow, kn, bs \o InOrder(op, ws, kn), rg, rs)
<1> DEFINE c == bs \o InOrder(op, ws, kn)
           lv1 == IF op = "register" THEN lv \cup ws ELSE lv \ ws
<1>1. bs \in Seq(CallSet) /\ Len(bs) \in Nat
  BY DEF CallsInv
<1>2. ASSUME NEW w \in Windows
      PROVE  /\ c \in Seq(CallSet)
             /\ \A i \in 1..Len(c) : c[i].to = kn \/ \E j \in 1..Len(bs) : c[i] = bs[j]
             /\ Learns(c, rg, kn, w) <=>
                  IF w \in ws THEN op = "register" ELSE Learns(bs, rg, kn, w)
  <2>1. Tells(bs \o InOrder(op, ws, kn), bs, rg, kn, w, op, ws)
    BY <1>1, LearnsMore
  <2>2. QED
    BY <2>1 DEF Tells
<1> HIDE DEF c
<1>3. CASE Windows = {}
  <2>1. ws = {}
    BY <1>3
  <2>2. CallsFor(InOrder(op, ws, kn), op, ws, kn)
    BY InOrderCalls
  <2> DEFINE a == InOrder(op, ws, kn)
  <2> HIDE DEF a
  <2>3. a \in Seq(CallSet) /\ Len(a) \in Nat /\ \A i \in 1..Len(a) : a[i].window \in ws
    BY <2>2 DEF CallsFor, a
  <2>4. Len(a) = 0
    BY <2>1, <2>3
  <2>5. c = bs
    BY <1>1, <2>3, <2>4 DEF c, a
  <2>6. QED
    BY <1>3, <2>5 DEF CallsInv, c
<1>4. CASE Windows # {}
  <2>1. /\ c \in Seq(CallSet)
        /\ \A i \in 1..Len(c) : c[i].to = kn \/ \E j \in 1..Len(bs) : c[i] = bs[j]
    BY <1>2, <1>4
  <2>2. \A i \in 1..Len(c) : c[i].to <= rs
    BY <2>1 DEF CallsInv
  <2>3. kn # ow => rg = {}
    BY DEF CallsInv
  <2>4. kn # ow /\ ow # 0 => \A i \in 1..Len(c) : c[i].to # ow
    BY <2>1 DEF CallsInv
  <2>5. kn = ow /\ ow # 0 =>
          \A w \in Windows : Learns(c, rg, ow, w) <=> w \in lv1
    BY <1>2 DEF CallsInv
  <2>6. QED
    BY <2>1, <2>2, <2>3, <2>4, <2>5 DEF CallsInv, c
<1>5. QED
  BY <1>3, <1>4

\* The owner that has just been learned of knows nothing and is told all.
LEMMA CallsAll ==
  ASSUME NEW px, NEW lv \in SUBSET Windows, NEW ow \in Int, NEW kn \in Int,
         NEW bs, NEW rg, NEW rs \in Nat, ow <= rs,
         CallsInv(px, lv, ow, kn, bs, rg, rs),
         kn # ow \/ bs = <<>>, rg = {}
  PROVE  CallsInv("ready", lv, ow, ow, bs \o InOrder("register", lv, ow), rg, rs)
<1>1. bs \in Seq(CallSet) /\ Len(bs) \in Nat /\ \A i \in 1..Len(bs) : bs[i].to <= rs
  BY DEF CallsInv
<1>2. ow # 0 => \A i \in 1..Len(bs) : bs[i].to # ow
  BY <1>1 DEF CallsInv
<1>3. ow # 0 => \A w \in Windows : ~Learns(bs, rg, ow, w)
  BY <1>1, <1>2 DEF Learns, Adds
<1>4. CallsInv("ready", {}, ow, ow, bs, rg, rs)
  BY <1>1, <1>3 DEF CallsInv
<1>5. CallsInv("ready", {} \cup lv, ow, ow, bs \o InOrder("register", lv, ow), rg, rs)
  BY <1>4, CallsMore
<1>6. QED
  BY <1>5

\* A window that is mapped is announced, or waits for the proxy in live.
LEMMA MappedStep ==
  ASSUME RegistrarInv, NEW ws \in SUBSET Windows, OnWindowMapped(ws),
         live' = {w \in Windows : bar'[w] # <<>>}
  PROVE  RegistrarInv'
<1> USE RegistrarParts
<1>1. /\ live \in SUBSET Windows /\ RegistrarTypes
      /\ CallsInv(proxy, live, owner, known, bus, registered, restarts)
  OBVIOUS
<1>2. RegistrarTypes' /\ UNCHANGED <<owner, known, registered, restarts>>
  BY <1>1 DEF OnWindowMapped, RegistrarTypes
<1>3. CASE proxy = "ready"
  <2>1. /\ proxy' = "ready" /\ live' = live \cup ws
        /\ bus' = bus \o InOrder("register", ws, known)
    BY <1>3 DEF OnWindowMapped
  <2>2. CallsInv(proxy, live \cup ws, owner, known,
                 bus \o InOrder("register", ws, known), registered, restarts)
    BY <1>1, <1>3, CallsMore DEF RegistrarTypes
  <2>3. CallsInv(proxy, live, owner, known, bus, registered, restarts)'
    BY <1>2, <1>3, <2>1, <2>2 DEF CallsInv
  <2>4. QED
    BY <1>2, <2>3 DEF RegistrarInv, RegistrarTypes, CallsInv
<1>4. CASE proxy # "ready"
  <2>1. proxy' # "ready" /\ bus' = bus
    BY <1>1, <1>4 DEF OnWindowMapped
  <2>2. QED
    BY <1>1, <1>2, <1>4, <2>1 DEF RegistrarInv, RegistrarTypes, CallsInv
<1>5. QED
  BY <1>3, <1>4

\* A window that is unmapped is withdrawn, or just leaves live.
LEMMA UnmappedStep ==
  ASSUME RegistrarInv, NEW ws \in SUBSET Windows, OnWindowUnmapped(ws),
         live' = {w \in Windows : bar'[w] # <<>>}
  PROVE  RegistrarInv'
<1> USE RegistrarParts
<1>1. /\ live \in SUBSET Windows /\ RegistrarTypes
      /\ CallsInv(proxy, live, owner, known, bus, registered, restarts)
  OBVIOUS
<1>2. RegistrarTypes' /\ UNCHANGED <<proxy, owner, known, registered, restarts>>
  BY <1>1 DEF OnWindowUnmapped, RegistrarTypes
<1>3. CASE proxy = "ready"
  <2>1. live' = live \ ws /\ bus' = bus \o InOrder("unregister", ws, known)
    BY <1>3 DEF OnWindowUnmapped
  <2>2. CallsInv(proxy, live \ ws, owner, known,
                 bus \o InOrder("unregister", ws, known), registered, restarts)
    BY <1>1, <1>3, CallsMore DEF RegistrarTypes
  <2>3. CallsInv(proxy, live, owner, known, bus, registered, restarts)'
    BY <1>2, <2>1, <2>2 DEF CallsInv
  <2>4. QED
    BY <1>2, <2>3 DEF RegistrarInv, RegistrarTypes, CallsInv
<1>4. CASE proxy # "ready"
  <2>1. bus' = bus
    BY <1>4 DEF OnWindowUnmapped
  <2>2. QED
    BY <1>1, <1>2, <1>4, <2>1 DEF RegistrarInv, RegistrarTypes, CallsInv
<1>5. QED
  BY <1>3, <1>4

\* No step of the registrar, its owner or the bus breaks the invariant.
LEMMA RegistrarStepInv ==
  ASSUME RegistrarInv, RegistrarStep
  PROVE  RegistrarInv'
<1> USE RegistrarParts
<1>1. /\ live \in SUBSET Windows /\ RegistrarTypes
      /\ CallsInv(proxy, live, owner, known, bus, registered, restarts)
      /\ UNCHANGED bar
  BY DEF RegistrarStep, barVars
<1>2. CASE OnProxyCreated
  <2>1. proxy = "pending" /\ UNCHANGED <<live, owner, registered, restarts>>
    BY <1>2 DEF OnProxyCreated
  <2>2. CASE proxy' = "failed" /\ UNCHANGED <<known, bus>>
    BY <1>1, <2>1, <2>2 DEF RegistrarInv, RegistrarTypes, CallsInv
  <2>3. CASE proxy' = "ready" /\ RegisterAll
    <3>1. bus = <<>> /\ registered = {}
      BY <1>1, <2>1 DEF CallsInv
    <3>2. CallsInv("ready", live, owner, owner,
                   bus \o InOrder("register", live, owner), registered, restarts)
      BY <1>1, <3>1, CallsAll DEF RegistrarTypes
    <3>3. known' = owner /\ bus' = bus \o InOrder("register", live, owner)
      BY <2>3 DEF RegisterAll
    <3>4. QED
      BY <1>1, <2>1, <2>3, <3>2, <3>3 DEF RegistrarInv, RegistrarTypes, CallsInv
  <2>4. QED
    BY <1>2, <2>2, <2>3 DEF OnProxyCreated
<1>3. CASE OwnerChanges
  <2>1. /\ restarts' = restarts + 1 /\ registered' = {}
        /\ owner' = (IF owner = 0 THEN restarts + 1 ELSE 0)
        /\ UNCHANGED <<proxy, live, known, bus>>
    BY <1>3 DEF OwnerChanges
  <2>2. /\ bus \in Seq(CallSet) /\ \A i \in 1..Len(bus) : bus[i].to \in Int
    <3>1. bus \in Seq(CallSet)
      BY <1>1 DEF CallsInv
    <3>2. \A i \in 1..Len(bus) : bus[i] \in CallSet
      BY <3>1
    <3>3. QED
      BY <3>1, <3>2 DEF CallSet
  <2>3. RegistrarTypes'
    BY <1>1, <2>1 DEF RegistrarTypes
  <2>4. CallsInv(proxy, live, owner, known, bus, registered, restarts)'
    BY <1>1, <2>1, <2>2 DEF RegistrarTypes, CallsInv
  <2>5. QED
    BY <1>1, <2>1, <2>3, <2>4 DEF RegistrarInv, RegistrarTypes, CallsInv
<1>4. CASE OnNameOwnerChanged
  <2>1. /\ proxy = "ready" /\ known # owner
        /\ UNCHANGED <<proxy, live, owner, registered, restarts>>
        /\ known' = owner /\ bus' = bus \o InOrder("register", live, owner)
    BY <1>4 DEF OnNameOwnerChanged, RegisterAll
  <2>2. registered = {}
    BY <1>1, <2>1 DEF CallsInv
  <2>3. CallsInv("ready", live, owner, owner,
                 bus \o InOrder("register", live, owner), registered, restarts)
    BY <1>1, <2>1, <2>2, CallsAll DEF RegistrarTypes
  <2>4. QED
    BY <1>1, <2>1, <2>3 DEF RegistrarInv, RegistrarTypes, CallsInv
<1>5. CASE Delivered
  <2>1. /\ bus # <<>> /\ bus' = Tail(bus)
        /\ UNCHANGED <<proxy, live, owner, known, restarts>>
        /\ registered' = (IF Head(bus).to = 0 \/ Head(bus).to # owner THEN registered
                          ELSE IF Head(bus).op = "register"
                               THEN registered \cup {Head(bus).window}
                               ELSE registered \ {Head(bus).window})
    BY <1>5 DEF Delivered
  <2>2. bus \in Seq(CallSet) /\ proxy = "ready"
    BY <1>1, <2>1 DEF CallsInv
  <2>3. /\ Len(bus) \in Nat /\ Len(bus) > 0 /\ Len(bus') = Len(bus) - 1
        /\ bus' \in Seq(CallSet)
        /\ \A i \in 1..Len(bus') : i + 1 \in 1..Len(bus) /\ bus'[i] = bus[i + 1]
        /\ Head(bus) = bus[1] /\ 1 \in 1..Len(bus) /\ bus[1] \in CallSet
    BY <2>1, <2>2
  <2>4. registered' \subseteq Windows
    BY <1>1, <2>1, <2>3 DEF RegistrarTypes, CallSet
  <2>5. known # owner => registered' = {}
    BY <1>1, <2>1, <2>3 DEF CallsInv
  <2>6. owner # 0 =>
          \A w \in Windows :
            Learns(bus', registered', owner, w) <=> Learns(bus, registered, owner, w)
    <3>1. SUFFICES ASSUME owner # 0, NEW w \in Windows
                   PROVE  Learns(bus', registered', owner, w)
                            <=> Learns(bus, registered, owner, w)
      OBVIOUS
    <3> DEFINE reg1 == IF Head(bus).to # owner THEN registered
                       ELSE IF Head(bus).op = "register"
                            THEN registered \cup {Head(bus).window}
                            ELSE registered \ {Head(bus).window}
    <3>2. registered' = reg1
      BY <2>1, <3>1
    <3> HIDE DEF reg1
    <3>3. Learns(Tail(bus), reg1, owner, w) <=> Learns(bus, registered, owner, w)
      BY <2>1, <2>2, LearnsTail DEF reg1
    <3>4. QED
      BY <2>1, <3>2, <3>3
  <2>7. RegistrarTypes'
    BY <1>1, <2>1, <2>4 DEF RegistrarTypes
  <2>8. CallsInv(proxy, live, owner, known, bus, registered, restarts)'
    BY <1>1, <2>1, <2>2, <2>3, <2>5, <2>6 DEF CallsInv
  <2>9. QED
    BY <1>1, <2>1, <2>7, <2>8 DEF RegistrarInv, RegistrarTypes, CallsInv
<1>6. QED
  BY <1>2, <1>3, <1>4, <1>5 DEF RegistrarStep

-----------------------------------------------------------------------------
(* The calls of the client. *)

\* The registrar is not concerned by what leaves the bus and the windows alone.
LEMMA BusUnchanged ==
  ASSUME RegistrarInv, UNCHANGED <<bar, busVars>>
  PROVE  RegistrarInv'
BY DEF RegistrarInv, busVars

\* A level of a bar is one of the menu it is built from.
LEMMA LevelTyped ==
  ASSUME MenuTypes, NEW m \in Menus
  PROVE  /\ BuildMenuFromModel(m) \in Level
         /\ BuildMenuFromModel(m).model = m
         /\ BuildMenuFromModel(m).items = menu[m].items
<1>1. menu[m].items \in Seq(Items)
  BY DEF MenuTypes, MenuRecord
<1>2. QED
  BY <1>1 DEF BuildMenuFromModel, Level

\* A list that has just been built is faithful if its model is alive.
LEMMA LevelFaithful ==
  ASSUME MenuTypes, NEW m \in Menus, menu[m].state = "alive"
  PROVE  Faithful(menu, BuildMenuFromModel(m))
<1>1. Len(menu[m].items) \in Nat
  BY DEF MenuTypes, MenuRecord
<1>2. QED
  BY <1>1, LevelTyped DEF Faithful

\* A bar that is attached shows the menu alone and is announced.
LEMMA AttachStep ==
  ASSUME IInv, NEW ws \in SUBSET Windows, NEW m \in Menus, AttachMenu(ws, m)
  PROVE  /\ bar' \in [Windows -> Seq(Level)]
         /\ \A w \in ws : bar'[w] = <<BuildMenuFromModel(m)>>
         /\ \A w \in Windows \ ws : bar'[w] = bar[w]
         /\ RegistrarInv'
<1>1. /\ bar' = [w \in Windows |-> IF w \in ws THEN <<BuildMenuFromModel(m)>> ELSE bar[w]]
      /\ OnWindowMapped({w \in ws : bar[w] = <<>>})
  BY DEF AttachMenu
<1>2. BuildMenuFromModel(m) \in Level
  BY LevelTyped DEF IInv
<1>3. bar \in [Windows -> Seq(Level)] /\ RegistrarInv
  BY DEF IInv, MenuTypes
<1> DEFINE b == <<BuildMenuFromModel(m)>>
<1>4. b \in Seq(Level) /\ b # <<>>
  BY <1>2
<1> HIDE DEF b
<1>5. /\ bar' \in [Windows -> Seq(Level)]
      /\ \A w \in ws : bar'[w] = b
      /\ \A w \in Windows \ ws : bar'[w] = bar[w]
  BY <1>1, <1>3, <1>4 DEF b
<1> DEFINE new == {w \in ws : bar[w] = <<>>}
<1>6. live = {w \in Windows : bar[w] # <<>>} /\ live' = live \cup new
  BY <1>1, <1>3 DEF RegistrarInv, OnWindowMapped
<1>7. live' = {w \in Windows : bar'[w] # <<>>}
  BY <1>4, <1>5, <1>6
<1>8. RegistrarInv'
  BY <1>1, <1>3, <1>7, MappedStep
<1>9. QED
  BY <1>5, <1>8 DEF b

\* A bar that is detached is empty and withdrawn.
LEMMA DetachStep ==
  ASSUME IInv, NEW ws \in SUBSET Windows, DetachMenu(ws)
  PROVE  /\ bar' \in [Windows -> Seq(Level)]
         /\ \A w \in ws : bar'[w] = <<>>
         /\ \A w \in Windows \ ws : bar'[w] = bar[w]
         /\ RegistrarInv'
<1>1. /\ bar' = [w \in Windows |-> IF w \in ws THEN <<>> ELSE bar[w]]
      /\ OnWindowUnmapped({w \in ws : bar[w] # <<>>})
  BY DEF DetachMenu
<1>2. bar \in [Windows -> Seq(Level)] /\ RegistrarInv
  BY DEF IInv, MenuTypes
<1>3. /\ bar' \in [Windows -> Seq(Level)]
      /\ \A w \in ws : bar'[w] = <<>>
      /\ \A w \in Windows \ ws : bar'[w] = bar[w]
  BY <1>1, <1>2
<1> DEFINE old == {w \in ws : bar[w] # <<>>}
<1>4. live = {w \in Windows : bar[w] # <<>>} /\ live' = live \ old
  BY <1>1, <1>2 DEF RegistrarInv, OnWindowUnmapped
<1>5. live' = {w \in Windows : bar'[w] # <<>>}
  BY <1>3, <1>4
<1>6. RegistrarInv'
  BY <1>1, <1>2, <1>5, UnmappedStep
<1>7. QED
  BY <1>3, <1>6

\* Nothing exists at first.
LEMMA InitIInv == Init => IInv
<1> SUFFICES ASSUME Init PROVE IInv
  OBVIOUS
<1>1. /\ menu = [m \in Menus |-> [state |-> "absent", items |-> <<>>]]
      /\ app = None /\ popup = None
      /\ win = [w \in Windows |-> "absent"] /\ bar = [w \in Windows |-> <<>>]
      /\ careless = FALSE /\ mistaken = FALSE /\ crashed = "no"
  BY DEF Init
<1>2. [state |-> "absent", items |-> <<>>] \in MenuRecord
  BY DEF MenuRecord
<1>3. MenuTypes
  <2>1. menu \in [Menus -> MenuRecord]
    BY <1>1, <1>2
  <2>2. \A m \in Menus : menu[m].items = <<>> /\ Len(menu[m].items) = 0
    BY <1>1
  <2>3. bar \in [Windows -> Seq(Level)] /\ MaxItems \in Nat
    BY <1>1, MenusAssumption
  <2>4. \A m \in Menus :
          /\ Len(menu[m].items) <= MaxItems
          /\ menu[m].state # "alive" => menu[m].items = <<>>
    BY <2>2, <2>3
  <2>5. win \in [Windows -> {"absent", "open", "closed", "deleted"}]
    BY <1>1
  <2>6. app \in Menus \cup {None} /\ popup \in Menus \cup {None}
    BY <1>1
  <2>7. careless \in BOOLEAN /\ mistaken \in BOOLEAN
    BY <1>1
  <2>8. QED
    BY <2>1, <2>3, <2>4, <2>5, <2>6, <2>7 DEF MenuTypes
<1>4. BarsInv
  BY <1>1 DEF BarsInv
<1>5. CarefulInv
  <2>1. \A m \in Menus : SubsOf(menu[m]) = {}
    BY <1>1 DEF SubsOf
  <2>2. Acyclic(EdgesOf(menu))
    BY <1>3, <2>1, EdgesTyped DEF Acyclic, MenuTypes
  <2>3. QED
    BY <1>1, <2>1, <2>2 DEF CarefulInv
<1>6. RegistrarInv
  <2>1. /\ proxy = "none" /\ live = {} /\ known = 0 /\ bus = <<>>
        /\ registered = {} /\ restarts = 0 /\ owner \in {0, -1}
    BY DEF Init
  <2>2. live = {w \in Windows : bar[w] # <<>>}
    BY <1>1, <2>1
  <2>3. QED
    BY <2>1, <2>2 DEF RegistrarInv
<1>7. QED
  BY <1>3, <1>4, <1>5, <1>6 DEF IInv

\* Steps that change no menu and leave a bar as it is or without anything.
LEMMA FaithfulSame ==
  ASSUME CarefulInv, MenuTypes, UNCHANGED <<menu, mistaken>>,
         careless' \in BOOLEAN, careless => careless',
         crashed' \in {"no", "window"} \/ crashed' = crashed,
         popup' = None \/ popup' = popup,
         \A w \in Windows : bar'[w] = bar[w] \/ bar'[w] = <<>>
  PROVE  CarefulInv'
<1>1. SUFFICES ASSUME careless' = FALSE
               PROVE  CarefulInv'
  BY DEF CarefulInv
<1>2. careless = FALSE
  BY <1>1 DEF MenuTypes
<1>3. \A w \in Windows : \A d \in 1..Len(bar'[w]) : Faithful(menu, bar'[w][d])
  <2>1. ASSUME NEW w \in Windows, NEW d \in 1..Len(bar'[w])
        PROVE  Faithful(menu, bar'[w][d])
    <3>1. CASE bar'[w] = bar[w]
      BY <1>2, <3>1 DEF CarefulInv
    <3>2. CASE bar'[w] = <<>>
      BY <3>2
    <3>3. QED
      BY <3>1, <3>2
  <2>2. QED
    BY <2>1
<1>4. QED
  BY <1>2, <1>3 DEF CarefulInv

\* Bars that are replaced show a menu alive.
LEMMA FaithfulNew ==
  ASSUME CarefulInv, MenuTypes, UNCHANGED <<menu, mistaken, crashed, popup>>,
         careless' = careless, NEW m \in Menus, menu[m].state = "alive",
         \A w \in Windows : bar'[w] = bar[w] \/ bar'[w] = <<BuildMenuFromModel(m)>>
  PROVE  CarefulInv'
<1>1. SUFFICES ASSUME careless' = FALSE
               PROVE  CarefulInv'
  BY DEF CarefulInv
<1> DEFINE l == BuildMenuFromModel(m)
<1>2. Faithful(menu, l)
  BY LevelFaithful
<1> HIDE DEF l
<1>3. \A w \in Windows : \A d \in 1..Len(bar'[w]) : Faithful(menu, bar'[w][d])
  <2>1. ASSUME NEW w \in Windows, NEW d \in 1..Len(bar'[w])
        PROVE  Faithful(menu, bar'[w][d])
    <3>1. CASE bar'[w] = bar[w]
      BY <1>1, <3>1 DEF CarefulInv
    <3>2. CASE bar'[w] = <<l>>
      BY <1>2, <3>2
    <3>3. QED
      BY <3>1, <3>2 DEF l
  <2>2. QED
    BY <2>1
<1>4. QED
  BY <1>1, <1>3 DEF CarefulInv

\* A step that crashes changes nothing else.
LEMMA CrashStep ==
  ASSUME IInv, NEW why, Crash(why), UNCHANGED mistaken,
         careless = FALSE => why \in {"no", "window"}
  PROVE  IInv'
<1> USE DEF IInv
<1>1. UNCHANGED <<menu, app, popup, win, bar, careless, mistaken>> /\ crashed' = why
      /\ UNCHANGED busVars
  BY DEF Crash, menuVars, barVars
<1>2. MenuTypes' /\ BarsInv'
  BY <1>1 DEF MenuTypes, BarsInv
<1>3. CarefulInv'
  BY <1>1 DEF CarefulInv
<1>4. QED
  BY <1>1, <1>2, <1>3, BusUnchanged

\* Every window that is not closed shows the new application menu.
LEMMA SetApplicationMenuStep ==
  ASSUME IInv, NEW m \in Menus, SetApplicationMenu(m)
  PROVE  IInv'
<1> USE DEF IInv
<1>1. menu[m].state = "alive" /\ UNCHANGED mistaken
  BY DEF SetApplicationMenu, Alive, ClientCalls
<1>2. CASE NeedsWindow(Instances)
  BY <1>1, <1>2, CrashStep DEF SetApplicationMenu
<1>3. CASE ~NeedsWindow(Instances)
  <2>1. /\ app' = m /\ AttachMenu(Instances, m)
        /\ UNCHANGED <<menu, popup, win, careless, crashed>>
    BY <1>3 DEF SetApplicationMenu
  <2>2. Instances \in SUBSET Windows
        /\ \A w \in Windows : w \in Instances <=> win[w] \in {"open", "closed"}
    BY DEF Instances, InstancesOf
  <2>3. /\ bar' \in [Windows -> Seq(Level)]
        /\ \A w \in Instances : bar'[w] = <<BuildMenuFromModel(m)>>
        /\ \A w \in Windows \ Instances : bar'[w] = bar[w]
        /\ RegistrarInv'
    BY <2>1, <2>2, AttachStep
  <2>4. MenuTypes'
    BY <1>1, <2>1, <2>3 DEF MenuTypes
  <2>5. BarsInv'
    <3> DEFINE b == <<BuildMenuFromModel(m)>>
    <3>1. b # <<>> /\ b[1].model = m
      BY LevelTyped
    <3> HIDE DEF b
    <3>2. QED
      BY <1>1, <2>1, <2>2, <2>3, <3>1, MenusAssumption DEF BarsInv, b
  <2>6. CarefulInv'
    BY <1>1, <2>1, <2>3, FaithfulNew
  <2>7. QED
    BY <2>3, <2>4, <2>5, <2>6
<1>4. QED
  BY <1>2, <1>3

\* A new window shows the application menu, if there is one.
LEMMA CreateWindowStep ==
  ASSUME IInv, NEW w \in Windows, CreateWindow(w)
  PROVE  IInv'
<1> USE DEF IInv
<1>1. /\ win[w] = "absent" /\ win' = [win EXCEPT ![w] = "open"]
      /\ UNCHANGED <<menu, app, popup, careless, crashed, mistaken>>
  BY DEF CreateWindow, ClientCalls, menuVars
<1>2. win' \in [Windows -> {"absent", "open", "closed", "deleted"}]
      /\ win'[w] = "open" /\ \A v \in Windows \ {w} : win'[v] = win[v]
  BY <1>1 DEF MenuTypes
<1>3. bar[w] = <<>>
  BY <1>1 DEF BarsInv
<1>4. CASE app # None
  <2>1. app \in Menus /\ menu[app].state = "alive" /\ AttachMenu({w}, app)
    BY <1>4 DEF MenuTypes, BarsInv, CreateWindow
  <2>2. /\ bar' \in [Windows -> Seq(Level)]
        /\ bar'[w] = <<BuildMenuFromModel(app)>>
        /\ \A v \in Windows \ {w} : bar'[v] = bar[v]
        /\ RegistrarInv'
    <3>1. {w} \in SUBSET Windows
      OBVIOUS
    <3> DEFINE ws == {w}
    <3> HIDE DEF ws
    <3>2. /\ bar' \in [Windows -> Seq(Level)]
          /\ \A v \in ws : bar'[v] = <<BuildMenuFromModel(app)>>
          /\ \A v \in Windows \ ws : bar'[v] = bar[v]
          /\ RegistrarInv'
      BY <2>1, <3>1, AttachStep DEF ws
    <3>3. QED
      BY <3>2 DEF ws
  <2>3. MenuTypes'
    BY <1>1, <1>2, <2>2 DEF MenuTypes
  <2>4. BarsInv'
    <3> DEFINE b == <<BuildMenuFromModel(app)>>
    <3>1. b # <<>> /\ b[1].model = app
      BY <2>1, LevelTyped
    <3> HIDE DEF b
    <3>2. QED
      <4>1. app' # None /\ menu'[app'].state = "alive"
        BY <1>1, <1>2, <1>4 DEF BarsInv
      <4>2. ASSUME NEW v \in Windows
            PROVE  /\ bar'[v] # <<>> => win'[v] \in {"open", "closed"}
                   /\ win'[v] = "open" => bar'[v] # <<>> /\ bar'[v][1].model = app'
        <5>1. CASE v = w
          BY <1>1, <1>2, <2>2, <3>1, <5>1 DEF b
        <5>2. CASE v # w
          BY <1>1, <1>2, <1>4, <2>2, <5>2 DEF BarsInv
        <5>3. QED
          BY <5>1, <5>2
      <4>3. QED
        BY <4>1, <4>2 DEF BarsInv
  <2>5. CarefulInv'
    BY <1>1, <2>1, <2>2, FaithfulNew
  <2>6. QED
    BY <2>2, <2>3, <2>4, <2>5
<1>5. CASE app = None
  <2>1. UNCHANGED <<bar, busVars>>
    BY <1>5 DEF CreateWindow
  <2>2. MenuTypes' /\ BarsInv' /\ CarefulInv'
    BY <1>1, <1>2, <1>5, <2>1 DEF MenuTypes, BarsInv, CarefulInv
  <2>3. QED
    BY <2>1, <2>2, BusUnchanged
<1>6. QED
  BY <1>4, <1>5

\* A deleted window has no bar and is withdrawn.
LEMMA DeleteWindowStep ==
  ASSUME IInv, NEW w \in Windows, DeleteWindow(w)
  PROVE  IInv'
<1> USE DEF IInv
<1>1. /\ win' = [win EXCEPT ![w] = "deleted"] /\ DetachMenu({w})
      /\ UNCHANGED <<menu, app, popup, careless, crashed, mistaken>>
  BY DEF DeleteWindow, ClientCalls, menuVars
<1>2. win' \in [Windows -> {"absent", "open", "closed", "deleted"}]
      /\ win'[w] = "deleted" /\ \A v \in Windows \ {w} : win'[v] = win[v]
  BY <1>1 DEF MenuTypes
<1>3. /\ bar' \in [Windows -> Seq(Level)]
      /\ bar'[w] = <<>>
      /\ \A v \in Windows \ {w} : bar'[v] = bar[v]
      /\ RegistrarInv'
  <2> DEFINE ws == {w}
  <2>1. ws \in SUBSET Windows
    OBVIOUS
  <2> HIDE DEF ws
  <2>2. /\ bar' \in [Windows -> Seq(Level)]
        /\ \A v \in ws : bar'[v] = <<>>
        /\ \A v \in Windows \ ws : bar'[v] = bar[v]
        /\ RegistrarInv'
    BY <1>1, <2>1, DetachStep DEF ws
  <2>3. QED
    BY <2>2 DEF ws
<1>4. MenuTypes'
  BY <1>1, <1>2, <1>3 DEF MenuTypes
<1>5. BarsInv'
  <2>1. app' = app /\ menu' = menu
    BY <1>1
  <2>2. ASSUME NEW v \in Windows
        PROVE  /\ bar'[v] # <<>> => win'[v] \in {"open", "closed"}
               /\ app' # None /\ win'[v] = "open" =>
                    bar'[v] # <<>> /\ bar'[v][1].model = app'
               /\ app' = None => bar'[v] = <<>>
    <3>1. CASE v = w
      BY <1>2, <1>3, <3>1
    <3>2. CASE v # w
      BY <1>2, <1>3, <2>1, <3>2 DEF BarsInv
    <3>3. QED
      BY <3>1, <3>2
  <2>3. QED
    BY <2>1, <2>2 DEF BarsInv
<1>6. CarefulInv'
  BY <1>1, <1>3, FaithfulSame DEF MenuTypes
<1>7. QED
  BY <1>3, <1>4, <1>5, <1>6

\* The client changes one menu and no bar: what must be shown of the new menu.
LEMMA MenuChanged ==
  ASSUME IInv, NEW m \in Menus, NEW r \in MenuRecord,
         menu' = [menu EXCEPT ![m] = r],
         Len(r.items) <= MaxItems, r.state # "alive" => r.items = <<>>,
         UNCHANGED <<app, popup, win, bar, mistaken, crashed, busVars>>,
         careless' \in BOOLEAN, careless => careless',
         r.state # "alive" => app # m,
         careless' = FALSE =>
           /\ \A w \in Windows : \A d \in 1..Len(bar[w]) :
                bar[w][d].model = m => Faithful(menu', bar[w][d])
           /\ \A s \in SubsOf(r) : menu'[s].state = "alive"
           /\ r.state # "alive" => popup # m /\ \A x \in Menus : m \notin SubsOf(menu[x])
           /\ Acyclic(EdgesOf(menu'))
  PROVE  IInv'
<1> USE DEF IInv
<1>1. menu' \in [Menus -> MenuRecord] /\ menu'[m] = r
      /\ \A x \in Menus \ {m} : menu'[x] = menu[x]
  BY DEF MenuTypes
<1>2. MenuTypes'
  BY <1>1 DEF MenuTypes
<1>3. BarsInv'
  BY <1>1 DEF BarsInv, MenuTypes
<1>4. CarefulInv'
  <2>1. SUFFICES ASSUME careless' = FALSE
                 PROVE  CarefulInv'
    BY DEF CarefulInv
  <2>2. careless = FALSE
    BY <2>1 DEF MenuTypes
  <2>3. \A w \in Windows : \A d \in 1..Len(bar[w]) : Faithful(menu', bar[w][d])
    <3>1. ASSUME NEW w \in Windows, NEW d \in 1..Len(bar[w]), bar[w][d].model # m
          PROVE  Faithful(menu', bar[w][d])
      <4>1. bar[w][d] \in Level
        BY DEF MenuTypes
      <4>2. bar[w][d].model \in Menus
        BY <4>1 DEF Level
      <4>3. menu'[bar[w][d].model] = menu[bar[w][d].model]
        BY <1>1, <3>1, <4>2
      <4>4. Faithful(menu, bar[w][d])
        BY <2>2 DEF CarefulInv
      <4>5. QED
        BY <4>3, <4>4 DEF Faithful
    <3>2. QED
      BY <2>1, <3>1
  <2>4. ASSUME NEW x \in Menus, NEW s \in SubsOf(menu'[x])
        PROVE  menu'[s].state = "alive"
    <3>1. CASE x = m
      BY <1>1, <2>1, <3>1
    <3>2. CASE x # m
      <4>1. s \in SubsOf(menu[x]) /\ menu[s].state = "alive"
        BY <1>1, <2>2, <3>2 DEF CarefulInv
      <4>2. SubsOf(menu[x]) \subseteq Menus
        BY SubsTyped DEF MenuTypes
      <4>3. QED
        BY <1>1, <2>1, <4>1, <4>2
    <3>3. QED
      BY <3>1, <3>2
  <2>5. popup # None => menu'[popup].state = "alive"
    BY <1>1, <2>1, <2>2 DEF CarefulInv, MenuTypes
  <2>6. crashed \in {"no", "window"} /\ mistaken = FALSE
    BY <2>2 DEF CarefulInv
  <2>7. QED
    BY <2>1, <2>3, <2>4, <2>5, <2>6 DEF CarefulInv
<1>5. UNCHANGED <<bar, busVars>>
  BY DEF busVars
<1>6. QED
  BY <1>2, <1>3, <1>4, <1>5, BusUnchanged

\* To clear or delete a menu takes edges away.
LEMMA EdgesFewer ==
  ASSUME NEW mn \in [Menus -> MenuRecord], NEW mn1 \in [Menus -> MenuRecord],
         \A x \in Menus : SubsOf(mn1[x]) \subseteq SubsOf(mn[x]),
         Acyclic(EdgesOf(mn))
  PROVE  Acyclic(EdgesOf(mn1))
<1> DEFINE E == EdgesOf(mn)
           F == EdgesOf(mn1)
<1>1. /\ E \in [Menus -> SUBSET Menus] /\ F \in [Menus -> SUBSET Menus]
      /\ \A x \in Menus : E[x] = SubsOf(mn[x]) /\ F[x] = SubsOf(mn1[x])
  BY EdgesTyped
<1> HIDE DEF E, F
<1>2. \A x \in Menus : F[x] \subseteq E[x]
  BY <1>1
<1>3. Acyclic(E)
  BY DEF E
<1>4. Acyclic(F)
  BY <1>1, <1>2, <1>3, FewerAcyclic
<1>5. QED
  BY <1>4 DEF F

\* An item is added to a menu alive: its lists stay faithful.
LEMMA ItemAppended ==
  ASSUME NEW q \in MenuRecord, q.state = "alive", NEW it \in Items,
         NEW r, r = [q EXCEPT !.items = Append(q.items, it)]
  PROVE  /\ r \in MenuRecord /\ r.state = "alive"
         /\ Len(r.items) = Len(q.items) + 1 /\ Len(q.items) \in Nat
         /\ \A i \in 1..Len(q.items) : r.items[i] = q.items[i]
         /\ SubsOf(r) = SubsOf(q) \cup ({it.sub} \ {None})
<1>1. q.items \in Seq(Items)
  BY DEF MenuRecord
<1>2. /\ Append(q.items, it) \in Seq(Items)
      /\ Len(Append(q.items, it)) = Len(q.items) + 1 /\ Len(q.items) \in Nat
      /\ \A i \in 1..Len(q.items) : Append(q.items, it)[i] = q.items[i]
      /\ Append(q.items, it)[Len(q.items) + 1] = it
  BY <1>1
<1> DEFINE new == Append(q.items, it)
<1> HIDE DEF new
<1>3. r \in MenuRecord /\ r.state = "alive" /\ r.items = new
  BY <1>2 DEF MenuRecord, new
<1>4. /\ DOMAIN r.items = 1..(Len(q.items) + 1) /\ DOMAIN q.items = 1..Len(q.items)
      /\ r.items[Len(q.items) + 1] = it
      /\ \A i \in 1..Len(q.items) : r.items[i] = q.items[i]
  BY <1>1, <1>2, <1>3 DEF new
<1>5. \A i : i \in DOMAIN r.items <=> i \in DOMAIN q.items \/ i = Len(q.items) + 1
  BY <1>2, <1>4
<1>6. ASSUME NEW s
      PROVE  s \in SubsOf(r) <=> s \in SubsOf(q) \/ (s = it.sub /\ s # None)
  BY <1>4, <1>5 DEF SubsOf
<1>7. QED
  BY <1>2, <1>3, <1>4, <1>6 DEF new

\* A new menu is empty and no list shows it.
LEMMA CreateMenuStep ==
  ASSUME IInv, NEW m \in Menus, CreateMenu(m)
  PROVE  IInv'
<1> USE DEF IInv
<1> DEFINE r == [menu[m] EXCEPT !.state = "alive"]
<1>1. /\ menu[m].state = "absent" /\ menu' = [menu EXCEPT ![m] = r]
      /\ UNCHANGED <<app, popup, win, bar, mistaken, crashed, busVars, careless>>
  BY DEF CreateMenu, ClientCalls, barVars, MenuTypes
<1>2. menu[m] \in MenuRecord /\ menu[m].items = <<>>
  BY <1>1 DEF MenuTypes
<1>3. r \in MenuRecord /\ r.items = <<>> /\ r.state = "alive" /\ Len(r.items) <= MaxItems
  <2>1. r \in MenuRecord /\ r.items = menu[m].items /\ r.state = "alive"
    BY <1>2 DEF MenuRecord
  <2>2. MaxItems \in Nat
    BY MenusAssumption
  <2>3. QED
    BY <1>2, <2>1, <2>2
<1> HIDE DEF r
<1>4. /\ menu' \in [Menus -> MenuRecord] /\ menu'[m] = r
      /\ \A x \in Menus \ {m} : menu'[x] = menu[x]
  BY <1>1, <1>3 DEF MenuTypes
<1>5. SubsOf(r) = {} /\ SubsOf(menu[m]) = {}
  BY <1>2, <1>3 DEF SubsOf
<1>6. ASSUME careless = FALSE
      PROVE  /\ \A w \in Windows : \A d \in 1..Len(bar[w]) :
                  bar[w][d].model = m => Faithful(menu', bar[w][d])
             /\ Acyclic(EdgesOf(menu'))
  <2>1. \A w \in Windows : \A d \in 1..Len(bar[w]) : bar[w][d].model # m
    BY <1>1, <1>6 DEF CarefulInv, Faithful
  <2>2. \A x \in Menus : SubsOf(menu'[x]) \subseteq SubsOf(menu[x])
    BY <1>4, <1>5
  <2>3. Acyclic(EdgesOf(menu))
    BY <1>6 DEF CarefulInv
  <2>4. Acyclic(EdgesOf(menu'))
    BY <1>4, <2>2, <2>3, EdgesFewer DEF MenuTypes
  <2>5. QED
    BY <2>1, <2>4
<1>7. careless' \in BOOLEAN
  BY <1>1 DEF MenuTypes
<1>8. QED
  BY <1>1, <1>3, <1>5, <1>6, <1>7, MenuChanged

\* A list that begins the items of a menu begins them when one is appended.
LEMMA FaithfulAppended ==
  ASSUME MenuTypes, NEW m \in Menus, NEW l \in Level, l.model = m,
         Faithful(menu, l), NEW mn1, Len(menu[m].items) \in Nat,
         Len(mn1[m].items) = Len(menu[m].items) + 1, mn1[m].state = "alive",
         \A i \in 1..Len(menu[m].items) : mn1[m].items[i] = menu[m].items[i]
  PROVE  Faithful(mn1, l)
<1>1. Len(l.items) \in Nat
  BY DEF Level
<1>2. /\ Len(l.items) <= Len(menu[m].items)
      /\ \A i \in 1..Len(l.items) : l.items[i] = menu[m].items[i]
  BY DEF Faithful
<1>3. \A i \in 1..Len(l.items) : i \in 1..Len(menu[m].items)
  BY <1>1, <1>2
<1>4. Len(l.items) <= Len(mn1[m].items)
  BY <1>1, <1>2
<1>5. \A i \in 1..Len(l.items) : l.items[i] = mn1[m].items[i]
  BY <1>2, <1>3
<1>6. QED
  BY <1>4, <1>5 DEF Faithful

\* An item is added to the menu m: a submenu that does not have m below it, or
\* none.
LEMMA ItemAddedStep ==
  ASSUME IInv, NEW m \in Menus, menu[m].state = "alive",
         Len(menu[m].items) < MaxItems, NEW it \in Items,
         menu' = [menu EXCEPT ![m].items = Append(@, it)],
         UNCHANGED <<app, popup, win, bar, mistaken, crashed, busVars>>,
         careless' \in BOOLEAN, careless => careless',
         it.sub # None => menu[it.sub].state = "alive",
         it.sub # None /\ careless' = FALSE =>
           m \notin Reach(EdgesOf(menu), it.sub)
  PROVE  IInv'
<1> USE DEF IInv
<1> DEFINE r == [menu[m] EXCEPT !.items = Append(menu[m].items, it)]
<1>1. menu[m] \in MenuRecord /\ menu \in [Menus -> MenuRecord]
  BY DEF MenuTypes
<1>2. menu' = [menu EXCEPT ![m] = r]
  BY <1>1
<1>3. /\ r \in MenuRecord /\ r.state = "alive"
      /\ Len(r.items) = Len(menu[m].items) + 1 /\ Len(menu[m].items) \in Nat
      /\ \A i \in 1..Len(menu[m].items) : r.items[i] = menu[m].items[i]
      /\ SubsOf(r) = SubsOf(menu[m]) \cup ({it.sub} \ {None})
  BY <1>1, ItemAppended
<1> HIDE DEF r
<1>4. Len(r.items) <= MaxItems
  BY <1>3, MenusAssumption
<1> DEFINE mn1 == menu'
<1>5. /\ mn1 \in [Menus -> MenuRecord] /\ mn1[m] = r
      /\ \A x \in Menus \ {m} : mn1[x] = menu[x]
  BY <1>1, <1>2, <1>3
<1> HIDE DEF mn1
<1>6. \A x \in Menus : mn1[x].state = menu[x].state
  BY <1>3, <1>5
<1>7. ASSUME careless' = FALSE
      PROVE  /\ \A w \in Windows : \A d \in 1..Len(bar[w]) :
                  bar[w][d].model = m => Faithful(mn1, bar[w][d])
             /\ \A s \in SubsOf(r) : mn1[s].state = "alive"
             /\ Acyclic(EdgesOf(mn1))
  <2>1. careless = FALSE
    BY <1>7 DEF MenuTypes
  <2>2. ASSUME NEW w \in Windows, NEW d \in 1..Len(bar[w]), bar[w][d].model = m
        PROVE  Faithful(mn1, bar[w][d])
    <3>1. bar[w][d] \in Level /\ Faithful(menu, bar[w][d])
      BY <2>1 DEF MenuTypes, CarefulInv
    <3>2. QED
      BY <1>3, <1>5, <2>2, <3>1, FaithfulAppended
  <2>3. it.sub \in Menus \cup {None}
    BY DEF Items
  <2>4. ASSUME NEW s \in SubsOf(r)
        PROVE  mn1[s].state = "alive"
    <3>1. SubsOf(r) \subseteq Menus
      BY <1>3, SubsTyped
    <3>2. menu[s].state = "alive"
      BY <1>3, <2>1, <2>4 DEF CarefulInv
    <3>3. QED
      BY <1>6, <3>1, <3>2
  <2>5. Acyclic(EdgesOf(mn1))
    <3>1. CASE it.sub = None
      <4>1. \A x \in Menus : SubsOf(mn1[x]) \subseteq SubsOf(menu[x])
        BY <1>3, <1>5, <3>1
      <4>2. Acyclic(EdgesOf(menu))
        BY <2>1 DEF CarefulInv
      <4>3. QED
        BY <1>1, <1>5, <4>1, <4>2, EdgesFewer
    <3>2. CASE it.sub # None
      <4> DEFINE E == EdgesOf(menu)
                 F == EdgesOf(mn1)
                 s == it.sub
      <4>1. /\ E \in [Menus -> SUBSET Menus]
            /\ \A x \in Menus : E[x] = SubsOf(menu[x])
        BY <1>1, EdgesTyped
      <4>2. /\ F \in [Menus -> SUBSET Menus]
            /\ \A x \in Menus : F[x] = SubsOf(mn1[x])
        BY <1>5, EdgesTyped
      <4>3. Acyclic(E) /\ m \notin Reach(E, s) /\ s \in Menus
        BY <1>7, <2>1, <2>3, <3>2 DEF CarefulInv
      <4> HIDE DEF E, F, s
      <4>4. Acyclic([E EXCEPT ![m] = E[m] \cup {s}])
        BY <4>1, <4>3, EdgeAcyclic
      <4>5. F[m] = E[m] \cup {s} /\ \A x \in Menus \ {m} : F[x] = E[x]
        BY <1>3, <1>5, <3>2, <4>1, <4>2 DEF s
      <4>6. F = [E EXCEPT ![m] = E[m] \cup {s}]
        BY <4>1, <4>2, <4>5
      <4>7. QED
        BY <4>4, <4>6 DEF F
    <3>3. QED
      BY <3>1, <3>2
  <2>6. QED
    BY <2>2, <2>4, <2>5
<1>8. QED
  BY <1>2, <1>3, <1>4, <1>7, MenuChanged DEF mn1

\* An item without a submenu adds no edge.
LEMMA AddItemStep ==
  ASSUME IInv, NEW m \in Menus, NEW c \in Commands, AddItem(m, c)
  PROVE  IInv'
<1> DEFINE it == Item(c, None)
<1>1. it \in Items /\ it.sub = None
  BY DEF Item, Items
<1>2. /\ menu[m].state = "alive" /\ Len(menu[m].items) < MaxItems
      /\ menu' = [menu EXCEPT ![m].items = Append(@, it)]
      /\ UNCHANGED <<app, popup, win, bar, mistaken, crashed, busVars, careless>>
  BY DEF AddItem, ClientCalls, Alive, barVars
<1> HIDE DEF it
<1>3. careless' \in BOOLEAN /\ (careless => careless')
  BY <1>2 DEF IInv, MenuTypes
<1>4. QED
  BY <1>1, <1>2, <1>3, ItemAddedStep

\* A careful client adds only a submenu alive that does not have the menu below it.
LEMMA AddSubMenuStep ==
  ASSUME IInv, NEW m \in Menus, NEW s \in Menus, NEW c \in Commands, AddSubMenu(m, s, c)
  PROVE  IInv'
<1> DEFINE it == Item(c, s)
<1>1. it \in Items /\ it.sub = s
  BY DEF Item, Items
<1>2. /\ menu[m].state = "alive" /\ menu[s].state = "alive"
      /\ Len(menu[m].items) < MaxItems
      /\ menu' = [menu EXCEPT ![m].items = Append(@, it)]
      /\ UNCHANGED <<app, popup, win, bar, mistaken, crashed, busVars>>
      /\ careless' = (careless \/ m \in Tree(s))
  BY DEF AddSubMenu, ClientCalls, Alive, barVars
<1> HIDE DEF it
<1>3. careless' \in BOOLEAN /\ (careless => careless')
  BY <1>2 DEF IInv, MenuTypes
<1>4. Tree(s) = Reach(EdgesOf(menu), s)
  BY TreeReach DEF IInv, MenuTypes
<1>5. careless' = FALSE => m \notin Reach(EdgesOf(menu), s)
  BY <1>2, <1>4
<1>6. QED
  BY <1>1, <1>2, <1>3, <1>5, ItemAddedStep

\* A menu that is taken from the ones below m is not the menu m itself.
LEMMA PoppedItself ==
  ASSUME MenuTypes, popup # None
  PROVE  Popped(popup)
<1>1. popup \in Menus /\ menu \in [Menus -> MenuRecord]
  BY DEF MenuTypes
<1>2. EdgesOf(menu) \in [Menus -> SUBSET Menus]
  BY <1>1, EdgesTyped
<1>3. popup \in Reach(EdgesOf(menu), popup)
  BY <1>1, <1>2, ReachClosed
<1>4. QED
  BY <1>1, <1>3, TreeReach DEF Popped

\* A careful client clears only a menu that is not on display.
LEMMA ClearStep ==
  ASSUME IInv, NEW m \in Menus, Clear(m)
  PROVE  IInv'
<1> USE DEF IInv
<1> DEFINE r == [menu[m] EXCEPT !.items = <<>>]
<1>1. /\ menu[m].state = "alive" /\ menu' = [menu EXCEPT ![m] = r]
      /\ UNCHANGED <<app, popup, win, bar, mistaken, crashed, busVars>>
      /\ careless' = (careless \/ Shown(m) \/ Popped(m))
  BY DEF Clear, ClientCalls, Alive, barVars, MenuTypes
<1>2. menu[m] \in MenuRecord /\ menu \in [Menus -> MenuRecord]
  BY DEF MenuTypes
<1>3. r \in MenuRecord /\ r.items = <<>> /\ r.state = "alive" /\ Len(r.items) <= MaxItems
  <2> DEFINE q == menu[m]
  <2>1. q \in MenuRecord /\ q.state = "alive" /\ <<>> \in Seq(Items)
    BY <1>1, <1>2
  <2> HIDE DEF q
  <2>2. LET r1 == [q EXCEPT !.items = <<>>]
        IN  r1 \in MenuRecord /\ r1.items = <<>> /\ r1.state = "alive"
    BY <2>1 DEF MenuRecord
  <2>3. r \in MenuRecord /\ r.items = <<>> /\ r.state = "alive"
    BY <2>2 DEF q
  <2>4. MaxItems \in Nat
    BY MenusAssumption
  <2>5. QED
    BY <2>3, <2>4
<1> HIDE DEF r
<1> DEFINE mn1 == menu'
<1>4. /\ mn1 \in [Menus -> MenuRecord] /\ mn1[m] = r
      /\ \A x \in Menus \ {m} : mn1[x] = menu[x]
  BY <1>1, <1>2, <1>3
<1> HIDE DEF mn1
<1>5. SubsOf(r) = {}
  BY <1>3 DEF SubsOf
<1>6. ASSUME careless' = FALSE
      PROVE  /\ \A w \in Windows : \A d \in 1..Len(bar[w]) : bar[w][d].model # m
             /\ Acyclic(EdgesOf(mn1))
  <2>1. careless = FALSE /\ ~Shown(m)
    BY <1>1, <1>6 DEF MenuTypes
  <2>2. \A w \in Windows : \A d \in 1..Len(bar[w]) : bar[w][d].model # m
    BY <2>1 DEF Shown, MenuTypes
  <2>3. \A x \in Menus : SubsOf(mn1[x]) \subseteq SubsOf(menu[x])
    BY <1>4, <1>5
  <2>4. Acyclic(EdgesOf(menu))
    BY <2>1 DEF CarefulInv
  <2>5. Acyclic(EdgesOf(mn1))
    BY <1>2, <1>4, <2>3, <2>4, EdgesFewer
  <2>6. QED
    BY <2>2, <2>5
<1>7. careless' \in BOOLEAN /\ (careless => careless')
  BY <1>1 DEF MenuTypes
<1>8. QED
  BY <1>1, <1>3, <1>5, <1>6, <1>7, MenuChanged DEF mn1

\* A menu is deleted: the bars are those that do not show it.
LEMMA MenuGone ==
  ASSUME MenuTypes, CarefulInv, NEW m \in Menus,
         menu' = [menu EXCEPT ![m] = [state |-> "deleted", items |-> <<>>]],
         careless' = (careless \/ Above(m) # {} \/ Popped(m) \/ (m # app /\ Shown(m))),
         UNCHANGED <<popup, mistaken, crashed>>,
         \A w \in Windows : \A d \in 1..Len(bar'[w]) :
           bar'[w] = bar[w] /\ (careless' = FALSE => bar[w][d].model # m)
  PROVE  /\ menu' \in [Menus -> MenuRecord]
         /\ \A x \in Menus \ {m} : menu'[x] = menu[x]
         /\ menu'[m].items = <<>> /\ menu'[m].state = "deleted"
         /\ CarefulInv'
<1> DEFINE r == [state |-> "deleted", items |-> <<>>]
           mn1 == menu'
<1>1. menu[m] \in MenuRecord /\ menu \in [Menus -> MenuRecord]
  BY DEF MenuTypes
<1>2. r \in MenuRecord /\ r.items = <<>> /\ r.state = "deleted"
  BY DEF MenuRecord
<1> HIDE DEF r
<1>3. /\ mn1 \in [Menus -> MenuRecord] /\ mn1[m] = r
      /\ \A x \in Menus \ {m} : mn1[x] = menu[x]
  BY <1>1, <1>2 DEF r
<1> HIDE DEF mn1
<1>4. SubsOf(r) = {}
  BY <1>2 DEF SubsOf
<1>5. ASSUME careless' = FALSE
      PROVE  CarefulInv'
  <2>1. careless = FALSE /\ Above(m) = {} /\ ~Popped(m)
    BY <1>5 DEF MenuTypes
  <2>2. \A x \in Menus : m \notin SubsOf(menu[x])
    <3>1. ASSUME NEW x \in Menus, m \in SubsOf(menu[x])
          PROVE  FALSE
      <4>1. menu[x].items # <<>>
        BY <3>1 DEF SubsOf
      <4>2. Alive(x)
        BY <4>1 DEF MenuTypes, Alive
      <4>3. x \in Above(m)
        BY <1>1, <3>1, <4>2, TreeReach DEF Above
      <4>4. QED
        BY <2>1, <4>3
    <3>2. QED
      BY <3>1
  <2>3. \A x \in Menus : \A s \in SubsOf(mn1[x]) : mn1[s].state = "alive"
    <3>1. ASSUME NEW x \in Menus, NEW s \in SubsOf(mn1[x])
          PROVE  mn1[s].state = "alive"
      <4>1. x # m /\ s \in SubsOf(menu[x])
        BY <1>3, <1>4, <3>1
      <4>2. s # m /\ menu[s].state = "alive"
        BY <2>1, <2>2, <4>1 DEF CarefulInv
      <4>3. SubsOf(menu[x]) \subseteq Menus
        BY <1>1, SubsTyped
      <4>4. QED
        BY <1>3, <4>1, <4>2, <4>3
    <3>2. QED
      BY <3>1
  <2>4. ASSUME NEW w \in Windows, NEW d \in 1..Len(bar'[w])
        PROVE  Faithful(mn1, bar'[w][d])
    <3>1. bar'[w] = bar[w] /\ bar[w][d].model # m
      BY <1>5
    <3>2. bar[w][d] \in Level /\ Faithful(menu, bar[w][d])
      BY <2>1, <3>1 DEF MenuTypes, CarefulInv
    <3>3. bar[w][d].model \in Menus
      BY <3>2 DEF Level
    <3>4. mn1[bar[w][d].model] = menu[bar[w][d].model]
      BY <1>3, <3>1, <3>3
    <3>5. QED
      BY <3>1, <3>2, <3>4 DEF Faithful
  <2>5. popup # None => mn1[popup].state = "alive"
    <3>1. popup # None => popup \in Menus /\ popup # m
      BY <2>1, PoppedItself DEF MenuTypes
    <3>2. QED
      BY <1>3, <2>1, <3>1 DEF CarefulInv
  <2>6. Acyclic(EdgesOf(mn1))
    <3>1. \A x \in Menus : SubsOf(mn1[x]) \subseteq SubsOf(menu[x])
      BY <1>3, <1>4
    <3>2. Acyclic(EdgesOf(menu))
      BY <2>1 DEF CarefulInv
    <3>3. QED
      BY <1>1, <1>3, <3>1, <3>2, EdgesFewer
  <2>7. crashed \in {"no", "window"} /\ mistaken = FALSE
    BY <2>1 DEF CarefulInv
  <2>8. QED
    BY <2>3, <2>4, <2>5, <2>6, <2>7 DEF CarefulInv, mn1
<1>6. careless' # FALSE => CarefulInv'
  BY DEF CarefulInv
<1>7. QED
  BY <1>2, <1>3, <1>5, <1>6 DEF mn1

\* The menu deleted is in no bar any more, and with a careful client below none.
LEMMA DeleteMenuStep ==
  ASSUME IInv, NEW m \in Menus, DeleteMenu(m)
  PROVE  IInv'
<1> USE DEF IInv
<1>1. /\ menu' = [menu EXCEPT ![m] = [state |-> "deleted", items |-> <<>>]]
      /\ careless' = (careless \/ Above(m) # {} \/ Popped(m) \/ (m # app /\ Shown(m)))
      /\ UNCHANGED <<popup, win, mistaken, crashed>>
      /\ IF m = app THEN app' = None /\ DetachMenu(Instances)
                    ELSE UNCHANGED <<app, bar, busVars>>
  BY DEF DeleteMenu, ClientCalls
<1>2. /\ bar' \in [Windows -> Seq(Level)] /\ RegistrarInv'
      /\ m = app => app' = None /\ \A w \in Windows : bar'[w] = <<>>
      /\ m # app => app' = app /\ bar' = bar
  <2>1. CASE m = app
    <3>1. Instances \in SUBSET Windows
          /\ \A w \in Windows \ Instances : win[w] \notin {"open", "closed"}
      BY DEF Instances, InstancesOf
    <3>2. \A w \in Windows \ Instances : bar[w] = <<>>
      BY <3>1 DEF BarsInv
    <3>3. /\ bar' \in [Windows -> Seq(Level)]
          /\ \A w \in Instances : bar'[w] = <<>>
          /\ \A w \in Windows \ Instances : bar'[w] = bar[w]
          /\ RegistrarInv'
      BY <1>1, <2>1, <3>1, DetachStep
    <3>4. QED
      BY <1>1, <2>1, <3>2, <3>3
  <2>2. CASE m # app
    <3>1. UNCHANGED <<app, bar, busVars>>
      BY <1>1, <2>2
    <3>2. RegistrarInv'
      BY <3>1, BusUnchanged
    <3>3. QED
      BY <2>2, <3>1, <3>2 DEF MenuTypes
  <2>3. QED
    BY <2>1, <2>2
<1>3. ASSUME NEW w \in Windows, NEW d \in 1..Len(bar'[w])
      PROVE  bar'[w] = bar[w] /\ (careless' = FALSE => bar[w][d].model # m)
  <2>1. m # app
    BY <1>2, <1>3
  <2>2. careless' = FALSE => ~Shown(m)
    BY <1>1, <2>1
  <2>3. bar' = bar /\ bar[w] \in Seq(Level)
    BY <1>2, <2>1 DEF MenuTypes
  <2>4. QED
    BY <2>2, <2>3 DEF Shown
<1>4. /\ menu' \in [Menus -> MenuRecord]
      /\ \A x \in Menus \ {m} : menu'[x] = menu[x]
      /\ menu'[m].items = <<>> /\ menu'[m].state = "deleted"
      /\ CarefulInv'
  BY <1>1, <1>3, MenuGone
<1>5. \A x \in Menus :
        /\ Len(menu'[x].items) <= MaxItems
        /\ menu'[x].state # "alive" => menu'[x].items = <<>>
  <2>1. MaxItems \in Nat
    BY MenusAssumption
  <2>2. QED
    BY <1>4, <2>1 DEF MenuTypes
<1>6. MenuTypes'
  <2>1. app' \in Menus \cup {None}
    BY <1>2 DEF MenuTypes
  <2>2. careless' \in BOOLEAN
    BY <1>1 DEF MenuTypes
  <2>3. UNCHANGED <<popup, win, mistaken>>
    BY <1>1
  <2>4. /\ popup' \in Menus \cup {None} /\ mistaken' \in BOOLEAN
        /\ win' \in [Windows -> {"absent", "open", "closed", "deleted"}]
    BY <2>3 DEF MenuTypes
  <2>5. QED
    BY <1>2, <1>4, <1>5, <2>1, <2>2, <2>4 DEF MenuTypes
<1>7. BarsInv'
  <2>1. app' # None => menu'[app'].state = "alive"
    BY <1>2, <1>4 DEF BarsInv, MenuTypes
  <2>2. QED
    BY <1>1, <1>2, <2>1 DEF BarsInv
<1>8. QED
  BY <1>2, <1>4, <1>6, <1>7

\* With a careful client the menus below one alive are alive.
LEMMA TreeAlive ==
  ASSUME MenuTypes, CarefulInv, careless = FALSE,
         NEW m \in Menus, menu[m].state = "alive"
  PROVE  \A x \in Tree(m) : Alive(x) /\ ~Cyclic(x)
<1> DEFINE ms == {x \in Menus : menu[x].state = "alive"}
<1>1. menu \in [Menus -> MenuRecord]
  BY DEF MenuTypes
<1>2. /\ EdgesOf(menu) \in [Menus -> SUBSET Menus]
      /\ \A x \in Menus : EdgesOf(menu)[x] = SubsOf(menu[x])
  BY <1>1, EdgesTyped
<1>3. \A y \in ms : EdgesOf(menu)[y] \subseteq ms
  BY <1>2 DEF CarefulInv
<1>4. ms \in SUBSET Menus /\ m \in ms
  OBVIOUS
<1> HIDE DEF ms
<1>5. Reach(EdgesOf(menu), m) \subseteq ms
  BY <1>2, <1>3, <1>4, ReachLeast
<1>6. Tree(m) \subseteq ms
  BY <1>1, <1>5, TreeReach
<1>7. \A x \in Menus : ~Cyclic(x)
  BY <1>1, TreeReach DEF CarefulInv
<1>8. QED
  BY <1>6, <1>7 DEF ms, Alive

\* The menu that pops up is alive, and so is all that is below it.
LEMMA PopupStep ==
  ASSUME IInv, NEW m \in Menus, NEW w \in Windows, Popup(m, w)
  PROVE  IInv'
<1> USE DEF IInv
<1>1. menu[m].state = "alive" /\ UNCHANGED mistaken
  BY DEF Popup, ClientCalls, Alive
<1>2. careless = FALSE => \A x \in Tree(m) : Alive(x) /\ ~Cyclic(x)
  BY <1>1, TreeAlive
<1>3. \/ Crash("window")
      \/ Crash("recursion") /\ \E x \in Tree(m) : Cyclic(x)
      \/ Crash("submenu") /\ \E x \in Tree(m) : ~Alive(x)
      \/ /\ popup' = IF popup = None THEN m ELSE None
         /\ UNCHANGED <<menu, app, barVars, busVars, careless, crashed>>
  BY DEF Popup
<1>4. CASE Crash("window")
  BY <1>1, <1>4, CrashStep
<1>5. CASE Crash("recursion") /\ \E x \in Tree(m) : Cyclic(x)
  BY <1>1, <1>2, <1>5, CrashStep
<1>6. CASE Crash("submenu") /\ \E x \in Tree(m) : ~Alive(x)
  BY <1>1, <1>2, <1>6, CrashStep
<1>7. CASE /\ popup' = IF popup = None THEN m ELSE None
           /\ UNCHANGED <<menu, app, barVars, busVars, careless, crashed>>
  <2>1. UNCHANGED <<win, bar>> /\ popup' \in {m, None}
    BY <1>7 DEF barVars
  <2>2. MenuTypes' /\ BarsInv' /\ CarefulInv'
    BY <1>1, <1>7, <2>1 DEF MenuTypes, BarsInv, CarefulInv
  <2>3. QED
    BY <1>7, <2>1, <2>2, BusUnchanged
<1>8. QED
  BY <1>3, <1>4, <1>5, <1>6, <1>7

-----------------------------------------------------------------------------
(* The user. *)

\* A window that closes keeps its bar until it is deleted.
LEMMA WindowClosesStep ==
  ASSUME IInv, NEW w \in Windows, WindowCloses(w)
  PROVE  IInv'
<1> USE DEF IInv
<1>1. /\ win[w] = "open" /\ win' = [win EXCEPT ![w] = "closed"]
      /\ UNCHANGED <<menu, app, popup, bar, mistaken, crashed, careless, busVars>>
  BY DEF WindowCloses, UserActs
<1>2. /\ win' \in [Windows -> {"absent", "open", "closed", "deleted"}]
      /\ win'[w] = "closed" /\ \A v \in Windows \ {w} : win'[v] = win[v]
  BY <1>1 DEF MenuTypes
<1>3. MenuTypes' /\ BarsInv' /\ CarefulInv'
  BY <1>1, <1>2 DEF MenuTypes, BarsInv, CarefulInv
<1>4. RegistrarInv'
  BY <1>1, BusUnchanged
<1>5. QED
  BY <1>3, <1>4

\* The nested loop ends and its call returns, with a careful client over menus alive.
LEMMA PopupEndsStep ==
  ASSUME IInv, PopupEnds
  PROVE  IInv'
<1> USE DEF IInv
<1>1. /\ popup # None
      /\ UNCHANGED <<menu, app, win, bar, mistaken, careless, busVars>>
      /\ \/ crashed' = "popup" /\ UNCHANGED popup /\ \E x \in Tree(popup) : ~Alive(x)
         \/ popup' = None /\ UNCHANGED crashed
  BY DEF PopupEnds, UserActs, barVars
<1>2. ASSUME careless = FALSE PROVE \A x \in Tree(popup) : Alive(x)
  <2>1. popup \in Menus /\ menu[popup].state = "alive"
    BY <1>1, <1>2 DEF MenuTypes, CarefulInv
  <2>2. QED
    BY <1>2, <2>1, TreeAlive
<1>3. MenuTypes' /\ BarsInv'
  BY <1>1 DEF MenuTypes, BarsInv
<1>4. CarefulInv'
  BY <1>1, <1>2 DEF CarefulInv
<1>5. RegistrarInv'
  BY <1>1, BusUnchanged
<1>6. QED
  BY <1>3, <1>4, <1>5

\* With a careful client a row's model and index lead to what the row shows.
LEMMA RowFollowed ==
  ASSUME MenuTypes, CarefulInv, careless = FALSE,
         NEW w \in Windows, NEW d \in DOMAIN bar[w], NEW i \in DOMAIN bar[w][d].items
  PROVE  /\ Follow(w, d, i) = "item" /\ Target(w, d, i) = Row(w, d, i)
         /\ Row(w, d, i).sub # None =>
              /\ Row(w, d, i).sub \in Menus
              /\ menu[Row(w, d, i).sub].state = "alive"
<1> DEFINE l == bar[w][d]
           q == menu[l.model]
<1>1. bar[w] \in Seq(Level) /\ d \in 1..Len(bar[w]) /\ l \in Level
  BY DEF MenuTypes
<1>2. Faithful(menu, l)
  BY <1>1 DEF CarefulInv
<1>3. l.model \in Menus /\ q \in MenuRecord
  BY <1>1 DEF Level, MenuTypes
<1>4. /\ l.items \in Seq(Items) /\ q.items \in Seq(Items)
      /\ i \in 1..Len(l.items) /\ i \in DOMAIN q.items
      /\ q.state = "alive" /\ l.items[i] = q.items[i] /\ l.items[i] \in Items
<2>1. l.items \in Seq(Items) /\ q.items \in Seq(Items)
  BY <1>1, <1>3 DEF Level, MenuRecord
<2>2. i \in 1..Len(l.items)
  BY <1>1, <2>1
<2>3. /\ q.state = "alive" /\ Len(l.items) <= Len(q.items)
      /\ l.items[i] = q.items[i]
  BY <1>2, <2>2 DEF Faithful
<2> HIDE DEF l, q
<2>4. i \in DOMAIN q.items /\ l.items[i] \in Items
  BY <2>1, <2>2, <2>3
<2>5. QED
  BY <2>1, <2>2, <2>3, <2>4
<1>5. Follow(w, d, i) = "item" /\ Target(w, d, i) = Row(w, d, i)
  BY <1>4 DEF Follow, Target, Row, Alive
<1>6. ASSUME q.items[i].sub # None
      PROVE  q.items[i].sub \in Menus /\ menu[q.items[i].sub].state = "alive"
  <2>1. q.items[i].sub \in SubsOf(q)
    BY <1>4, <1>6 DEF SubsOf
  <2>2. SubsOf(q) \subseteq Menus
    BY <1>3, SubsTyped
  <2>3. QED
    BY <1>3, <2>1, <2>2 DEF CarefulInv
<1>7. QED
  BY <1>4, <1>5, <1>6 DEF Row

\* The item activated is the one shown.
LEMMA ActivatedStep ==
  ASSUME IInv, NEW w \in Windows, NEW d \in DOMAIN bar[w],
         NEW i \in DOMAIN bar[w][d].items, OnItemActivated(w, d, i)
  PROVE  IInv'
<1> USE DEF IInv
<1>1. /\ UNCHANGED <<menu, app, win, bar, popup, careless, busVars>>
      /\ IF Follow(w, d, i) # "item"
         THEN crashed' = Follow(w, d, i) /\ UNCHANGED mistaken
         ELSE /\ mistaken' = (mistaken \/ Target(w, d, i).cmd # Row(w, d, i).cmd)
              /\ UNCHANGED crashed
  BY DEF OnItemActivated, UserActs, barVars
<1>2. careless = FALSE => Follow(w, d, i) = "item" /\ Target(w, d, i) = Row(w, d, i)
  BY RowFollowed
<1>3. mistaken' \in BOOLEAN
  BY <1>1 DEF MenuTypes
<1>4. MenuTypes' /\ BarsInv'
  BY <1>1, <1>3 DEF MenuTypes, BarsInv
<1>5. ASSUME careless = FALSE
      PROVE  crashed' \in {"no", "window"} /\ mistaken' = FALSE
  BY <1>1, <1>2, <1>5 DEF CarefulInv
<1>6. CarefulInv'
  BY <1>1, <1>5 DEF CarefulInv
<1>7. RegistrarInv'
  BY <1>1, BusUnchanged
<1>8. QED
  BY <1>4, <1>6, <1>7

\* A submenu opened is a level more, of a menu alive.
LEMMA SubMenuStep ==
  ASSUME IInv, NEW w \in Windows, NEW d \in DOMAIN bar[w],
         NEW i \in DOMAIN bar[w][d].items, OnSubMenuShow(w, d, i)
  PROVE  IInv'
<1> USE DEF IInv
<1> DEFINE ok == Follow(w, d, i) = "item"
           s == IF ok THEN Target(w, d, i).sub ELSE None
           b == Append(SubSeq(bar[w], 1, d), BuildMenuFromModel(s))
<1>1. /\ UNCHANGED <<menu, app, win, popup, careless, busVars>>
      /\ Row(w, d, i).sub # None
      /\ IF s # None /\ s \in Menus /\ Alive(s)
         THEN /\ bar' = [bar EXCEPT ![w] = b]
              /\ mistaken' = (mistaken \/ s # Row(w, d, i).sub)
              /\ UNCHANGED crashed
         ELSE /\ crashed' = IF ok THEN "submenu" ELSE Follow(w, d, i)
              /\ UNCHANGED <<bar, mistaken>>
  BY DEF OnSubMenuShow, UserActs
<1>2. ASSUME careless = FALSE
      PROVE  ok /\ s = Row(w, d, i).sub /\ s \in Menus /\ Alive(s)
  BY <1>1, <1>2, RowFollowed DEF Alive
<1>3. mistaken' \in BOOLEAN
  BY <1>1 DEF MenuTypes
<1>4. ASSUME careless = FALSE
      PROVE  crashed' \in {"no", "window"} /\ mistaken' = FALSE
  <2> HIDE DEF b, s
  <2>1. s # None
    BY <1>2, <1>4, MenusAssumption
  <2>2. QED
    BY <1>1, <1>2, <1>4, <2>1 DEF CarefulInv
<1>5. CASE s # None /\ s \in Menus /\ Alive(s)
  <2> HIDE DEF s
  <2>1. bar' = [bar EXCEPT ![w] = b]
    BY <1>1, <1>5
  <2>2. bar[w] \in Seq(Level) /\ d \in 1..Len(bar[w]) /\ bar \in [Windows -> Seq(Level)]
    BY DEF MenuTypes
  <2>3. BuildMenuFromModel(s) \in Level
    BY <1>5, LevelTyped
  <2> DEFINE l == BuildMenuFromModel(s)
  <2> HIDE DEF l
  <2>4. /\ b \in Seq(Level) /\ Len(b) = d + 1 /\ b # <<>>
        /\ \A k \in 1..d : b[k] = bar[w][k]
        /\ b[d + 1] = l
    <3> DEFINE p == SubSeq(bar[w], 1, d)
    <3>1. p \in Seq(Level) /\ Len(p) = d /\ \A k \in 1..d : p[k] = bar[w][k]
      BY <2>2
    <3> HIDE DEF p
    <3>2. LET e == Append(p, l)
          IN  /\ e \in Seq(Level) /\ Len(e) = d + 1 /\ e # <<>>
              /\ \A k \in 1..d : e[k] = p[k]
              /\ e[d + 1] = l
      BY <2>2, <2>3, <3>1 DEF l
    <3>3. b = Append(p, l)
      BY DEF p, l
    <3>4. QED
      BY <3>1, <3>2, <3>3
  <2> HIDE DEF b
  <2>5. /\ bar' \in [Windows -> Seq(Level)] /\ bar'[w] = b
        /\ \A v \in Windows \ {w} : bar'[v] = bar[v]
    BY <2>1, <2>2, <2>4
  <2>6. MenuTypes'
    BY <1>1, <1>3, <2>5 DEF MenuTypes
  <2>7. bar[w] # <<>> /\ b[1] = bar[w][1]
    BY <2>2, <2>4
  <2>8. BarsInv'
    BY <1>1, <2>4, <2>5, <2>7 DEF BarsInv
  <2>9. CarefulInv'
    <3>1. SUFFICES ASSUME careless = FALSE PROVE CarefulInv'
      BY <1>1 DEF CarefulInv
    <3>2. Faithful(menu, l)
      BY <1>5, LevelFaithful DEF l, Alive
    <3>3. ASSUME NEW v \in Windows, NEW k \in 1..Len(bar'[v])
          PROVE  Faithful(menu, bar'[v][k])
      <4>1. CASE v # w
        BY <2>5, <3>1, <4>1 DEF CarefulInv
      <4>2. CASE v = w /\ k = d + 1
        BY <2>4, <2>5, <3>2, <4>2
      <4>3. CASE v = w /\ k # d + 1
        <5>1. k \in 1..d /\ k \in 1..Len(bar[w])
          BY <2>2, <2>4, <2>5, <4>3
        <5>2. bar'[v][k] = bar[w][k]
          BY <2>4, <2>5, <4>3, <5>1
        <5>3. QED
          BY <3>1, <5>1, <5>2 DEF CarefulInv
      <4>4. QED
        BY <4>1, <4>2, <4>3
    <3>4. QED
      BY <1>1, <1>4, <3>1, <3>3 DEF CarefulInv
  <2>10. RegistrarInv'
    <3>1. \A v \in Windows : bar'[v] # <<>> <=> bar[v] # <<>>
      BY <2>4, <2>5, <2>7
    <3>2. live' = {v \in Windows : bar'[v] # <<>>}
      BY <1>1, <3>1 DEF RegistrarInv, busVars
    <3>3. QED
      BY <1>1, <3>2 DEF RegistrarInv, busVars
  <2>11. QED
    BY <2>6, <2>8, <2>9, <2>10
<1>6. CASE ~(s # None /\ s \in Menus /\ Alive(s))
  <2> HIDE DEF b, s
  <2>1. UNCHANGED bar /\ UNCHANGED mistaken
    BY <1>1, <1>6
  <2>2. MenuTypes' /\ BarsInv'
    BY <1>1, <2>1 DEF MenuTypes, BarsInv
  <2>3. CarefulInv'
    BY <1>1, <1>4, <2>1 DEF CarefulInv
  <2>4. RegistrarInv'
    BY <1>1, <2>1, BusUnchanged
  <2>5. QED
    BY <2>2, <2>3, <2>4
<1>7. QED
  BY <1>5, <1>6

\* One step for each action.
LEMMA NextIInv ==
  ASSUME IInv, [Next]_vars
  PROVE  IInv'
<1>1. CASE UNCHANGED vars
  <2>1. UNCHANGED menuVars /\ UNCHANGED barVars /\ UNCHANGED faults /\ UNCHANGED busVars
    BY <1>1 DEF vars
  <2>2. MenuTypes' /\ BarsInv'
    BY <2>1 DEF menuVars, barVars, faults, IInv, MenuTypes, BarsInv
  <2>3. CarefulInv'
    BY <2>1 DEF menuVars, barVars, faults, IInv, CarefulInv
  <2>4. RegistrarInv'
    BY <2>1 DEF menuVars, barVars, busVars, IInv, RegistrarInv
  <2>5. QED
    BY <2>2, <2>3, <2>4 DEF IInv
<1>2. CASE ClientActs
  BY <1>2, CreateMenuStep, ClearStep, SetApplicationMenuStep, DeleteMenuStep,
     AddItemStep, AddSubMenuStep, PopupStep, CreateWindowStep, DeleteWindowStep
     DEF ClientActs
<1>3. CASE User
  BY <1>3, PopupEndsStep, WindowClosesStep, ActivatedStep, SubMenuStep DEF User
<1>4. CASE RegistrarStep
  <2>1. UNCHANGED <<menu, app, popup, win, bar, careless, mistaken, crashed>>
    BY <1>4 DEF RegistrarStep, menuVars, barVars, faults
  <2>2. MenuTypes' /\ BarsInv' /\ CarefulInv'
    BY <2>1 DEF IInv, MenuTypes, BarsInv, CarefulInv
  <2>3. RegistrarInv'
    BY <1>4, RegistrarStepInv DEF IInv
  <2>4. QED
    BY <2>2, <2>3 DEF IInv
<1>5. QED
  BY <1>1, <1>2, <1>3, <1>4 DEF Next

\* IInv is an invariant of the specification.
LEMMA AlwaysIInv == Spec => []IInv
<1>1. IInv /\ [Next]_vars => IInv'
  BY NextIInv
<1>2. QED
  BY <1>1, InitIInv, PTL DEF Spec

-----------------------------------------------------------------------------

\* The static pointer to the application menu never outlives the menu; every
\* window, made before or after, shows the menu set last, and none shows any
\* when it is gone.
THEOREM BarsAlwaysFollow == Spec => []BarsFollow
<1>1. ASSUME IInv PROVE BarsFollow
  <2> USE <1>1 DEF IInv
  <2>1. TypeOK
    <3>1. ASSUME NEW m \in Menus
          PROVE  /\ menu[m].state \in {"absent", "alive", "deleted"}
                 /\ menu[m].items \in Seq([cmd : Commands, sub : Menus \cup {None}])
                 /\ Len(menu[m].items) <= MaxItems
      BY DEF MenuTypes, MenuRecord, Items
    <3>2. ASSUME NEW w \in Windows
          PROVE  /\ win[w] \in {"absent", "open", "closed", "deleted"}
                 /\ \A d \in DOMAIN bar[w] : bar[w][d].model \in Menus
                 /\ bar[w] # <<>> => win[w] \in {"open", "closed"}
      <4>1. bar[w] \in Seq(Level)
        BY DEF MenuTypes
      <4>2. \A d \in DOMAIN bar[w] : bar[w][d] \in Level
        BY <4>1
      <4>3. QED
        BY <4>2 DEF MenuTypes, BarsInv, Level
    <3>3. live \subseteq Windows /\ registered \subseteq Windows
          /\ proxy \in {"none", "pending", "ready", "failed"}
      BY DEF RegistrarInv
    <3>4. app \in Menus \cup {None} /\ popup \in Menus \cup {None}
      BY DEF MenuTypes
    <3>5. QED
      BY <3>1, <3>2, <3>3, <3>4 DEF TypeOK
  <2>2. ApplicationMenuAlive /\ BarsShowApplicationMenu
    BY DEF BarsInv, ApplicationMenuAlive, BarsShowApplicationMenu, Alive
  <2>3. QED
    BY <2>1, <2>2 DEF BarsFollow
<1>2. IInv => BarsFollow
  BY <1>1
<1>3. QED
  BY <1>2, AlwaysIInv, PTL

\* A client that deletes no submenu before its menu, clears no menu on display,
\* makes no cycle and deletes no menu while it pops up finds every command where
\* the user saw it, and no pointer to a model leads into nothing.
THEOREM CarefulMenusAlwaysWork == Spec => []CarefulMenusWork
<1>1. IInv => CarefulMenusWork
  BY DEF IInv, MenuTypes, CarefulInv, CarefulMenusWork
<1>2. QED
  BY <1>1, AlwaysIInv, PTL

\* Whenever nothing is under way, the registrar knows exactly the windows that
\* have a bar, for any number of windows and of restarts.
THEOREM RegistrarAlwaysKnowsBars == Spec => []RegistrarKnowsBars
<1>1. ASSUME IInv PROVE RegistrarKnowsBars
  <2> USE <1>1 DEF IInv
  <2>1. SUFFICES ASSUME proxy = "ready", bus = <<>>, known = owner, owner # 0
                 PROVE  registered = {w \in Windows : bar[w] # <<>>}
    BY DEF RegistrarKnowsBars
  <2>2. \A w \in Windows : Learns(bus, registered, owner, w) <=> w \in registered
    BY <2>1 DEF Learns
  <2>3. QED
    BY <2>1, <2>2 DEF RegistrarInv
<1>2. IInv => RegistrarKnowsBars
  BY <1>1
<1>3. QED
  BY <1>2, AlwaysIInv, PTL
-----------------------------------------------------------------------------

(* What the operators that compose a chooser's End do to the record of the  *)
(* UI thread.                                                               *)

UI == [chooser : [Requests -> {"none", "live", "deleted"}],
       info : [Contents -> 0..MaxRequests],
       current : 0..MaxRequests, target : 0..MaxRequests,
       told : SUBSET Requests, received : SUBSET (Requests \X (0..MaxRequests)),
       ended : SUBSET Requests, nonUserChange : BOOLEAN, dangling : BOOLEAN]

LEMMA UseFields ==
  ASSUME NEW s \in UI, NEW r \in Requests, s.chooser[r] = "live"
  PROVE  Use(s, r) = s
<1>1. s = [s EXCEPT !.dangling = @]
  BY Zenon DEF UI
<1>2. (s.dangling \/ FALSE) = s.dangling
  BY DEF UI
<1>3. Use(s, r) = [s EXCEPT !.dangling = (s.dangling \/ FALSE)]
  BY DEF Use
<1>4. QED
  BY <1>1, <1>2, <1>3

LEMMA SilenceFields ==
  ASSUME NEW s \in UI, NEW r \in Requests
  PROVE  LET t == Silence(s, r)
         IN  /\ t \in UI
             /\ t.chooser = s.chooser /\ t.info = s.info
             /\ t.current = s.current
             /\ t.target = (IF s.target = r THEN Nobody ELSE s.target)
             /\ t.told = s.told \ {r}
             /\ t.received = s.received /\ t.ended = s.ended
             /\ t.nonUserChange = s.nonUserChange /\ t.dangling = s.dangling
<1>1. Nobody \in 0..MaxRequests
  BY ColorChoosersAssumption DEF Nobody
<1>2. (IF s.target = r THEN Nobody ELSE s.target) \in 0..MaxRequests
  BY <1>1 DEF UI
<1>3. s.told \ {r} \in SUBSET Requests
  BY DEF UI
<1>4. QED
  BY <1>2, <1>3, Zenon DEF Silence, UI

LEMMA DidEndFields ==
  ASSUME NEW s \in UI, NEW c \in Contents, NEW r \in Requests,
         s.info[c] = r
  PROVE  LET t == DidEndColorChooser(s, c)
         IN  /\ t \in UI
             /\ t.chooser = [s.chooser EXCEPT ![r] = "deleted"]
             /\ t.info = [s.info EXCEPT ![c] = Nobody]
             /\ t.current = s.current /\ t.target = s.target
             /\ t.told = s.told
             /\ t.received = s.received
             /\ t.nonUserChange = s.nonUserChange /\ t.dangling = s.dangling
<1>1. r # Nobody
  BY DEF Nobody, Requests
<1>2. DidEndColorChooser(s, c) =
        [s EXCEPT !.ended = @ \cup {r}, !.chooser[r] = "deleted",
                  !.info[c] = Nobody]
  BY <1>1 DEF DidEndColorChooser
<1>3. Nobody \in 0..MaxRequests
  BY ColorChoosersAssumption DEF Nobody
<1>4. s.ended \cup {r} \in SUBSET Requests
  BY DEF UI
<1>5. [s.chooser EXCEPT ![r] = "deleted"] \in [Requests -> {"none", "live", "deleted"}]
  BY DEF UI
<1>6. [s.info EXCEPT ![c] = Nobody] \in [Contents -> 0..MaxRequests]
  BY <1>3 DEF UI
<1>7. QED
  BY <1>2, <1>4, <1>5, <1>6, Zenon DEF UI

LEMMA EndFields ==
  ASSUME NEW s \in UI, NEW r \in Requests, s.chooser[r] = "live",
         page[r] \in Contents, s.info[page[r]] = r
  PROVE  LET t == End(s, r)
         IN  /\ t \in UI
             /\ t.chooser = [s.chooser EXCEPT ![r] = "deleted"]
             /\ t.info = [s.info EXCEPT ![page[r]] = Nobody]
             /\ t.current = (IF platform = "aura" THEN s.current ELSE Nobody)
             /\ t.target = (IF s.target = r THEN Nobody ELSE s.target)
             /\ t.told = s.told \ {r}
             /\ t.received = s.received
             /\ t.nonUserChange = s.nonUserChange /\ t.dangling = s.dangling
<1> DEFINE u == Silence(s, r)
           v == IF platform = "aura" THEN u ELSE [u EXCEPT !.current = Nobody]
<1>1. Use(s, r) = s
  BY UseFields
<1>2. /\ u \in UI
      /\ u.chooser = s.chooser /\ u.info = s.info
      /\ u.current = s.current
      /\ u.target = (IF s.target = r THEN Nobody ELSE s.target)
      /\ u.told = s.told \ {r}
      /\ u.received = s.received /\ u.ended = s.ended
      /\ u.nonUserChange = s.nonUserChange /\ u.dangling = s.dangling
  BY SilenceFields
<1>3. End(s, r) = DidEndColorChooser(v, page[r])
  BY <1>1 DEF End
<1> HIDE DEF u
<1>4. Nobody \in 0..MaxRequests
  BY ColorChoosersAssumption DEF Nobody
<1>5. /\ v \in UI
      /\ v.chooser = u.chooser /\ v.info = u.info
      /\ v.current = (IF platform = "aura" THEN u.current ELSE Nobody)
      /\ v.target = u.target /\ v.told = u.told
      /\ v.received = u.received
      /\ v.nonUserChange = u.nonUserChange /\ v.dangling = u.dangling
  BY <1>2, <1>4, Zenon DEF UI
<1> HIDE DEF v
<1>6. LET t == DidEndColorChooser(v, page[r])
      IN  /\ t \in UI
          /\ t.chooser = [v.chooser EXCEPT ![r] = "deleted"]
          /\ t.info = [v.info EXCEPT ![page[r]] = Nobody]
          /\ t.current = v.current /\ t.target = v.target
          /\ t.told = v.told
          /\ t.received = v.received
          /\ t.nonUserChange = v.nonUserChange /\ t.dangling = v.dangling
  BY <1>2, <1>5, DidEndFields
<1>7. QED
  BY <1>2, <1>3, <1>5, <1>6

-----------------------------------------------------------------------------
(* The inductive invariant.  Its first part is about the record of the UI   *)
(* thread, for which it is stated of any record: End and the others are     *)
(* applied to intermediate ones.                                            *)

\* The pointers: none is to a deleted chooser.
PointersOf(s) ==
  /\ s.dangling = FALSE
  /\ \A r \in s.told : s.chooser[r] = "live"
  /\ s.target # Nobody => s.target \in s.told
  /\ s.current # Nobody => s.chooser[s.current] = "live"

\* A live chooser and the web contents that owns it name each other.
OwnersOf(s, pages, living) ==
  /\ \A r \in Requests : s.chooser[r] = "live" =>
       pages[r] \in living /\ s.info[pages[r]] = r
  /\ \A c \in Contents : s.info[c] # Nobody =>
       s.chooser[s.info[c]] = "live" /\ pages[s.info[c]] = c

\* Without a widget for each there is one chooser, the current one; the panel
\* belongs to OS X.
PlatformOf(s) ==
  /\ platform # "aura" => \A r \in Requests : s.chooser[r] = "live" => s.current = r
  /\ platform = "aura" => s.current = Nobody
  /\ platform # "mac" => s.target = Nobody /\ s.nonUserChange = FALSE

Sound(s, pages, living) ==
  s \in UI /\ PointersOf(s) /\ OwnersOf(s, pages, living) /\ PlatformOf(s)

\* Requests are made in order; one not made has no chooser and no dialog.
MadeInOrder ==
  \A r \in Requests :
    /\ page[r] = Nobody => ui.chooser[r] = "none" /\ dialog[r] = "none"
    /\ page[r] = Nobody => \A q \in Requests : q > r => page[q] = Nobody

\* What a dialog says is what the user did in it, and the panel of OS X is on
\* the screen for one request, the one whose chooser it reports to.
DialogsHonest ==
  /\ \A r \in Requests : dialog[r] = "chosen" => r \in picked
  /\ \A r \in Requests : dialog[r] \in {"chosen", "cancelled"} => platform = "win"
  /\ platform = "mac" =>
       /\ \A r, q \in Requests :
            dialog[r] = "showing" /\ dialog[q] = "showing" => r = q
       /\ ui.target # Nobody => dialog[ui.target] = "showing"

\* The panel of OS X shows the program's colour or the one picked for the
\* request it reports to; unless reports crossed, at most one is on its way,
\* and the flag is there for the one that would report the program's colour.
PanelHonest ==
  /\ panel \in [shown : 0..MaxRequests, reports : 0..MaxReports, crossed : BOOLEAN]
  /\ platform # "mac" => panel.reports = 0
  /\ ui.target # Nobody /\ panel.shown # Nobody =>
       panel.shown = ui.target /\ ui.target \in picked
  /\ panel.crossed = FALSE =>
       /\ panel.reports < 2
       /\ panel.reports = 1 /\ panel.shown = Nobody /\ ui.target # Nobody =>
            ui.nonUserChange = TRUE

\* Dialogs of Windows that never overlap hand their custom colours on through
\* g_custom_colors; the other platforms have none.
ColoursHandedOn ==
  IF platform = "win"
  THEN \/ overlapped = TRUE
       \/ /\ \A r, q \in Requests :
               q > r /\ dialog[q] # "none" =>
                 /\ dialog[r] \in {"none", "gone"}
                 /\ dialog[r] = "gone" => custom[r] \subseteq custom[q]
          /\ \A r \in Requests : dialog[r] = "gone" => custom[r] \subseteq custom[0]
  ELSE \A r \in 0..MaxRequests : custom[r] = {}

ChooserInv ==
  /\ platform \in Platforms /\ alive \subseteq Contents
  /\ page \in [Requests -> Contents \cup {Nobody}]
  /\ dialog \in [Requests -> {"none", "showing", "chosen", "cancelled", "gone"}]
  /\ picked \subseteq Requests
  /\ custom \in [0..MaxRequests -> SUBSET Requests]
  /\ overlapped \in BOOLEAN
  /\ Sound(ui, page, alive)
  /\ MadeInOrder /\ DialogsHonest /\ ColoursHandedOn
  /\ PanelHonest /\ ColoursReachTheirPage

LEMMA Zero == Nobody \in 0..MaxRequests /\ Nobody \notin Requests /\ Nobody = 0
BY ColorChoosersAssumption DEF Nobody, Requests

-----------------------------------------------------------------------------
(* What the choosers do to a sound record. *)

LEMMA EndSound ==
  ASSUME platform \in Platforms, alive \subseteq Contents,
         NEW s, Sound(s, page, alive),
         NEW r \in Requests, s.chooser[r] = "live"
  PROVE  /\ Sound(End(s, r), page, alive)
         /\ Sound(End(s, r), page, alive \ {page[r]})
         /\ End(s, r).chooser = [s.chooser EXCEPT ![r] = "deleted"]
         /\ End(s, r).info = [s.info EXCEPT ![page[r]] = Nobody]
         /\ End(s, r).target = (IF s.target = r THEN Nobody ELSE s.target)
         /\ End(s, r).told = s.told \ {r}
         /\ End(s, r).received = s.received
         /\ End(s, r).nonUserChange = s.nonUserChange
<1> DEFINE t == End(s, r)
<1>1. s \in UI /\ page[r] \in alive /\ page[r] \in Contents /\ s.info[page[r]] = r
  BY DEF Sound, OwnersOf
<1>2. /\ t \in UI
      /\ t.chooser = [s.chooser EXCEPT ![r] = "deleted"]
      /\ t.info = [s.info EXCEPT ![page[r]] = Nobody]
      /\ t.current = (IF platform = "aura" THEN s.current ELSE Nobody)
      /\ t.target = (IF s.target = r THEN Nobody ELSE s.target)
      /\ t.told = s.told \ {r}
      /\ t.received = s.received
      /\ t.nonUserChange = s.nonUserChange /\ t.dangling = s.dangling
  BY <1>1, EndFields
<1> HIDE DEF t
<1>3. /\ s.chooser \in [Requests -> {"none", "live", "deleted"}]
      /\ s.info \in [Contents -> 0..MaxRequests]
      /\ s.told \subseteq Requests
  BY <1>1 DEF UI
<1>4. PointersOf(t)
  BY <1>2, <1>3, Zero DEF Sound, PointersOf, PlatformOf
<1>5. OwnersOf(t, page, alive) /\ OwnersOf(t, page, alive \ {page[r]})
  BY <1>1, <1>2, <1>3, Zero DEF Sound, OwnersOf
<1>6. PlatformOf(t)
  BY <1>2, <1>3, Zero DEF Sound, PlatformOf
<1>7. QED
  BY <1>2, <1>4, <1>5, <1>6 DEF Sound, t

LEMMA ChosenSound ==
  ASSUME NEW s, Sound(s, page, alive), alive \subseteq Contents,
         NEW r \in Requests, s.chooser[r] = "live", NEW colour \in 0..MaxRequests
  PROVE  LET t == OnColorChosen(s, r, colour)
         IN  /\ Sound(t, page, alive)
             /\ t.chooser = s.chooser /\ t.info = s.info
             /\ t.target = s.target /\ t.told = s.told
             /\ t.nonUserChange = s.nonUserChange
             /\ t.received = s.received \cup {<<r, colour>>}
<1> DEFINE t == [s EXCEPT !.received = @ \cup {<<r, colour>>}]
<1>1. s \in UI /\ page[r] \in Contents /\ s.info[page[r]] = r
  BY DEF Sound, OwnersOf
<1>2. OnColorChosen(s, r, colour) = t
  BY <1>1, UseFields, Zero DEF OnColorChosen, DidChooseColor
<1>3. s.received \cup {<<r, colour>>} \in SUBSET (Requests \X (0..MaxRequests))
  BY <1>1 DEF UI
<1>4. /\ t \in UI
      /\ t.chooser = s.chooser /\ t.info = s.info
      /\ t.current = s.current /\ t.target = s.target
      /\ t.told = s.told /\ t.received = s.received \cup {<<r, colour>>}
      /\ t.nonUserChange = s.nonUserChange /\ t.dangling = s.dangling
  BY <1>1, <1>3, Zenon DEF UI
<1> HIDE DEF t
<1>5. Sound(t, page, alive)
  BY <1>4 DEF Sound, PointersOf, OwnersOf, PlatformOf
<1>6. QED
  BY <1>2, <1>4, <1>5

LEMMA EchoSound ==
  ASSUME NEW s, Sound(s, page, alive), NEW e \in BOOLEAN,
         platform # "mac" => e = FALSE
  PROVE  LET t == [s EXCEPT !.nonUserChange = e]
         IN  /\ Sound(t, page, alive)
             /\ t.chooser = s.chooser /\ t.info = s.info
             /\ t.target = s.target /\ t.told = s.told
             /\ t.received = s.received /\ t.nonUserChange = e
<1> DEFINE t == [s EXCEPT !.nonUserChange = e]
<1>1. s \in UI
  BY DEF Sound
<1>2. /\ t \in UI
      /\ t.chooser = s.chooser /\ t.info = s.info
      /\ t.current = s.current /\ t.target = s.target
      /\ t.told = s.told /\ t.received = s.received
      /\ t.nonUserChange = e /\ t.dangling = s.dangling
  BY <1>1, Zenon DEF UI
<1> HIDE DEF t
<1>3. Sound(t, page, alive)
  BY <1>2 DEF Sound, PointersOf, OwnersOf, PlatformOf
<1>4. QED
  BY <1>2, <1>3 DEF t

LEMMA NewFields ==
  ASSUME NEW s \in UI, NEW r \in Requests
  PROVE  LET t == NewChooser(s, r)
         IN  /\ t \in UI
             /\ t.chooser = [s.chooser EXCEPT ![r] = "live"]
             /\ t.info = s.info
             /\ t.current = (IF platform = "aura" THEN s.current ELSE r)
             /\ t.target = (IF platform = "mac" THEN r ELSE s.target)
             /\ t.told = s.told \cup {r}
             /\ t.received = s.received
             /\ t.nonUserChange = (platform = "mac") /\ t.dangling = s.dangling
<1>1. r \in 0..MaxRequests
  BY ColorChoosersAssumption DEF Requests
<1>2. /\ (IF platform = "aura" THEN s.current ELSE r) \in 0..MaxRequests
      /\ (IF platform = "mac" THEN r ELSE s.target) \in 0..MaxRequests
      /\ s.told \cup {r} \in SUBSET Requests
      /\ (platform = "mac") \in BOOLEAN
      /\ [s.chooser EXCEPT ![r] = "live"] \in [Requests -> {"none", "live", "deleted"}]
  BY <1>1 DEF UI
<1>3. QED
  BY <1>2, Zenon DEF NewChooser, UI

\* The state in which a new chooser has been made and the one that its web
\* contents owned has been ended: the chooser has no owner yet.
LEMMA OpenedFields ==
  ASSUME platform \in Platforms, alive \subseteq Contents,
         Sound(ui, page, alive), ~Refused,
         NEW c \in alive, NEW r \in Requests, ui.chooser[r] = "none"
  PROVE  LET m == MakeRoom(ui)
             s == NewChooser(m, r)
             t == IF s.info[c] = Nobody THEN s ELSE End(s, s.info[c])
         IN  /\ t \in UI /\ t.dangling = FALSE
             /\ t.received = ui.received
             /\ t.chooser[r] = "live"
             /\ \A q \in Requests \ {r} : ui.chooser[q] = "none" => t.chooser[q] = "none"
             /\ \A q \in Requests \ {r} :
                  t.chooser[q] = "live" <=> m.chooser[q] = "live" /\ page[q] # c
             /\ \A d \in Contents \ {c} : t.info[d] = m.info[d]
             /\ \A q \in t.told \ {r} : q \in m.told /\ page[q] # c
             /\ r \in t.told
             /\ t.current = (IF platform = "aura" THEN Nobody ELSE r)
             /\ t.target = (IF platform = "mac" THEN r ELSE Nobody)
             /\ t.nonUserChange = (platform = "mac")
             /\ Sound(m, page, alive) /\ m.chooser[r] = "none"
             /\ platform # "aura" => \A q \in Requests : m.chooser[q] # "live"
<1> DEFINE m == MakeRoom(ui)
           s == NewChooser(m, r)
           t == IF s.info[c] = Nobody THEN s ELSE End(s, s.info[c])
<1>1. /\ Sound(m, page, alive) /\ m.chooser[r] = "none"
      /\ m.received = ui.received
      /\ \A q \in Requests : ui.chooser[q] = "none" => m.chooser[q] = "none"
      /\ platform # "aura" => \A q \in Requests : m.chooser[q] # "live"
  <2>1. CASE platform = "mac" /\ ui.current # Nobody
    <3>1. ui.current \in Requests /\ ui.chooser[ui.current] = "live"
      BY <2>1, Zero DEF Sound, PointersOf, UI, Requests
    <3>2. m = End(ui, ui.current)
      BY <2>1 DEF MakeRoom
    <3> DEFINE o == ui.current
    <3> HIDE DEF o, m
    <3>a. o \in Requests /\ ui.chooser[o] = "live"
      BY <3>1 DEF o
    <3>b. /\ Sound(End(ui, o), page, alive)
          /\ End(ui, o).chooser = [ui.chooser EXCEPT ![o] = "deleted"]
          /\ End(ui, o).received = ui.received
      BY <3>a, EndSound
    <3>3. /\ Sound(m, page, alive)
          /\ m.chooser = [ui.chooser EXCEPT ![ui.current] = "deleted"]
          /\ m.received = ui.received
      BY <3>2, <3>b DEF o
    <3>4. ui.chooser \in [Requests -> {"none", "live", "deleted"}]
      BY DEF Sound, UI
    <3>5. platform # "aura" => \A q \in Requests : m.chooser[q] # "live"
      BY <3>1, <3>3, <3>4 DEF Sound, PlatformOf
    <3>6. QED
      BY <3>1, <3>3, <3>4, <3>5
  <2>2. CASE ~(platform = "mac" /\ ui.current # Nobody)
    <3>1. m = ui
      BY <2>2 DEF MakeRoom
    <3>2. platform # "aura" => ui.current = Nobody
      BY <2>2, ColorChoosersAssumption DEF Refused
    <3>3. QED
      BY <3>1, <3>2, Zero DEF Sound, PlatformOf
  <2>3. QED
    BY <2>1, <2>2
<1> HIDE DEF m
<1>2. m \in UI /\ m.dangling = FALSE
  BY <1>1 DEF Sound, PointersOf
<1>3. /\ s \in UI
      /\ s.chooser = [m.chooser EXCEPT ![r] = "live"]
      /\ s.info = m.info
      /\ s.current = (IF platform = "aura" THEN m.current ELSE r)
      /\ s.target = (IF platform = "mac" THEN r ELSE m.target)
      /\ s.told = m.told \cup {r}
      /\ s.received = m.received
      /\ s.nonUserChange = (platform = "mac") /\ s.dangling = m.dangling
  BY <1>2, NewFields
<1> HIDE DEF s
<1>4. /\ m.chooser \in [Requests -> {"none", "live", "deleted"}]
      /\ m.info \in [Contents -> 0..MaxRequests]
      /\ m.told \subseteq Requests
  BY <1>2 DEF UI
<1>5. /\ s.current = (IF platform = "aura" THEN Nobody ELSE r)
      /\ s.target = (IF platform = "mac" THEN r ELSE Nobody)
  BY <1>1, <1>3 DEF Sound, PlatformOf
<1>6. CASE s.info[c] = Nobody
  <2>1. t = s
    BY <1>6
  <2>2. \A q \in Requests : m.chooser[q] = "live" => page[q] # c
    BY <1>1, <1>3, <1>6, Zero DEF Sound, OwnersOf
  <2>3. \A q \in m.told : m.chooser[q] = "live"
    BY <1>1 DEF Sound, PointersOf
  <2>4. QED
    BY <1>1, <1>2, <1>3, <1>4, <1>5, <2>1, <2>2, <2>3 DEF s, m
<1>7. CASE s.info[c] # Nobody
  <2> DEFINE o == s.info[c]
  <2>1. /\ o \in Requests /\ m.chooser[o] = "live" /\ page[o] = c
        /\ m.info[c] = o /\ o # r
    BY <1>1, <1>3, <1>4, <1>7, Zero DEF Sound, OwnersOf, Requests
  <2>2. platform = "aura"
    BY <1>1, <2>1
  <2>3. t = End(s, o)
    BY <1>7
  <2>4. s.chooser[o] = "live" /\ page[o] \in Contents /\ s.info[page[o]] = o
    BY <1>3, <1>4, <2>1
  <2> HIDE DEF o
  <2>5. LET e == End(s, o)
        IN  /\ e \in UI
            /\ e.chooser = [s.chooser EXCEPT ![o] = "deleted"]
            /\ e.info = [s.info EXCEPT ![page[o]] = Nobody]
            /\ e.current = (IF platform = "aura" THEN s.current ELSE Nobody)
            /\ e.target = (IF s.target = o THEN Nobody ELSE s.target)
            /\ e.told = s.told \ {o}
            /\ e.received = s.received
            /\ e.nonUserChange = s.nonUserChange /\ e.dangling = s.dangling
    BY <1>3, <2>1, <2>4, EndFields
  <2>6. \A q \in Requests : m.chooser[q] = "live" /\ page[q] = c => q = o
    BY <1>1, <2>1 DEF Sound, OwnersOf
  <2>7. \A q \in m.told : m.chooser[q] = "live"
    BY <1>1 DEF Sound, PointersOf
  <2> HIDE DEF t
  <2>8. /\ t \in UI /\ t.dangling = FALSE
        /\ t.received = ui.received
        /\ t.target = (IF platform = "mac" THEN r ELSE Nobody)
        /\ t.current = (IF platform = "aura" THEN Nobody ELSE r)
        /\ t.nonUserChange = (platform = "mac")
    BY <1>1, <1>2, <1>3, <1>5, <2>1, <2>2, <2>3, <2>5, Zero
  <2>9. /\ t.chooser[r] = "live"
        /\ \A q \in Requests \ {r} : m.chooser[q] = "none" => t.chooser[q] = "none"
        /\ \A q \in Requests \ {r} :
             t.chooser[q] = "live" <=> m.chooser[q] = "live" /\ page[q] # c
    BY <1>3, <1>4, <2>1, <2>3, <2>5, <2>6
  <2>10. /\ \A d \in Contents \ {c} : t.info[d] = m.info[d]
         /\ \A q \in t.told \ {r} : q \in m.told /\ page[q] # c
         /\ r \in t.told
    BY <1>3, <1>4, <2>1, <2>3, <2>5, <2>6, <2>7
  <2>11. QED
    BY <1>1, <2>8, <2>9, <2>10 DEF t, s, m
<1>8. QED
  BY <1>6, <1>7

LEMMA OpenedSound ==
  ASSUME platform \in Platforms, alive \subseteq Contents,
         page \in [Requests -> Contents \cup {Nobody}],
         Sound(ui, page, alive), ~Refused,
         NEW c \in alive, NEW r \in Requests,
         page[r] = Nobody, ui.chooser[r] = "none"
  PROVE  LET s == NewChooser(MakeRoom(ui), r)
             t == IF s.info[c] = Nobody THEN s ELSE End(s, s.info[c])
             u == [t EXCEPT !.info[c] = r]
         IN  /\ Sound(u, [page EXCEPT ![r] = c], alive)
             /\ u.chooser[r] # "none"
             /\ \A q \in Requests \ {r} : ui.chooser[q] = "none" => u.chooser[q] = "none"
             /\ u.received = ui.received
             /\ u.target = (IF platform = "mac" THEN r ELSE Nobody)
             /\ u.nonUserChange = (platform = "mac")
<1> DEFINE m == MakeRoom(ui)
           s == NewChooser(m, r)
           t == IF s.info[c] = Nobody THEN s ELSE End(s, s.info[c])
           u == [t EXCEPT !.info[c] = r]
           pages == [page EXCEPT ![r] = c]
<1> HIDE DEF m, t
<1>1. /\ t \in UI /\ t.dangling = FALSE
      /\ t.received = ui.received
      /\ t.chooser[r] = "live"
      /\ \A q \in Requests \ {r} : ui.chooser[q] = "none" => t.chooser[q] = "none"
      /\ \A q \in Requests \ {r} :
           t.chooser[q] = "live" <=> m.chooser[q] = "live" /\ page[q] # c
      /\ \A d \in Contents \ {c} : t.info[d] = m.info[d]
      /\ \A q \in t.told \ {r} : q \in m.told /\ page[q] # c
      /\ r \in t.told
      /\ t.current = (IF platform = "aura" THEN Nobody ELSE r)
      /\ t.target = (IF platform = "mac" THEN r ELSE Nobody)
      /\ t.nonUserChange = (platform = "mac")
      /\ Sound(m, page, alive) /\ m.chooser[r] = "none"
      /\ platform # "aura" => \A q \in Requests : m.chooser[q] # "live"
  BY OpenedFields DEF m, t
<1>2. r \in 0..MaxRequests /\ c \in Contents
  BY ColorChoosersAssumption DEF Requests
<1>3. [t.info EXCEPT ![c] = r] \in [Contents -> 0..MaxRequests]
  BY <1>1, <1>2 DEF UI
<1>4. /\ u \in UI
      /\ u.chooser = t.chooser /\ u.info = [t.info EXCEPT ![c] = r]
      /\ u.current = t.current /\ u.target = t.target
      /\ u.told = t.told /\ u.received = t.received
      /\ u.nonUserChange = t.nonUserChange /\ u.dangling = t.dangling
  BY <1>1, <1>3, Zenon DEF UI
<1> HIDE DEF u
<1>5. /\ t.chooser \in [Requests -> {"none", "live", "deleted"}]
      /\ t.info \in [Contents -> 0..MaxRequests]
      /\ m.info \in [Contents -> 0..MaxRequests]
      /\ t.told \subseteq Requests
  BY <1>1 DEF UI, Sound
<1>6. PointersOf(u)
  BY <1>1, <1>4, <1>5, Zero DEF PointersOf, Sound
<1>7. OwnersOf(u, pages, alive)
  <2>1. ASSUME NEW q \in Requests, u.chooser[q] = "live"
        PROVE  pages[q] \in alive /\ u.info[pages[q]] = q
    <3>1. CASE q = r
      BY <1>2, <1>4, <1>5, <3>1
    <3>2. CASE q # r
      BY <1>1, <1>2, <1>4, <1>5, <2>1, <3>2 DEF Sound, OwnersOf
    <3>3. QED
      BY <3>1, <3>2
  <2>2. ASSUME NEW d \in Contents, u.info[d] # Nobody
        PROVE  u.chooser[u.info[d]] = "live" /\ pages[u.info[d]] = d
    <3>1. CASE d = c
      BY <1>1, <1>2, <1>4, <1>5, <3>1
    <3>2. CASE d # c
      <4>1. u.info[d] = m.info[d] /\ m.info[d] # Nobody
        BY <1>1, <1>2, <1>4, <1>5, <2>2, <3>2
      <4>2. /\ m.info[d] \in Requests /\ m.chooser[m.info[d]] = "live"
            /\ page[m.info[d]] = d
        BY <1>1, <1>5, <4>1, Zero DEF Sound, OwnersOf, Requests
      <4>3. m.info[d] # r
        BY <1>1, <4>2
      <4>4. QED
        BY <1>1, <1>4, <3>2, <4>1, <4>2, <4>3
    <3>3. QED
      BY <3>1, <3>2
  <2>3. QED
    BY <2>1, <2>2 DEF OwnersOf
<1>8. PlatformOf(u)
  BY <1>1, <1>4, Zero DEF PlatformOf
<1> HIDE DEF pages
<1>9. Sound(u, pages, alive)
  BY <1>4, <1>6, <1>7, <1>8 DEF Sound
<1>10. /\ u.chooser[r] # "none" /\ u.received = ui.received
       /\ \A q \in Requests \ {r} : ui.chooser[q] = "none" => u.chooser[q] = "none"
       /\ u.target = (IF platform = "mac" THEN r ELSE Nobody)
       /\ u.nonUserChange = (platform = "mac")
  BY <1>1, <1>4
<1>11. QED
  BY <1>9, <1>10 DEF t, m, u, pages

-----------------------------------------------------------------------------
(* Each action preserves the invariant. *)

LEMMA InitChooserInv == ChooserInit => ChooserInv
<1> SUFFICES ASSUME ChooserInit PROVE ChooserInv
  OBVIOUS
<1>1. ui \in UI
  BY Zero DEF ChooserInit, UI
<1>2. /\ ui.chooser = [r \in Requests |-> "none"]
      /\ ui.info = [c \in Contents |-> Nobody]
      /\ ui.current = Nobody /\ ui.target = Nobody /\ ui.told = {}
      /\ ui.received = {} /\ ui.nonUserChange = FALSE /\ ui.dangling = FALSE
  BY DEF ChooserInit
<1>3. Sound(ui, page, alive)
  BY <1>1, <1>2, Zero DEF Sound, PointersOf, OwnersOf, PlatformOf
<1>4. /\ page = [r \in Requests |-> Nobody]
      /\ dialog = [r \in Requests |-> "none"]
      /\ custom = [r \in 0..MaxRequests |-> {}]
      /\ platform \in Platforms /\ alive = Contents
      /\ picked = {} /\ overlapped = FALSE
      /\ panel = [shown |-> Nobody, reports |-> 0, crossed |-> FALSE]
  BY DEF ChooserInit
<1>5. MadeInOrder /\ DialogsHonest
  BY <1>2, <1>4 DEF MadeInOrder, DialogsHonest
<1>6. ColoursHandedOn
  BY <1>4 DEF ColoursHandedOn
<1>7. PanelHonest /\ ColoursReachTheirPage
  BY <1>2, <1>4, Zero, ColorChoosersAssumption DEF PanelHonest, ColoursReachTheirPage
<1>8. QED
  BY <1>3, <1>4, <1>5, <1>6, <1>7 DEF ChooserInv

\* What a change by the program leaves of the panel.
LEMMA SetColorFields ==
  ASSUME panel \in [shown : 0..MaxRequests, reports : 0..MaxReports, crossed : BOOLEAN],
         NEW p \in SetColor(panel)
  PROVE  /\ p \in [shown : 0..MaxRequests, reports : 0..MaxReports, crossed : BOOLEAN]
         /\ p.shown = Nobody
         /\ panel.crossed = TRUE => p.crossed = TRUE
         /\ p.crossed = FALSE => p.reports < 2
<1>1. PICK n \in {panel.reports, panel.reports + 1} \cap (0..MaxReports) :
        p = [shown |-> Nobody, reports |-> n, crossed |-> panel.crossed \/ n > 1]
  BY DEF SetColor
<1>2. p.shown = Nobody /\ p.reports = n
  BY <1>1
<1>3. (panel.crossed \/ n > 1) \in BOOLEAN
  OBVIOUS
<1>4. p \in [shown : 0..MaxRequests, reports : 0..MaxReports, crossed : BOOLEAN]
  BY <1>1, <1>3, Zero
<1>5. p.crossed = (panel.crossed \/ n > 1)
  BY <1>1
<1>6. QED
  BY <1>2, <1>4, <1>5, ColorChoosersAssumption

LEMMA OpenStep ==
  ASSUME ChooserInv, NEW c \in Contents, OpenColorChooser(c)
  PROVE  ChooserInv'
<1> USE DEF ChooserInv
<1>1. PICK r \in Requests : OpenColorChooser(c)!(r)
  BY DEF OpenColorChooser
<1>2. /\ c \in alive /\ Made = 1..(r - 1)
      /\ page' = [page EXCEPT ![r] = c]
      /\ UNCHANGED <<platform, alive, picked>>
      /\ IF platform = "mac" THEN panel' \in SetColor(panel) ELSE UNCHANGED panel
  BY <1>1
<1>3. /\ page[r] = Nobody
      /\ \A q \in Requests : q < r => page[q] # Nobody
      /\ \A q \in Requests : q > r => page[q] = Nobody
  BY <1>2, ColorChoosersAssumption DEF Made, Requests
<1>4. /\ ui.chooser[r] = "none" /\ dialog[r] = "none"
      /\ \A q \in Requests : q > r => ui.chooser[q] = "none" /\ dialog[q] = "none"
  BY <1>3 DEF MadeInOrder
<1>5. page' \in [Requests -> Contents \cup {Nobody}]
  BY <1>2
<1>6. CASE Refused
  <2>1. UNCHANGED <<ui, dialog, custom, overlapped>>
    BY <1>1, <1>6
  <2>2. Sound(ui, page', alive)
    BY <1>2, <1>4 DEF Sound, OwnersOf
  <2>3. Sound(ui, page, alive)' /\ DialogsHonest' /\ ColoursHandedOn'
    BY <1>2, <2>1, <2>2
       DEF Sound, PointersOf, OwnersOf, PlatformOf, DialogsHonest, ColoursHandedOn
  <2>4. MadeInOrder'
    BY <1>2, <1>3, <1>4, <1>5, <2>1, Zero DEF MadeInOrder
  <2>5. UNCHANGED panel
    BY <1>2, <1>6 DEF Refused
  <2>6. PanelHonest' /\ ColoursReachTheirPage'
    BY <1>2, <2>1, <2>5 DEF PanelHonest, ColoursReachTheirPage
  <2>7. QED
    BY <1>2, <1>5, <2>1, <2>3, <2>4, <2>6
<1>7. CASE ~Refused
  <2> DEFINE s == NewChooser(MakeRoom(ui), r)
             t == IF s.info[c] = Nobody THEN s ELSE End(s, s.info[c])
             u == [t EXCEPT !.info[c] = r]
  <2>1. /\ ui' = u
        /\ dialog' = [d \in Requests |->
                        IF d = r THEN "showing"
                        ELSE IF dialog[d] = "showing" /\ Replaces(t, d)
                        THEN "gone" ELSE dialog[d]]
        /\ custom' = IF platform = "win"
                      THEN [custom EXCEPT ![r] = custom[0]] ELSE custom
        /\ overlapped' = (overlapped \/
             \E d \in Requests : dialog[d] \notin {"none", "gone"})
    BY <1>1, <1>7
  <2>2. /\ Sound(u, [page EXCEPT ![r] = c], alive)
        /\ u.chooser[r] # "none"
        /\ \A q \in Requests \ {r} : ui.chooser[q] = "none" => u.chooser[q] = "none"
        /\ u.received = ui.received
        /\ u.target = (IF platform = "mac" THEN r ELSE Nobody)
        /\ u.nonUserChange = (platform = "mac")
    <3>1. /\ platform \in Platforms /\ alive \subseteq Contents
          /\ page \in [Requests -> Contents \cup {Nobody}]
          /\ Sound(ui, page, alive)
      OBVIOUS
    <3> HIDE DEF ChooserInv
    <3>2. QED
      BY <1>2, <1>3, <1>4, <1>7, <3>1, OpenedSound
  <2> HIDE DEF t, u
  <2>3. Sound(ui, page, alive)'
    BY <1>2, <2>1, <2>2 DEF Sound, PointersOf, OwnersOf, PlatformOf
  <2>4. dialog' \in [Requests -> {"none", "showing", "chosen", "cancelled", "gone"}]
    BY <2>1
  <2>5. MadeInOrder'
    <3>1. \A q \in Requests : page'[q] = (IF q = r THEN c ELSE page[q])
      BY <1>2
    <3>2. ASSUME NEW q \in Requests, page'[q] = Nobody
          PROVE  /\ ui'.chooser[q] = "none" /\ dialog'[q] = "none"
                 /\ \A p \in Requests : p > q => page'[p] = Nobody
      <4>1. q # r /\ page[q] = Nobody
        BY <3>1, <3>2, ColorChoosersAssumption
      <4>2. ui.chooser[q] = "none" /\ dialog[q] = "none"
            /\ \A p \in Requests : p > q => page[p] = Nobody
        BY <4>1 DEF MadeInOrder
      <4>3. q > r
        BY <1>3, <4>1, Zero DEF Requests
      <4>4. \A p \in Requests : p > q => page'[p] = Nobody
        BY <3>1, <4>2, <4>3 DEF Requests
      <4>5. ui'.chooser[q] = "none"
        BY <2>1, <2>2, <4>1, <4>2
      <4>6. dialog'[q] = "none"
        BY <2>1, <4>1, <4>2
      <4>7. QED
        BY <4>4, <4>5, <4>6
    <3>3. QED
      BY <3>2 DEF MadeInOrder
  <2>6. DialogsHonest'
    BY <1>2, <2>1, <2>2, Zero DEF DialogsHonest, Replaces
  <2>7. r \in 0..MaxRequests /\ 0 \in 0..MaxRequests /\ r # 0 /\ Requests \subseteq 0..MaxRequests
    BY ColorChoosersAssumption DEF Requests
  <2>8. custom' \in [0..MaxRequests -> SUBSET Requests] /\ overlapped' \in BOOLEAN
    BY <2>1, <2>7
  <2>9. ColoursHandedOn'
    <3>1. CASE platform # "win"
      BY <1>2, <2>1, <3>1 DEF ColoursHandedOn
    <3>2. CASE platform = "win" /\ overlapped' = FALSE
      <4>1. /\ overlapped = FALSE
            /\ \A d \in Requests : dialog[d] \in {"none", "gone"}
        BY <2>1, <3>2
      <4>2. /\ \A d \in Requests \ {r} : dialog'[d] = dialog[d]
            /\ dialog'[r] = "showing"
        BY <2>1, <4>1
      <4>3. custom' = [custom EXCEPT ![r] = custom[0]]
        BY <2>1, <3>2
      <4>4. /\ custom'[r] = custom[0] /\ custom'[0] = custom[0]
            /\ \A q \in Requests \ {r} : custom'[q] = custom[q]
        BY <4>3, <2>7
      <4>5. ASSUME NEW p \in Requests, NEW q \in Requests, q > p, dialog'[q] # "none"
            PROVE  /\ dialog'[p] \in {"none", "gone"}
                   /\ dialog'[p] = "gone" => custom'[p] \subseteq custom'[q]
        <5>1. q \in 1..r /\ p # r
          BY <1>4, <4>2, <4>5 DEF Requests
        <5>2. dialog'[p] = dialog[p] /\ dialog[p] \in {"none", "gone"}
              /\ custom'[p] = custom[p]
          BY <4>1, <4>2, <4>4, <5>1
        <5>3. CASE q = r
          BY <3>2, <4>1, <4>4, <5>2, <5>3 DEF ColoursHandedOn
        <5>4. CASE q # r
          BY <3>2, <4>1, <4>2, <4>4, <4>5, <5>2, <5>4 DEF ColoursHandedOn
        <5>5. QED
          BY <5>2, <5>3, <5>4
      <4>6. \A d \in Requests : dialog'[d] = "gone" => custom'[d] \subseteq custom'[0]
        BY <3>2, <4>1, <4>2, <4>4 DEF ColoursHandedOn
      <4>7. QED
        BY <1>2, <3>2, <4>5, <4>6 DEF ColoursHandedOn
    <3>3. CASE platform = "win" /\ overlapped' = TRUE
      BY <1>2, <3>3 DEF ColoursHandedOn
    <3>4. QED
      BY <2>8, <3>1, <3>2, <3>3
  <2>10. PanelHonest' /\ ColoursReachTheirPage'
    <3>1. CASE platform = "mac"
      <4>1. panel' \in SetColor(panel)
        BY <1>2, <3>1
      <4>2. /\ panel' \in [shown : 0..MaxRequests, reports : 0..MaxReports, crossed : BOOLEAN]
            /\ panel'.shown = Nobody
            /\ panel.crossed = TRUE => panel'.crossed = TRUE
            /\ panel'.crossed = FALSE => panel'.reports < 2
        BY <4>1, SetColorFields DEF PanelHonest
      <4>3. ui'.nonUserChange = TRUE /\ ui'.received = ui.received
        BY <2>1, <2>2, <3>1
      <4>4. PanelHonest'
        BY <1>2, <3>1, <4>2, <4>3 DEF PanelHonest
      <4>5. ColoursReachTheirPage'
        BY <1>2, <4>2, <4>3 DEF ColoursReachTheirPage, PanelHonest
      <4>6. QED
        BY <4>4, <4>5
    <3>2. CASE platform # "mac"
      BY <1>2, <2>1, <2>2, <3>2 DEF PanelHonest, ColoursReachTheirPage
    <3>3. QED
      BY <3>1, <3>2
  <2>11. QED
    BY <1>2, <1>5, <2>3, <2>4, <2>5, <2>6, <2>8, <2>9, <2>10
<1>8. QED
  BY <1>6, <1>7

LEMMA EndedStep ==
  ASSUME ChooserInv, NEW c \in Contents, EndedByContents(c),
         alive' = alive \/ alive' = alive \ {c}
  PROVE  ChooserInv'
<1> USE DEF ChooserInv
<1>1. UNCHANGED <<platform, page, panel, picked, custom, overlapped>>
  BY DEF EndedByContents
<1>2. CASE ui.info[c] = Nobody
  <2>1. UNCHANGED <<ui, dialog>>
    BY <1>2 DEF EndedByContents
  <2>2. Sound(ui, page, alive')
    BY <1>2, Zero DEF Sound, OwnersOf
  <2>3. QED
    BY <1>1, <2>1, <2>2 DEF Sound, PointersOf, OwnersOf, PlatformOf,
         MadeInOrder, DialogsHonest, ColoursHandedOn, PanelHonest,
         ColoursReachTheirPage
<1>3. CASE ui.info[c] # Nobody
  <2> DEFINE o == ui.info[c]
  <2>1. ui \in UI
    BY DEF Sound
  <2>2. o \in Requests /\ ui.chooser[o] = "live" /\ page[o] = c
    BY <1>3, <2>1, Zero DEF Sound, OwnersOf, UI, Requests
  <2>3. /\ ui' = End(ui, o)
        /\ dialog' = IF platform # "aura" THEN dialog
                      ELSE [dialog EXCEPT ![o] = "gone"]
    BY <1>3 DEF EndedByContents
  <2> HIDE DEF o
  <2>4. /\ Sound(End(ui, o), page, alive)
        /\ Sound(End(ui, o), page, alive \ {page[o]})
        /\ End(ui, o).chooser = [ui.chooser EXCEPT ![o] = "deleted"]
        /\ End(ui, o).target = (IF ui.target = o THEN Nobody ELSE ui.target)
        /\ End(ui, o).received = ui.received
        /\ End(ui, o).nonUserChange = ui.nonUserChange
    BY <2>2, EndSound
  <2>5. /\ Sound(ui', page, alive') /\ ui'.received = ui.received
        /\ ui'.nonUserChange = ui.nonUserChange
        /\ ui'.target # Nobody => ui'.target = ui.target
    BY <2>2, <2>3, <2>4
  <2>6. Sound(ui, page, alive)'
    BY <1>1, <2>5 DEF Sound, PointersOf, OwnersOf, PlatformOf
  <2>7. ui.chooser \in [Requests -> {"none", "live", "deleted"}]
    BY <2>1 DEF UI
  <2>8. MadeInOrder'
    BY <1>1, <2>2, <2>3, <2>4, <2>7 DEF MadeInOrder
  <2>9. DialogsHonest'
    BY <1>1, <2>2, <2>3, <2>4 DEF DialogsHonest
  <2>10. dialog[o] \in {"none", "showing", "chosen", "cancelled", "gone"}
    BY <2>2
  <2>11. ColoursHandedOn'
    BY <1>1, <2>3 DEF ColoursHandedOn
  <2>12. PanelHonest' /\ ColoursReachTheirPage'
    BY <1>1, <2>5 DEF PanelHonest, ColoursReachTheirPage
  <2>13. QED
    BY <1>1, <2>2, <2>3, <2>6, <2>8, <2>9, <2>11, <2>12
<1>4. QED
  BY <1>2, <1>3

\* The steps that change only the record of the UI thread, the panel and what
\* was picked.
LEMMA UiStep ==
  ASSUME ChooserInv, UNCHANGED <<platform, alive, page, dialog, custom, overlapped>>,
         picked \subseteq picked', picked' \subseteq Requests,
         Sound(ui', page, alive), ui'.chooser = ui.chooser,
         ui'.target = ui.target, PanelHonest', ColoursReachTheirPage'
  PROVE  ChooserInv'
<1> USE DEF ChooserInv
<1>1. Sound(ui, page, alive)'
  BY DEF Sound, PointersOf, OwnersOf, PlatformOf
<1>2. MadeInOrder' /\ DialogsHonest' /\ ColoursHandedOn'
  BY DEF MadeInOrder, DialogsHonest, ColoursHandedOn
<1>3. QED
  BY <1>1, <1>2

LEMMA SetColorStep ==
  ASSUME ChooserInv, NEW c \in Contents, SetSelectedColor(c)
  PROVE  ChooserInv'
<1> DEFINE o == ui.info[c]
<1>1. /\ Sound(ui, page, alive) /\ ui \in UI /\ picked \subseteq Requests
      /\ PanelHonest /\ ColoursReachTheirPage
  BY DEF ChooserInv, Sound
<1>2. o \in Requests /\ ui.chooser[o] = "live" /\ platform = "mac"
  BY <1>1, Zero DEF SetSelectedColor, Sound, OwnersOf, UI, Requests
<1>3. ui' = [Use(ui, o) EXCEPT !.nonUserChange = TRUE] /\ panel' \in SetColor(panel)
  BY DEF SetSelectedColor
<1> HIDE DEF o
<1>4. ui' = [ui EXCEPT !.nonUserChange = TRUE]
  BY <1>1, <1>2, <1>3, UseFields
<1>5. LET t == [ui EXCEPT !.nonUserChange = TRUE]
      IN  /\ Sound(t, page, alive)
          /\ t.chooser = ui.chooser /\ t.info = ui.info
          /\ t.target = ui.target /\ t.told = ui.told
          /\ t.received = ui.received /\ t.nonUserChange = TRUE
  BY <1>1, <1>2, EchoSound
<1>6. /\ Sound(ui', page, alive) /\ ui'.chooser = ui.chooser
      /\ ui'.target = ui.target /\ ui'.received = ui.received
      /\ ui'.nonUserChange = TRUE
  BY <1>4, <1>5
<1>7. UNCHANGED <<platform, alive, page, dialog, picked, custom, overlapped>>
  BY DEF SetSelectedColor
<1>8. /\ panel' \in [shown : 0..MaxRequests, reports : 0..MaxReports, crossed : BOOLEAN]
      /\ panel'.shown = Nobody
      /\ panel.crossed = TRUE => panel'.crossed = TRUE
      /\ panel'.crossed = FALSE => panel'.reports < 2
  BY <1>1, <1>3, SetColorFields DEF PanelHonest
<1>9. PanelHonest'
  BY <1>2, <1>6, <1>7, <1>8 DEF PanelHonest
<1>10. ColoursReachTheirPage'
  BY <1>1, <1>6, <1>7, <1>8 DEF ColoursReachTheirPage, PanelHonest
<1>11. QED
  BY <1>1, <1>6, <1>7, <1>9, <1>10, UiStep

\* What a report of the panel does to the record of the UI thread.
LEMMA ReportFields ==
  ASSUME ChooserInv, NEW colour \in 0..MaxRequests, platform = "mac"
  PROVE  LET t == Report(ui, colour)
         IN  /\ Sound(t, page, alive)
             /\ t.chooser = ui.chooser /\ t.target = ui.target
             /\ \/ t.received = ui.received
                \/ /\ ui.target # Nobody /\ ui.nonUserChange = FALSE
                   /\ t.received = ui.received \cup {<<ui.target, colour>>}
<1> DEFINE t == Report(ui, colour)
<1>1. /\ Sound(ui, page, alive) /\ ui \in UI /\ PointersOf(ui)
      /\ alive \subseteq Contents
  BY DEF ChooserInv, Sound
<1>2. CASE ui.target = Nobody
  BY <1>1, <1>2 DEF Report
<1>3. CASE ui.target # Nobody /\ ui.nonUserChange = TRUE
  <2>1. t = [ui EXCEPT !.nonUserChange = FALSE]
    BY <1>3 DEF Report
  <2>2. LET e == [ui EXCEPT !.nonUserChange = FALSE]
        IN  /\ Sound(e, page, alive)
            /\ e.chooser = ui.chooser /\ e.info = ui.info
            /\ e.target = ui.target /\ e.told = ui.told
            /\ e.received = ui.received
    BY <1>1, EchoSound
  <2>3. QED
    BY <2>1, <2>2
<1>4. CASE ui.target # Nobody /\ ui.nonUserChange = FALSE
  <2> DEFINE o == ui.target
  <2>1. o \in Requests /\ ui.chooser[o] = "live"
    BY <1>1, <1>4 DEF PointersOf, UI
  <2>2. t = OnColorChosen(ui, o, colour)
    BY <1>4 DEF Report
  <2> HIDE DEF o, t
  <2>3. LET e == OnColorChosen(ui, o, colour)
        IN  /\ Sound(e, page, alive)
            /\ e.chooser = ui.chooser /\ e.info = ui.info
            /\ e.target = ui.target /\ e.told = ui.told
            /\ e.nonUserChange = ui.nonUserChange
            /\ e.received = ui.received \cup {<<o, colour>>}
    BY <1>1, <2>1, ChosenSound
  <2>4. QED
    BY <1>4, <2>2, <2>3 DEF o, t
<1>5. ui.nonUserChange \in BOOLEAN
  BY <1>1 DEF UI
<1>6. QED
  BY <1>2, <1>3, <1>4, <1>5

LEMMA PanelStep ==
  ASSUME ChooserInv, PanelEchoes
  PROVE  ChooserInv'
<1>1. /\ picked \subseteq Requests /\ PanelHonest /\ ColoursReachTheirPage
      /\ panel.shown \in 0..MaxRequests /\ panel.reports \in 0..MaxReports
      /\ panel.crossed \in BOOLEAN
  BY DEF ChooserInv, PanelHonest
<1>2. /\ panel.reports > 0 /\ panel' = [panel EXCEPT !.reports = @ - 1]
      /\ ui' = Report(ui, panel.shown)
      /\ UNCHANGED <<platform, alive, page, dialog, picked, custom, overlapped>>
  BY DEF PanelEchoes
<1>3. platform = "mac"
  BY <1>1, <1>2, ColorChoosersAssumption DEF PanelHonest
<1>4. /\ Sound(ui', page, alive)
      /\ ui'.chooser = ui.chooser /\ ui'.target = ui.target
      /\ \/ ui'.received = ui.received
         \/ /\ ui.target # Nobody /\ ui.nonUserChange = FALSE
            /\ ui'.received = ui.received \cup {<<ui.target, panel.shown>>}
  BY <1>1, <1>2, <1>3, ReportFields
<1>5. /\ panel' \in [shown : 0..MaxRequests, reports : 0..MaxReports, crossed : BOOLEAN]
      /\ panel'.shown = panel.shown /\ panel'.crossed = panel.crossed
      /\ panel'.reports = panel.reports - 1
  BY <1>1, <1>2, ColorChoosersAssumption DEF PanelHonest
<1>6. PanelHonest'
  BY <1>1, <1>2, <1>3, <1>4, <1>5, ColorChoosersAssumption DEF PanelHonest
<1>7. ColoursReachTheirPage'
  <2>1. CASE ui'.received = ui.received
    BY <1>1, <1>2, <1>5, <2>1 DEF ColoursReachTheirPage
  <2>2. CASE /\ ui.target # Nobody /\ ui.nonUserChange = FALSE
             /\ ui'.received = ui.received \cup {<<ui.target, panel.shown>>}
    <3>1. panel.shown # Nobody => panel.shown = ui.target /\ ui.target \in picked
      BY <1>1, <2>2 DEF PanelHonest
    <3>2. panel.shown = Nobody => panel.crossed = TRUE
      BY <1>1, <1>2, <2>2, ColorChoosersAssumption DEF PanelHonest
    <3>3. QED
      BY <1>1, <1>2, <1>5, <2>2, <3>1, <3>2 DEF ColoursReachTheirPage
  <2>3. QED
    BY <1>4, <2>1, <2>2
<1>8. QED
  BY <1>1, <1>2, <1>4, <1>6, <1>7, UiStep

LEMMA PickStep ==
  ASSUME ChooserInv, NEW r \in Requests, UserPicks(r)
  PROVE  ChooserInv'
<1>1. /\ Sound(ui, page, alive) /\ DialogsHonest /\ picked \subseteq Requests
      /\ ui \in UI /\ PointersOf(ui) /\ alive \subseteq Contents
      /\ PanelHonest /\ ColoursReachTheirPage
      /\ r \in 0..MaxRequests /\ r # Nobody
  BY Zero, ColorChoosersAssumption DEF ChooserInv, Sound, Requests
<1>2. /\ platform # "win" /\ dialog[r] = "showing" /\ picked' = picked \cup {r}
      /\ UNCHANGED <<platform, alive, page, dialog, custom, overlapped>>
      /\ panel' = IF platform = "mac" THEN [panel EXCEPT !.shown = r] ELSE panel
      /\ ui' = IF platform = "mac" THEN Report(ui, r)
               ELSE IF r \in ui.told THEN OnColorChosen(ui, r, r) ELSE ui
  BY DEF UserPicks, Showing
<1>3. /\ panel' \in [shown : 0..MaxRequests, reports : 0..MaxReports, crossed : BOOLEAN]
      /\ panel'.crossed = panel.crossed /\ panel'.reports = panel.reports
      /\ platform = "mac" => panel'.shown = r
  BY <1>1, <1>2 DEF PanelHonest
<1>4. platform = "mac" /\ ui.target # Nobody => ui.target = r
  <2>1. SUFFICES ASSUME platform = "mac", ui.target # Nobody
                 PROVE  ui.target = r
    OBVIOUS
  <2>2. ui.target \in Requests
    BY <1>1, <2>1 DEF PointersOf, UI
  <2>3. QED
    BY <1>1, <1>2, <2>1, <2>2 DEF DialogsHonest
<1>5. /\ Sound(ui', page, alive)
      /\ ui'.chooser = ui.chooser /\ ui'.target = ui.target
      /\ ui'.received \subseteq ui.received \cup {<<r, r>>}
  <2>1. CASE platform = "mac"
    <3>1. ui' = Report(ui, r)
      BY <1>2, <2>1
    <3>2. QED
      BY <1>1, <1>4, <2>1, <3>1, ReportFields
  <2>2. CASE platform # "mac" /\ r \in ui.told
    <3>1. ui' = OnColorChosen(ui, r, r) /\ ui.chooser[r] = "live"
      BY <1>1, <1>2, <2>2 DEF PointersOf
    <3>2. LET t == OnColorChosen(ui, r, r)
          IN  /\ Sound(t, page, alive)
              /\ t.chooser = ui.chooser /\ t.info = ui.info
              /\ t.target = ui.target /\ t.told = ui.told
              /\ t.nonUserChange = ui.nonUserChange
              /\ t.received = ui.received \cup {<<r, r>>}
      BY <1>1, <3>1, ChosenSound
    <3>3. QED
      BY <3>1, <3>2
  <2>3. CASE platform # "mac" /\ r \notin ui.told
    BY <1>1, <1>2, <2>3
  <2>4. QED
    BY <2>1, <2>2, <2>3
<1>6. PanelHonest'
  <2>1. CASE platform = "mac"
    BY <1>1, <1>2, <1>3, <1>4, <1>5, <2>1 DEF PanelHonest
  <2>2. CASE platform # "mac"
    <3>1. ui'.target = Nobody /\ panel' = panel
      BY <1>1, <1>2, <1>5, <2>2 DEF Sound, PlatformOf
    <3>2. QED
      BY <1>1, <1>2, <3>1 DEF PanelHonest
  <2>3. QED
    BY <2>1, <2>2
<1>7. ColoursReachTheirPage'
  BY <1>1, <1>2, <1>3, <1>5 DEF ColoursReachTheirPage
<1>8. QED
  BY <1>1, <1>2, <1>5, <1>6, <1>7, UiStep

LEMMA CloseStep ==
  ASSUME ChooserInv, NEW r \in Requests, UserCloses(r)
  PROVE  ChooserInv'
<1> USE DEF ChooserInv
<1>1. /\ platform # "win" /\ dialog[r] = "showing"
      /\ dialog' = [dialog EXCEPT ![r] = "gone"]
      /\ ui' = IF r \in ui.told THEN End([ui EXCEPT !.nonUserChange = FALSE], r) ELSE ui
      /\ UNCHANGED <<platform, alive, page, panel, picked, custom, overlapped>>
  BY DEF UserCloses, Showing
<1>2. ui \in UI /\ PointersOf(ui)
  BY DEF Sound
<1> DEFINE s == [ui EXCEPT !.nonUserChange = FALSE]
<1>3. /\ Sound(s, page, alive)
      /\ s.chooser = ui.chooser /\ s.info = ui.info
      /\ s.target = ui.target /\ s.told = ui.told
      /\ s.received = ui.received
  <2>1. LET t == [ui EXCEPT !.nonUserChange = FALSE]
        IN  /\ Sound(t, page, alive)
            /\ t.chooser = ui.chooser /\ t.info = ui.info
            /\ t.target = ui.target /\ t.told = ui.told
            /\ t.received = ui.received
    BY EchoSound
  <2>2. QED
    BY <2>1
<1> HIDE DEF s
<1>4. /\ Sound(ui', page, alive)
      /\ ui'.received = ui.received
      /\ \A q \in Requests : ui.chooser[q] = "none" => ui'.chooser[q] = "none"
      /\ ui'.target # Nobody => ui' = ui /\ ui.target # r
  <2>1. CASE r \in ui.told
    <3>1. ui' = End(s, r) /\ s.chooser[r] = "live"
      BY <1>1, <1>2, <1>3, <2>1 DEF s, PointersOf
    <3>2. /\ Sound(End(s, r), page, alive)
          /\ End(s, r).chooser = [s.chooser EXCEPT ![r] = "deleted"]
          /\ End(s, r).target = (IF s.target = r THEN Nobody ELSE s.target)
          /\ End(s, r).received = s.received
      BY <1>3, <3>1, EndSound
    <3>3. ui.chooser \in [Requests -> {"none", "live", "deleted"}]
      BY <1>2 DEF UI
    <3>4. ui.target # Nobody => ui.target = r
      BY <1>1, <1>2 DEF DialogsHonest, PointersOf, UI, Sound, PlatformOf
    <3>5. QED
      BY <1>3, <3>1, <3>2, <3>3, <3>4
  <2>2. CASE r \notin ui.told
    BY <1>1, <1>2, <2>2 DEF PointersOf
  <2>3. QED
    BY <2>1, <2>2
<1>5. Sound(ui, page, alive)'
  <2>1. PointersOf(ui)'
    BY <1>4 DEF Sound, PointersOf
  <2>2. OwnersOf(ui, page, alive)'
    BY <1>1, <1>4 DEF Sound, OwnersOf
  <2>3. PlatformOf(ui)'
    BY <1>1, <1>4 DEF Sound, PlatformOf
  <2>4. QED
    BY <1>4, <2>1, <2>2, <2>3 DEF Sound
<1>6. MadeInOrder'
  BY <1>1, <1>4 DEF MadeInOrder
<1>7. DialogsHonest'
  <2>1. ui'.target # Nobody => ui'.target \in Requests
    BY <1>4, <1>2 DEF PointersOf, UI
  <2>2. QED
    BY <1>1, <1>4, <2>1 DEF DialogsHonest
<1>8. ColoursHandedOn'
  BY <1>1 DEF ColoursHandedOn
<1>9. PanelHonest' /\ ColoursReachTheirPage'
  BY <1>1, <1>4 DEF PanelHonest, ColoursReachTheirPage
<1>10. QED
  BY <1>1, <1>5, <1>6, <1>7, <1>8, <1>9

LEMMA ExecuteOpenStep ==
  ASSUME ChooserInv, NEW r \in Requests, ExecuteOpen(r)
  PROVE  ChooserInv'
<1> USE DEF ChooserInv
<1>1. /\ platform = "win" /\ dialog[r] = "showing"
      /\ custom' \in {custom, [custom EXCEPT ![r] = @ \cup {r}]}
      /\ UNCHANGED <<platform, alive, page, ui, panel, overlapped>>
  BY DEF ExecuteOpen, Showing
<1>2. PICK chose \in BOOLEAN :
        /\ dialog' = [dialog EXCEPT ![r] = IF chose THEN "chosen" ELSE "cancelled"]
        /\ picked' = IF chose THEN picked \cup {r} ELSE picked
  BY DEF ExecuteOpen
<1>3. /\ dialog' \in [Requests -> {"none", "showing", "chosen", "cancelled", "gone"}]
      /\ dialog'[r] \in {"chosen", "cancelled"}
      /\ \A q \in Requests \ {r} : dialog'[q] = dialog[q]
      /\ dialog'[r] = "chosen" => r \in picked'
      /\ picked \subseteq picked' /\ picked' \subseteq Requests
  BY <1>2
<1>4. r \in 0..MaxRequests /\ r # 0 /\ Requests \subseteq 0..MaxRequests
  BY ColorChoosersAssumption DEF Requests
<1>5. /\ custom' \in [0..MaxRequests -> SUBSET Requests]
      /\ custom[r] \subseteq custom'[r]
      /\ \A q \in 0..MaxRequests : q # r => custom'[q] = custom[q]
      /\ custom'[0] = custom[0]
  <2>1. CASE custom' = custom
    BY <1>4, <2>1
  <2>2. CASE custom' = [custom EXCEPT ![r] = custom[r] \cup {r}]
    <3>1. custom[r] \cup {r} \in SUBSET Requests
      BY <1>4
    <3>2. 0 \in 0..MaxRequests
      BY <1>4, Zero
    <3>3. QED
      BY <1>4, <2>2, <3>1, <3>2
  <2>3. QED
    BY <1>1, <2>1, <2>2
<1>6. Sound(ui, page, alive)'
  BY <1>1 DEF Sound, PointersOf, OwnersOf, PlatformOf
<1>7. MadeInOrder'
  BY <1>1, <1>3 DEF MadeInOrder
<1>8. DialogsHonest'
  BY <1>1, <1>3 DEF DialogsHonest
<1>9. ColoursHandedOn'
  <2>1. CASE overlapped = TRUE
    BY <1>1, <2>1 DEF ColoursHandedOn
  <2>2. CASE overlapped = FALSE
    <3>1. ASSUME NEW p \in Requests, NEW q \in Requests, q > p, dialog'[q] # "none"
          PROVE  /\ dialog'[p] \in {"none", "gone"}
                 /\ dialog'[p] = "gone" => custom'[p] \subseteq custom'[q]
      <4>1. dialog[q] # "none"
        BY <1>1, <1>3, <3>1
      <4>2. /\ dialog[p] \in {"none", "gone"}
            /\ dialog[p] = "gone" => custom[p] \subseteq custom[q]
        BY <1>1, <2>2, <3>1, <4>1 DEF ColoursHandedOn
      <4>3. p # r /\ dialog'[p] = dialog[p] /\ custom'[p] = custom[p]
        BY <1>1, <1>3, <1>4, <1>5, <4>2
      <4>4. custom[q] \subseteq custom'[q]
        BY <1>4, <1>5
      <4>5. QED
        BY <4>2, <4>3, <4>4
    <3>2. \A p \in Requests : dialog'[p] = "gone" => custom'[p] \subseteq custom'[0]
      BY <1>1, <1>3, <1>4, <1>5, <2>2 DEF ColoursHandedOn
    <3>3. QED
      BY <1>1, <3>1, <3>2 DEF ColoursHandedOn
  <2>3. QED
    BY <2>1, <2>2
<1>10. PanelHonest' /\ ColoursReachTheirPage'
  BY <1>1, <1>3 DEF PanelHonest, ColoursReachTheirPage
<1>11. QED
  BY <1>1, <1>3, <1>5, <1>6, <1>7, <1>8, <1>9, <1>10

LEMMA DidCloseStep ==
  ASSUME ChooserInv, NEW r \in Requests, DidCloseDialog(r)
  PROVE  ChooserInv'
<1> USE DEF ChooserInv
<1> DEFINE s == IF dialog[r] = "chosen" THEN OnColorChosen(ui, r, r) ELSE ui
<1>1. /\ dialog[r] \in {"chosen", "cancelled"} /\ platform = "win"
      /\ dialog' = [dialog EXCEPT ![r] = "gone"]
      /\ custom' = [custom EXCEPT ![0] = custom[r]]
      /\ ui' = IF r \notin ui.told THEN ui ELSE End(s, r)
      /\ UNCHANGED <<platform, alive, page, panel, picked, overlapped>>
  BY DEF DidCloseDialog, DialogsHonest
<1>2. ui \in UI /\ PointersOf(ui) /\ platform # "mac"
  BY <1>1 DEF Sound
<1>3. /\ Sound(ui', page, alive)
      /\ \/ ui'.received = ui.received
         \/ ui'.received = ui.received \cup {<<r, r>>} /\ r \in picked
      /\ \A q \in Requests : ui.chooser[q] = "none" => ui'.chooser[q] = "none"
  <2>1. CASE r \in ui.told
    <3>1. ui.chooser[r] = "live" /\ r \in 0..MaxRequests
      BY <1>2, <2>1, ColorChoosersAssumption DEF PointersOf, Requests
    <3>2. LET t == OnColorChosen(ui, r, r)
          IN  /\ Sound(t, page, alive)
              /\ t.chooser = ui.chooser /\ t.info = ui.info
              /\ t.target = ui.target /\ t.told = ui.told
              /\ t.nonUserChange = ui.nonUserChange
              /\ t.received = ui.received \cup {<<r, r>>}
      BY <3>1, ChosenSound
    <3>3. /\ Sound(s, page, alive) /\ s.chooser = ui.chooser
          /\ \/ s.received = ui.received
             \/ s.received = ui.received \cup {<<r, r>>} /\ r \in picked
      BY <1>1, <3>2 DEF DialogsHonest
    <3> HIDE DEF s
    <3>4. s.chooser[r] = "live"
      BY <3>1, <3>3
    <3>5. /\ Sound(End(s, r), page, alive)
          /\ End(s, r).chooser = [s.chooser EXCEPT ![r] = "deleted"]
          /\ End(s, r).received = s.received
      BY <3>3, <3>4, EndSound
    <3>6. ui.chooser \in [Requests -> {"none", "live", "deleted"}]
      BY <1>2 DEF UI
    <3>7. QED
      BY <1>1, <2>1, <3>1, <3>3, <3>5, <3>6
  <2>2. CASE r \notin ui.told
    BY <1>1, <2>2 DEF DialogsHonest
  <2>3. QED
    BY <2>1, <2>2
<1> HIDE DEF s
<1>4. Sound(ui, page, alive)'
  BY <1>1, <1>3 DEF Sound, PointersOf, OwnersOf, PlatformOf
<1>5. MadeInOrder'
  BY <1>1, <1>3 DEF MadeInOrder
<1>6. DialogsHonest'
  BY <1>1, <1>3 DEF DialogsHonest
<1>7. r \in 0..MaxRequests /\ r # 0 /\ Requests \subseteq 0..MaxRequests /\ 0 \in 0..MaxRequests
  BY Zero, ColorChoosersAssumption DEF Requests
<1>8. /\ custom' \in [0..MaxRequests -> SUBSET Requests]
      /\ custom'[0] = custom[r]
      /\ \A q \in Requests : custom'[q] = custom[q]
  BY <1>1, <1>7, Zero
<1>9. /\ dialog'[r] = "gone"
      /\ \A q \in Requests \ {r} : dialog'[q] = dialog[q]
  BY <1>1
<1>10. ColoursHandedOn'
  <2>1. CASE overlapped = TRUE
    BY <1>1, <2>1 DEF ColoursHandedOn
  <2>2. CASE overlapped = FALSE
    <3>1. \A q \in Requests : q > r => dialog[q] = "none"
      BY <1>1, <2>2 DEF ColoursHandedOn
    <3>2. ASSUME NEW p \in Requests, NEW q \in Requests, q > p, dialog'[q] # "none"
          PROVE  /\ dialog'[p] \in {"none", "gone"}
                 /\ dialog'[p] = "gone" => custom'[p] \subseteq custom'[q]
      <4>1. dialog[q] # "none"
        BY <1>1, <1>9, <3>2
      <4>2. p # r
        BY <3>1, <3>2, <4>1
      <4>3. QED
        BY <1>1, <1>8, <1>9, <2>2, <3>2, <4>1, <4>2 DEF ColoursHandedOn
    <3>3. ASSUME NEW p \in Requests, dialog'[p] = "gone"
          PROVE  custom'[p] \subseteq custom'[0]
      <4>1. CASE p = r
        BY <1>8, <4>1
      <4>2. CASE p # r
        <5>1. dialog[p] = "gone"
          BY <1>9, <3>3, <4>2
        <5>2. r > p
          BY <3>1, <4>2, <5>1 DEF Requests
        <5>3. QED
          BY <1>1, <1>8, <2>2, <5>1, <5>2 DEF ColoursHandedOn
      <4>3. QED
        BY <4>1, <4>2
    <3>4. QED
      BY <1>1, <3>2, <3>3 DEF ColoursHandedOn
  <2>3. QED
    BY <2>1, <2>2
<1>11. PanelHonest' /\ ColoursReachTheirPage'
  <2>1. ui'.target = Nobody
    BY <1>1, <1>2, <1>3 DEF Sound, PlatformOf
  <2>2. PanelHonest'
    BY <1>1, <2>1 DEF PanelHonest
  <2>3. ColoursReachTheirPage'
    BY <1>1, <1>3 DEF ColoursReachTheirPage
  <2>4. QED
    BY <2>2, <2>3
<1>12. QED
  BY <1>1, <1>4, <1>5, <1>6, <1>8, <1>10, <1>11

LEMMA NextChooserInv ==
  ASSUME ChooserInv, [ChooserNext]_chooserVars
  PROVE  ChooserInv'
<1>1. ASSUME NEW c \in Contents, PageEnds(c)
      PROVE  ChooserInv'
  BY <1>1, EndedStep DEF PageEnds
<1>2. ASSUME NEW c \in Contents, ContentsDestroyed(c)
      PROVE  ChooserInv'
  BY <1>2, EndedStep DEF ContentsDestroyed
<1>3. ASSUME UNCHANGED chooserVars
      PROVE  ChooserInv'
  BY <1>3 DEF chooserVars, ChooserInv, Sound, PointersOf, OwnersOf, PlatformOf,
     MadeInOrder, DialogsHonest, ColoursHandedOn, PanelHonest, ColoursReachTheirPage
<1>4. QED
  BY <1>1, <1>2, <1>3, OpenStep, SetColorStep, PanelStep, PickStep, CloseStep,
     ExecuteOpenStep, DidCloseStep DEF ChooserNext

LEMMA AlwaysChooserInv == ChooserSpec => []ChooserInv
<1>1. ChooserInv /\ [ChooserNext]_chooserVars => ChooserInv'
  BY NextChooserInv
<1>2. QED
  BY <1>1, InitChooserInv, PTL DEF ChooserSpec

-----------------------------------------------------------------------------

\* Whatever the platform and however late a native dialog is answered, no
\* pointer is left to a deleted chooser (the static one, the panel's, those of
\* the dialogs and widgets), a live chooser is owned by the live web contents
\* that asked for it, and there is one, except on Aura.
THEOREM ChoosersAlwaysSound == ChooserSpec => []ChoosersSound
<1>1. ASSUME ChooserInv PROVE ChoosersSound
  <2> USE <1>1 DEF ChooserInv, Sound
  <2>1. ChooserTypeOK
    <3>1. /\ ui.chooser \in [Requests -> {"none", "live", "deleted"}]
          /\ ui.info \in [Contents -> 0..MaxRequests]
          /\ {ui.current, ui.target} \subseteq 0..MaxRequests
          /\ ui.told \subseteq Requests
          /\ ui.received \subseteq Requests \X (0..MaxRequests)
          /\ ui.ended \subseteq Requests /\ ui.nonUserChange \in BOOLEAN
          /\ ui.dangling \in BOOLEAN
      BY DEF UI
    <3>2. /\ UNION {ui.told, ui.ended, picked} \subseteq Requests
          /\ {ui.nonUserChange, ui.dangling, overlapped} \subseteq BOOLEAN
      BY <3>1
    <3>3. QED
      BY <3>1, <3>2, Zenon DEF ChooserTypeOK, PlatformOf, PanelHonest
  <2>2. PointersLive
    <3>1. ui.dangling = FALSE /\ ui.current \in 0..MaxRequests /\ ui.told \subseteq Requests
      BY DEF PointersOf, UI
    <3>2. ui.target # Nobody => ui.target \in Live(ui)
      BY <3>1 DEF PointersOf, Live
    <3>3. ui.current # Nobody => ui.current \in Live(ui)
      BY <3>1 DEF PointersOf, Live, Requests, Nobody
    <3>4. ui.told \subseteq Live(ui)
      BY <3>1 DEF PointersOf, Live
    <3>5. \A r \in Live(ui) : page[r] \in alive /\ ui.info[page[r]] = r
      BY DEF OwnersOf, Live
    <3>6. QED
      BY <3>1, <3>2, <3>3, <3>4, <3>5 DEF PointersLive
  <2>3. OneChooser
    <3>1. CASE platform = "aura"
      BY <3>1 DEF OneChooser, OwnersOf, Live
    <3>2. CASE platform # "aura"
      <4>1. ui.current \in 0..MaxRequests
        BY DEF UI
      <4>2. QED
        BY <3>2, <4>1, Zero DEF OneChooser, PlatformOf, PointersOf, Live, Requests, Nobody
    <3>3. QED
      BY <3>1, <3>2
  <2>4. QED
    BY <2>1, <2>2, <2>3 DEF ChoosersSound
<1>2. ChooserInv => ChoosersSound
  BY <1>1
<1>3. QED
  BY <1>2, AlwaysChooserInv, PTL

\* A page is given only colours picked for its own request or, once two reports
\* of the shared panel crossed, the program's own colour; and on Windows the
\* custom colours of dialogs that never overlapped reach the ones that follow.
THEOREM ColoursAlwaysKept == ChooserSpec => []ColoursKept
<1>1. ASSUME ChooserInv PROVE ColoursKept
  <2> USE <1>1 DEF ChooserInv
  <2>1. ColoursReachTheirPage
    OBVIOUS
  <2>2. CustomColoursKept
    <3>1. CASE platform = "win"
      BY <3>1 DEF ColoursHandedOn, CustomColoursKept
    <3>2. CASE platform # "win"
      <4>1. Requests \subseteq 0..MaxRequests
        BY ColorChoosersAssumption DEF Requests
      <4>2. QED
        BY <3>2, <4>1 DEF ColoursHandedOn, CustomColoursKept
    <3>3. QED
      BY <3>1, <3>2
  <2>3. QED
    BY <2>1, <2>2 DEF ColoursKept
<1>2. ChooserInv => ColoursKept
  BY <1>1
<1>3. QED
  BY <1>2, AlwaysChooserInv, PTL
-----------------------------------------------------------------------------
(***************************************************************************)
(* File choosers.  What a toolkit lets the user select is one entry or     *)
(* any number of them, of one kind.                                        *)
(***************************************************************************)
OfKind(dir, remote) == {e \in Entries : e.dir = dir /\ (remote \/ e.local)}

\* Without the flag for several entries one is selected.
LEMMA OneSelected ==
  ASSUME NEW dir \in BOOLEAN, NEW remote \in BOOLEAN
  PROVE  Selections({dir}, FALSE, remote) = {{e} : e \in OfKind(dir, remote)}
<1>1. ASSUME NEW S \in SUBSET Entries
      PROVE  S # {} /\ Cardinality(S) = 1 <=> \E e \in Entries : S = {e}
  <2>1. IsFiniteSet(S)
    BY EntriesAssumption, FS_Subset
  <2>2. Cardinality(S) = 1 <=> \E e : S = {e}
    BY <2>1, FS_Singleton
  <2>3. QED
    BY <2>2
<1>2. Selections({dir}, FALSE, remote)
        \subseteq {{e} : e \in OfKind(dir, remote)}
  BY <1>1 DEF Selections, OfKind
<1>3. ASSUME NEW e \in OfKind(dir, remote)
      PROVE  {e} \in Selections({dir}, FALSE, remote)
  <2>1. {e} \in SUBSET Entries /\ {e} # {} /\ Cardinality({e}) = 1
    BY <1>1 DEF OfKind
  <2>2. QED
    BY <2>1 DEF Selections, OfKind
<1>4. QED
  BY <1>2, <1>3

\* With it, any that are some.
LEMMA SeveralSelected ==
  ASSUME NEW dir \in BOOLEAN, NEW remote \in BOOLEAN
  PROVE  Selections({dir}, TRUE, remote) = (SUBSET OfKind(dir, remote)) \ {{}}
BY DEF Selections, OfKind

\* The flags of each mode, as the toolkits read them.
LEMMA FlagsOfModes ==
  /\ Flags("Open") = {"CREATE_DIRECTORY", "OPEN_FILE"}
  /\ Flags("OpenMultiple") = {"CREATE_DIRECTORY", "MULTI_SELECTIONS", "OPEN_FILE"}
  /\ Flags("UploadFolder") = {"CREATE_DIRECTORY", "OPEN_DIRECTORY"}
BY DEF Flags

\* What may be selected for a mode is what GTK and Windows let through, and on
\* OS X the same with entries that have no path.
Selectable(mode, remote) ==
  Selections({mode = "UploadFolder"}, mode = "OpenMultiple", remote)

LEMMA ToolkitOptions ==
  ASSUME NEW mode \in {"Open", "OpenMultiple", "UploadFolder"}
  PROVE  /\ GtkOptions(Flags(mode)) = Selectable(mode, FALSE)
         /\ WinOptions(Flags(mode)) = Selectable(mode, FALSE)
         /\ SetupDialogForProperties(Flags(mode)) = Selectable(mode, TRUE)
<1> DEFINE several == "MULTI_SELECTIONS" \in Flags(mode)
           folder  == "OPEN_DIRECTORY" \in Flags(mode)
           files   == "OPEN_FILE" \in Flags(mode)
<1>1. /\ several <=> mode = "OpenMultiple"
      /\ folder <=> mode = "UploadFolder"
      /\ files <=> mode # "UploadFolder"
  BY FlagsOfModes
<1>2. several \in BOOLEAN /\ folder \in BOOLEAN
  OBVIOUS
<1>3. {d \in BOOLEAN : IF d THEN folder ELSE files} = {mode = "UploadFolder"}
  BY <1>1
<1> HIDE DEF several, folder, files
<1>8. several = (mode = "OpenMultiple") /\ folder = (mode = "UploadFolder")
  BY <1>1, <1>2
<1>4. GtkOptions(Flags(mode)) = Selections({folder}, several, FALSE)
  BY Zenon DEF GtkOptions, folder, several
<1>5. WinOptions(Flags(mode)) = Selections({folder}, several, FALSE)
  BY Zenon DEF WinOptions, folder, several
<1>6. SetupDialogForProperties(Flags(mode)) =
        Selections({d \in BOOLEAN : IF d THEN folder ELSE files}, several, TRUE)
  BY Zenon DEF SetupDialogForProperties, folder, several, files
<1>7. QED
  BY <1>3, <1>4, <1>5, <1>6, <1>8, Zenon DEF Selectable

\* The answers: nothing, or what the mode means.
LEMMA AnswersWanted ==
  ASSUME NEW p \in {"gtk", "win", "mac"},
         NEW mode \in {"Open", "OpenMultiple", "UploadFolder"}
  PROVE  {{}} \cup ShowOpenDialog(p, Flags(mode)) = Wanted(mode)
<1> DEFINE dir == (mode = "UploadFolder")
           L == OfKind(dir, FALSE)
           R == OfKind(dir, TRUE)
<1>0. dir \in BOOLEAN
  OBVIOUS
<1>1. Wanted(mode) = {{}} \cup (IF mode = "OpenMultiple" THEN SUBSET L
                               ELSE {{e} : e \in L})
  <2>1. CASE mode = "Open"
    BY <2>1 DEF Wanted, OfKind
  <2>2. CASE mode = "OpenMultiple"
    BY <2>2 DEF Wanted, OfKind
  <2>3. CASE mode = "UploadFolder"
    BY <2>3 DEF Wanted, OfKind
  <2>4. QED
    BY <2>1, <2>2, <2>3
<1>2. L = {e \in R : e.local} /\ \A e \in L : e.local
  BY EntriesAssumption DEF OfKind
<1>3. Selectable(mode, FALSE) = IF mode = "OpenMultiple" THEN (SUBSET L) \ {{}}
                                ELSE {{e} : e \in L}
  <2>1. CASE mode = "OpenMultiple"
    <3>1. Selectable(mode, FALSE) = Selections({dir}, TRUE, FALSE)
      BY <2>1 DEF Selectable
    <3>2. QED
      BY <1>0, <2>1, <3>1, SeveralSelected
  <2>2. CASE mode # "OpenMultiple"
    <3>1. Selectable(mode, FALSE) = Selections({dir}, FALSE, FALSE)
      BY <2>2 DEF Selectable
    <3>2. QED
      BY <1>0, <2>2, <3>1, OneSelected
  <2>3. QED
    BY <2>1, <2>2
<1>4. Selectable(mode, TRUE) = IF mode = "OpenMultiple" THEN (SUBSET R) \ {{}}
                               ELSE {{e} : e \in R}
  <2>1. CASE mode = "OpenMultiple"
    <3>1. Selectable(mode, TRUE) = Selections({dir}, TRUE, TRUE)
      BY <2>1 DEF Selectable
    <3>2. QED
      BY <1>0, <2>1, <3>1, SeveralSelected
  <2>2. CASE mode # "OpenMultiple"
    <3>1. Selectable(mode, TRUE) = Selections({dir}, FALSE, TRUE)
      BY <2>2 DEF Selectable
    <3>2. QED
      BY <1>0, <2>2, <3>1, OneSelected
  <2>3. QED
    BY <2>1, <2>2
<1> HIDE DEF L, R
<1>9. {{}} \cup Selectable(mode, FALSE) = Wanted(mode)
  <2>1. CASE mode = "OpenMultiple"
    <3>1. Wanted(mode) = {{}} \cup SUBSET L /\ Selectable(mode, FALSE) = (SUBSET L) \ {{}}
      BY <1>1, <1>3, <2>1
    <3>2. QED
      BY <3>1
  <2>2. CASE mode # "OpenMultiple"
    BY <1>1, <1>3, <2>2
  <2>3. QED
    BY <2>1, <2>2
<1>5. CASE p = "gtk"
  <2>1. ShowOpenDialog(p, Flags(mode)) = Selectable(mode, FALSE)
    BY <1>5, ToolkitOptions DEF ShowOpenDialog
  <2>2. QED
    BY <1>9, <2>1
<1>6. CASE p = "win"
  <2>1. ShowOpenDialog(p, Flags(mode)) = {GetResults(S) : S \in Selectable(mode, FALSE)}
    BY <1>6, ToolkitOptions DEF ShowOpenDialog
  <2>2. \A S \in Selectable(mode, FALSE) : GetResults(S) = S
    <3>1. \A S \in Selectable(mode, FALSE) : S \subseteq L
      <4>1. CASE mode = "OpenMultiple"
        BY <1>3, <4>1
      <4>2. CASE mode # "OpenMultiple"
        <5>1. Selectable(mode, FALSE) = {{e} : e \in L}
          BY <1>3, <4>2
        <5>2. QED
          BY <5>1
      <4>3. QED
        BY <4>1, <4>2
    <3>2. QED
      BY <1>2, <3>1 DEF GetResults
  <2>3. ShowOpenDialog(p, Flags(mode)) = Selectable(mode, FALSE)
    BY <2>1, <2>2
  <2>4. QED
    BY <1>9, <2>3
<1>7. CASE p = "mac"
  <2>1. ShowOpenDialog(p, Flags(mode)) =
          {ReadDialogPaths(S) : S \in Selectable(mode, TRUE)}
    BY <1>7, ToolkitOptions DEF ShowOpenDialog
  <2>2. CASE mode = "OpenMultiple"
    <3>1. \A S \in SUBSET R : ReadDialogPaths(S) \in SUBSET L
      BY <1>2 DEF ReadDialogPaths
    <3>2. \A S \in SUBSET L : S \in SUBSET R /\ ReadDialogPaths(S) = S
      BY <1>2 DEF ReadDialogPaths
    <3>3. Wanted(mode) = {{}} \cup SUBSET L
      BY <1>1, <2>2
    <3>4. ShowOpenDialog(p, Flags(mode)) = {ReadDialogPaths(S) : S \in (SUBSET R) \ {{}}}
      BY <1>4, <2>1, <2>2
    <3>5. ShowOpenDialog(p, Flags(mode)) \subseteq SUBSET L
      BY <3>1, <3>4
    <3>6. ASSUME NEW S \in SUBSET L, S # {}
          PROVE  S \in ShowOpenDialog(p, Flags(mode))
      BY <3>2, <3>4, <3>6
    <3>7. QED
      BY <3>3, <3>5, <3>6
  <2>3. CASE mode # "OpenMultiple"
    <3>1. \A e \in R : ReadDialogPaths({e}) = IF e \in L THEN {e} ELSE {}
      BY <1>2 DEF ReadDialogPaths
    <3>2. L \subseteq R
      BY <1>2
    <3>3. ShowOpenDialog(p, Flags(mode)) = {ReadDialogPaths({e}) : e \in R}
      BY <1>4, <2>1, <2>3
    <3>4. QED
      BY <1>1, <2>3, <3>1, <3>2, <3>3
  <2>4. QED
    BY <2>2, <2>3
<1>8. QED
  BY <1>5, <1>6, <1>7

\* All three toolkits give a page what its mode means, and start where
\* StartsAsOnMac says.
LEMMA EveryToolkitFits == {"gtk", "win", "mac"} \subseteq Fitting
<1> SUFFICES ASSUME NEW p \in {"gtk", "win", "mac"} PROVE p \in Fitting
  OBVIOUS
<1>1. ASSUME NEW mode \in Modes PROVE RunFileChooser(p, mode) = Wanted(mode)
  <2>1. CASE mode = "Save"
    <3>1. ShowSaveDialog(p) \subseteq Wanted("Save")
      BY EntriesAssumption DEF ShowSaveDialog, Wanted
    <3>2. \A e \in Entries : ~e.dir /\ e.local => {e} \in ShowSaveDialog(p)
      BY DEF ShowSaveDialog
    <3>3. Wanted("Save") = {{}} \cup {{e} : e \in {x \in Entries : x.dir = FALSE /\ x.local}}
      BY DEF Wanted
    <3>4. Wanted("Save") \subseteq {{}} \cup ShowSaveDialog(p)
      BY EntriesAssumption, <3>2, <3>3
    <3>5. QED
      BY <2>1, <3>1, <3>3, <3>4 DEF RunFileChooser
  <2>2. CASE mode # "Save"
    BY <2>2, AnswersWanted DEF RunFileChooser, Modes
  <2>3. QED
    BY <2>1, <2>2
<1>2. ASSUME NEW path \in Paths
      PROVE  StartsAsOnMac(p, path)
  <2>1. \/ path.full = FALSE /\ path.leaf = "empty"
        \/ /\ path.full \in BOOLEAN
           /\ path.leaf \in {"folder", "file", "absent", "absentFolder"}
    BY <1>2 DEF Paths
  <2>2. \A folder, name : /\ Start(folder, name).folder = folder
                         /\ Start(folder, name).name = name
    BY DEF Start
  <2>3. CASE p = "gtk"
    BY <2>1, <2>2, <2>3 DEF StartsAsOnMac, GtkStart, MacStart, SetFilename, BaseName
  <2>4. CASE p = "win"
    BY <2>1, <2>2, <2>4
    DEF StartsAsOnMac, WinStart, MacStart, SetDefaultFolder, IsDirectory, BaseName
  <2>5. CASE p = "mac"
    BY <2>5 DEF StartsAsOnMac
  <2>6. QED
    BY <2>3, <2>4, <2>5
<1>3. QED
  BY <1>1, <1>2 DEF Fitting

\* Whatever is on the disk, on every platform a page is given what the mode it
\* asked for means, and proposed what the others propose or nothing.
THEOREM FilesAlwaysFit == ChooserSpec => []FilesFitTheMode
<1>1. ChooserInv => FilesFitTheMode
  BY EveryToolkitFits, ColorChoosersAssumption
  DEF ChooserInv, FilesFitTheMode, Toolkit
<1>2. QED
  BY <1>1, AlwaysChooserInv, PTL
-----------------------------------------------------------------------------
(* The accelerators.  A text with one key among its tokens is read turn by   *)
(* turn into what the set of its tokens says, whatever their order.          *)

\* The key that a token names and the modifiers that it adds.
KeyOf(t) == IF t.kind = "key" THEN t.key ELSE VKEY_F1 + t.n - 1

ModifiersOf(t) ==
  IF t.kind = "key" THEN (IF t.shifted THEN {"SHIFT"} ELSE {})
  ELSE IF t.kind = "modifier" THEN EF(t.name) ELSE {}

Accelerator(key, modifiers) == [ok |-> TRUE, key |-> key, modifiers |-> modifiers]

\* What the tokens T say together, k being the only key that may be in T.
Meaning(T, k) ==
  IF \E t \in T : t.kind = "invalid" THEN NoAccelerator
  ELSE Accelerator(IF k \in T THEN KeyOf(k) ELSE VKEY_UNKNOWN,
                   UNION {ModifiersOf(t) : t \in T})

FirstTokens(s, i) == {s[j] : j \in 1..i}

\* The loop over the tokens tells four kinds apart.
LEMMA KindsOfTokens ==
  ASSUME NEW t \in AllTokens
  PROVE  \/ t.kind = "key" /\ t.shifted \in BOOLEAN
         \/ t.kind = "modifier"
         \/ t.kind = "function"
         \/ t.kind = "invalid"
BY DEF AllTokens, Invalid

\* A turn of the loop, on what was read so far.
LEMMA TokenModifiersOf ==
  ASSUME NEW t \in AllTokens, NEW key, NEW modifiers
  PROVE  Token(Accelerator(key, modifiers), t) =
           IF t.kind = "invalid" THEN NoAccelerator
           ELSE Accelerator(IF IsKey(t) THEN KeyOf(t) ELSE key,
                            modifiers \union ModifiersOf(t))
<1> DEFINE a == Accelerator(key, modifiers)
<1>1. a.ok = TRUE /\ a.key = key /\ a.modifiers = modifiers
  BY DEF Accelerator
<1>2. ASSUME NEW k
      PROVE  [a EXCEPT !.key = k] = Accelerator(k, modifiers)
<2> DEFINE b == [a EXCEPT !.key = k]
<2>1. b \in [ok : {TRUE}, key : {k}, modifiers : {modifiers}]
  BY DEF Accelerator
<2> HIDE DEF b, a
<2>2. b = Accelerator(k, modifiers)
  BY <2>1 DEF Accelerator
<2>3. QED
  BY <2>2 DEF b
<1>3. ASSUME NEW m
      PROVE  [a EXCEPT !.modifiers = m] = Accelerator(key, m)
<2> DEFINE b == [a EXCEPT !.modifiers = m]
<2>1. b \in [ok : {TRUE}, key : {key}, modifiers : {m}]
  BY DEF Accelerator
<2> HIDE DEF b, a
<2>2. b = Accelerator(key, m)
  BY <2>1 DEF Accelerator
<2>3. QED
  BY <2>2 DEF b
<1>4. ASSUME NEW k, NEW m
      PROVE  [a EXCEPT !.key = k, !.modifiers = m] = Accelerator(k, m)
<2> DEFINE b == [a EXCEPT !.key = k, !.modifiers = m]
<2>1. b \in [ok : {TRUE}, key : {k}, modifiers : {m}]
  BY DEF Accelerator
<2> HIDE DEF b, a
<2>2. b = Accelerator(k, m)
  BY <2>1 DEF Accelerator
<2>3. QED
  BY <2>2 DEF b
<1>5. CASE t.kind = "key"
<2>1. Token(a, t) = [a EXCEPT !.key = t.key,
                !.modifiers = IF t.shifted THEN modifiers \cup {"SHIFT"}
                              ELSE modifiers]
  BY <1>1, <1>5 DEF Token
<2>2. (IF t.shifted THEN modifiers \cup {"SHIFT"} ELSE modifiers)
        = modifiers \union ModifiersOf(t)
<3>1. CASE t.shifted
  BY <1>5, <3>1 DEF ModifiersOf
<3>2. CASE ~t.shifted
  BY <1>5, <3>2 DEF ModifiersOf
<3>3. QED
  BY <3>1, <3>2
<2>3. IsKey(t) /\ KeyOf(t) = t.key /\ t.kind # "invalid"
  BY <1>5 DEF IsKey, KeyOf
<2> HIDE DEF a
<2>4. Token(a, t) = Accelerator(t.key, modifiers \union ModifiersOf(t))
  BY <1>4, <2>1, <2>2
<2>5. QED
  BY <2>3, <2>4 DEF a
<1>6. CASE t.kind = "modifier"
<2>1. Token(a, t) = [a EXCEPT !.modifiers = modifiers \cup EF(t.name)]
  BY <1>1, <1>6 DEF Token
<2>2. ~IsKey(t) /\ ModifiersOf(t) = EF(t.name) /\ t.kind # "invalid"
  BY <1>6 DEF IsKey, ModifiersOf
<2>3. QED
  BY <1>3, <2>1, <2>2
<1>7. CASE t.kind = "function"
<2>1. Token(a, t) = [a EXCEPT !.key = VKEY_F1 + t.n - 1]
  BY <1>1, <1>7 DEF Token
<2>2. IsKey(t) /\ KeyOf(t) = VKEY_F1 + t.n - 1 /\ ModifiersOf(t) = {}
      /\ t.kind # "invalid"
  BY <1>7 DEF IsKey, ModifiersOf, KeyOf
<2>3. modifiers \union ModifiersOf(t) = modifiers
  BY <2>2
<2>4. QED
  BY <1>2, <2>1, <2>2, <2>3
<1>8. CASE t.kind = "invalid"
  BY <1>1, <1>8 DEF Token
<1>9. QED
  BY <1>5, <1>6, <1>7, <1>8, KindsOfTokens

\* One token more.
LEMMA OneTokenMore ==
  ASSUME NEW T \in SUBSET AllTokens, NEW t \in AllTokens, NEW k \in AllTokens,
         IsKey(k), IsKey(t) => t = k
  PROVE  Token(Meaning(T, k), t) = Meaning(T \union {t}, k)
<1>1. NoAccelerator.ok = FALSE
  BY DEF NoAccelerator
<1>2. CASE \E u \in T : u.kind = "invalid"
<2>1. Meaning(T, k) = NoAccelerator /\ Meaning(T \union {t}, k) = NoAccelerator
  BY <1>2 DEF Meaning
<2>2. Token(NoAccelerator, t) = NoAccelerator
  BY <1>1 DEF Token
<2>3. QED
  BY <2>1, <2>2
<1>3. CASE ~\E u \in T : u.kind = "invalid"
<2> DEFINE key == IF k \in T THEN KeyOf(k) ELSE VKEY_UNKNOWN
           modifiers == UNION {ModifiersOf(u) : u \in T}
<2>1. Meaning(T, k) = Accelerator(key, modifiers)
  BY <1>3 DEF Meaning
<2>2. Token(Meaning(T, k), t) =
           IF t.kind = "invalid" THEN NoAccelerator
           ELSE Accelerator(IF IsKey(t) THEN KeyOf(t) ELSE key,
                            modifiers \union ModifiersOf(t))
<3> HIDE DEF key, modifiers
<3>1. QED
  BY <2>1, TokenModifiersOf
<2>3. CASE t.kind = "invalid"
<3>1. Meaning(T \union {t}, k) = NoAccelerator
  BY <2>3 DEF Meaning
<3>2. QED
  BY <2>2, <2>3, <3>1
<2>4. CASE t.kind # "invalid"
<3>1. Meaning(T \union {t}, k) =
        Accelerator(IF k \in T \union {t} THEN KeyOf(k) ELSE VKEY_UNKNOWN,
                    UNION {ModifiersOf(u) : u \in T \union {t}})
  BY <1>3, <2>4 DEF Meaning
<3>2. UNION {ModifiersOf(u) : u \in T \union {t}} = modifiers \union ModifiersOf(t)
  BY Zenon
<3>3. (IF k \in T \union {t} THEN KeyOf(k) ELSE VKEY_UNKNOWN)
        = IF IsKey(t) THEN KeyOf(t) ELSE key
<4>1. CASE IsKey(t)
  BY <4>1
<4>2. CASE ~IsKey(t)
<5>1. k # t
  BY <4>2
<5>2. QED
  BY <4>2, <5>1
<4>3. QED
  BY <4>1, <4>2
<3>4. Meaning(T \union {t}, k) =
        Accelerator(IF IsKey(t) THEN KeyOf(t) ELSE key, modifiers \union ModifiersOf(t))
<4> HIDE DEF key, modifiers
<4>1. QED
  BY <3>1, <3>2, <3>3, Zenon
<3>5. QED
<4> HIDE DEF key, modifiers
<4>1. QED
  BY <2>2, <2>4, <3>4
<2>5. QED
  BY <2>3, <2>4
<1>4. QED
  BY <1>2, <1>3

\* After i turns the loop has read what the first i tokens say.
LEMMA TextMeaning ==
  ASSUME NEW n \in Nat, NEW s \in [1..n -> AllTokens], NEW k \in AllTokens, IsKey(k),
         \A j \in 1..n : IsKey(s[j]) => s[j] = k
  PROVE  LET a == Meaning(FirstTokens(s, n), k)
         IN  StringToAccelerator(s) =
               IF a.ok /\ a.key = VKEY_UNKNOWN THEN NoAccelerator ELSE a
<1>0. Len(s) = n /\ DOMAIN s = 1..n
  OBVIOUS
<1> DEFINE M(i) == Meaning(FirstTokens(s, i), k)
           Body(g) == [i \in 0..Len(s) |->
             IF i = 0 THEN [ok |-> TRUE, key |-> VKEY_UNKNOWN, modifiers |-> {}]
             ELSE Token(g[i - 1], s[i])]
           G == [i \in 0..Len(s) |-> M(i)]
           f == CHOOSE g : g = Body(g)
<1>1. M(0) = [ok |-> TRUE, key |-> VKEY_UNKNOWN, modifiers |-> {}]
<2>1. FirstTokens(s, 0) = {}
  BY DEF FirstTokens
<2>2. UNION {ModifiersOf(t) : t \in {}} = {}
  OBVIOUS
<2>3. M(0) = Accelerator(VKEY_UNKNOWN, UNION {ModifiersOf(t) : t \in {}})
  BY <2>1 DEF Meaning
<2>4. QED
  BY <2>2, <2>3 DEF Accelerator
<1>2. ASSUME NEW i \in 1..n
      PROVE  M(i) = Token(M(i - 1), s[i])
<2>1. FirstTokens(s, i) = FirstTokens(s, i - 1) \union {s[i]}
<3>1. 1..i = 1..(i - 1) \union {i}
  OBVIOUS
<3>2. QED
  BY <3>1, Zenon DEF FirstTokens
<2>2. FirstTokens(s, i - 1) \in SUBSET AllTokens
<3>1. \A j \in 1..(i - 1) : j \in 1..n
  OBVIOUS
<3>2. QED
  BY <3>1 DEF FirstTokens
<2>3. s[i] \in AllTokens /\ (IsKey(s[i]) => s[i] = k)
  OBVIOUS
<2>4. QED
  BY <2>1, <2>2, <2>3, OneTokenMore
<1> HIDE DEF M
<1>3. G = Body(G)
<2>1. \A i \in 0..n : i = 0 \/ (i \in 1..n /\ i - 1 \in 0..n)
  OBVIOUS
<2>2. \A i \in 0..n : G[i] = M(i)
  BY <1>0
<2>3. ASSUME NEW i \in 0..n
      PROVE  M(i) = IF i = 0
                    THEN [ok |-> TRUE, key |-> VKEY_UNKNOWN, modifiers |-> {}]
                    ELSE Token(G[i - 1], s[i])
<3>1. CASE i = 0
  BY <1>1, <3>1
<3>2. CASE i # 0
<4>1. i \in 1..n /\ i - 1 \in 0..n
  BY <2>1, <3>2
<4>2. G[i - 1] = M(i - 1)
  BY <2>2, <4>1
<4> HIDE DEF G
<4>3. QED
  BY <1>2, <3>2, <4>1, <4>2
<3>3. QED
  BY <3>1, <3>2
<2>4. QED
  BY <1>0, <2>3, Zenon
<1>4. f = Body(f)
  BY <1>3, Zenon
<1>5. StringToAccelerator(s) =
        IF f[Len(s)].ok /\ f[Len(s)].key = VKEY_UNKNOWN
        THEN NoAccelerator ELSE f[Len(s)]
  BY Zenon DEF StringToAccelerator
<1> HIDE DEF f
<1>6. f[0] = M(0)
<2>1. 0 \in 0..Len(s)
  BY <1>0
<2>2. f[0] = Body(f)[0]
  BY <1>4
<2>3. QED
  BY <1>1, <2>1, <2>2
<1>7. ASSUME NEW i \in 1..n
      PROVE  f[i] = Token(f[i - 1], s[i])
<2>1. i \in 0..Len(s) /\ i # 0
  BY <1>0
<2>2. f[i] = Body(f)[i]
  BY <1>4
<2>3. QED
  BY <2>1, <2>2, Zenon
<1> DEFINE S == {i \in Nat : i <= n => f[i] = M(i)}
<1>8. 0 \in S
  BY <1>6
<1>9. ASSUME NEW i \in Nat, i \in S PROVE i + 1 \in S
<2>1. SUFFICES ASSUME i + 1 <= n PROVE f[i + 1] = M(i + 1)
  OBVIOUS
<2>2. i + 1 \in 1..n /\ (i + 1) - 1 = i /\ f[i] = M(i)
  BY <1>9, <2>1
<2>3. f[i + 1] = Token(f[i], s[i + 1])
  BY <1>7, <2>2
<2>4. M(i + 1) = Token(M(i), s[i + 1])
  BY <1>2, <2>2
<2>5. QED
  BY <2>2, <2>3, <2>4
<1>10. Nat \subseteq S
<2> HIDE DEF S
<2>1. QED
  BY <1>8, <1>9, SetInduction
<1>11. f[Len(s)] = M(n)
  BY <1>0, <1>10
<1>12. QED
  BY <1>5, <1>11 DEF M

\* A text with one key among its tokens, which is finitely many.
LEMMA TheKeyOfAText ==
  ASSUME NEW n \in Nat, NEW s \in [1..n -> AllTokens],
         Cardinality({k \in TokensOf(s) : IsKey(k)}) = 1
  PROVE  \E k \in AllTokens :
           IsKey(k) /\ \A t \in TokensOf(s) : IsKey(t) => t = k
<1> DEFINE K == {k \in TokensOf(s) : IsKey(k)}
<1>1. s \in Surjection(1..n, TokensOf(s))
  BY DEF Surjection, TokensOf
<1>2. IsFiniteSet(1..n)
  BY FS_Interval
<1>3. IsFiniteSet(TokensOf(s))
  BY <1>1, <1>2, FS_Surjection
<1>4. IsFiniteSet(K)
  BY <1>3, FS_Subset
<1>5. PICK k : K = {k}
  BY <1>4, FS_Singleton
<1>6. k \in K
  BY <1>5
<1>7. k \in AllTokens
  BY <1>6 DEF TokensOf
<1>8. QED
  BY <1>5, <1>6, <1>7

\* Texts with the same tokens, one key among them, are the same accelerator.
LEMMA OrderIsAlwaysNothing == OrderIsNothing
<1> DEFINE Texts == UNION {[1..n -> Tokens] : n \in 1..MaxTokens}
<1>1. SUFFICES ASSUME NEW s \in Texts, NEW t \in Texts, TokensOf(s) = TokensOf(t),
                      Cardinality({k \in TokensOf(s) : IsKey(k)}) = 1
               PROVE  StringToAccelerator(s) = StringToAccelerator(t)
  BY Zenon DEF OrderIsNothing
<1>2. PICK n \in Nat : s \in [1..n -> AllTokens]
  BY AcceleratorsAssumption
<1>3. PICK m \in Nat : t \in [1..m -> AllTokens]
  BY AcceleratorsAssumption
<1>4. PICK k \in AllTokens :
        IsKey(k) /\ \A u \in TokensOf(s) : IsKey(u) => u = k
  BY <1>1, <1>2, TheKeyOfAText
<1>5. FirstTokens(s, n) = TokensOf(s) /\ FirstTokens(t, m) = TokensOf(t)
<2>1. DOMAIN s = 1..n /\ DOMAIN t = 1..m
  BY <1>2, <1>3
<2>2. QED
  BY <2>1, Zenon DEF FirstTokens, TokensOf
<1>6. \A j \in 1..n : IsKey(s[j]) => s[j] = k
  BY <1>2, <1>4 DEF TokensOf
<1>7. \A j \in 1..m : IsKey(t[j]) => t[j] = k
  BY <1>1, <1>3, <1>4 DEF TokensOf
<1> DEFINE a == Meaning(TokensOf(s), k)
           Result == IF a.ok /\ a.key = VKEY_UNKNOWN THEN NoAccelerator ELSE a
<1>8. StringToAccelerator(s) = Result
  BY <1>2, <1>4, <1>5, <1>6, TextMeaning
<1>9. StringToAccelerator(t) = Result
  BY <1>1, <1>3, <1>4, <1>5, <1>7, TextMeaning
<1>10. QED
  BY <1>8, <1>9

\* The token of a shifted character says what shift and its key say.
LEMMA ShiftedIsAlwaysShift == ShiftedIsShift
<1> DEFINE bang == Char("!")
           one == Char("1")
           shift == Modifier("shift")
<1>1. SUFFICES ASSUME NEW m \in Tokens, m.kind = "modifier"
               PROVE  StringToAccelerator(<<m, bang>>) =
                        StringToAccelerator(<<m, shift, one>>)
  BY DEF ShiftedIsShift
<1>2. /\ bang \in AllTokens /\ IsKey(bang) /\ KeyOf(bang) = VKEY_1
      /\ ModifiersOf(bang) = {"SHIFT"} /\ bang.kind # "invalid"
  BY DEF Char, AllTokens, IsKey, KeyOf, ModifiersOf, VKEY_1
<1>3. /\ one \in AllTokens /\ IsKey(one) /\ KeyOf(one) = VKEY_1
      /\ ModifiersOf(one) = {} /\ one.kind # "invalid"
  BY DEF Char, AllTokens, IsKey, KeyOf, ModifiersOf, VKEY_1
<1>4. /\ shift \in AllTokens /\ ~IsKey(shift)
      /\ ModifiersOf(shift) = {"SHIFT"} /\ shift.kind # "invalid"
  BY DEF Modifier, AllTokens, ModifierNames, IsKey, ModifiersOf, EF
<1>5. m \in AllTokens /\ ~IsKey(m) /\ m.kind # "invalid"
  BY <1>1, AcceleratorsAssumption DEF IsKey
<1> HIDE DEF bang, one, shift
<1> DEFINE both == Accelerator(VKEY_1, ModifiersOf(m) \union {"SHIFT"})
           s == <<m, bang>>
           t == <<m, shift, one>>
<1>6. s \in [1..2 -> AllTokens] /\ FirstTokens(s, 2) = {m, bang}
      /\ \A j \in 1..2 : IsKey(s[j]) => s[j] = bang
<2>1. s \in [1..2 -> AllTokens] /\ s[1] = m /\ s[2] = bang
  BY <1>2, <1>5
<2>2. 1..2 = {1, 2}
  OBVIOUS
<2> HIDE DEF s
<2>3. QED
  BY <1>5, <2>1, <2>2 DEF FirstTokens
<1>7. t \in [1..3 -> AllTokens] /\ FirstTokens(t, 3) = {m, shift, one}
      /\ \A j \in 1..3 : IsKey(t[j]) => t[j] = one
<2>1. t \in [1..3 -> AllTokens] /\ t[1] = m /\ t[2] = shift /\ t[3] = one
  BY <1>3, <1>4, <1>5
<2>2. 1..3 = {1, 2, 3}
  OBVIOUS
<2> HIDE DEF t
<2>3. QED
  BY <1>4, <1>5, <2>1, <2>2 DEF FirstTokens
<1>8. Meaning({m, bang}, bang) = both
<2>1. UNION {ModifiersOf(u) : u \in {m, bang}} = ModifiersOf(m) \union {"SHIFT"}
  BY <1>2
<2>2. QED
  BY <1>2, <1>5, <2>1 DEF Meaning
<1>9. Meaning({m, shift, one}, one) = both
<2>1. UNION {ModifiersOf(u) : u \in {m, shift, one}} = ModifiersOf(m) \union {"SHIFT"}
  BY <1>3, <1>4
<2>2. QED
  BY <1>3, <1>4, <1>5, <2>1 DEF Meaning
<1> HIDE DEF s, t, both
<1> DEFINE Result == IF both.ok /\ both.key = VKEY_UNKNOWN
                     THEN NoAccelerator ELSE both
<1>10. StringToAccelerator(s) = Result
<2> DEFINE a == Meaning(FirstTokens(s, 2), bang)
<2>1. 2 \in Nat
  OBVIOUS
<2>2. StringToAccelerator(s) =
        IF a.ok /\ a.key = VKEY_UNKNOWN THEN NoAccelerator ELSE a
  BY <1>2, <1>6, <2>1, TextMeaning
<2>3. a = both
  BY <1>6, <1>8
<2>4. QED
  BY <2>2, <2>3
<1>11. StringToAccelerator(t) = Result
<2>1. 3 \in Nat
  OBVIOUS
<2> DEFINE a == Meaning(FirstTokens(t, 3), one)
<2>2. StringToAccelerator(t) =
        IF a.ok /\ a.key = VKEY_UNKNOWN THEN NoAccelerator ELSE a
  BY <1>3, <1>7, <2>1, TextMeaning
<2>3. a = both
  BY <1>7, <1>9
<2>4. QED
  BY <2>2, <2>3
<1>12. QED
  BY <1>10, <1>11 DEF s, t
-----------------------------------------------------------------------------

\* The menus of every client mean by a text of tokens, of any number and any
\* length, what the tokens say in whatever order, and by a shifted character
\* what shift and its key say (StringToAccelerator, accelerator_util).
THEOREM AcceleratorsAlwaysAgree == Spec => []AcceleratorsAgree
<1>1. AcceleratorsAgree
  BY OrderIsAlwaysNothing, ShiftedIsAlwaysShift DEF AcceleratorsAgree
<1>2. QED
  BY <1>1, PTL
=============================================================================
