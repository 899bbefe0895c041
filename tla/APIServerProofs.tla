-------------------------- MODULE APIServerProofs --------------------------
(***************************************************************************)
(* Theorems about APIServer, for all types and all bounds: the types, the  *)
(* ownership of the Remotes, callbacks that run once, the reference counts *)
(* of the binding objects (which are destroyed, on which thread), and that *)
(* every behaviour of the server is one of APIContract.                    *)
(***************************************************************************)
EXTENDS APIServer, TLAPS

-----------------------------------------------------------------------------
(* Facts about the two shapes in which a log grows. *)

LEMMA AppendFacts ==
  ASSUME NEW S, NEW s \in Seq(S), NEW x \in S
  PROVE  /\ Append(s, x) \in Seq(S)
         /\ Len(Append(s, x)) = Len(s) + 1
         /\ \A i \in 1..Len(s) : Append(s, x)[i] = s[i]
         /\ Append(s, x)[Len(s) + 1] = x
         /\ DOMAIN s = 1..Len(s)
         /\ DOMAIN Append(s, x) = 1..(Len(s) + 1)
  OBVIOUS

LEMMA Elements ==
  ASSUME NEW S, NEW s \in Seq(S)
  PROVE  /\ DOMAIN s = 1..Len(s) /\ Len(s) \in Nat
         /\ \A i \in 1..Len(s) : s[i] \in S
  OBVIOUS

LEMMA WidenSeq ==
  ASSUME NEW S, NEW T, S \subseteq T, NEW s \in Seq(S)
  PROVE  s \in Seq(T)
  OBVIOUS

LEMMA ConcatOne ==
  ASSUME NEW S, NEW s \in Seq(S), NEW x \in S
  PROVE  s \o <<x>> = Append(s, x)
  OBVIOUS

LEMMA ConcatTwo ==
  ASSUME NEW S, NEW s \in Seq(S), NEW x \in S, NEW y \in S
  PROVE  s \o <<x, y>> = Append(Append(s, x), y)
  OBVIOUS
-----------------------------------------------------------------------------
(***************************************************************************)
(* Type correctness.  TypeOK is not inductive: the IO thread copies the    *)
(* target of a task into destroyed and invokes, so the tasks have to name  *)
(* created objects (PushTargets), and inside SendInvoke it relies on the   *)
(* task it is running (IOPosition).                                        *)
(***************************************************************************)
PushTargets ==
  \A i \in DOMAIN posted : posted[i].kind # "reply" => posted[i].target \in Targets

IOPosition ==
  /\ ioPhase \in {"inserting", "lost"} =>
       /\ Len(out) < Len(posted) /\ NextTask.kind = "invoke"
       /\ actionId > 0
  /\ ioPhase = "written" =>
       /\ Len(out) > 0 /\ posted[Len(out)].kind = "invoke"

TypeInv == TypeOK /\ PushTargets /\ IOPosition

(* The tasks the UI thread posts have their type. *)
LEMMA TaskTypes ==
  /\ \A id, t \in Nat : Reply(id, t) \in Task
  /\ \A t \in Nat : Event(t) \in Task /\ Invoke(t) \in Task
  BY DEF Reply, Event, Invoke, Task

(* What the log of tasks gains when one or two are posted. *)
LEMMA PostOne ==
  ASSUME posted \in Seq(Task), NEW x \in Task, Post(<<x>>)
  PROVE  /\ posted' \in Seq(Task)
         /\ Len(posted') = Len(posted) + 1
         /\ posted'[Len(posted) + 1] = x
         /\ \A i \in 1..Len(posted) : posted'[i] = posted[i]
  BY ConcatOne, AppendFacts DEF Post

LEMMA PostTwo ==
  ASSUME posted \in Seq(Task), NEW x \in Task, NEW y \in Task, Post(<<x, y>>)
  PROVE  /\ posted' \in Seq(Task)
         /\ Len(posted') = Len(posted) + 2
         /\ posted'[Len(posted) + 1] = x
         /\ posted'[Len(posted) + 2] = y
         /\ \A i \in 1..Len(posted) : posted'[i] = posted[i]
  BY ConcatTwo, AppendFacts DEF Post

(* Posted tasks name created objects as long as the new ones do. *)
LEMMA PostOneTargets ==
  ASSUME posted \in Seq(Task), PushTargets, Targets \subseteq Targets',
         NEW x \in Task, Post(<<x>>),
         x.kind # "reply" => x.target \in Targets'
  PROVE  PushTargets'
  <1>1. /\ DOMAIN posted' = 1..(Len(posted) + 1) /\ Len(posted) \in Nat
        /\ DOMAIN posted = 1..Len(posted)
        /\ posted'[Len(posted) + 1] = x
        /\ \A i \in 1..Len(posted) : posted'[i] = posted[i]
    BY PostOne, Elements
  <1> QED BY <1>1 DEF PushTargets

LEMMA PostTwoTargets ==
  ASSUME posted \in Seq(Task), PushTargets, Targets \subseteq Targets',
         NEW x \in Task, NEW y \in Task, Post(<<x, y>>),
         x.kind # "reply" => x.target \in Targets', y.kind = "reply"
  PROVE  PushTargets'
  <1>1. /\ DOMAIN posted' = 1..(Len(posted) + 2) /\ Len(posted) \in Nat
        /\ DOMAIN posted = 1..Len(posted)
        /\ posted'[Len(posted) + 1] = x /\ posted'[Len(posted) + 2] = y
        /\ \A i \in 1..Len(posted) : posted'[i] = posted[i]
    BY PostTwo, Elements
  <1> QED BY <1>1 DEF PushTargets

(* Posting leaves what the IO thread is doing alone. *)
LEMMA PostKeepsIO ==
  ASSUME TypeInv, posted' \in Seq(Task), Len(posted') >= Len(posted),
         \A i \in 1..Len(posted) : posted'[i] = posted[i],
         UNCHANGED <<out, actionId>>,
         ioPhase' = ioPhase \/ (ioPhase = "inserting" /\ ioPhase' = "lost")
  PROVE  OutputTypes' /\ IOPosition'
  <1>1. OutputTypes'
    BY DEF TypeInv, TypeOK, OutputTypes
  <1>2. IOPosition'
    BY DEF TypeInv, TypeOK, OutputTypes, IOPosition, NextTask
  <1> QED BY <1>1, <1>2

LEMMA ReleaseType ==
  ASSUME RegistryTypes, NEW T \in SUBSET Targets, NEW thread \in {"UI", "IO"},
         Release(T, thread), Targets' = Targets
  PROVE  destroyed' \subseteq [target : Targets', thread : {"UI", "IO"}]
  BY DEF Release, RegistryTypes

LEMMA InitTypeInv == Init => TypeInv
  BY DEF Init, TypeInv, TypeOK, PushTargets, IOPosition, Targets, InputTypes,
         RegistryTypes, OutputTypes, CallbackTypes

LEMMA ClientTypeInv == TypeInv /\ ClientAction => TypeInv'
  <1> SUFFICES ASSUME TypeInv, ClientAction PROVE TypeInv'
    OBVIOUS
  <1> USE DEF TypeInv, TypeOK
  <1>1. PICK a \in Contract!Action : ClientWrites(a)
    <2>1. \A t \in Known \union {0} : t \in Nat
      BY DEF Known, Targets, RegistryTypes
    <2>2. \A m \in {out[j] : j \in DOMAIN out} : m.id \in Nat
      <3>1. \A j \in DOMAIN out : out[j] \in Contract!Message
        BY Elements DEF OutputTypes
      <3> QED BY <3>1 DEF Contract!Message
    <2> QED
      BY <2>1, <2>2 DEF ClientAction, Contract!Action
  <1>2. InputTypes'
    BY <1>1 DEF ClientWrites, InputTypes
  <1>3. RegistryTypes' /\ OutputTypes' /\ CallbackTypes' /\ UNCHANGED client
    BY <1>1 DEF ClientWrites, RegistryTypes, OutputTypes, CallbackTypes,
                Targets, uiVars, ioVars
  <1>4. PushTargets' /\ IOPosition'
    BY <1>1 DEF ClientWrites, PushTargets, IOPosition, NextTask, Targets,
                uiVars, ioVars
  <1> QED BY <1>2, <1>3, <1>4

LEMMA ChunkTypeInv == TypeInv /\ ProcessChunk => TypeInv'
  BY DEF TypeInv, TypeOK, PushTargets, IOPosition, Targets, ProcessChunk,
         uiVars, ioVars, NextTask, InputTypes, RegistryTypes, OutputTypes,
         CallbackTypes

(* The action the UI thread is about to perform. *)
LEMMA NextAction ==
  ASSUME InputTypes, performed < parsed
  PROVE  /\ performed + 1 \in 1..Len(sent) /\ performed + 1 \in Nat
         /\ sent[performed + 1] \in Contract!Action
         /\ sent[performed + 1].target \in Nat
         /\ performed' = performed + 1 /\ UNCHANGED <<sent, parsed, popup>>
              => InputTypes'
         /\ performed' = performed + 1 /\ UNCHANGED <<sent, parsed>>
              /\ popup' = performed + 1 => InputTypes'
  <1>1. performed + 1 \in 1..Len(sent) /\ performed + 1 \in Nat
    BY Elements DEF InputTypes
  <1>2. sent[performed + 1] \in Contract!Action
    BY <1>1, Elements DEF InputTypes
  <1>3. sent[performed + 1].target \in Nat
    BY <1>2 DEF Contract!Action
  <1> QED BY <1>1, <1>2, <1>3 DEF InputTypes

LEMMA CreateTypeInv == TypeInv /\ PerformCreate => TypeInv'
  <1> SUFFICES ASSUME TypeInv, PerformCreate PROVE TypeInv'
    OBVIOUS
  <1> DEFINE id == performed + 1
             a  == sent[id]
             t  == IF a.type \in Types THEN Len(objects) + 1 ELSE 0
             o  == [type |-> a.type,
                    session |-> IF a.target \in bindings THEN a.target ELSE 0]
  <1> USE DEF TypeInv, TypeOK
  <1>1. id \in Nat /\ a.target \in Nat /\ InputTypes' /\ t \in Nat
    BY NextAction DEF PerformCreate, Create, Perform, RegistryTypes
  <1>2. Reply(id, t) \in Task /\ Post(<<Reply(id, t)>>)
    BY <1>1, TaskTypes DEF PerformCreate, Create
  <1>3. \/ UNCHANGED <<objects, bindings, apiRemotes>> /\ t = 0
        \/ /\ objects' = Append(objects, o)
           /\ o \in [type : Types, session : Nat]
           /\ t = Len(objects) + 1
           /\ bindings' = bindings \union {t}
           /\ apiRemotes' = apiRemotes \union {t}
    BY <1>1 DEF PerformCreate, Create
  <1>4. /\ objects' \in Seq([type : Types, session : Nat])
        /\ Len(objects') >= Len(objects) /\ Len(objects') \in Nat
        /\ t \in 0..Len(objects')
    <2>1. objects \in Seq([type : Types, session : Nat]) /\ Len(objects) \in Nat
      BY Elements DEF RegistryTypes
    <2> HIDE DEF o, t
    <2>2. CASE UNCHANGED objects /\ t = 0
      BY <2>1, <2>2
    <2>3. CASE /\ objects' = Append(objects, o) /\ t = Len(objects) + 1
               /\ o \in [type : Types, session : Nat]
      <3>1. objects' \in Seq([type : Types, session : Nat])
        BY <2>1, <2>3, AppendFacts
      <3>2. Len(objects') = Len(objects) + 1
        BY <2>1, <2>3, AppendFacts
      <3> QED BY <2>1, <2>3, <3>1, <3>2
    <2> QED BY <1>3, <2>2, <2>3
  <1>5. Targets \subseteq Targets' /\ t \in Targets' \union {0}
    BY <1>4, Elements DEF Targets, RegistryTypes
  <1>6. bindings' \subseteq Targets' /\ apiRemotes' \subseteq Targets'
    <2>1. bindings \subseteq Targets /\ apiRemotes \subseteq Targets
      BY DEF RegistryTypes
    <2>2. t # 0 => t \in Targets'
      BY <1>5
    <2>3. Len(objects) + 1 # 0
      BY Elements DEF RegistryTypes
    <2> HIDE DEF o, t
    <2> QED BY <1>3, <1>5, <2>1, <2>2, <2>3
  <1>7. clientRemotes' \subseteq Targets' \union {0} /\ UNCHANGED destroyed
    <2>1. clientRemotes \subseteq Targets \union {0}
      BY DEF RegistryTypes
    <2>2. clientRemotes' = clientRemotes \union {t} /\ UNCHANGED destroyed
      BY DEF PerformCreate, Create
    <2> HIDE DEF o, t
    <2> QED BY <1>5, <2>1, <2>2
  <1>8. RegistryTypes'
    BY <1>4, <1>5, <1>6, <1>7 DEF RegistryTypes
  <1>9. OutputTypes' /\ IOPosition'
    BY <1>2, PostOne, PostKeepsIO DEF PerformCreate, Create, Perform, OutputTypes, ioVars
  <1>10. CallbackTypes' /\ UNCHANGED client
    BY <1>5 DEF CallbackTypes, PerformCreate, Create, Perform, ioVars
  <1>11. PushTargets'
    <2>1. Reply(id, t).kind = "reply"
      BY DEF Reply
    <2> QED BY <1>2, <1>5, <2>1, PostOneTargets DEF OutputTypes
  <1> QED BY <1>1, <1>8, <1>9, <1>10, <1>11
LEMMA CallTypeInv == TypeInv /\ PerformCall => TypeInv'
  <1> SUFFICES ASSUME TypeInv, PerformCall PROVE TypeInv'
    OBVIOUS
  <1> DEFINE id == performed + 1
             t  == sent[id].target
  <1> USE DEF TypeInv, TypeOK
  <1>1. id \in Nat /\ InputTypes'
    BY NextAction DEF PerformCall, CallMethod, Perform
  <1>2. RegistryTypes' /\ CallbackTypes' /\ UNCHANGED client /\ Targets' = Targets
    BY DEF RegistryTypes, CallbackTypes, PerformCall, CallMethod, Perform, Targets, uiVars,
           ioVars
  <1>3. Reply(id, 0) \in Task /\ Reply(id, 0).kind = "reply"
    BY <1>1, TaskTypes DEF Reply
  <1>4. UNCHANGED <<out, actionId, ioPhase>> /\ posted \in Seq(Task)
    BY DEF PerformCall, CallMethod, Perform, ioVars, OutputTypes
  <1>5. CASE UNCHANGED posted
    BY <1>1, <1>2, <1>4, <1>5
    DEF OutputTypes, PushTargets, IOPosition, NextTask
  <1>6. CASE Post(<<Reply(id, 0)>>)
    <2>1. PushTargets'
      BY <1>2, <1>3, <1>4, <1>6, PostOneTargets
    <2>2. OutputTypes' /\ IOPosition'
      BY <1>3, <1>4, <1>6, PostOne, PostKeepsIO
    <2> QED BY <1>1, <1>2, <2>1, <2>2
  <1>7. CASE t \in bindings /\ Post(<<Event(t), Reply(id, 0)>>)
    <2>1. t \in Targets /\ t \in Nat
      <3>1. bindings \subseteq Targets
        BY DEF RegistryTypes
      <3>2. \A u \in Targets : u \in Nat
        BY DEF Targets
      <3> QED BY <1>7, <3>1, <3>2
    <2>2. Event(t) \in Task /\ Event(t).target = t
      BY <2>1, TaskTypes DEF Event
    <2>3. PushTargets'
      BY <1>2, <1>3, <1>4, <1>7, <2>1, <2>2, PostTwoTargets
    <2>4. OutputTypes' /\ IOPosition'
      BY <1>3, <1>4, <1>7, <2>2, PostTwo, PostKeepsIO
    <2> QED BY <1>1, <1>2, <2>3, <2>4
  <1> QED BY <1>5, <1>6, <1>7 DEF PerformCall, CallMethod

LEMMA PopupTypeInv == TypeInv /\ (PerformPopup \/ PopupReturns) => TypeInv'
  <1> SUFFICES ASSUME TypeInv, PerformPopup \/ PopupReturns PROVE TypeInv'
    OBVIOUS
  <1> USE DEF TypeInv, TypeOK
  <1>1. InputTypes'
    <2>1. CASE PerformPopup
      BY <2>1, NextAction DEF PerformPopup, Perform
    <2>2. CASE PopupReturns
      BY <2>2 DEF PopupReturns, InputTypes
    <2> QED BY <2>1, <2>2
  <1>2. /\ RegistryTypes' /\ CallbackTypes' /\ Targets' = Targets
        /\ client' \in {client, "crashed"}
    BY DEF RegistryTypes, CallbackTypes, PerformPopup, PopupReturns, Perform,
           Targets, uiVars, ioVars
  <1>3. UNCHANGED <<out, actionId, ioPhase>> /\ posted \in Seq(Task)
    BY DEF PerformPopup, PopupReturns, Perform, ioVars, OutputTypes
  <1>4. Reply(popup, 0) \in Task /\ Reply(popup, 0).kind = "reply"
    BY TaskTypes DEF Reply, InputTypes
  <1>5. CASE UNCHANGED posted
    BY <1>1, <1>2, <1>3, <1>5 DEF OutputTypes, PushTargets, IOPosition, NextTask
  <1>6. CASE Post(<<Reply(popup, 0)>>)
    <2>1. PushTargets'
      BY <1>2, <1>3, <1>4, <1>6, PostOneTargets
    <2>2. OutputTypes' /\ IOPosition'
      BY <1>3, <1>4, <1>6, PostOne, PostKeepsIO
    <2> QED BY <1>1, <1>2, <2>1, <2>2
  <1> QED BY <1>5, <1>6 DEF PerformPopup, PopupReturns

LEMMA DeleteTypeInv == TypeInv /\ PerformDelete => TypeInv'
  <1> SUFFICES ASSUME TypeInv, PerformDelete PROVE TypeInv'
    OBVIOUS
  <1> DEFINE id == performed + 1
             t  == sent[id].target
  <1> USE DEF TypeInv, TypeOK
  <1>1. id \in Nat /\ InputTypes'
    BY NextAction DEF PerformDelete, Delete, Perform
  <1>2. Targets' = Targets /\ CallbackTypes' /\ UNCHANGED client
    BY DEF CallbackTypes, PerformDelete, Delete, Perform, Targets, ioVars
  <1>3. Reply(id, 0) \in Task /\ Reply(id, 0).kind = "reply"
    BY <1>1, TaskTypes DEF Reply
  <1>4. UNCHANGED <<out, actionId, ioPhase>> /\ posted \in Seq(Task)
    BY DEF PerformDelete, Delete, Perform, ioVars, OutputTypes
  <1>5. PushTargets' /\ OutputTypes' /\ IOPosition'
    BY <1>2, <1>3, <1>4, PostOneTargets, PostOne, PostKeepsIO DEF PerformDelete, Delete
  <1>6. destroyed' \subseteq [target : Targets', thread : {"UI", "IO"}]
    BY <1>2, ReleaseType DEF PerformDelete, Delete, RegistryTypes
  <1>7. RegistryTypes'
    BY <1>2, <1>6 DEF RegistryTypes, PerformDelete, Delete
  <1> QED BY <1>1, <1>2, <1>5, <1>7
LEMMA RunTypeInv == TypeInv /\ RunCallback => TypeInv'
  <1> SUFFICES ASSUME TypeInv, RunCallback PROVE TypeInv'
    OBVIOUS
  <1> USE DEF TypeInv, TypeOK
  <1>1. PICK id \in 1..actionId :
          /\ PerformReply(id)
          /\ Entry(id) # {}
          /\ invokes' = invokes \ Entry(id)
          /\ ran' = Append(ran, id)
          /\ UNCHANGED ioPhase \/ (ioPhase = "inserting" /\ ioPhase' = "lost")
          /\ Release({inv.target : inv \in Entry(id)}, "UI")
    BY DEF RunCallback
  <1>2. InputTypes'
    BY <1>1, NextAction DEF PerformReply
  <1>3. Targets' = Targets /\ UNCHANGED <<posted, out, actionId, client>>
    BY <1>1 DEF PerformReply, Targets, uiVars
  <1>4. OutputTypes' /\ IOPosition' /\ PushTargets'
    BY <1>1, <1>3 DEF OutputTypes, IOPosition, NextTask, PushTargets
  <1>5. {inv.target : inv \in Entry(id)} \in SUBSET Targets
    BY DEF Entry, CallbackTypes
  <1>6. RegistryTypes'
    <2>1. destroyed' \subseteq [target : Targets', thread : {"UI", "IO"}]
      BY <1>1, <1>3, <1>5, ReleaseType
    <2> QED BY <1>1, <1>3, <2>1 DEF RegistryTypes, PerformReply, uiVars
  <1>7. CallbackTypes'
    BY <1>1, <1>3, AppendFacts DEF CallbackTypes
  <1> QED BY <1>2, <1>3, <1>4, <1>6, <1>7

LEMMA IgnoreTypeInv == TypeInv /\ IgnoreReply => TypeInv'
  <1> SUFFICES ASSUME TypeInv, IgnoreReply PROVE TypeInv'
    OBVIOUS
  <1> USE DEF TypeInv, TypeOK
  <1>1. PICK id \in 1..actionId :
          PerformReply(id) /\ UNCHANGED <<invokes, ran, ioPhase, destroyed>>
    BY DEF IgnoreReply
  <1>2. InputTypes'
    BY <1>1, NextAction DEF PerformReply
  <1>3. /\ OutputTypes' /\ IOPosition' /\ PushTargets' /\ RegistryTypes'
        /\ CallbackTypes' /\ UNCHANGED client
    BY <1>1 DEF PerformReply, uiVars, OutputTypes, IOPosition, NextTask,
                PushTargets, RegistryTypes, CallbackTypes, Targets
  <1> QED BY <1>2, <1>3

LEMMA PushTypeInv ==
  ASSUME TypeInv, NEW x \in Task, x.target \in Targets, Push(x)
  PROVE  TypeInv'
  <1> USE DEF TypeInv, TypeOK
  <1>1. /\ Post(<<x>>)
        /\ UNCHANGED <<sent, parsed, performed, popup, uiVars, destroyed, ioVars,
                       invokes, ran, client>>
    BY DEF Push
  <1>2. InputTypes' /\ RegistryTypes' /\ CallbackTypes' /\ Targets' = Targets
    BY <1>1 DEF InputTypes, RegistryTypes, CallbackTypes, Targets, uiVars, ioVars
  <1>3. UNCHANGED <<out, actionId, ioPhase, client>> /\ posted \in Seq(Task)
    BY <1>1 DEF ioVars, OutputTypes
  <1>4. PushTargets' /\ OutputTypes' /\ IOPosition'
    BY <1>1, <1>2, <1>3, PostOneTargets, PostOne, PostKeepsIO
  <1> QED BY <1>2, <1>3, <1>4

LEMMA SpontaneousTypeInv ==
  TypeInv /\ (EmitEvent \/ InvokeRemoteMethod) => TypeInv'
  <1> SUFFICES ASSUME TypeInv, NEW t \in Targets,
                      Push(Event(t)) \/ Push(Invoke(t))
               PROVE  TypeInv'
    BY DEF EmitEvent, InvokeRemoteMethod, AliveObjects
  <1>1. t \in Nat
    BY Elements DEF Targets, TypeInv, TypeOK, RegistryTypes
  <1>2. /\ Event(t) \in Task /\ Event(t).target \in Targets
        /\ Invoke(t) \in Task /\ Invoke(t).target \in Targets
    BY <1>1, TaskTypes DEF Event, Invoke
  <1> QED BY <1>2, PushTypeInv

(* The head of the IO queue, and the message it becomes. *)
LEMMA Written ==
  ASSUME TypeInv, Len(out) < Len(posted), NEW id \in Nat, WriteMessage(id)
  PROVE  /\ NextTask \in Task /\ Len(out) + 1 \in DOMAIN posted
         /\ out' \in Seq(Contract!Message) /\ Len(out') = Len(out) + 1
         /\ Len(out) \in Nat /\ Len(posted) \in Nat
         /\ out'[Len(out) + 1] = [kind |-> NextTask.kind, id |-> id,
                                  target |-> NextTask.target]
         /\ \A i \in 1..Len(out) : out'[i] = out[i]
  <1> DEFINE m == [kind |-> NextTask.kind, id |-> id, target |-> NextTask.target]
  <1>1. /\ Len(out) \in Nat /\ Len(posted) \in Nat
        /\ Len(out) + 1 \in 1..Len(posted) /\ NextTask \in Task
        /\ DOMAIN posted = 1..Len(posted)
    BY Elements DEF TypeInv, TypeOK, OutputTypes, NextTask
  <1>2. m \in Contract!Message
    BY <1>1 DEF Task, Contract!Message
  <1>3. out \in Seq(Contract!Message) /\ out' = Append(out, m)
    BY DEF TypeInv, TypeOK, OutputTypes, WriteMessage
  <1> HIDE DEF m
  <1>4. /\ out' \in Seq(Contract!Message) /\ Len(out') = Len(out) + 1
        /\ out'[Len(out) + 1] = m
        /\ \A i \in 1..Len(out) : out'[i] = out[i]
    BY <1>2, <1>3, AppendFacts
  <1> QED BY <1>1, <1>4 DEF m
LEMMA SendReplyTypeInv == TypeInv /\ SendReply => TypeInv'
  <1> SUFFICES ASSUME TypeInv, SendReply PROVE TypeInv'
    OBVIOUS
  <1>1. NextTask \in Task /\ NextTask.id \in Nat
    <2>1. Len(out) + 1 \in 1..Len(posted) /\ posted \in Seq(Task)
      BY Elements DEF SendReply, IORuns, TypeInv, TypeOK, OutputTypes
    <2>2. NextTask \in Task
      BY <2>1, Elements DEF NextTask
    <2> QED BY <2>2 DEF Task
  <1>2. /\ out' \in Seq(Contract!Message) /\ Len(out') = Len(out) + 1
        /\ Len(out) \in Nat /\ Len(posted) \in Nat
    BY <1>1, Written DEF SendReply, IORuns
  <1> USE DEF TypeInv, TypeOK
  <1>3. OutputTypes'
    BY <1>2 DEF SendReply, IORuns, OutputTypes
  <1>4. /\ InputTypes' /\ RegistryTypes' /\ CallbackTypes' /\ PushTargets'
        /\ IOPosition' /\ UNCHANGED client
    BY DEF SendReply, InputTypes, RegistryTypes, CallbackTypes, PushTargets,
           IOPosition, Targets, uiVars
  <1> QED BY <1>3, <1>4

LEMMA SendEventTypeInv == TypeInv /\ SendEvent => TypeInv'
  <1> SUFFICES ASSUME TypeInv, SendEvent PROVE TypeInv'
    OBVIOUS
  <1>1. actionId \in Nat /\ actionId + 1 \in Nat
    BY DEF TypeInv, TypeOK, OutputTypes
  <1>2. /\ out' \in Seq(Contract!Message) /\ Len(out') = Len(out) + 1
        /\ Len(out) \in Nat /\ Len(posted) \in Nat
    BY <1>1, Written DEF SendEvent, IORuns
  <1> USE DEF TypeInv, TypeOK
  <1>3. OutputTypes'
    BY <1>1, <1>2 DEF SendEvent, IORuns, OutputTypes
  <1>4. CallbackTypes'
    <2>1. 1..actionId \subseteq 1..actionId'
      BY <1>1 DEF SendEvent
    <2>2. ran \in Seq(1..actionId')
      BY <2>1, WidenSeq DEF CallbackTypes
    <2> QED BY <2>1, <2>2 DEF SendEvent, CallbackTypes, Targets, uiVars
  <1>5. /\ InputTypes' /\ RegistryTypes' /\ PushTargets' /\ IOPosition'
        /\ UNCHANGED client
    BY DEF SendEvent, InputTypes, RegistryTypes, PushTargets, IOPosition,
           Targets, uiVars
  <1> QED BY <1>3, <1>4, <1>5

LEMMA InsertsTypeInv == TypeInv /\ SendInvokeInserts => TypeInv'
  <1> SUFFICES ASSUME TypeInv, SendInvokeInserts PROVE TypeInv'
    OBVIOUS
  <1> USE DEF TypeInv, TypeOK
  <1>1. actionId \in Nat /\ actionId' = actionId + 1
    BY DEF OutputTypes, SendInvokeInserts
  <1>2. CallbackTypes'
    <2>1. 1..actionId \subseteq 1..actionId'
      BY <1>1
    <2>2. ran \in Seq(1..actionId')
      BY <2>1, WidenSeq DEF CallbackTypes
    <2> QED BY <2>1, <2>2 DEF SendInvokeInserts, CallbackTypes, Targets, uiVars
  <1>3. OutputTypes' /\ IOPosition'
    BY <1>1 DEF OutputTypes, IOPosition, SendInvokeInserts, IORuns, NextTask
  <1>4. InputTypes' /\ RegistryTypes' /\ PushTargets' /\ UNCHANGED client
    BY DEF SendInvokeInserts, InputTypes, RegistryTypes, PushTargets, Targets,
           uiVars
  <1> QED BY <1>2, <1>3, <1>4

LEMMA WritesTypeInv == TypeInv /\ SendInvokeWrites => TypeInv'
  <1> SUFFICES ASSUME TypeInv, SendInvokeWrites PROVE TypeInv'
    OBVIOUS
  <1>1. actionId \in Nat /\ actionId > 0 /\ actionId \in 1..actionId
    BY DEF TypeInv, TypeOK, OutputTypes, IOPosition, SendInvokeWrites
  <1>2. /\ out' \in Seq(Contract!Message) /\ Len(out') = Len(out) + 1
        /\ Len(out) \in Nat /\ Len(posted) \in Nat
        /\ Len(out) + 1 \in DOMAIN posted
    BY <1>1, Written DEF SendInvokeWrites, IORuns
  <1>3. NextTask.target \in Targets /\ NextTask.kind = "invoke"
    BY <1>2 DEF TypeInv, PushTargets, NextTask, SendInvokeWrites, IORuns
  <1> USE DEF TypeInv, TypeOK
  <1>4. OutputTypes'
    BY <1>2 DEF SendInvokeWrites, IORuns, OutputTypes
  <1>5. CallbackTypes'
    BY <1>1, <1>3 DEF SendInvokeWrites, CallbackTypes, Targets, uiVars
  <1>6. IOPosition'
    BY <1>2, <1>3 DEF SendInvokeWrites, IOPosition, NextTask
  <1>7. InputTypes' /\ RegistryTypes' /\ PushTargets' /\ UNCHANGED client
    BY DEF SendInvokeWrites, InputTypes, RegistryTypes, PushTargets, Targets,
           uiVars
  <1> QED BY <1>4, <1>5, <1>6, <1>7

LEMMA ReturnsTypeInv == TypeInv /\ SendInvokeReturns => TypeInv'
  <1> SUFFICES ASSUME TypeInv, SendInvokeReturns PROVE TypeInv'
    OBVIOUS
  <1> USE DEF TypeInv, TypeOK
  <1>1. Len(out) \in DOMAIN posted /\ posted[Len(out)].kind = "invoke"
    BY Elements DEF IOPosition, SendInvokeReturns, OutputTypes
  <1>2. {posted[Len(out)].target} \in SUBSET Targets
    BY <1>1 DEF PushTargets
  <1>3. Targets' = Targets
    BY DEF SendInvokeReturns, Targets, uiVars
  <1>4. destroyed' \subseteq [target : Targets', thread : {"UI", "IO"}]
    BY <1>2, <1>3, ReleaseType DEF SendInvokeReturns
  <1>5. RegistryTypes'
    BY <1>3, <1>4 DEF SendInvokeReturns, RegistryTypes, uiVars
  <1>6. /\ InputTypes' /\ OutputTypes' /\ CallbackTypes' /\ PushTargets'
        /\ IOPosition' /\ UNCHANGED client
    BY <1>3 DEF SendInvokeReturns, InputTypes, OutputTypes, CallbackTypes,
                PushTargets, IOPosition
  <1> QED BY <1>5, <1>6

LEMMA QuitTypeInv == TypeInv /\ Quit => TypeInv'
  BY DEF TypeInv, TypeOK, PushTargets, IOPosition, Targets, Quit, uiVars,
         ioVars, NextTask, InputTypes, RegistryTypes, OutputTypes, CallbackTypes

LEMMA NonSessionsTypeInv == TypeInv /\ DeleteNonSessions => TypeInv'
  <1> SUFFICES ASSUME TypeInv, DeleteNonSessions PROVE TypeInv'
    OBVIOUS
  <1> USE DEF TypeInv, TypeOK
  <1>1. Targets' = Targets /\ client' \in {"sessions", "crashed"}
    BY DEF DeleteNonSessions, Targets
  <1>2. /\ InputTypes' /\ OutputTypes' /\ CallbackTypes' /\ PushTargets'
        /\ IOPosition'
    BY <1>1 DEF DeleteNonSessions, InputTypes, OutputTypes, CallbackTypes,
                PushTargets, IOPosition, NextTask, ioVars
  <1>3. RegistryTypes'
    <2>1. CASE UNCHANGED <<bindings, apiRemotes, clientRemotes, destroyed>>
      BY <1>1, <2>1 DEF DeleteNonSessions, RegistryTypes
    <2>2. CASE /\ clientRemotes \subseteq bindings
               /\ bindings' \subseteq bindings /\ apiRemotes' \subseteq apiRemotes
               /\ clientRemotes' \subseteq clientRemotes
               /\ Release(clientRemotes, "UI")
      <3>1. destroyed' \subseteq [target : Targets', thread : {"UI", "IO"}]
        BY <1>1, <2>2, ReleaseType DEF RegistryTypes
      <3> QED BY <1>1, <2>2, <3>1 DEF DeleteNonSessions, RegistryTypes
    <2> QED BY <2>1, <2>2 DEF DeleteNonSessions
  <1> QED BY <1>1, <1>2, <1>3

LEMMA SessionsTypeInv == TypeInv /\ DeleteSessions => TypeInv'
  <1> SUFFICES ASSUME TypeInv, DeleteSessions PROVE TypeInv'
    OBVIOUS
  <1> USE DEF TypeInv, TypeOK
  <1>1. Targets' = Targets /\ client' = "destroyed"
    BY DEF DeleteSessions, Targets
  <1>2. /\ InputTypes' /\ OutputTypes' /\ CallbackTypes' /\ PushTargets'
        /\ IOPosition'
    BY <1>1 DEF DeleteSessions, InputTypes, OutputTypes, CallbackTypes,
                PushTargets, IOPosition, NextTask, ioVars
  <1>3. RegistryTypes'
    <2> DEFINE T == (clientRemotes \intersect bindings)
                      \union {inv.target : inv \in invokes}
    <2>1. T \in SUBSET Targets /\ Release(T, "UI")
      BY DEF RegistryTypes, CallbackTypes, DeleteSessions
    <2>2. destroyed' \subseteq [target : Targets', thread : {"UI", "IO"}]
      BY <1>1, <2>1, ReleaseType
    <2> QED BY <1>1, <2>2 DEF DeleteSessions, RegistryTypes
  <1> QED BY <1>1, <1>2, <1>3

LEMMA NextTypeInv == TypeInv /\ [Next]_vars => TypeInv'
  <1>1. TypeInv /\ UNCHANGED vars => TypeInv'
    BY DEF vars, TypeInv, TypeOK, PushTargets, IOPosition, Targets, NextTask,
           InputTypes, RegistryTypes, OutputTypes, CallbackTypes
  <1> QED
    BY <1>1, ClientTypeInv, ChunkTypeInv, CreateTypeInv, CallTypeInv,
       PopupTypeInv, DeleteTypeInv, RunTypeInv, IgnoreTypeInv, SpontaneousTypeInv,
       SendReplyTypeInv, SendEventTypeInv, InsertsTypeInv, WritesTypeInv,
       ReturnsTypeInv, QuitTypeInv, NonSessionsTypeInv, SessionsTypeInv
    DEF Next, UIThread, IOThread

THEOREM TypeInvariant == Spec => []TypeInv
  BY InitTypeInv, NextTypeInv, PTL DEF Spec

(* The types the headers declare hold in every state, and no queue runs a  *)
(* task it was not given.                                                  *)
THEOREM TypeCorrect == Spec => []TypeOK
  <1>1. TypeInv => TypeOK
    BY DEF TypeInv
  <1> QED
    BY <1>1, TypeInvariant, PTL

-----------------------------------------------------------------------------
(***************************************************************************)
(* The raw pointers of API::remotes_ are owned.                            *)
(***************************************************************************)
(* Every step that registers or deletes a binding does so with its remote.  *)
LEMMA NextRemotesOwned == RemotesOwned /\ [Next]_vars => RemotesOwned'
  <1> SUFFICES ASSUME RemotesOwned, [Next]_vars PROVE RemotesOwned'
    OBVIOUS
  <1> USE DEF RemotesOwned
  <1>1. CASE UNCHANGED uiVars
    BY <1>1 DEF uiVars
  <1>2. CASE PerformCreate
    BY <1>2 DEF PerformCreate, Create
  <1>3. CASE PerformDelete
    BY <1>3 DEF PerformDelete, Delete
  <1>4. CASE DeleteNonSessions
    BY <1>4 DEF DeleteNonSessions
  <1>5. CASE DeleteSessions
    BY <1>5 DEF DeleteSessions
  <1>6. UNCHANGED uiVars \/ PerformCreate \/ PerformDelete
          \/ DeleteNonSessions \/ DeleteSessions
    BY DEF Next, vars, uiVars, ClientAction, ClientWrites, ProcessChunk,
           UIThread, PerformCall, CallMethod, PerformPopup, PopupReturns, RunCallback, IgnoreReply, PerformReply,
           EmitEvent, InvokeRemoteMethod, Push, IOThread, SendReply,
           SendEvent, SendInvokeInserts, SendInvokeWrites,
           SendInvokeReturns, Quit
  <1> QED BY <1>1, <1>2, <1>3, <1>4, <1>5, <1>6

(* No raw Remote pointer of the API outlives the Client's ownership of it. *)
THEOREM RemotesStayOwned == Spec => []RemotesOwned
  <1>1. Init => RemotesOwned
    BY DEF Init, RemotesOwned
  <1> QED
    BY <1>1, NextRemotesOwned, PTL DEF Spec

-----------------------------------------------------------------------------
(***************************************************************************)
(* Callbacks run once.  The identifier SendInvoke has just taken is new to *)
(* both invokes_ and the callbacks run, until the insertion completes.     *)
(***************************************************************************)
FreshId ==
  ioPhase \in {"inserting", "lost"} =>
    /\ \A inv \in invokes : inv.id # actionId
    /\ \A i \in DOMAIN ran : ran[i] # actionId

CallbackInv == CallbackRunsOnce /\ FreshId

(* No callback of an invocation runs twice, or after it left invokes_.     *)
THEOREM CallbacksRunOnce == Spec => []CallbackRunsOnce
  <1>1. Init => CallbackInv
    BY DEF Init, CallbackInv, CallbackRunsOnce, FreshId
  <1>2. TypeInv /\ CallbackInv /\ [Next]_vars => CallbackInv'
    <2> SUFFICES ASSUME TypeInv, CallbackInv, [Next]_vars PROVE CallbackInv'
      OBVIOUS
    <2>0. /\ \A inv \in invokes : inv.id \in 1..actionId
          /\ \A i \in DOMAIN ran : ran[i] \in 1..actionId
          /\ actionId \in Nat
          /\ DOMAIN ran = 1..Len(ran) /\ Len(ran) \in Nat
      BY Elements DEF TypeInv, TypeOK, OutputTypes, CallbackTypes
    <2>1. CASE UNCHANGED <<invokes, ran, actionId, ioPhase>>
      BY <2>1 DEF CallbackInv, CallbackRunsOnce, FreshId
    <2>2. CASE RunCallback
      <3>1. PICK id \in 1..actionId :
              /\ Entry(id) # {}
              /\ invokes' = invokes \ Entry(id)
              /\ ran' = Append(ran, id)
              /\ \/ ioPhase' = ioPhase
                 \/ ioPhase = "inserting" /\ ioPhase' = "lost"
              /\ actionId' = actionId
        BY <2>2 DEF RunCallback, PerformReply
      <3>2. /\ \A i \in DOMAIN ran : ran[i] # id
            /\ ioPhase \in {"inserting", "lost"} => id # actionId
        BY <3>1 DEF Entry, CallbackInv, CallbackRunsOnce, FreshId
      <3>3. /\ DOMAIN ran' = 1..(Len(ran) + 1)
            /\ ran'[Len(ran) + 1] = id
            /\ \A i \in DOMAIN ran : ran'[i] = ran[i]
        BY <2>0, <3>1, AppendFacts DEF TypeInv, TypeOK, CallbackTypes
      <3>4. \A inv \in invokes' : inv.id # id /\ inv \in invokes
        BY <3>1 DEF Entry
      <3>5. CallbackRunsOnce'
        BY <2>0, <3>2, <3>3, <3>4 DEF CallbackInv, CallbackRunsOnce
      <3>6. FreshId'
        BY <2>0, <3>1, <3>2, <3>3, <3>4 DEF CallbackInv, FreshId
      <3> QED BY <3>5, <3>6 DEF CallbackInv
    <2>3. CASE SendEvent
      BY <2>3 DEF SendEvent, CallbackInv, CallbackRunsOnce, FreshId
    <2>4. CASE SendInvokeInserts
      BY <2>0, <2>4 DEF SendInvokeInserts, CallbackInv, CallbackRunsOnce, FreshId
    <2>5. CASE SendInvokeWrites
      BY <2>5 DEF SendInvokeWrites, CallbackInv, CallbackRunsOnce, FreshId
    <2>6. CASE SendInvokeReturns
      BY <2>6 DEF SendInvokeReturns, CallbackInv, CallbackRunsOnce, FreshId
    <2>7. CASE DeleteSessions
      BY <2>7 DEF DeleteSessions, ioVars, CallbackInv, CallbackRunsOnce, FreshId
    <2>8. \/ UNCHANGED <<invokes, ran, actionId, ioPhase>>
          \/ RunCallback \/ SendEvent \/ SendInvokeInserts \/ SendInvokeWrites
          \/ SendInvokeReturns \/ DeleteSessions
      BY DEF Next, vars, ioVars, ClientAction, ClientWrites, ProcessChunk,
             UIThread, PerformCreate, Create, PerformCall, CallMethod, PerformPopup, PopupReturns, PerformDelete, Delete, Perform,
             IgnoreReply, PerformReply, EmitEvent, InvokeRemoteMethod, Push,
             IOThread, SendReply, Quit, DeleteNonSessions
    <2> QED BY <2>1, <2>2, <2>3, <2>4, <2>5, <2>6, <2>7, <2>8
  <1>3. CallbackInv => CallbackRunsOnce
    BY DEF CallbackInv
  <1> QED
    BY <1>1, <1>2, <1>3, TypeInvariant, PTL DEF Spec

-----------------------------------------------------------------------------
(***************************************************************************)
(* The IO thread destroys sessions only.  What it may drop the last        *)
(* reference of is what an invocation was posted for, so the log has to    *)
(* hold invocations of sessions only.                                      *)
(***************************************************************************)
SessionsInvoke ==
  \A i \in DOMAIN posted :
    posted[i].kind = "invoke" => objects[posted[i].target].type = SessionType

ThreadInv == SessionsInvoke /\ OnlySessionsDieOnIO

(* Objects keep their type, whatever is created after them. *)
LEMMA ObjectsKept ==
  ASSUME TypeInv, [Next]_vars
  PROVE  \A t \in Targets : t \in Targets' /\ objects'[t] = objects[t]
  <1>1. /\ Len(objects) \in Nat
        /\ objects \in Seq([type : Types, session : Nat])
    BY Elements DEF TypeInv, TypeOK, RegistryTypes
  <1>2. CASE UNCHANGED objects
    BY <1>2 DEF Targets
  <1>3. CASE PerformCreate
    <2> DEFINE id == performed + 1
               a  == sent[id]
               t  == IF a.type \in Types THEN Len(objects) + 1 ELSE 0
               o  == [type |-> a.type,
                      session |-> IF a.target \in bindings THEN a.target ELSE 0]
    <2>0. (UNCHANGED objects /\ t = 0) \/ (objects' = Append(objects, o) /\ t # 0)
      BY <1>3 DEF PerformCreate, Create
    <2>1. UNCHANGED objects \/ (objects' = Append(objects, o) /\ a.type \in Types)
      BY <2>0
    <2>2. CASE objects' = Append(objects, o) /\ a.type \in Types
      <3>1. o \in [type : Types, session : Nat]
        <4>1. a.target \in Nat
          BY <1>3, NextAction DEF PerformCreate, Create, Perform, TypeInv, TypeOK
        <4> QED BY <2>2, <4>1
      <3> HIDE DEF o
      <3>2. /\ Len(objects') = Len(objects) + 1
            /\ \A i \in 1..Len(objects) : objects'[i] = objects[i]
        BY <1>1, <2>2, <3>1, AppendFacts
      <3> QED BY <1>1, <3>2 DEF Targets
    <2> QED BY <1>2, <2>1, <2>2
  <1>4. UNCHANGED objects \/ PerformCreate
    BY DEF Next, vars, uiVars, ClientAction, ClientWrites, ProcessChunk,
           UIThread, PerformCall, CallMethod, PerformPopup, PopupReturns, PerformDelete, Delete, RunCallback, IgnoreReply,
           PerformReply, EmitEvent, InvokeRemoteMethod, Push, IOThread,
           SendReply, SendEvent, SendInvokeInserts, SendInvokeWrites,
           SendInvokeReturns, Quit, DeleteNonSessions, DeleteSessions
  <1> QED BY <1>2, <1>3, <1>4

(* How the log of posted tasks grows: by what at most one action posts, in *)
(* which only InvokeRemoteMethod posts an invocation.                      *)
LEMMA LogGrows ==
  ASSUME TypeInv, [Next]_vars
  PROVE  \/ posted' = posted
         \/ \E x \in Task : /\ posted' = posted \o <<x>>
                            /\ x.kind # "invoke" \/ InvokeRemoteMethod
                            /\ x.kind = "invoke" => /\ x.target \in bindings
                                                    /\ objects[x.target].type = SessionType
                            /\ x.kind = "reply" => x.target = 0 \/ PerformCreate
         \/ \E x, y \in Task : /\ posted' = posted \o <<x, y>>
                               /\ x.kind # "invoke" /\ y.kind # "invoke"
                               /\ x.kind # "reply" /\ y.target = 0
  <1> DEFINE Goal ==
         \/ posted' = posted
         \/ \E x \in Task : /\ posted' = posted \o <<x>>
                            /\ x.kind # "invoke" \/ InvokeRemoteMethod
                            /\ x.kind = "invoke" => /\ x.target \in bindings
                                                    /\ objects[x.target].type = SessionType
                            /\ x.kind = "reply" => x.target = 0 \/ PerformCreate
         \/ \E x, y \in Task : /\ posted' = posted \o <<x, y>>
                               /\ x.kind # "invoke" /\ y.kind # "invoke"
                               /\ x.kind # "reply" /\ y.target = 0
  <1>1. CASE EmitEvent
    <2>1. PICK t \in Targets : Push(Event(t))
      BY <1>1 DEF EmitEvent, AliveObjects
    <2>2. Event(t) \in Task /\ Event(t).kind = "event"
      BY TaskTypes, Elements DEF Event, Targets, TypeInv, TypeOK, RegistryTypes
    <2> QED BY <2>1, <2>2 DEF Push, Post
  <1>2. CASE InvokeRemoteMethod
    <2>1. PICK t \in Targets : objects[t].type = SessionType /\ Push(Invoke(t))
      BY <1>2 DEF InvokeRemoteMethod, AliveObjects
    <2>2. Invoke(t) \in Task /\ Invoke(t).target = t /\ Invoke(t).kind = "invoke"
      BY TaskTypes, Elements DEF Invoke, Targets, TypeInv, TypeOK, RegistryTypes
    <2>3. posted' = posted \o <<Invoke(t)>> /\ t \in bindings
      BY <2>1, <2>2 DEF Push, Post, HasRemote
    <2> QED BY <1>2, <2>1, <2>2, <2>3
  <1>3. CASE PerformCreate \/ PerformDelete
    <2>1. performed + 1 \in Nat /\ Len(objects) + 1 \in Nat
      BY <1>3, Elements, NextAction
      DEF PerformCreate, Create, PerformDelete, Delete, Perform, TypeInv, TypeOK, RegistryTypes
    <2>2. \A n \in Nat : /\ Reply(performed + 1, n) \in Task
                         /\ Reply(performed + 1, n).kind = "reply"
                         /\ Reply(performed + 1, n).target = n
      BY <2>1, TaskTypes DEF Reply
    <2>3. \E n \in Nat : /\ posted' = posted \o <<Reply(performed + 1, n)>>
                         /\ n = 0 \/ PerformCreate
      BY <1>3, <2>1 DEF PerformCreate, Create, PerformDelete, Delete, Post
    <2> QED BY <2>2, <2>3
  <1>4. CASE PerformCall
    <2>1. performed + 1 \in Nat /\ sent[performed + 1].target \in Nat
      BY <1>4, NextAction DEF PerformCall, CallMethod, Perform, TypeInv, TypeOK
    <2>2. /\ Reply(performed + 1, 0) \in Task
          /\ Reply(performed + 1, 0).kind = "reply"
          /\ Reply(performed + 1, 0).target = 0
          /\ Event(sent[performed + 1].target) \in Task
          /\ Event(sent[performed + 1].target).kind = "event"
      BY <2>1, TaskTypes DEF Reply, Event
    <2>3. \/ posted' = posted
          \/ posted' = posted \o <<Reply(performed + 1, 0)>>
          \/ posted' = posted \o <<Event(sent[performed + 1].target),
                                   Reply(performed + 1, 0)>>
      BY <1>4 DEF PerformCall, CallMethod, Post
    <2> QED BY <2>2, <2>3
  <1>5. CASE Post(<<Reply(popup, 0)>>)
    <2>1. popup \in Nat
      BY DEF TypeInv, TypeOK, InputTypes
    <2>2. /\ Reply(popup, 0) \in Task /\ Reply(popup, 0).kind = "reply"
          /\ Reply(popup, 0).target = 0
      BY <2>1, TaskTypes DEF Reply
    <2> QED BY <1>5, <2>2 DEF Post
  <1>6. UNCHANGED posted \/ EmitEvent \/ InvokeRemoteMethod \/ PerformCreate
          \/ PerformCall \/ PerformDelete \/ Post(<<Reply(popup, 0)>>)
    BY DEF Next, vars, PerformPopup, PopupReturns, ClientAction, ClientWrites, ProcessChunk, UIThread,
           RunCallback, IgnoreReply, PerformReply, IOThread, SendReply,
           SendEvent, SendInvokeInserts, SendInvokeWrites, SendInvokeReturns,
           Quit, DeleteNonSessions, DeleteSessions
  <1> QED BY <1>1, <1>2, <1>3, <1>4, <1>5, <1>6

LEMMA NextSessionsInvoke ==
  ASSUME TypeInv, SessionsInvoke, [Next]_vars
  PROVE  SessionsInvoke'
  <1>1. /\ posted \in Seq(Task) /\ Len(posted) \in Nat
        /\ DOMAIN posted = 1..Len(posted)
    BY Elements DEF TypeInv, TypeOK, OutputTypes
  <1>2. \A t \in Targets : objects'[t] = objects[t]
    BY ObjectsKept
  <1>3. \A i \in DOMAIN posted :
          posted[i].kind = "invoke" =>
            posted[i].target \in Targets /\ objects'[posted[i].target].type = SessionType
    BY <1>2 DEF TypeInv, PushTargets, SessionsInvoke
  <1>4. CASE posted' = posted
    BY <1>3, <1>4 DEF SessionsInvoke
  <1>5. ASSUME NEW x \in Task, posted' = posted \o <<x>>,
               x.kind = "invoke" => /\ x.target \in bindings
                                    /\ objects[x.target].type = SessionType
        PROVE  SessionsInvoke'
    <2>1. /\ DOMAIN posted' = 1..(Len(posted) + 1)
          /\ posted'[Len(posted) + 1] = x
          /\ \A i \in 1..Len(posted) : posted'[i] = posted[i]
      BY <1>1, <1>5, ConcatOne, AppendFacts
    <2>2. bindings \subseteq Targets
      BY DEF TypeInv, TypeOK, RegistryTypes
    <2> QED BY <1>1, <1>2, <1>3, <1>5, <2>1, <2>2 DEF SessionsInvoke
  <1>6. ASSUME NEW x \in Task, NEW y \in Task, posted' = posted \o <<x, y>>,
               x.kind # "invoke", y.kind # "invoke"
        PROVE  SessionsInvoke'
    <2>1. Post(<<x, y>>)
      BY <1>6 DEF Post
    <2>2. /\ posted' \in Seq(Task) /\ Len(posted') = Len(posted) + 2
          /\ posted'[Len(posted) + 1] = x /\ posted'[Len(posted) + 2] = y
          /\ \A i \in 1..Len(posted) : posted'[i] = posted[i]
      BY <1>1, <2>1, PostTwo
    <2>3. DOMAIN posted' = 1..(Len(posted) + 2)
      BY <2>2, Elements
    <2> QED BY <1>1, <1>3, <1>6, <2>2, <2>3 DEF SessionsInvoke
  <1> QED BY <1>4, <1>5, <1>6, LogGrows

(* The IO thread never runs the destructor of a window or a menu.          *)
THEOREM SessionsAloneDieOnIO == Spec => []OnlySessionsDieOnIO
  <1>1. Init => ThreadInv
    BY DEF Init, ThreadInv, SessionsInvoke, OnlySessionsDieOnIO
  <1>2. TypeInv /\ ThreadInv /\ [Next]_vars => ThreadInv'
    <2> SUFFICES ASSUME TypeInv, ThreadInv, [Next]_vars PROVE OnlySessionsDieOnIO'
      BY NextSessionsInvoke DEF ThreadInv
    <2>1. \A d \in destroyed : d.target \in Targets
      BY DEF TypeInv, TypeOK, RegistryTypes
    <2>2. \A t \in Targets : objects'[t] = objects[t]
      BY ObjectsKept
    <2>3. CASE SendInvokeReturns
      <3>1. Len(out) \in DOMAIN posted /\ posted[Len(out)].kind = "invoke"
        BY <2>3, Elements
        DEF TypeInv, TypeOK, IOPosition, SendInvokeReturns, OutputTypes
      <3>2. /\ posted[Len(out)].target \in Targets
            /\ objects[posted[Len(out)].target].type = SessionType
        BY <3>1 DEF ThreadInv, SessionsInvoke, TypeInv, PushTargets
      <3>3. \A d \in destroyed' : d \in destroyed \/ d.target = posted[Len(out)].target
        BY <2>3 DEF SendInvokeReturns, Release
      <3> QED BY <2>1, <2>2, <3>2, <3>3 DEF ThreadInv, OnlySessionsDieOnIO
    <2>4. CASE \A d \in destroyed' : d \in destroyed \/ d.thread = "UI"
      BY <2>1, <2>2, <2>4 DEF ThreadInv, OnlySessionsDieOnIO
    <2>5. SendInvokeReturns \/ \A d \in destroyed' : d \in destroyed \/ d.thread = "UI"
      <3>1. CASE PerformDelete \/ RunCallback \/ DeleteNonSessions \/ DeleteSessions
        BY <3>1 DEF PerformDelete, Delete, RunCallback, DeleteNonSessions, DeleteSessions,
                    Release
      <3>2. CASE UNCHANGED destroyed
        BY <3>2
      <3>3. UNCHANGED destroyed \/ SendInvokeReturns \/ PerformDelete
              \/ RunCallback \/ DeleteNonSessions \/ DeleteSessions
        BY DEF Next, vars, ClientAction, ClientWrites, ProcessChunk, UIThread,
               PerformCreate, Create, PerformCall, CallMethod, PerformPopup, PopupReturns, IgnoreReply, PerformReply, EmitEvent,
               InvokeRemoteMethod, Push, IOThread, SendReply, SendEvent,
               SendInvokeInserts, SendInvokeWrites, Quit
      <3> QED BY <3>1, <3>2, <3>3
    <2> QED BY <2>3, <2>4, <2>5
  <1>3. ThreadInv => OnlySessionsDieOnIO
    BY DEF ThreadInv
  <1> QED
    BY <1>1, <1>2, <1>3, TypeInvariant, PTL DEF Spec

-----------------------------------------------------------------------------
(***************************************************************************)
(* An object is destroyed exactly when nothing holds it.  An object can    *)
(* only gain a reference while it is registered, since a task is posted    *)
(* for a registered binding only; so one that nothing holds stays so.      *)
(***************************************************************************)
Held(t) == t \in bindings \/ Pinned(t)

Balanced == \A t \in Targets : IsDestroyed(t) <=> ~Held(t)

(* Objects lose references only among those Release looks at. *)
LEMMA ReleaseBalances ==
  ASSUME Balanced, Targets' = Targets, NEW T, NEW thread, Release(T, thread),
         \A t \in Targets : Held(t)' => Held(t),
         \A t \in Targets : Held(t) => t \in T \/ Held(t)'
  PROVE  Balanced'
  <1> SUFFICES ASSUME NEW t \in Targets
               PROVE  IsDestroyed(t)' <=> ~Held(t)'
    BY DEF Balanced
  <1>1. IsDestroyed(t)'
          <=> IsDestroyed(t) \/ (t \in T /\ ~IsDestroyed(t) /\ ~Held(t)')
    <2> DEFINE D == {u \in T : ~IsDestroyed(u) /\ u \notin bindings' /\ ~Pinned(u)'}
               R == {[target |-> u, thread |-> thread] : u \in D}
    <2>1. destroyed' = destroyed \union R
      BY DEF Release
    <2>2. (\E d \in R : d.target = t) <=> t \in D
      <3> HIDE DEF D
      <3>1. ASSUME NEW d \in R, d.target = t PROVE t \in D
        BY <3>1
      <3>2. ASSUME t \in D PROVE \E d \in R : d.target = t
        <4>1. [target |-> t, thread |-> thread] \in R
          BY <3>2
        <4>2. [target |-> t, thread |-> thread].target = t
          OBVIOUS
        <4> HIDE DEF R
        <4> QED BY <4>1, <4>2
      <3> QED BY <3>1, <3>2
    <2>3. IsDestroyed(t)' <=> IsDestroyed(t) \/ t \in D
      <3> HIDE DEF R, D
      <3> QED BY <2>1, <2>2 DEF IsDestroyed
    <2>4. t \in D <=> t \in T /\ ~IsDestroyed(t) /\ ~Held(t)'
      BY DEF Held
    <2> HIDE DEF D
    <2> QED BY <2>3, <2>4
  <1>2. IsDestroyed(t) <=> ~Held(t)
    BY DEF Balanced
  <1> QED BY <1>1, <1>2

LEMMA NothingReleased ==
  ASSUME Balanced, Targets' = Targets, UNCHANGED destroyed,
         \A t \in Targets : Held(t)' <=> Held(t)
  PROVE  Balanced'
  BY DEF Balanced, IsDestroyed

(* What a task holds, when the UI thread posts more of them. *)
LEMMA HoldsAfterPosting ==
  ASSUME TypeInv, [Next]_vars, UNCHANGED <<out, ioPhase>>, NEW t \in Targets
  PROVE  /\ TaskHolds(t) => TaskHolds(t)'
         /\ TaskHolds(t)' => TaskHolds(t) \/ (InvokeRemoteMethod /\ t \in bindings)
         /\ ~InvokeRemoteMethod => (TaskHolds(t)' <=> TaskHolds(t))
  <1>1. /\ posted \in Seq(Task) /\ Len(posted) \in Nat
        /\ DOMAIN posted = 1..Len(posted)
    BY Elements DEF TypeInv, TypeOK, OutputTypes
  <1>2. CASE posted' = posted
    BY <1>2 DEF TaskHolds
  <1>3. ASSUME NEW x \in Task, posted' = posted \o <<x>>,
               x.kind # "invoke" \/ InvokeRemoteMethod,
               x.kind = "invoke" => x.target \in bindings
        PROVE  /\ TaskHolds(t) => TaskHolds(t)'
               /\ TaskHolds(t)' => TaskHolds(t) \/ (InvokeRemoteMethod /\ t \in bindings)
               /\ ~InvokeRemoteMethod => (TaskHolds(t)' <=> TaskHolds(t))
    <2>1. /\ DOMAIN posted' = (DOMAIN posted) \union {Len(posted) + 1}
          /\ posted'[Len(posted) + 1] = x
          /\ \A i \in DOMAIN posted : posted'[i] = posted[i]
      BY <1>1, <1>3, ConcatOne, AppendFacts
    <2>2. TaskHolds(t) => TaskHolds(t)'
      BY <2>1 DEF TaskHolds
    <2>3. TaskHolds(t)' => TaskHolds(t) \/ (x.kind = "invoke" /\ x.target = t)
      BY <2>1 DEF TaskHolds
    <2> QED BY <1>3, <2>2, <2>3
  <1>4. ASSUME NEW x \in Task, NEW y \in Task, posted' = posted \o <<x, y>>,
               x.kind # "invoke", y.kind # "invoke"
        PROVE  TaskHolds(t)' <=> TaskHolds(t)
    <2>1. Post(<<x, y>>)
      BY <1>4 DEF Post
    <2>2. /\ posted' \in Seq(Task) /\ Len(posted') = Len(posted) + 2
          /\ posted'[Len(posted) + 1] = x /\ posted'[Len(posted) + 2] = y
          /\ \A i \in 1..Len(posted) : posted'[i] = posted[i]
      BY <1>1, <2>1, PostTwo
    <2>3. /\ DOMAIN posted' = (DOMAIN posted) \union {Len(posted) + 1, Len(posted) + 2}
          /\ \A i \in DOMAIN posted : posted'[i] = posted[i]
      BY <1>1, <2>2, Elements
    <2> QED BY <1>4, <2>2, <2>3 DEF TaskHolds
  <1> QED BY <1>2, <1>3, <1>4, LogGrows

(* Performing an action of the client is no push. *)
LEMMA PerformsNoPush ==
  ASSUME TypeInv, performed' = performed + 1
  PROVE  ~InvokeRemoteMethod
  <1>1. performed \in Nat
    BY Elements DEF TypeInv, TypeOK, InputTypes
  <1>2. InvokeRemoteMethod => performed' = performed
    BY DEF InvokeRemoteMethod, Push
  <1> QED BY <1>1, <1>2

(* The actions under which no object loses a reference. *)
LEMMA QuietBalanced ==
  ASSUME TypeInv, Balanced, [Next]_vars, UNCHANGED destroyed, Targets' = Targets,
         UNCHANGED <<out, ioPhase, bindings, invokes>>
  PROVE  Balanced'
  <1>1. \A t \in Targets : Held(t)' <=> Held(t)
    BY HoldsAfterPosting DEF Held, Pinned
  <1> QED BY <1>1, NothingReleased

LEMMA CreateBalanced == TypeInv /\ Balanced /\ PerformCreate => Balanced'
  <1> SUFFICES ASSUME TypeInv, Balanced, PerformCreate,
                      NEW t \in Targets'
               PROVE  IsDestroyed(t)' <=> ~Held(t)'
    BY DEF Balanced
  <1>1. [Next]_vars /\ UNCHANGED <<out, ioPhase, invokes, destroyed>>
    BY DEF Next, UIThread, PerformCreate, Create, Perform, ioVars
  <1>2. IsDestroyed(t)' <=> IsDestroyed(t)
    BY <1>1 DEF IsDestroyed
  <1> DEFINE id == performed + 1
             a  == sent[id]
             u  == IF a.type \in Types THEN Len(objects) + 1 ELSE 0
             o  == [type |-> a.type,
                    session |-> IF a.target \in bindings THEN a.target ELSE 0]
  <1>3. \/ UNCHANGED <<objects, bindings>>
        \/ /\ objects' = Append(objects, o) /\ u = Len(objects) + 1
           /\ bindings' = bindings \union {u} /\ a.type \in Types
    <2>1. \/ UNCHANGED <<objects, bindings>> /\ u = 0
          \/ /\ objects' = Append(objects, o) /\ u # 0
             /\ bindings' = bindings \union {u}
      BY DEF PerformCreate, Create
    <2> QED BY <2>1
  <1>4. /\ objects \in Seq([type : Types, session : Nat]) /\ Len(objects) \in Nat
    BY Elements DEF TypeInv, TypeOK, RegistryTypes
  <1>5. CASE UNCHANGED <<objects, bindings>>
    <2>1. t \in Targets
      BY <1>5 DEF Targets
    <2>2. TaskHolds(t)' <=> TaskHolds(t)
      <3>1. ~InvokeRemoteMethod
        BY PerformsNoPush DEF PerformCreate, Create, Perform
      <3> QED BY <1>1, <2>1, <3>1, HoldsAfterPosting
    <2> QED BY <1>1, <1>2, <1>5, <2>1, <2>2 DEF Balanced, Held, Pinned
  <1>6. CASE /\ objects' = Append(objects, o) /\ u = Len(objects) + 1
             /\ bindings' = bindings \union {u} /\ a.type \in Types
    <2>1. Len(objects') = Len(objects) + 1
      <3>1. o \in [type : Types, session : Nat]
        <4>1. a.target \in Nat
          BY NextAction DEF PerformCreate, Create, Perform, TypeInv, TypeOK
        <4> QED BY <1>6, <4>1
      <3> HIDE DEF o
      <3> QED BY <1>4, <1>6, <3>1, AppendFacts
    <2> HIDE DEF o, u
    <2>2. t \in Targets \/ t = u
      BY <1>4, <1>6, <2>1 DEF Targets
    <2>3. CASE t = u
      <3>1. u \notin Targets
        BY <1>4, <1>6 DEF Targets
      <3>2. ~IsDestroyed(u)
        BY <3>1 DEF IsDestroyed, TypeInv, TypeOK, RegistryTypes
      <3> QED BY <1>2, <1>6, <2>3, <3>2 DEF Held
    <2>4. CASE t \in Targets
      <3>1. t # u
        BY <1>4, <1>6, <2>4 DEF Targets
      <3>2. ~InvokeRemoteMethod
        BY PerformsNoPush DEF PerformCreate, Create, Perform
      <3>3. TaskHolds(t)' <=> TaskHolds(t)
        BY <1>1, <2>4, <3>2, HoldsAfterPosting
      <3> QED BY <1>1, <1>2, <1>6, <2>4, <3>1, <3>3 DEF Balanced, Held, Pinned
    <2> QED BY <2>2, <2>3, <2>4
  <1> QED BY <1>3, <1>5, <1>6

LEMMA DeleteBalanced == TypeInv /\ Balanced /\ PerformDelete => Balanced'
  <1> SUFFICES ASSUME TypeInv, Balanced, PerformDelete PROVE Balanced'
    OBVIOUS
  <1> DEFINE d == sent[performed + 1].target
  <1>1. /\ [Next]_vars /\ UNCHANGED <<out, ioPhase, invokes>>
        /\ Targets' = Targets /\ bindings' = bindings \ {d}
        /\ Release(bindings \intersect {d}, "UI")
    BY DEF Next, UIThread, PerformDelete, Delete, Perform, ioVars, Targets
  <1>2. ~InvokeRemoteMethod
    BY PerformsNoPush DEF PerformDelete, Delete, Perform
  <1>3. \A t \in Targets : Pinned(t)' <=> Pinned(t)
    BY <1>1, <1>2, HoldsAfterPosting DEF Pinned
  <1> HIDE DEF d
  <1>4. /\ \A t \in Targets : Held(t)' => Held(t)
        /\ \A t \in Targets : Held(t) => t \in bindings \intersect {d} \/ Held(t)'
    BY <1>1, <1>3 DEF Held
  <1> QED BY <1>1, <1>4, ReleaseBalances

LEMMA RunBalanced == TypeInv /\ Balanced /\ RunCallback => Balanced'
  <1> SUFFICES ASSUME TypeInv, Balanced, RunCallback PROVE Balanced'
    OBVIOUS
  <1>1. PICK id \in 1..actionId :
          /\ invokes' = invokes \ Entry(id)
          /\ UNCHANGED <<posted, out, objects, bindings>>
          /\ UNCHANGED ioPhase \/ (ioPhase = "inserting" /\ ioPhase' = "lost")
          /\ Release({inv.target : inv \in Entry(id)}, "UI")
    BY DEF RunCallback, PerformReply, uiVars
  <1>2. \A t : TaskHolds(t)' <=> TaskHolds(t)
    BY <1>1 DEF TaskHolds
  <1>3. Entry(id) \subseteq invokes
    BY DEF Entry
  <1>4. /\ \A t \in Targets : Held(t)' => Held(t)
        /\ \A t \in Targets :
             Held(t) => t \in {inv.target : inv \in Entry(id)} \/ Held(t)'
    BY <1>1, <1>2, <1>3 DEF Held, Pinned
  <1> QED BY <1>1, <1>4, ReleaseBalances DEF Targets

(* The IO thread's steps that destroy nothing. *)
LEMMA IOBalanced ==
  ASSUME TypeInv, Balanced,
         SendReply \/ SendEvent \/ SendInvokeInserts \/ SendInvokeWrites
  PROVE  Balanced'
  <1>1. /\ UNCHANGED <<posted, objects, bindings, destroyed>>
        /\ Len(out) \in Nat /\ DOMAIN posted = 1..Len(posted)
        /\ Len(posted) \in Nat
    BY Elements DEF SendReply, SendEvent, SendInvokeInserts, SendInvokeWrites,
                    uiVars, TypeInv, TypeOK, OutputTypes
  <1>2. Targets' = Targets
    BY <1>1 DEF Targets
  <1>3. CASE SendReply \/ SendEvent
    <2>1. /\ UNCHANGED <<ioPhase, invokes>> /\ ioPhase = "idle"
          /\ Len(out) < Len(posted) /\ posted[Len(out) + 1].kind # "invoke"
      BY <1>3 DEF SendReply, SendEvent, IORuns, NextTask
    <2>2. Len(out') = Len(out) + 1
      <3>1. CASE SendReply
        <4>1. NextTask.id \in Nat
          <5>1. NextTask \in Task
            BY <1>1, <2>1, Elements DEF NextTask, TypeInv, TypeOK, OutputTypes
          <5> QED BY <5>1 DEF Task
        <4> QED BY <2>1, <3>1, <4>1, Written DEF SendReply
      <3>2. CASE SendEvent
        <4>1. actionId + 1 \in Nat
          BY DEF TypeInv, TypeOK, OutputTypes
        <4> QED BY <2>1, <3>2, <4>1, Written DEF SendEvent
      <3> QED BY <1>3, <3>1, <3>2
    <2>3. \A t : TaskHolds(t)' <=> TaskHolds(t)
      BY <1>1, <2>1, <2>2 DEF TaskHolds
    <2>4. \A t \in Targets : Held(t)' <=> Held(t)
      BY <1>1, <2>1, <2>3 DEF Held, Pinned
    <2> QED BY <1>1, <1>2, <2>4, NothingReleased
  <1>4. CASE SendInvokeInserts
    <2>1. \A t : TaskHolds(t)' <=> TaskHolds(t)
      BY <1>1, <1>4 DEF SendInvokeInserts, TaskHolds
    <2>2. \A t \in Targets : Held(t)' <=> Held(t)
      BY <1>1, <1>4, <2>1 DEF SendInvokeInserts, Held, Pinned
    <2> QED BY <1>1, <1>2, <2>2, NothingReleased
  <1>5. CASE SendInvokeWrites
    <2>1. /\ ioPhase # "written" /\ ioPhase' = "written"
          /\ Len(out) < Len(posted) /\ NextTask = posted[Len(out) + 1]
          /\ NextTask.kind = "invoke"
          /\ invokes' = invokes
             \/ invokes' = invokes \union {[id |-> actionId, target |-> NextTask.target]}
      BY <1>5 DEF SendInvokeWrites, IORuns, NextTask
    <2>2. Len(out') = Len(out) + 1
      <3>1. actionId \in Nat
        BY DEF TypeInv, TypeOK, OutputTypes
      <3> QED BY <1>5, <2>1, <3>1, Written DEF SendInvokeWrites
    <2>3. \A t : TaskHolds(t)' <=> TaskHolds(t)
      BY <1>1, <2>1, <2>2 DEF TaskHolds
    <2>4. TaskHolds(NextTask.target)
      BY <1>1, <2>1 DEF TaskHolds
    <2>5. \A inv \in invokes' : inv \in invokes \/ inv.target = NextTask.target
      BY <2>1
    <2>6. \A t \in Targets : Pinned(t)' <=> Pinned(t)
      BY <2>1, <2>3, <2>4, <2>5 DEF Pinned
    <2> QED BY <1>1, <1>2, <2>6, NothingReleased DEF Held
  <1> QED BY <1>3, <1>4, <1>5

LEMMA ReturnsBalanced == TypeInv /\ Balanced /\ SendInvokeReturns => Balanced'
  <1> SUFFICES ASSUME TypeInv, Balanced, SendInvokeReturns PROVE Balanced'
    OBVIOUS
  <1> DEFINE T == {posted[Len(out)].target}
  <1>1. /\ UNCHANGED <<posted, out, invokes, bindings, objects>>
        /\ ioPhase = "written" /\ ioPhase' = "idle" /\ Release(T, "IO")
    BY DEF SendInvokeReturns, uiVars
  <1>2. \A t : TaskHolds(t)' => TaskHolds(t)
    BY <1>1 DEF TaskHolds
  <1>3. \A t : TaskHolds(t) => t \in T \/ TaskHolds(t)'
    BY <1>1 DEF TaskHolds
  <1> HIDE DEF T
  <1>4. /\ \A t \in Targets : Held(t)' => Held(t)
        /\ \A t \in Targets : Held(t) => t \in T \/ Held(t)'
    BY <1>1, <1>2, <1>3 DEF Held, Pinned
  <1> QED BY <1>1, <1>4, ReleaseBalances DEF Targets

LEMMA NonSessionsBalanced ==
  TypeInv /\ Balanced /\ DeleteNonSessions => client' = "crashed" \/ Balanced'
  <1> SUFFICES ASSUME TypeInv, Balanced, DeleteNonSessions,
                      clientRemotes \subseteq bindings
               PROVE  Balanced'
    BY DEF DeleteNonSessions
  <1>1. /\ UNCHANGED <<posted, out, ioPhase, invokes, objects>>
        /\ bindings' = {t \in bindings : t \notin clientRemotes \/ IsSession(t)}
        /\ Release(clientRemotes, "UI")
    BY DEF DeleteNonSessions, ioVars
  <1>2. \A t : Pinned(t)' <=> Pinned(t)
    BY <1>1 DEF Pinned, TaskHolds
  <1>3. /\ \A t \in Targets : Held(t)' => Held(t)
        /\ \A t \in Targets : Held(t) => t \in clientRemotes \/ Held(t)'
    BY <1>1, <1>2 DEF Held
  <1> QED BY <1>1, <1>3, ReleaseBalances DEF Targets

LEMMA SessionsBalanced == TypeInv /\ Balanced /\ DeleteSessions => Balanced'
  <1> SUFFICES ASSUME TypeInv, Balanced, DeleteSessions PROVE Balanced'
    OBVIOUS
  <1> DEFINE T == (clientRemotes \intersect bindings)
                    \union {inv.target : inv \in invokes}
  <1>1. /\ UNCHANGED <<posted, out, ioPhase, objects>>
        /\ bindings' = bindings \ clientRemotes /\ invokes' = {}
        /\ Release(T, "UI")
    BY DEF DeleteSessions, ioVars
  <1>2. \A t : TaskHolds(t)' <=> TaskHolds(t)
    BY <1>1 DEF TaskHolds
  <1>3. \A t : t \in T <=> (t \in clientRemotes /\ t \in bindings)
                            \/ \E inv \in invokes : inv.target = t
    OBVIOUS
  <1> HIDE DEF T
  <1>4. /\ \A t \in Targets : Held(t)' => Held(t)
        /\ \A t \in Targets : Held(t) => t \in T \/ Held(t)'
    BY <1>1, <1>2, <1>3 DEF Held, Pinned
  <1> QED BY <1>1, <1>4, ReleaseBalances DEF Targets

(* Until the destructor of Client meets its NULL binding.                  *)
BalancedInv == client # "crashed" => Balanced

(* Until then an object is destroyed exactly when nothing holds it.         *)
THEOREM StaysBalanced == Spec => []BalancedInv
  <1>1. Init => BalancedInv
    BY DEF Init, BalancedInv, Balanced, Targets
  <1>2. TypeInv /\ BalancedInv /\ [Next]_vars => BalancedInv'
    <2> SUFFICES ASSUME TypeInv, BalancedInv, [Next]_vars, client' # "crashed"
                 PROVE  Balanced'
      BY DEF BalancedInv
    <2>1. client # "crashed"
      <3>1. client = "crashed" => client' = "crashed"
        BY DEF Next, vars, ClientAction, ClientWrites, ProcessChunk, UIThread,
               PerformCreate, Create, PerformCall, CallMethod, PerformPopup, PopupReturns, PerformDelete, Delete, Perform, RunCallback,
               IgnoreReply, PerformReply, EmitEvent, InvokeRemoteMethod, Push,
               IOThread, SendReply, SendEvent, SendInvokeInserts,
               SendInvokeWrites, SendInvokeReturns, Quit, DeleteNonSessions,
               DeleteSessions
      <3> QED BY <3>1
    <2>2. Balanced
      BY <2>1 DEF BalancedInv
    <2>3. CASE /\ UNCHANGED <<destroyed, objects, out, ioPhase, bindings, invokes>>
      BY <2>2, <2>3, QuietBalanced DEF Targets
    <2>4. \/ UNCHANGED <<destroyed, objects, out, ioPhase, bindings, invokes>>
          \/ PerformCreate \/ PerformDelete \/ RunCallback
          \/ SendReply \/ SendEvent \/ SendInvokeInserts \/ SendInvokeWrites
          \/ SendInvokeReturns \/ DeleteNonSessions \/ DeleteSessions
      BY DEF Next, vars, uiVars, ioVars, ClientAction, ClientWrites,
             ProcessChunk, UIThread, PerformCall, CallMethod, PerformPopup, PopupReturns, Perform, IgnoreReply,
             PerformReply, EmitEvent, InvokeRemoteMethod, Push, IOThread, Quit
    <2> QED BY <2>2, <2>3, <2>4, CreateBalanced, DeleteBalanced, RunBalanced,
               IOBalanced, ReturnsBalanced, NonSessionsBalanced, SessionsBalanced
  <1> QED
    BY <1>1, <1>2, TypeInvariant, PTL DEF Spec

(* A binding object is destroyed exactly when nothing refers to it.        *)
THEOREM ObjectsAliveIffHeld == Spec => []AliveIffHeld
  <1>1. BalancedInv => AliveIffHeld
    BY DEF BalancedInv, Balanced, AliveIffHeld, Held
  <1> QED BY <1>1, StaysBalanced, PTL

-----------------------------------------------------------------------------
(***************************************************************************)
(* Sessions go last.  What makes the destructor of Client right is what    *)
(* the client may write: a create names a session only for an object that  *)
(* is none.  So no object that uses a session is a session, the first pass *)
(* leaves nothing but sessions registered, and no callback holds an object *)
(* that is not one.                                                        *)
(***************************************************************************)
IsASession(t) == t \in Targets /\ objects[t].type = SessionType

CreatesNameSessions ==
  \A k \in DOMAIN sent :
    sent[k].action = "create" /\ sent[k].target # 0 =>
      IsASession(sent[k].target) /\ sent[k].type # SessionType

UsersAreNoSessions ==
  \A w \in Targets :
    objects[w].session # 0 =>
      IsASession(objects[w].session) /\ objects[w].type # SessionType

CallbacksHoldSessions == \A inv \in invokes : IsASession(inv.target)

SessionsRemain == client = "sessions" => \A t \in bindings : IsASession(t)

SessionInv ==
  /\ SessionsInvoke /\ RemotesOwned
  /\ CreatesNameSessions /\ UsersAreNoSessions
  /\ CallbacksHoldSessions /\ SessionsRemain

(* A session stays one. *)
LEMMA SessionsStay ==
  ASSUME TypeInv, [Next]_vars
  PROVE  \A t : IsASession(t) => IsASession(t)'
  BY ObjectsKept DEF IsASession

(* The client names the session of a new object, which is none itself. *)
LEMMA NextCreatesName ==
  ASSUME TypeInv, CreatesNameSessions, [Next]_vars
  PROVE  CreatesNameSessions'
  <1>1. sent \in Seq(Contract!Action) /\ Len(sent) \in Nat /\ DOMAIN sent = 1..Len(sent)
    BY Elements DEF TypeInv, TypeOK, InputTypes
  <1>2. CASE UNCHANGED sent
    BY <1>2, SessionsStay DEF CreatesNameSessions
  <1>3. ASSUME NEW a, a \in Contract!Action, sent' = Append(sent, a),
               a.action = "create" /\ a.target # 0 =>
                 IsASession(a.target) /\ a.type # SessionType
        PROVE  CreatesNameSessions'
    <2>1. /\ DOMAIN sent' = 1..(Len(sent) + 1) /\ sent'[Len(sent) + 1] = a
          /\ \A k \in 1..Len(sent) : sent'[k] = sent[k]
      BY <1>1, <1>3, AppendFacts
    <2> QED BY <1>1, <1>3, <2>1, SessionsStay DEF CreatesNameSessions
  <1>4. CASE ClientAction
    <2>1. ASSUME NEW ty \in Types \union {UnknownType}, NEW s \in Known \union {0},
                 s # 0 => objects[s].type = SessionType /\ ty = WindowType,
                 ClientWrites([action |-> "create", type |-> ty, target |-> s])
          PROVE  CreatesNameSessions'
      <3> DEFINE a == [action |-> "create", type |-> ty, target |-> s]
      <3>1. s \in Nat
        BY Elements DEF Known, Targets, TypeInv, TypeOK, RegistryTypes
      <3>2. a \in Contract!Action
        BY <3>1 DEF Contract!Action
      <3>3. a.type = ty /\ a.target = s
        OBVIOUS
      <3>4. sent' = Append(sent, a)
        BY <2>1 DEF ClientWrites
      <3> HIDE DEF a
      <3>5. s # 0 => IsASession(s) /\ ty # SessionType
        BY <2>1, TypesAssumption DEF Known, IsASession
      <3> QED BY <1>3, <3>2, <3>3, <3>4, <3>5
    <2>2. ASSUME NEW kind \in {"call", "delete", "reply"}, NEW t \in Nat,
                 ClientWrites([action |-> kind, type |-> Contract!NoType, target |-> t])
          PROVE  CreatesNameSessions'
      <3> DEFINE a == [action |-> kind, type |-> Contract!NoType, target |-> t]
      <3>1. a \in Contract!Action /\ a.action # "create"
        BY DEF Contract!Action
      <3>2. sent' = Append(sent, a)
        BY <2>2 DEF ClientWrites
      <3> HIDE DEF a
      <3> QED BY <1>3, <3>1, <3>2
    <2>3. \A t \in Known : t \in Nat
      BY Elements DEF Known, Targets, TypeInv, TypeOK, RegistryTypes
    <2>4. \A j \in DOMAIN out : out[j].id \in Nat
      <3>1. out \in Seq(Contract!Message)
        BY DEF TypeInv, TypeOK, OutputTypes
      <3>2. \A j \in DOMAIN out : out[j] \in Contract!Message
        BY <3>1, Elements
      <3> QED BY <3>2 DEF Contract!Message
    <2> QED BY <1>4, <2>1, <2>2, <2>3, <2>4 DEF ClientAction
  <1>5. UNCHANGED sent \/ ClientAction
    BY DEF Next, vars, ProcessChunk, UIThread, PerformCreate, Create,
           PerformCall, CallMethod, PerformPopup, PopupReturns, PerformDelete, Delete, Perform, RunCallback,
           IgnoreReply, PerformReply, EmitEvent, InvokeRemoteMethod, Push,
           IOThread, SendReply, SendEvent, SendInvokeInserts,
           SendInvokeWrites, SendInvokeReturns, Quit, DeleteNonSessions,
           DeleteSessions
  <1> QED BY <1>2, <1>4, <1>5

(* Only a create makes an object that uses a session, the one it names. *)
LEMMA NextUsers ==
  ASSUME TypeInv, CreatesNameSessions, UsersAreNoSessions, [Next]_vars
  PROVE  UsersAreNoSessions'
  <1>1. objects \in Seq([type : Types, session : Nat]) /\ Len(objects) \in Nat
    BY Elements DEF TypeInv, TypeOK, RegistryTypes
  <1>2. CASE UNCHANGED objects
    BY <1>2, SessionsStay DEF UsersAreNoSessions, Targets
  <1>3. CASE PerformCreate
    <2> DEFINE a == sent[performed + 1]
               o == [type    |-> a.type,
                     session |-> IF a.target \in bindings THEN a.target ELSE 0]
    <2>1. UNCHANGED objects \/ (objects' = Append(objects, o) /\ a.type \in Types)
      BY <1>3 DEF PerformCreate, Create
    <2>2. CASE objects' = Append(objects, o) /\ a.type \in Types
      <3>1. performed + 1 \in DOMAIN sent /\ a.action = "create" /\ a.target \in Nat
        BY <1>3, NextAction, Elements
        DEF PerformCreate, Perform, TypeInv, TypeOK, InputTypes
      <3>2. a.target # 0 => IsASession(a.target) /\ a.type # SessionType
        BY <3>1 DEF CreatesNameSessions
      <3>3. /\ o \in [type : Types, session : Nat]
            /\ o.type = a.type /\ o.session \in {0, a.target}
        BY <2>2, <3>1
      <3> HIDE DEF o
      <3>4. /\ Len(objects') = Len(objects) + 1
            /\ objects'[Len(objects) + 1] = o
            /\ \A i \in 1..Len(objects) : objects'[i] = objects[i]
        BY <1>1, <2>2, <3>3, AppendFacts
      <3> HIDE DEF a
      <3>5. SUFFICES ASSUME NEW w \in Targets', objects'[w].session # 0
                     PROVE  /\ objects'[w].session \in Targets'
                            /\ objects'[objects'[w].session].type = SessionType
                            /\ objects'[w].type # SessionType
        BY DEF UsersAreNoSessions, IsASession
      <3>6. CASE w \in Targets
        <4>1. objects'[w] = objects[w]
          BY <3>4, <3>6 DEF Targets
        <4>2. IsASession(objects[w].session) /\ objects[w].type # SessionType
          BY <3>5, <3>6, <4>1 DEF UsersAreNoSessions
        <4> QED BY <4>1, <4>2, ObjectsKept DEF IsASession
      <3>7. CASE w = Len(objects) + 1
        <4>1. /\ objects'[w].session = a.target /\ a.target # 0
              /\ objects'[w].type = a.type
          BY <3>3, <3>4, <3>5, <3>7
        <4>2. IsASession(a.target) /\ a.type # SessionType
          BY <3>2, <4>1
        <4> QED BY <4>1, <4>2, ObjectsKept DEF IsASession
      <3> QED BY <1>1, <3>4, <3>6, <3>7 DEF Targets
    <2> QED BY <1>2, <2>1, <2>2
  <1>4. UNCHANGED objects \/ PerformCreate
    BY DEF Next, vars, uiVars, ClientAction, ClientWrites, ProcessChunk,
           UIThread, PerformCall, CallMethod, PerformPopup, PopupReturns, PerformDelete, Delete, RunCallback, IgnoreReply,
           PerformReply, EmitEvent, InvokeRemoteMethod, Push, IOThread,
           SendReply, SendEvent, SendInvokeInserts, SendInvokeWrites,
           SendInvokeReturns, Quit, DeleteNonSessions, DeleteSessions
  <1> QED BY <1>2, <1>3, <1>4

(* An invocation that the IO thread enters into invokes_ was posted by a   *)
(* session.                                                                *)
LEMMA NextCallbacksHold ==
  ASSUME TypeInv, SessionsInvoke, CallbacksHoldSessions, [Next]_vars
  PROVE  CallbacksHoldSessions'
  <1>1. CASE invokes' \subseteq invokes
    BY <1>1, SessionsStay DEF CallbacksHoldSessions
  <1>2. CASE SendInvokeWrites
    <2> DEFINE new == [id |-> actionId, target |-> NextTask.target]
    <2>1. \A inv \in invokes' : inv \in invokes \/ inv = new
      BY <1>2 DEF SendInvokeWrites
    <2>2. new.target = NextTask.target
      OBVIOUS
    <2> HIDE DEF new
    <2>3. Len(out) + 1 \in DOMAIN posted /\ NextTask.kind = "invoke"
      BY <1>2, Elements DEF SendInvokeWrites, IORuns, TypeInv, TypeOK, OutputTypes
    <2>4. IsASession(NextTask.target)
      BY <2>3 DEF NextTask, SessionsInvoke, IsASession, TypeInv, PushTargets
    <2> QED BY <2>1, <2>2, <2>4, SessionsStay DEF CallbacksHoldSessions
  <1>3. invokes' \subseteq invokes \/ SendInvokeWrites
    BY DEF Next, vars, ClientAction, ClientWrites, ProcessChunk, UIThread,
           PerformCreate, PerformCall, PerformPopup, PopupReturns, PerformDelete, RunCallback,
           IgnoreReply, EmitEvent, InvokeRemoteMethod, Push,
           IOThread, SendReply, SendEvent, SendInvokeInserts,
           SendInvokeReturns, Quit, DeleteNonSessions, DeleteSessions
  <1> QED BY <1>1, <1>2, <1>3

(* The first pass leaves no binding but those of sessions. *)
LEMMA NextSessionsRemain ==
  ASSUME TypeInv, RemotesOwned, SessionsRemain, [Next]_vars
  PROVE  SessionsRemain'
  <1>1. CASE DeleteNonSessions
    <2>1. client' = "sessions" =>
            /\ bindings' = {t \in bindings : t \notin clientRemotes \/ IsSession(t)}
            /\ UNCHANGED objects
      BY <1>1 DEF DeleteNonSessions
    <2>2. bindings \subseteq clientRemotes /\ bindings \subseteq Targets
      BY DEF RemotesOwned, TypeInv, TypeOK, RegistryTypes
    <2> QED BY <2>1, <2>2 DEF SessionsRemain, IsSession, IsASession, Targets
  <1>2. CASE client' = "sessions" => client = "sessions" /\ bindings' \subseteq bindings
    BY <1>2, SessionsStay DEF SessionsRemain
  <1>3. \/ DeleteNonSessions
        \/ client' = "sessions" => client = "sessions" /\ bindings' \subseteq bindings
    BY DEF Next, vars, uiVars, ClientAction, ClientWrites, ProcessChunk, UIThread,
           PerformCreate, PerformCall, PerformPopup, PopupReturns, PerformDelete, Perform, RunCallback,
           IgnoreReply, PerformReply, EmitEvent, InvokeRemoteMethod, Push,
           IOThread, SendReply, SendEvent, SendInvokeInserts,
           SendInvokeWrites, SendInvokeReturns, Quit, DeleteSessions
  <1> QED BY <1>1, <1>2, <1>3

(* At the first pass nothing that others use is destroyed; at the second   *)
(* every object that uses a session is gone.                               *)
LEMMA PassesInOrder ==
  ASSUME TypeInv, BalancedInv, SessionInv, [Next]_vars,
         client # "running", client' # client,
         NEW t \in Targets, ~IsDestroyed(t), IsDestroyed(t)',
         NEW w \in Targets, objects[w].session = t
  PROVE  IsDestroyed(w)'
  <1>1. DeleteNonSessions \/ DeleteSessions
    BY DEF Next, vars, ClientAction, ClientWrites, ProcessChunk, UIThread,
           PerformCreate, PerformCall, PerformPopup, PopupReturns, PerformDelete, Perform, RunCallback,
           IgnoreReply, PerformReply, EmitEvent, InvokeRemoteMethod, Push,
           IOThread, SendReply, SendEvent, SendInvokeInserts,
           SendInvokeWrites, SendInvokeReturns, Quit
  <1>2. /\ t # 0 /\ IsASession(t) /\ objects[w].type # SessionType
    BY DEF SessionInv, UsersAreNoSessions, Targets
  <1>3. CASE DeleteNonSessions
    <2>1. clientRemotes \subseteq bindings /\ Release(clientRemotes, "UI")
      BY <1>3 DEF DeleteNonSessions, IsDestroyed
    <2>2. /\ bindings' = {u \in bindings : u \notin clientRemotes \/ IsSession(u)}
          /\ t \in clientRemotes /\ t \notin bindings'
      BY <1>3, <2>1 DEF DeleteNonSessions, IsDestroyed, Release
    <2>3. ~IsSession(t)
      BY <2>1, <2>2
    <2> QED BY <1>2, <2>3 DEF IsSession, IsASession
  <1>4. CASE DeleteSessions
    <2>1. client = "sessions" /\ destroyed \subseteq destroyed'
      BY <1>4 DEF DeleteSessions, Release
    <2>2. w \notin bindings
      BY <1>2, <2>1 DEF SessionInv, SessionsRemain, IsASession
    <2>3. ~Pinned(w)
      BY <1>2 DEF Pinned, TaskHolds, SessionInv, SessionsInvoke,
                  CallbacksHoldSessions, IsASession
    <2>4. IsDestroyed(w)
      BY <2>1, <2>2, <2>3 DEF BalancedInv, Balanced, Held
    <2> QED BY <2>1, <2>4 DEF IsDestroyed
  <1> QED BY <1>1, <1>3, <1>4

(* The destructor of Client destroys no session that a living window uses, *)
(* for any types, actions and callbacks that are still held.               *)
THEOREM SessionsGoLast == Spec => SessionsLast
  <1>1. Init => SessionInv
    BY DEF Init, SessionInv, SessionsInvoke, RemotesOwned, CreatesNameSessions,
           UsersAreNoSessions, CallbacksHoldSessions, SessionsRemain, Targets
  <1>2. TypeInv /\ SessionInv /\ [Next]_vars => SessionInv'
    BY NextSessionsInvoke, NextRemotesOwned, NextCreatesName, NextUsers,
       NextCallbacksHold, NextSessionsRemain DEF SessionInv
  <1>3. TypeInv /\ BalancedInv /\ SessionInv /\ [Next]_vars =>
          [client # "running" /\ client' # client =>
             \A t \in Targets : (~IsDestroyed(t) /\ IsDestroyed(t)') =>
               \A w \in Targets :
                 objects[w].session = t => IsDestroyed(w)']_vars
    BY PassesInOrder
  <1> QED
    BY <1>1, <1>2, <1>3, TypeInvariant, StaysBalanced, PTL DEF Spec, SessionsLast

-----------------------------------------------------------------------------
(***************************************************************************)
(* APIServer implements APIContract.                                       *)
(*                                                                         *)
(* The contract speaks of standard output, which lags behind what the UI   *)
(* thread has posted.  The argument is about the log of posted tasks:      *)
(* every push in it stands between the answer that announced its target    *)
(* and the one that acknowledges the target's deletion, and the answers in *)
(* it are in the order of the actions, but for the one that an open menu   *)
(* holds back.  Standard output is a prefix of that log, with identifiers  *)
(* filled in by the IO thread.                                             *)
(*                                                                         *)
(* The facts about the log are operators of the actions s, how many of     *)
(* them are performed p, the log, the registered targets B and the created *)
(* ones T, and the call whose menu is open w, so that a step which posts   *)
(* two tasks is two uses of a lemma.                                       *)
(***************************************************************************)

(* The log up to position n announces target t, or acknowledges its deletion. *)
Announced(log, t, n) ==
  \E i \in 1..n : log[i].kind = "reply" /\ log[i].target = t

Acknowledged(s, log, t, n) ==
  \E i \in 1..n : /\ log[i].kind = "reply"
                  /\ s[log[i].id].action = "delete"
                  /\ s[log[i].id].target = t

(* A client names created objects only. *)
SentTargets(s, T) ==
  \A k \in 1..Len(s) : s[k].action \in {"call", "delete"} => s[k].target \in T

(* Answers are to actions already performed, and only creates name a target. *)
RepliesPerformed(s, p, log, T) ==
  \A i \in 1..Len(log) :
    log[i].kind = "reply" =>
      /\ log[i].id \in 1..p
      /\ s[log[i].id].action \in Contract!Expected
      /\ log[i].target # 0 => /\ s[log[i].id].action = "create"
                              /\ log[i].target \in T

AnnouncedOnce(log) ==
  \A i, j \in 1..Len(log) :
    /\ i < j /\ log[i].kind = "reply" /\ log[j].kind = "reply"
    /\ log[j].target # 0
    => log[i].target # log[j].target

(* A registered binding has been announced, and its deletion is to come. *)
RegisteredIsLive(s, log, B) ==
  \A t \in B : Announced(log, t, Len(log)) /\ ~Acknowledged(s, log, t, Len(log))

PushesInside(s, log) ==
  \A i \in 1..Len(log) :
    log[i].kind # "reply" =>
      /\ Announced(log, log[i].target, i - 1)
      /\ ~Acknowledged(s, log, log[i].target, i - 1)

LogOK(s, p, log, B, T) ==
  /\ SentTargets(s, T) /\ RepliesPerformed(s, p, log, T) /\ AnnouncedOnce(log)
  /\ RegisteredIsLive(s, log, B) /\ PushesInside(s, log)

PostedInv == LogOK(sent, performed, posted, bindings, Targets)

(* An object has the type its create asked for. *)
AnnouncedTypes ==
  \A i \in 1..Len(posted) :
    posted[i].kind = "reply" /\ posted[i].target # 0 =>
      sent[posted[i].id].type = objects[posted[i].target].type

(* The log up to position n answers action k, or one after it; its answers *)
(* to actions after k are in their order; it announces target t as a menu. *)
AnswersTo(log, k, n) == \E i \in 1..n : log[i].kind = "reply" /\ log[i].id = k

AnswersPast(log, k, n) == \E i \in 1..n : log[i].kind = "reply" /\ log[i].id > k

RisingPast(log, k, n) ==
  \A i, j \in 1..n :
    (i < j /\ log[i].kind = "reply" /\ log[j].kind = "reply" /\ log[i].id > k) =>
      log[i].id < log[j].id

AnnouncedMenu(s, log, t, n) ==
  \E i \in 1..n : /\ log[i].kind = "reply" /\ log[i].target = t
                  /\ s[log[i].id].type = MenuType

(* After n positions of the log the turn is that of action k. *)
TurnOf(s, log, k, n) ==
  /\ ~AnswersTo(log, k, n) /\ RisingPast(log, k, n)
  /\ AnswersPast(log, k, n) =>
       s[k].action = "call" /\ AnnouncedMenu(s, log, s[k].target, n)

(* So is that of the call which waits, if there is one. *)
TurnsOK(s, p, w, log) ==
  /\ \A i \in 1..Len(log) :
       log[i].kind = "reply" =>
         log[i].id \in 1..p /\ TurnOf(s, log, log[i].id, i - 1)
  /\ w \in 0..p
  /\ w # 0 => /\ ~AnswersTo(log, w, Len(log)) /\ RisingPast(log, w, Len(log))
              /\ s[w].action = "call"
              /\ AnnouncedMenu(s, log, s[w].target, Len(log))

TurnInv == TurnsOK(sent, performed, popup, posted)

(* Standard output is what was posted. *)
OutIsPosted ==
  \A j \in 1..Len(out) :
    /\ out[j].kind = posted[j].kind
    /\ out[j].target = posted[j].target
    /\ out[j].kind = "reply" => out[j].id = posted[j].id

(* The identifiers written are 1, 2, ... up to the last one written. *)
LastWritten == IF ioPhase \in {"inserting", "lost"} THEN actionId - 1 ELSE actionId

PushesNumbered ==
  {out[j].id : j \in {k \in DOMAIN out : ~Contract!IsReply(out[k])}}
    = 1..LastWritten

OutInv == OutIsPosted /\ PushesNumbered

LogInv == PostedInv /\ AnnouncedTypes /\ TurnInv /\ OutInv

-----------------------------------------------------------------------------
(* A log that grows by one task keeps what it said of its first positions. *)
LEMMA GrownLog ==
  ASSUME NEW log \in Seq(Task), NEW x \in Task, NEW s
  PROVE  /\ Len(log) \in Nat /\ Len(Append(log, x)) = Len(log) + 1
         /\ \A i \in 1..Len(log) : Append(log, x)[i] = log[i]
         /\ Append(log, x)[Len(log) + 1] = x
         /\ \A t : \A n \in 0..Len(log) :
              /\ Announced(Append(log, x), t, n) <=> Announced(log, t, n)
              /\ Acknowledged(s, Append(log, x), t, n)
                   <=> Acknowledged(s, log, t, n)
         /\ \A t : Announced(Append(log, x), t, Len(log) + 1)
              <=> \/ Announced(log, t, Len(log))
                  \/ x.kind = "reply" /\ x.target = t
         /\ \A t : Acknowledged(s, Append(log, x), t, Len(log) + 1)
              <=> \/ Acknowledged(s, log, t, Len(log))
                  \/ /\ x.kind = "reply" /\ s[x.id].action = "delete"
                     /\ s[x.id].target = t
  <1> DEFINE new == Append(log, x)
  <1>1. /\ Len(log) \in Nat /\ Len(new) = Len(log) + 1
        /\ \A i \in 1..Len(log) : new[i] = log[i]
        /\ new[Len(log) + 1] = x
    BY AppendFacts, Elements
  <1>2. 1..(Len(log) + 1) = (1..Len(log)) \union {Len(log) + 1}
    BY <1>1
  <1>3. \A n \in 0..Len(log) : \A i \in 1..n : new[i] = log[i]
    BY <1>1
  <1> HIDE DEF new
  <1>4. \A t : \A n \in 0..Len(log) :
          /\ Announced(new, t, n) <=> Announced(log, t, n)
          /\ Acknowledged(s, new, t, n) <=> Acknowledged(s, log, t, n)
    BY <1>3 DEF Announced, Acknowledged
  <1>5. \A t : /\ Announced(new, t, Len(log) + 1)
                    <=> \/ Announced(log, t, Len(log))
                        \/ x.kind = "reply" /\ x.target = t
               /\ Acknowledged(s, new, t, Len(log) + 1)
                    <=> \/ Acknowledged(s, log, t, Len(log))
                        \/ /\ x.kind = "reply" /\ s[x.id].action = "delete"
                           /\ s[x.id].target = t
    BY <1>1, <1>2 DEF Announced, Acknowledged
  <1> QED BY <1>1, <1>4, <1>5 DEF new

(***************************************************************************)
(* Posting the answer to an action.  A target is announced once; the       *)
(* bindings registered afterwards are old ones and the one announced, and  *)
(* the target of a delete is not among them.                               *)
(***************************************************************************)
LEMMA PostReplyOK ==
  ASSUME NEW s, NEW p \in Nat, NEW log \in Seq(Task), NEW B, NEW T,
         LogOK(s, p, log, B, T),
         NEW B2, NEW T2, T \subseteq T2,
         NEW q \in 0..Len(s), p <= q,
         NEW x \in Task, x.kind = "reply", x.id \in 1..q,
         s[x.id].action \in Contract!Expected,
         x.target # 0 => /\ s[x.id].action = "create"
                         /\ x.target \in T2 \ T,
         \A t \in B2 : t \in B \/ (t = x.target /\ t # 0),
         s[x.id].action = "delete" => s[x.id].target \in T \ B2
  PROVE  LogOK(s, q, Append(log, x), B2, T2)
  <1> DEFINE new == Append(log, x)
  <1>1. /\ Len(log) \in Nat /\ Len(new) = Len(log) + 1
        /\ \A i \in 1..Len(log) : new[i] = log[i]
        /\ new[Len(log) + 1] = x
        /\ \A i \in 1..Len(new) : i = Len(log) + 1 \/ i \in 1..Len(log)
    BY GrownLog
  <1>2. /\ \A t : \A n \in 0..Len(log) :
             /\ Announced(new, t, n) <=> Announced(log, t, n)
             /\ Acknowledged(s, new, t, n) <=> Acknowledged(s, log, t, n)
        /\ \A t : Announced(new, t, Len(log) + 1)
             <=> Announced(log, t, Len(log)) \/ x.target = t
        /\ \A t : Acknowledged(s, new, t, Len(log) + 1)
             <=> \/ Acknowledged(s, log, t, Len(log))
                 \/ s[x.id].action = "delete" /\ s[x.id].target = t
    <2>1. \A t : \A n \in 0..Len(log) :
            /\ Announced(new, t, n) <=> Announced(log, t, n)
            /\ Acknowledged(s, new, t, n) <=> Acknowledged(s, log, t, n)
      BY GrownLog
    <2>2. \A t : Announced(new, t, Len(log) + 1)
            <=> Announced(log, t, Len(log)) \/ (x.kind = "reply" /\ x.target = t)
      BY GrownLog
    <2>3. \A t : Acknowledged(s, new, t, Len(log) + 1)
            <=> \/ Acknowledged(s, log, t, Len(log))
                \/ /\ x.kind = "reply" /\ s[x.id].action = "delete"
                   /\ s[x.id].target = t
      BY GrownLog
    <2> HIDE DEF new
    <2> QED BY <2>1, <2>2, <2>3
  <1> HIDE DEF new
  <1>3. SentTargets(s, T2)
    BY DEF LogOK, SentTargets
  <1>4. RepliesPerformed(s, q, new, T2)
    BY <1>1 DEF LogOK, RepliesPerformed
  <1>5. AnnouncedOnce(new)
    <2>1. \A i \in 1..Len(log) :
            log[i].kind = "reply" => log[i].target = 0 \/ log[i].target \in T
      BY DEF LogOK, RepliesPerformed
    <2> QED BY <1>1, <2>1 DEF LogOK, AnnouncedOnce
  <1>6. RegisteredIsLive(s, new, B2)
    <2> SUFFICES ASSUME NEW t \in B2
                 PROVE  Announced(new, t, Len(new)) /\ ~Acknowledged(s, new, t, Len(new))
      BY DEF RegisteredIsLive
    <2>1. CASE t \in B
      BY <1>1, <1>2, <2>1 DEF LogOK, RegisteredIsLive
    <2>2. CASE t = x.target /\ t # 0
      <3>1. t \notin T /\ s[x.id].action = "create"
        BY <2>2
      <3>2. ~Acknowledged(s, log, t, Len(log))
        BY <3>1 DEF LogOK, SentTargets, RepliesPerformed, Acknowledged
      <3> QED BY <1>1, <1>2, <2>2, <3>1, <3>2
    <2> QED BY <2>1, <2>2
  <1>7. PushesInside(s, new)
    BY <1>1, <1>2 DEF LogOK, PushesInside
  <1> QED BY <1>3, <1>4, <1>5, <1>6, <1>7 DEF LogOK, new

(* Posting an event or an invocation of a registered binding. *)
LEMMA PostPushOK ==
  ASSUME NEW s, NEW p \in Nat, NEW log \in Seq(Task), NEW B, NEW T,
         LogOK(s, p, log, B, T),
         NEW x \in Task, x.kind # "reply", x.target \in B
  PROVE  LogOK(s, p, Append(log, x), B, T)
  <1> DEFINE new == Append(log, x)
  <1>1. /\ Len(log) \in Nat /\ Len(new) = Len(log) + 1
        /\ \A i \in 1..Len(log) : new[i] = log[i]
        /\ new[Len(log) + 1] = x
        /\ \A i \in 1..Len(new) : i = Len(log) + 1 \/ i \in 1..Len(log)
    BY GrownLog
  <1>2. /\ \A t : \A n \in 0..Len(log) :
             /\ Announced(new, t, n) <=> Announced(log, t, n)
             /\ Acknowledged(s, new, t, n) <=> Acknowledged(s, log, t, n)
        /\ \A t : Announced(new, t, Len(log) + 1) <=> Announced(log, t, Len(log))
        /\ \A t : Acknowledged(s, new, t, Len(log) + 1)
             <=> Acknowledged(s, log, t, Len(log))
    <2>1. \A t : \A n \in 0..Len(log) :
            /\ Announced(new, t, n) <=> Announced(log, t, n)
            /\ Acknowledged(s, new, t, n) <=> Acknowledged(s, log, t, n)
      BY GrownLog
    <2>2. \A t : Announced(new, t, Len(log) + 1)
            <=> Announced(log, t, Len(log)) \/ (x.kind = "reply" /\ x.target = t)
      BY GrownLog
    <2>3. \A t : Acknowledged(s, new, t, Len(log) + 1)
            <=> \/ Acknowledged(s, log, t, Len(log))
                \/ /\ x.kind = "reply" /\ s[x.id].action = "delete"
                   /\ s[x.id].target = t
      BY GrownLog
    <2> HIDE DEF new
    <2> QED BY <2>1, <2>2, <2>3
  <1> HIDE DEF new
  <1>3. RepliesPerformed(s, p, new, T) /\ AnnouncedOnce(new)
    BY <1>1 DEF LogOK, RepliesPerformed, AnnouncedOnce
  <1>4. RegisteredIsLive(s, new, B) /\ PushesInside(s, new)
    BY <1>1, <1>2 DEF LogOK, RegisteredIsLive, PushesInside
  <1> QED BY <1>3, <1>4 DEF LogOK, new

(* Bindings leave and actions are performed without anything being posted. *)
LEMMA NothingPostedOK ==
  ASSUME NEW s, NEW p \in Nat, NEW log \in Seq(Task), NEW B, NEW T,
         LogOK(s, p, log, B, T),
         NEW q \in Nat, p <= q, NEW B2, B2 \subseteq B
  PROVE  LogOK(s, q, log, B2, T)
  <1>1. RepliesPerformed(s, q, log, T)
    BY DEF LogOK, RepliesPerformed
  <1>2. RegisteredIsLive(s, log, B2)
    BY DEF LogOK, RegisteredIsLive
  <1> QED BY <1>1, <1>2 DEF LogOK

(* The client writes one more action, which names a created object. *)
LEMMA WrittenOK ==
  ASSUME NEW s \in Seq(Contract!Action), NEW p \in 0..Len(s),
         NEW log \in Seq(Task), NEW B, NEW T, LogOK(s, p, log, B, T),
         NEW a \in Contract!Action,
         a.action \in {"call", "delete"} => a.target \in T
  PROVE  LogOK(Append(s, a), p, log, B, T)
  <1> DEFINE s2 == Append(s, a)
  <1>1. /\ Len(s) \in Nat /\ Len(s2) = Len(s) + 1
        /\ \A i \in 1..Len(s) : s2[i] = s[i]
        /\ s2[Len(s) + 1] = a
        /\ \A i \in 1..Len(s2) : i = Len(s) + 1 \/ i \in 1..Len(s)
    BY AppendFacts, Elements
  <1>2. Len(log) \in Nat
    BY Elements
  <1> HIDE DEF s2
  <1>3. \A i \in 1..Len(log) :
          log[i].kind = "reply" =>
            log[i].id \in 1..p /\ log[i].id \in 1..Len(s) /\ s2[log[i].id] = s[log[i].id]
    BY <1>1 DEF LogOK, RepliesPerformed
  <1>4. \A t : \A n \in 0..Len(log) :
          Acknowledged(s2, log, t, n) <=> Acknowledged(s, log, t, n)
    <2> SUFFICES ASSUME NEW t, NEW n \in 0..Len(log)
                 PROVE  Acknowledged(s2, log, t, n) <=> Acknowledged(s, log, t, n)
      OBVIOUS
    <2>1. \A i \in 1..n : i \in 1..Len(log)
      BY <1>2
    <2> QED BY <1>3, <2>1 DEF Acknowledged
  <1>5. SentTargets(s2, T)
    BY <1>1 DEF LogOK, SentTargets
  <1>6. RepliesPerformed(s2, p, log, T)
    BY <1>3 DEF LogOK, RepliesPerformed
  <1>7. RegisteredIsLive(s2, log, B)
    BY <1>2, <1>4 DEF LogOK, RegisteredIsLive
  <1>8. PushesInside(s2, log)
    <2>1. \A i \in 1..Len(log) : i - 1 \in 0..Len(log)
      BY <1>2
    <2> QED BY <1>4, <2>1 DEF LogOK, PushesInside
  <1> QED BY <1>5, <1>6, <1>7, <1>8 DEF LogOK, s2

-----------------------------------------------------------------------------
(* The invariant about the log of posted tasks. *)

LEMMA InitLogInv == Init => LogInv
  <1> SUFFICES ASSUME Init PROVE LogInv
    OBVIOUS
  <1>1. Len(posted) = 0 /\ Len(sent) = 0 /\ Len(out) = 0 /\ DOMAIN out = {}
    BY DEF Init
  <1>2. PostedInv
    BY <1>1 DEF Init, PostedInv, LogOK, SentTargets, RepliesPerformed,
                AnnouncedOnce, RegisteredIsLive, PushesInside
  <1>3. OutInv
    BY <1>1 DEF Init, OutInv, OutIsPosted, PushesNumbered, LastWritten
  <1>4. AnnouncedTypes /\ TurnInv
    BY <1>1 DEF Init, AnnouncedTypes, TurnInv, TurnsOK
  <1> QED BY <1>2, <1>3, <1>4 DEF LogInv

LEMMA CreatePosted == TypeInv /\ PostedInv /\ PerformCreate => PostedInv'
  <1> SUFFICES ASSUME TypeInv, PostedInv, PerformCreate PROVE PostedInv'
    OBVIOUS
  <1> DEFINE id == performed + 1
             t  == IF sent[id].type \in Types THEN Len(objects) + 1 ELSE 0
             x  == Reply(id, t)
  <1>1. /\ id \in 1..Len(sent) /\ id \in Nat /\ performed \in Nat
        /\ sent[id].action = "create"
        /\ performed' = id /\ sent' = sent
    BY NextAction DEF PerformCreate, Create, Perform, TypeInv, TypeOK, InputTypes
  <1>2. Len(objects) \in Nat /\ objects \in Seq([type : Types, session : Nat])
    BY Elements DEF TypeInv, TypeOK, RegistryTypes
  <1>3. x \in Task /\ x.kind = "reply" /\ x.id = id /\ x.target = t
    BY <1>1, <1>2, TaskTypes DEF Reply
  <1>4. posted' = Append(posted, x) /\ posted \in Seq(Task)
    <2>1. posted' = posted \o <<x>> /\ posted \in Seq(Task)
      BY DEF PerformCreate, Create, Post, TypeInv, TypeOK, OutputTypes
    <2> HIDE DEF x
    <2> QED BY <1>3, <2>1, ConcatOne
  <1>5. \/ UNCHANGED <<objects, bindings>> /\ t = 0
        \/ /\ Len(objects') = Len(objects) + 1 /\ t = Len(objects) + 1
           /\ bindings' = bindings \union {t}
    BY <1>2 DEF PerformCreate, Create
  <1> HIDE DEF t, x
  <1>6. /\ Targets \subseteq Targets'
        /\ t # 0 => t \in Targets' \ Targets
        /\ \A u \in bindings' : u \in bindings \/ (u = t /\ t # 0)
    BY <1>2, <1>5 DEF Targets
  <1>7. LogOK(sent, id, Append(posted, x), bindings', Targets')
    <2>1. /\ id \in 0..Len(sent) /\ performed <= id /\ x.id \in 1..id
          /\ sent[x.id].action = "create" /\ sent[x.id].action \in Contract!Expected
      BY <1>1, <1>3 DEF Contract!Expected
    <2>2. x.target # 0 => x.target \in Targets' \ Targets
      BY <1>3, <1>6
    <2>3. \A u \in bindings' : u \in bindings \/ (u = x.target /\ u # 0)
      BY <1>3, <1>6
    <2> HIDE DEF id
    <2> QED BY <1>1, <1>3, <1>4, <1>6, <2>1, <2>2, <2>3, PostReplyOK DEF PostedInv
  <1> QED BY <1>1, <1>4, <1>7 DEF PostedInv

LEMMA DeletePosted == TypeInv /\ PostedInv /\ PerformDelete => PostedInv'
  <1> SUFFICES ASSUME TypeInv, PostedInv, PerformDelete PROVE PostedInv'
    OBVIOUS
  <1> DEFINE id == performed + 1
             x  == Reply(id, 0)
  <1>1. /\ id \in 1..Len(sent) /\ id \in Nat /\ performed \in Nat
        /\ sent[id].action = "delete"
        /\ performed' = id /\ sent' = sent
        /\ bindings' = bindings \ {sent[id].target}
    BY NextAction DEF PerformDelete, Delete, Perform, TypeInv, TypeOK, InputTypes
  <1>2. x \in Task /\ x.kind = "reply" /\ x.id = id /\ x.target = 0
    BY <1>1, TaskTypes DEF Reply
  <1>3. posted' = Append(posted, x) /\ posted \in Seq(Task)
    <2>1. posted' = posted \o <<x>> /\ posted \in Seq(Task)
      BY DEF PerformDelete, Delete, Post, TypeInv, TypeOK, OutputTypes
    <2> HIDE DEF x
    <2> QED BY <1>2, <2>1, ConcatOne
  <1>4. Targets' = Targets
    BY DEF PerformDelete, Delete, Targets
  <1>5. sent[id].target \in Targets
    BY <1>1 DEF PostedInv, LogOK, SentTargets
  <1> HIDE DEF x
  <1>6. LogOK(sent, id, Append(posted, x), bindings', Targets)
    BY <1>1, <1>2, <1>3, <1>5, PostReplyOK DEF PostedInv, Contract!Expected
  <1> QED BY <1>1, <1>3, <1>4, <1>6 DEF PostedInv

LEMMA CallPosted == TypeInv /\ PostedInv /\ PerformCall => PostedInv'
  <1> SUFFICES ASSUME TypeInv, PostedInv, PerformCall PROVE PostedInv'
    OBVIOUS
  <1> DEFINE id == performed + 1
             t  == sent[id].target
             x  == Reply(id, 0)
             e  == Event(t)
  <1>1. /\ id \in 1..Len(sent) /\ id \in Nat /\ performed \in Nat /\ t \in Nat
        /\ sent[id].action = "call"
        /\ performed' = id /\ sent' = sent
    BY NextAction DEF PerformCall, CallMethod, Perform, TypeInv, TypeOK, InputTypes
  <1>2. bindings' = bindings /\ Targets' = Targets
    BY DEF PerformCall, CallMethod, uiVars, Targets
  <1>3. posted \in Seq(Task) /\ performed <= id
    BY <1>1 DEF TypeInv, TypeOK, OutputTypes
  <1>4. /\ x \in Task /\ x.kind = "reply" /\ x.id = id /\ x.target = 0
        /\ e \in Task /\ e.kind # "reply" /\ e.target = t
    BY <1>1, TaskTypes DEF Reply, Event
  <1>5. \/ posted' = posted
        \/ posted' = posted \o <<x>>
        \/ posted' = posted \o <<e, x>> /\ t \in bindings
    BY DEF PerformCall, CallMethod, Post
  <1> HIDE DEF x, e
  <1>6. CASE posted' = posted
    BY <1>1, <1>2, <1>3, <1>6, NothingPostedOK DEF PostedInv
  <1>7. ASSUME NEW log \in Seq(Task), LogOK(sent, performed, log, bindings, Targets)
        PROVE  LogOK(sent, id, Append(log, x), bindings, Targets)
    BY <1>1, <1>4, <1>7, PostReplyOK DEF Contract!Expected
  <1>8. CASE posted' = posted \o <<x>>
    <2>1. posted' = Append(posted, x)
      BY <1>3, <1>4, <1>8, ConcatOne
    <2> QED BY <1>1, <1>2, <1>3, <1>7, <2>1 DEF PostedInv
  <1>9. CASE posted' = posted \o <<e, x>> /\ t \in bindings
    <2>1. posted' = Append(Append(posted, e), x)
      BY <1>3, <1>4, <1>9, ConcatTwo
    <2>2. Append(posted, e) \in Seq(Task)
      BY <1>3, <1>4, AppendFacts
    <2>3. LogOK(sent, performed, Append(posted, e), bindings, Targets)
      BY <1>1, <1>3, <1>4, <1>9, PostPushOK DEF PostedInv
    <2> QED BY <1>1, <1>2, <1>7, <2>1, <2>2, <2>3 DEF PostedInv
  <1> QED BY <1>5, <1>6, <1>8, <1>9

LEMMA ReturnPosted == TypeInv /\ PostedInv /\ TurnInv /\ PopupReturns => PostedInv'
  <1> SUFFICES ASSUME TypeInv, PostedInv, TurnInv, PopupReturns PROVE PostedInv'
    OBVIOUS
  <1> DEFINE x == Reply(popup, 0)
  <1>1. /\ popup \in 1..performed /\ performed \in 0..Len(sent) /\ performed \in Nat
        /\ popup \in Nat /\ posted \in Seq(Task)
        /\ UNCHANGED <<sent, performed, bindings>> /\ Targets' = Targets
    BY DEF PopupReturns, TypeInv, TypeOK, InputTypes, OutputTypes, uiVars, Targets
  <1>2. sent[popup].action = "call"
    BY <1>1 DEF TurnInv, TurnsOK
  <1>3. x \in Task /\ x.kind = "reply" /\ x.id = popup /\ x.target = 0
    BY <1>1, TaskTypes DEF Reply
  <1> HIDE DEF x
  <1>4. CASE posted' = posted \o <<x>>
    <2>1. posted' = Append(posted, x)
      BY <1>1, <1>3, <1>4, ConcatOne
    <2>2. LogOK(sent, performed, Append(posted, x), bindings, Targets)
      BY <1>1, <1>2, <1>3, PostReplyOK DEF PostedInv, Contract!Expected
    <2> QED BY <1>1, <2>1, <2>2 DEF PostedInv
  <1>5. CASE UNCHANGED posted
    BY <1>1, <1>5 DEF PostedInv
  <1> QED BY <1>4, <1>5 DEF PopupReturns, Post, x

LEMMA PushPosted ==
  ASSUME TypeInv, PostedInv, NEW x \in Task, x.kind # "reply", Push(x)
  PROVE  PostedInv'
  <1>1. /\ posted \in Seq(Task) /\ performed \in Nat /\ x.target \in bindings
        /\ posted' = posted \o <<x>>
        /\ UNCHANGED <<sent, performed, bindings, objects>>
    BY DEF TypeInv, TypeOK, InputTypes, OutputTypes, Push, HasRemote, Post, uiVars
  <1>2. posted' = Append(posted, x) /\ Targets' = Targets
    BY <1>1, ConcatOne DEF Targets
  <1>3. LogOK(sent, performed, Append(posted, x), bindings, Targets)
    BY <1>1, PostPushOK DEF PostedInv
  <1> QED BY <1>1, <1>2, <1>3 DEF PostedInv

LEMMA ClientPosted == TypeInv /\ PostedInv /\ ClientAction => PostedInv'
  <1> SUFFICES ASSUME TypeInv, PostedInv, ClientAction PROVE PostedInv'
    OBVIOUS
  <1>1. PICK a \in Contract!Action :
          /\ ClientWrites(a)
          /\ a.action \in {"call", "delete"} => a.target \in Targets
    <2>1. \A t \in Known \union {0} : t \in Nat
      BY DEF Known, Targets, TypeInv, TypeOK, RegistryTypes
    <2>2. \A m \in {out[j] : j \in DOMAIN out} : m.id \in Nat
      <3>1. \A j \in DOMAIN out : out[j] \in Contract!Message
        BY Elements DEF TypeInv, TypeOK, OutputTypes
      <3> QED BY <3>1 DEF Contract!Message
    <2>3. ASSUME NEW ty \in Types \union {UnknownType}, NEW u \in Known \union {0},
                 ClientWrites([action |-> "create", type |-> ty, target |-> u])
          PROVE  \E a \in Contract!Action :
                   /\ ClientWrites(a)
                   /\ a.action \in {"call", "delete"} => a.target \in Targets
      <3> DEFINE a == [action |-> "create", type |-> ty, target |-> u]
      <3>1. a \in Contract!Action /\ a.action = "create"
        BY <2>1 DEF Contract!Action
      <3> HIDE DEF a
      <3> QED BY <2>3, <3>1 DEF a
    <2>4. ASSUME NEW kind \in {"call", "delete"}, NEW t \in Known,
                 ClientWrites([action |-> kind, type |-> Contract!NoType, target |-> t])
          PROVE  \E a \in Contract!Action :
                   /\ ClientWrites(a)
                   /\ a.action \in {"call", "delete"} => a.target \in Targets
      <3> DEFINE a == [action |-> kind, type |-> Contract!NoType, target |-> t]
      <3>1. a \in Contract!Action /\ a.target \in Targets
        BY <2>1 DEF Contract!Action, Known
      <3> HIDE DEF a
      <3> QED BY <2>4, <3>1 DEF a
    <2>5. ASSUME NEW n \in Nat,
                 ClientWrites([action |-> "reply", type |-> Contract!NoType, target |-> n])
          PROVE  \E a \in Contract!Action :
                   /\ ClientWrites(a)
                   /\ a.action \in {"call", "delete"} => a.target \in Targets
      <3> DEFINE a == [action |-> "reply", type |-> Contract!NoType, target |-> n]
      <3>1. a \in Contract!Action /\ a.action = "reply"
        BY DEF Contract!Action
      <3> HIDE DEF a
      <3> QED BY <2>5, <3>1 DEF a
    <2> QED
      BY <2>2, <2>3, <2>4, <2>5 DEF ClientAction
  <1>2. /\ sent \in Seq(Contract!Action) /\ performed \in 0..Len(sent)
        /\ posted \in Seq(Task)
    BY Elements DEF TypeInv, TypeOK, InputTypes, OutputTypes
  <1>3. /\ sent' = Append(sent, a)
        /\ UNCHANGED <<performed, posted, bindings, objects>>
    BY <1>1 DEF ClientWrites, uiVars
  <1>4. LogOK(Append(sent, a), performed, posted, bindings, Targets)
    BY <1>1, <1>2, WrittenOK DEF PostedInv
  <1> QED BY <1>3, <1>4 DEF PostedInv, Targets

LEMMA NextPosted == TypeInv /\ PostedInv /\ TurnInv /\ [Next]_vars => PostedInv'
  <1> SUFFICES ASSUME TypeInv, PostedInv, TurnInv, [Next]_vars PROVE PostedInv'
    OBVIOUS
  <1>1. CASE /\ UNCHANGED <<sent, posted, objects>>
             /\ performed' \in {performed, performed + 1}
             /\ bindings' \subseteq bindings
    <2>1. /\ posted \in Seq(Task) /\ performed \in Nat /\ performed' \in Nat
          /\ performed <= performed'
      BY <1>1 DEF TypeInv, TypeOK, InputTypes, OutputTypes
    <2>2. LogOK(sent, performed', posted, bindings', Targets)
      BY <1>1, <2>1, NothingPostedOK DEF PostedInv
    <2> QED BY <1>1, <2>2 DEF PostedInv, Targets
  <1>2. CASE EmitEvent \/ InvokeRemoteMethod
    <2>1. PICK t \in Targets : Push(Event(t)) \/ Push(Invoke(t))
      BY <1>2 DEF EmitEvent, InvokeRemoteMethod, AliveObjects
    <2>2. t \in Nat
      BY Elements DEF Targets, TypeInv, TypeOK, RegistryTypes
    <2>3. /\ Event(t) \in Task /\ Event(t).kind # "reply"
          /\ Invoke(t) \in Task /\ Invoke(t).kind # "reply"
      BY <2>2, TaskTypes DEF Event, Invoke
    <2> QED BY <2>1, <2>3, PushPosted
  <1>3. \/ /\ UNCHANGED <<sent, posted, objects>>
           /\ performed' \in {performed, performed + 1}
           /\ bindings' \subseteq bindings
        \/ EmitEvent \/ InvokeRemoteMethod \/ ClientAction
        \/ PerformCreate \/ PerformCall \/ PopupReturns \/ PerformDelete
    BY DEF Next, vars, PerformPopup, Perform, uiVars, ioVars, ProcessChunk, UIThread, RunCallback,
           IgnoreReply, PerformReply, IOThread, SendReply, SendEvent,
           SendInvokeInserts, SendInvokeWrites, SendInvokeReturns, Quit,
           DeleteNonSessions, DeleteSessions
  <1> QED
    BY <1>1, <1>2, <1>3, ClientPosted, CreatePosted, CallPosted, ReturnPosted,
       DeletePosted

-----------------------------------------------------------------------------
(* The invariants about the types announced and about the turns.           *)

(* The client writes what it may. *)
LEMMA ClientWritesStep == TypeInv /\ ClientAction => Contract!Write
  <1> SUFFICES ASSUME TypeInv, ClientAction PROVE Contract!Write
    OBVIOUS
  <1>1. PICK a \in Contract!Action : ClientWrites(a)
    <2>1. \A t \in Known \union {0} : t \in Nat
      BY DEF Known, Targets
    <2>2. \A m \in {out[j] : j \in DOMAIN out} : m.id \in Nat
      <3>1. \A j \in DOMAIN out : out[j] \in Contract!Message
        BY Elements DEF TypeInv, TypeOK, OutputTypes
      <3> QED BY <3>1 DEF Contract!Message
    <2> QED
      BY <2>1, <2>2 DEF ClientAction, Contract!Action
  <1>2. /\ sent \in Seq(Contract!Action) /\ sent' = Append(sent, a)
        /\ Contract!WellFormed(a) /\ out' = out
    BY <1>1 DEF ClientWrites, ioVars, TypeInv, TypeOK, InputTypes
  <1>3. Len(sent') = Len(sent) + 1 /\ sent'[Len(sent')] = a
    BY <1>2, AppendFacts
  <1> QED BY <1>2, <1>3 DEF Contract!Write, Contract!Extends

(* What the client has written stays written. *)
LEMMA SentKept ==
  ASSUME TypeInv, [Next]_vars
  PROVE  \A k \in 1..Len(sent) : sent'[k] = sent[k]
  <1>1. CASE ClientAction
    <2>1. PICK a \in Contract!Action : sent' = Append(sent, a)
      BY <1>1, ClientWritesStep DEF Contract!Write, Contract!Extends
    <2> QED BY <2>1, AppendFacts DEF TypeInv, TypeOK, InputTypes
  <1>2. CASE UNCHANGED sent
    BY <1>2
  <1>3. ClientAction \/ UNCHANGED sent
    BY DEF Next, vars, ProcessChunk, UIThread, PerformCreate, Create,
           PerformCall, PerformPopup, PopupReturns, PerformDelete, Perform,
           RunCallback, IgnoreReply, PerformReply, EmitEvent,
           InvokeRemoteMethod, Push, IOThread, SendReply, SendEvent,
           SendInvokeInserts, SendInvokeWrites, SendInvokeReturns, Quit,
           DeleteNonSessions, DeleteSessions
  <1> QED BY <1>1, <1>2, <1>3

LEMMA CreateTypes ==
  TypeInv /\ PostedInv /\ AnnouncedTypes /\ PerformCreate => AnnouncedTypes'
  <1> SUFFICES ASSUME TypeInv, PostedInv, AnnouncedTypes, PerformCreate
               PROVE  AnnouncedTypes'
    OBVIOUS
  <1> DEFINE id == performed + 1
             a  == sent[id]
             t  == IF a.type \in Types THEN Len(objects) + 1 ELSE 0
             x  == Reply(id, t)
             o  == [type |-> a.type,
                    session |-> IF a.target \in bindings THEN a.target ELSE 0]
  <1>1. /\ objects \in Seq([type : Types, session : Nat]) /\ Len(objects) \in Nat
        /\ posted \in Seq(Task) /\ id \in Nat /\ a.target \in Nat /\ sent' = sent
    BY Elements, NextAction
    DEF PerformCreate, Perform, TypeInv, TypeOK, RegistryTypes, OutputTypes
  <1>2. x \in Task /\ x.id = id /\ x.target = t
    BY <1>1, TaskTypes DEF Reply
  <1>3. \/ UNCHANGED objects /\ t = 0
        \/ /\ objects' = Append(objects, o) /\ t = Len(objects) + 1
           /\ o \in [type : Types, session : Nat]
    BY <1>1 DEF PerformCreate, Create
  <1>4. posted' = posted \o <<x>>
    BY DEF PerformCreate, Post
  <1>5. o.type = a.type
    OBVIOUS
  <1> HIDE DEF t, x, o
  <1>6. posted' = Append(posted, x)
    BY <1>1, <1>2, <1>4, ConcatOne
  <1>7. /\ Len(posted') = Len(posted) + 1 /\ posted'[Len(posted) + 1] = x
        /\ \A i \in 1..Len(posted) : posted'[i] = posted[i]
        /\ Len(posted) \in Nat
    BY <1>1, <1>2, <1>6, AppendFacts, Elements
  <1>8. t # 0 => objects'[t].type = a.type
    BY <1>1, <1>3, <1>5, AppendFacts
  <1>9. \A u \in Targets : objects'[u] = objects[u]
    BY <1>1, <1>3, AppendFacts DEF Targets
  <1> HIDE DEF id, a
  <1>10. \A i \in 1..Len(posted) :
           posted[i].kind = "reply" /\ posted[i].target # 0 => posted[i].target \in Targets
    BY DEF PostedInv, LogOK, RepliesPerformed
  <1>11. ASSUME NEW i \in 1..Len(posted'),
                posted'[i].kind = "reply", posted'[i].target # 0
         PROVE  sent'[posted'[i].id].type = objects'[posted'[i].target].type
    <2>1. CASE i = Len(posted) + 1
      <3>1. posted'[i].id = id /\ posted'[i].target = t /\ t # 0
        BY <1>2, <1>7, <1>11, <2>1
      <3> QED BY <1>1, <1>8, <3>1 DEF a
    <2>2. CASE i \in 1..Len(posted)
      <3>1. posted'[i] = posted[i] /\ posted[i].target \in Targets
        BY <1>7, <1>10, <1>11, <2>2
      <3> QED BY <1>1, <1>9, <1>11, <2>2, <3>1 DEF AnnouncedTypes
    <2> QED BY <1>7, <2>1, <2>2
  <1> QED BY <1>11 DEF AnnouncedTypes

LEMMA NextTypes ==
  TypeInv /\ PostedInv /\ AnnouncedTypes /\ [Next]_vars => AnnouncedTypes'
  <1> SUFFICES ASSUME TypeInv, PostedInv, AnnouncedTypes, [Next]_vars, ~PerformCreate
               PROVE  AnnouncedTypes'
    BY CreateTypes
  <1>1. posted \in Seq(Task) /\ Len(posted) \in Nat
    BY Elements DEF TypeInv, TypeOK, OutputTypes
  <1>2. ASSUME NEW i \in 1..Len(posted),
               posted[i].kind = "reply", posted[i].target # 0
        PROVE  sent'[posted[i].id].type = objects'[posted[i].target].type
    <2>1. posted[i].target \in Targets /\ posted[i].id \in 1..performed
      BY <1>2 DEF PostedInv, LogOK, RepliesPerformed
    <2>2. posted[i].id \in 1..Len(sent)
      BY <2>1, Elements DEF TypeInv, TypeOK, InputTypes
    <2> QED BY <1>2, <2>1, <2>2, SentKept, ObjectsKept DEF AnnouncedTypes
  <1>3. CASE posted' = posted
    BY <1>2, <1>3 DEF AnnouncedTypes
  <1>4. ASSUME NEW x \in Task, posted' = posted \o <<x>>,
               x.kind = "reply" => x.target = 0
        PROVE  AnnouncedTypes'
    <2>1. /\ Len(posted') = Len(posted) + 1 /\ posted'[Len(posted) + 1] = x
          /\ \A i \in 1..Len(posted) : posted'[i] = posted[i]
      BY <1>1, <1>4, ConcatOne, AppendFacts
    <2> QED BY <1>1, <1>2, <1>4, <2>1 DEF AnnouncedTypes
  <1>5. ASSUME NEW x \in Task, NEW y \in Task, posted' = posted \o <<x, y>>,
               x.kind # "reply", y.target = 0
        PROVE  AnnouncedTypes'
    <2>1. Post(<<x, y>>)
      BY <1>5 DEF Post
    <2>2. /\ Len(posted') = Len(posted) + 2
          /\ posted'[Len(posted) + 1] = x /\ posted'[Len(posted) + 2] = y
          /\ \A i \in 1..Len(posted) : posted'[i] = posted[i]
      BY <1>1, <2>1, PostTwo
    <2>3. \A i \in 1..Len(posted') :
            i \in 1..Len(posted) \/ i = Len(posted) + 1 \/ i = Len(posted) + 2
      BY <1>1, <2>2
    <2>4. posted'[Len(posted) + 1].kind # "reply" /\ posted'[Len(posted) + 2].target = 0
      BY <1>5, <2>2
    <2>5. \A i \in 1..Len(posted) :
            posted'[i].kind = "reply" /\ posted'[i].target # 0 =>
              sent'[posted'[i].id].type = objects'[posted'[i].target].type
      BY <1>2, <2>2
    <2> QED BY <2>3, <2>4, <2>5 DEF AnnouncedTypes
  <1> QED BY <1>3, <1>4, <1>5, LogGrows

(* A log that grows by one task keeps the turns of its first positions. *)
LEMMA GrownTurns ==
  ASSUME NEW log \in Seq(Task), NEW x \in Task, NEW s
  PROVE  /\ \A k : \A n \in 0..Len(log) :
              /\ AnswersTo(Append(log, x), k, n) <=> AnswersTo(log, k, n)
              /\ RisingPast(Append(log, x), k, n) <=> RisingPast(log, k, n)
              /\ TurnOf(s, Append(log, x), k, n) <=> TurnOf(s, log, k, n)
         /\ \A t : \A n \in 0..Len(log) :
              AnnouncedMenu(s, Append(log, x), t, n) <=> AnnouncedMenu(s, log, t, n)
  <1> DEFINE new == Append(log, x)
  <1>1. Len(log) \in Nat /\ \A i \in 1..Len(log) : new[i] = log[i]
    BY GrownLog
  <1>2. \A n \in 0..Len(log) : \A i \in 1..n : new[i] = log[i]
    BY <1>1
  <1> HIDE DEF new
  <1>3. \A k : \A n \in 0..Len(log) :
          /\ AnswersTo(new, k, n) <=> AnswersTo(log, k, n)
          /\ AnswersPast(new, k, n) <=> AnswersPast(log, k, n)
          /\ RisingPast(new, k, n) <=> RisingPast(log, k, n)
    BY <1>2 DEF AnswersTo, AnswersPast, RisingPast
  <1>4. \A t : \A n \in 0..Len(log) :
          AnnouncedMenu(s, new, t, n) <=> AnnouncedMenu(s, log, t, n)
    BY <1>2 DEF AnnouncedMenu
  <1> QED BY <1>3, <1>4 DEF TurnOf, new

(* The call that waits goes on doing so when another task is posted. *)
LEMMA StillWaiting ==
  ASSUME NEW s, NEW w \in Nat, NEW log \in Seq(Task), NEW x \in Task,
         ~AnswersTo(log, w, Len(log)), RisingPast(log, w, Len(log)),
         AnnouncedMenu(s, log, s[w].target, Len(log)),
         x.kind = "reply" =>
           /\ x.id # w
           /\ \A i \in 1..Len(log) : log[i].kind = "reply" => log[i].id < x.id
  PROVE  /\ ~AnswersTo(Append(log, x), w, Len(log) + 1)
         /\ RisingPast(Append(log, x), w, Len(log) + 1)
         /\ AnnouncedMenu(s, Append(log, x), s[w].target, Len(log) + 1)
  <1> DEFINE new == Append(log, x)
  <1>1. /\ Len(log) \in Nat /\ \A i \in 1..Len(log) : new[i] = log[i]
        /\ new[Len(log) + 1] = x
        /\ \A i \in 1..(Len(log) + 1) : i = Len(log) + 1 \/ i \in 1..Len(log)
        /\ \A i \in 1..Len(log) : i \in 1..(Len(log) + 1)
    BY GrownLog
  <1> HIDE DEF new
  <1>2. ~AnswersTo(new, w, Len(log) + 1)
    BY <1>1 DEF AnswersTo
  <1>3. RisingPast(new, w, Len(log) + 1)
    BY <1>1 DEF RisingPast
  <1>4. AnnouncedMenu(s, new, s[w].target, Len(log) + 1)
    BY <1>1 DEF AnnouncedMenu
  <1> QED BY <1>2, <1>3, <1>4 DEF new

(* The answers of a log that grows by one, in their turns if the last is. *)
LEMMA GrownTurnsOK ==
  ASSUME NEW s, NEW p \in Nat, NEW w, NEW log \in Seq(Task), TurnsOK(s, p, w, log),
         NEW q \in Nat, p <= q, NEW x \in Task,
         x.kind = "reply" => x.id \in 1..q /\ TurnOf(s, log, x.id, Len(log)),
         NEW new, new = Append(log, x)
  PROVE  \A i \in 1..Len(new) :
           new[i].kind = "reply" => new[i].id \in 1..q /\ TurnOf(s, new, new[i].id, i - 1)
  <1>1. /\ Len(log) \in Nat /\ \A i \in 1..Len(log) : new[i] = log[i]
        /\ Len(new) = Len(log) + 1 /\ new[Len(log) + 1] = x
        /\ \A i \in 1..Len(new) : i = Len(log) + 1 \/ i \in 1..Len(log)
    BY GrownLog
  <1>2. \A k : \A n \in 0..Len(log) : TurnOf(s, new, k, n) <=> TurnOf(s, log, k, n)
    BY GrownTurns
  <1>3. \A i \in 1..Len(new) : i - 1 \in 0..Len(log)
    BY <1>1
  <1> QED BY <1>1, <1>2, <1>3 DEF TurnsOK

(* Posting an event or an invocation. *)
LEMMA PushTurn ==
  ASSUME NEW s, NEW p \in Nat, NEW w, NEW log \in Seq(Task), TurnsOK(s, p, w, log),
         NEW x \in Task, x.kind # "reply"
  PROVE  TurnsOK(s, p, w, Append(log, x))
  <1> DEFINE new == Append(log, x)
  <1>1. w \in Nat /\ Len(new) = Len(log) + 1
    BY GrownLog DEF TurnsOK
  <1>2. w # 0 => /\ ~AnswersTo(new, w, Len(log) + 1)
                 /\ RisingPast(new, w, Len(log) + 1)
                 /\ AnnouncedMenu(s, new, s[w].target, Len(log) + 1)
    BY <1>1, StillWaiting DEF TurnsOK, new
  <1>3. \A i \in 1..Len(new) :
          new[i].kind = "reply" => new[i].id \in 1..p /\ TurnOf(s, new, new[i].id, i - 1)
    <2>1. p <= p /\ new = Append(log, x)
      OBVIOUS
    <2> HIDE DEF new
    <2> QED BY <2>1, GrownTurnsOK
  <1> HIDE DEF new
  <1>4. w \in 0..p /\ (w # 0 => s[w].action = "call")
    BY DEF TurnsOK
  <1> QED BY <1>1, <1>2, <1>3, <1>4 DEF TurnsOK, new

(* Posting the answer to the next action: nothing has overtaken it. *)
LEMMA NextTurn ==
  ASSUME NEW s, NEW p \in Nat, NEW w, NEW log \in Seq(Task), TurnsOK(s, p, w, log),
         NEW x \in Task, x.kind = "reply", x.id = p + 1
  PROVE  TurnsOK(s, p + 1, w, Append(log, x))
  <1> DEFINE new == Append(log, x)
  <1>1. w \in Nat /\ w \in 0..(p + 1) /\ w # p + 1 /\ p + 1 \in Nat
        /\ Len(new) = Len(log) + 1
    BY GrownLog DEF TurnsOK
  <1>2. \A i \in 1..Len(log) :
          log[i].kind = "reply" => log[i].id < x.id /\ log[i].id \in Nat
    BY DEF TurnsOK
  <1>3. TurnOf(s, log, x.id, Len(log))
    BY <1>2 DEF TurnOf, AnswersTo, AnswersPast, RisingPast
  <1>4. w # 0 => /\ ~AnswersTo(new, w, Len(log) + 1)
                 /\ RisingPast(new, w, Len(log) + 1)
                 /\ AnnouncedMenu(s, new, s[w].target, Len(log) + 1)
    BY <1>1, <1>2, StillWaiting DEF TurnsOK, new
  <1>5. \A i \in 1..Len(new) :
          new[i].kind = "reply" => new[i].id \in 1..(p + 1) /\ TurnOf(s, new, new[i].id, i - 1)
    <2>1. p <= p + 1 /\ new = Append(log, x) /\ x.id \in 1..(p + 1)
      OBVIOUS
    <2> HIDE DEF new
    <2> QED BY <1>1, <1>3, <2>1, GrownTurnsOK
  <1> HIDE DEF new
  <1>6. w # 0 => s[w].action = "call"
    BY DEF TurnsOK
  <1> QED BY <1>1, <1>4, <1>5, <1>6 DEF TurnsOK, new

(* Posting the answer to the call that waits. *)
LEMMA LateTurn ==
  ASSUME NEW s, NEW p \in Nat, NEW w, NEW log \in Seq(Task), TurnsOK(s, p, w, log),
         w # 0, NEW x \in Task, x.kind = "reply", x.id = w
  PROVE  TurnsOK(s, p, 0, Append(log, x))
  <1> DEFINE new == Append(log, x)
  <1>1. x.id \in 1..p /\ TurnOf(s, log, x.id, Len(log))
    BY DEF TurnsOK, TurnOf
  <1>2. \A i \in 1..Len(new) :
          new[i].kind = "reply" => new[i].id \in 1..p /\ TurnOf(s, new, new[i].id, i - 1)
    <2>1. p <= p /\ new = Append(log, x)
      OBVIOUS
    <2> HIDE DEF new
    <2> QED BY <1>1, <2>1, GrownTurnsOK
  <1> HIDE DEF new
  <1> QED BY <1>2 DEF TurnsOK, new

(* Nothing is posted: the next action is performed, or begins to wait. *)
LEMMA SilentTurn ==
  ASSUME NEW s, NEW p \in Nat, NEW w, NEW log \in Seq(Task), TurnsOK(s, p, w, log)
  PROVE  /\ TurnsOK(s, p + 1, w, log)
         /\ TurnsOK(s, p, 0, log)
         /\ w = 0 /\ s[p + 1].action = "call"
              /\ AnnouncedMenu(s, log, s[p + 1].target, Len(log)) =>
              TurnsOK(s, p + 1, p + 1, log)
  <1>1. \A i \in 1..Len(log) :
          log[i].kind = "reply" =>
            /\ log[i].id \in 1..p /\ log[i].id \in 1..(p + 1)
            /\ TurnOf(s, log, log[i].id, i - 1)
    BY DEF TurnsOK
  <1>2. ~AnswersTo(log, p + 1, Len(log)) /\ RisingPast(log, p + 1, Len(log))
    BY <1>1 DEF AnswersTo, RisingPast
  <1> QED BY <1>1, <1>2 DEF TurnsOK

(* The client writes one more action. *)
LEMMA WrittenTurn ==
  ASSUME NEW s \in Seq(Contract!Action), NEW p \in 0..Len(s), NEW w,
         NEW log \in Seq(Task), TurnsOK(s, p, w, log), NEW a \in Contract!Action
  PROVE  TurnsOK(Append(s, a), p, w, log)
  <1> DEFINE s2 == Append(s, a)
  <1>1. /\ Len(s) \in Nat /\ \A i \in 1..Len(s) : s2[i] = s[i]
        /\ \A k \in 1..p : k \in 1..Len(s)
    BY AppendFacts, Elements
  <1> HIDE DEF s2
  <1>2. Len(log) \in Nat
    BY Elements
  <1>3. \A i \in 1..Len(log) : log[i].kind = "reply" => s2[log[i].id] = s[log[i].id]
    BY <1>1 DEF TurnsOK
  <1>4. \A t : \A n \in 0..Len(log) :
          AnnouncedMenu(s2, log, t, n) <=> AnnouncedMenu(s, log, t, n)
    <2>1. \A n \in 0..Len(log) : \A i \in 1..n : i \in 1..Len(log)
      BY <1>2
    <2> QED BY <1>3, <2>1 DEF AnnouncedMenu
  <1>5. \A k \in 1..p : \A n \in 0..Len(log) :
          TurnOf(s2, log, k, n) <=> TurnOf(s, log, k, n)
    BY <1>1, <1>4 DEF TurnOf
  <1>6. \A i \in 1..Len(log) : i - 1 \in 0..Len(log)
    BY <1>2
  <1>7. Len(log) \in 0..Len(log)
    BY <1>2
  <1>8. w # 0 => s2[w] = s[w]
    BY <1>1 DEF TurnsOK
  <1> QED BY <1>4, <1>5, <1>6, <1>7, <1>8 DEF TurnsOK, s2

(* A menu that is registered has been announced as one. *)
LEMMA PopupTurn == TypeInv /\ LogInv /\ PerformPopup => TurnInv'
  <1> SUFFICES ASSUME TypeInv, LogInv, PerformPopup PROVE TurnInv'
    OBVIOUS
  <1> DEFINE id == performed + 1
             t  == sent[id].target
  <1>1. /\ sent[id].action = "call" /\ t \in bindings /\ t \in Targets
        /\ objects[t].type = MenuType
        /\ popup = 0 /\ popup' = id /\ performed' = id
        /\ UNCHANGED <<sent, posted>>
        /\ performed \in Nat /\ posted \in Seq(Task)
    BY DEF PerformPopup, Perform, OfType, TypeInv, TypeOK, InputTypes,
           RegistryTypes, OutputTypes
  <1>2. t # 0
    BY <1>1 DEF Targets
  <1>3. AnnouncedMenu(sent, posted, t, Len(posted))
    <2>1. Announced(posted, t, Len(posted))
      BY <1>1 DEF LogInv, PostedInv, LogOK, RegisteredIsLive
    <2> QED BY <1>1, <1>2, <2>1 DEF LogInv, AnnouncedTypes, Announced, AnnouncedMenu
  <1>4. TurnsOK(sent, performed, popup, posted)
    BY DEF LogInv, TurnInv
  <1>5. TurnsOK(sent, id, id, posted)
    BY <1>1, <1>3, <1>4, SilentTurn
  <1> QED BY <1>1, <1>5 DEF TurnInv

(* What the other actions answer. *)
LEMMA AnsweredTurn ==
  ASSUME TypeInv, TurnInv, PerformCreate \/ PerformCall \/ PerformDelete
  PROVE  TurnInv'
  <1> DEFINE id == performed + 1
             e  == Event(sent[id].target)
  <1>1. /\ performed' = id /\ UNCHANGED <<sent, popup>> /\ performed \in Nat
        /\ posted \in Seq(Task) /\ sent[id].target \in Nat /\ Len(objects) + 1 \in Nat
        /\ id \in Nat
    BY NextAction, Elements
    DEF PerformCreate, PerformCall, PerformDelete, Perform, TypeInv, TypeOK,
        InputTypes, OutputTypes, RegistryTypes
  <1>2. /\ e \in Task /\ e.kind # "reply"
        /\ \A n \in Nat : /\ Reply(id, n) \in Task /\ Reply(id, n).kind = "reply"
                          /\ Reply(id, n).id = id
    BY <1>1, TaskTypes DEF Event, Reply
  <1>3. \/ posted' = posted
        \/ \E n \in Nat : \/ posted' = posted \o <<Reply(id, n)>>
                          \/ posted' = posted \o <<e, Reply(id, n)>>
    BY <1>1 DEF PerformCreate, PerformCall, CallMethod, PerformDelete, Post
  <1> HIDE DEF e
  <1>4. TurnsOK(sent, performed, popup, posted)
    BY DEF TurnInv
  <1>5. CASE posted' = posted
    BY <1>1, <1>4, <1>5, SilentTurn DEF TurnInv
  <1>6. ASSUME NEW n \in Nat, posted' = posted \o <<Reply(id, n)>> PROVE TurnInv'
    <2> DEFINE x == Reply(id, n)
    <2>1. x \in Task /\ x.kind = "reply" /\ x.id = id /\ posted' = posted \o <<x>>
      BY <1>2, <1>6
    <2> HIDE DEF x
    <2>2. posted' = Append(posted, x)
      BY <1>1, <2>1, ConcatOne
    <2>3. TurnsOK(sent, id, popup, Append(posted, x))
      BY <1>1, <1>4, <2>1, NextTurn
    <2> QED BY <1>1, <2>2, <2>3 DEF TurnInv
  <1>7. ASSUME NEW n \in Nat, posted' = posted \o <<e, Reply(id, n)>> PROVE TurnInv'
    <2> DEFINE x == Reply(id, n)
    <2>1. x \in Task /\ x.kind = "reply" /\ x.id = id /\ posted' = posted \o <<e, x>>
      BY <1>2, <1>7
    <2> HIDE DEF x
    <2>2. posted' = Append(Append(posted, e), x) /\ Append(posted, e) \in Seq(Task)
      BY <1>1, <1>2, <2>1, ConcatTwo, AppendFacts
    <2>3. TurnsOK(sent, performed, popup, Append(posted, e))
      BY <1>1, <1>2, <1>4, PushTurn
    <2>4. TurnsOK(sent, id, popup, Append(Append(posted, e), x))
      BY <1>1, <2>1, <2>2, <2>3, NextTurn
    <2> QED BY <1>1, <2>2, <2>4 DEF TurnInv
  <1> QED BY <1>3, <1>5, <1>6, <1>7

LEMMA ReturnTurn == TypeInv /\ TurnInv /\ PopupReturns => TurnInv'
  <1> SUFFICES ASSUME TypeInv, TurnInv, PopupReturns PROVE TurnInv'
    OBVIOUS
  <1> DEFINE x == Reply(popup, 0)
  <1>1. /\ popup # 0 /\ popup' = 0 /\ UNCHANGED <<sent, performed>>
        /\ performed \in Nat /\ popup \in Nat /\ posted \in Seq(Task)
        /\ TurnsOK(sent, performed, popup, posted)
    BY DEF PopupReturns, TypeInv, TypeOK, InputTypes, OutputTypes, TurnInv
  <1>2. x \in Task /\ x.kind = "reply" /\ x.id = popup
    BY <1>1, TaskTypes DEF Reply
  <1>3. UNCHANGED posted \/ posted' = posted \o <<x>>
    BY DEF PopupReturns, Post
  <1> HIDE DEF x
  <1>4. CASE UNCHANGED posted
    BY <1>1, <1>4, SilentTurn DEF TurnInv
  <1>5. CASE posted' = posted \o <<x>>
    <2>1. posted' = Append(posted, x)
      BY <1>1, <1>2, <1>5, ConcatOne
    <2>2. TurnsOK(sent, performed, 0, Append(posted, x))
      BY <1>1, <1>2, LateTurn
    <2> QED BY <1>1, <2>1, <2>2 DEF TurnInv
  <1> QED BY <1>3, <1>4, <1>5

LEMMA NextTurns == TypeInv /\ LogInv /\ [Next]_vars => TurnInv'
  <1> SUFFICES ASSUME TypeInv, LogInv, [Next]_vars PROVE TurnInv'
    OBVIOUS
  <1>1. TurnInv /\ TurnsOK(sent, performed, popup, posted)
    BY DEF LogInv, TurnInv
  <1>2. /\ posted \in Seq(Task) /\ performed \in Nat /\ performed \in 0..Len(sent)
        /\ sent \in Seq(Contract!Action)
    BY Elements DEF TypeInv, TypeOK, InputTypes, OutputTypes
  <1>3. CASE ClientAction
    <2>1. PICK a \in Contract!Action : sent' = Append(sent, a)
      BY <1>3, ClientWritesStep DEF Contract!Write, Contract!Extends
    <2>2. UNCHANGED <<performed, popup, posted>>
      BY <1>3 DEF ClientAction, ClientWrites
    <2>3. TurnsOK(Append(sent, a), performed, popup, posted)
      BY <1>1, <1>2, WrittenTurn
    <2> QED BY <2>1, <2>2, <2>3 DEF TurnInv
  <1>4. CASE EmitEvent \/ InvokeRemoteMethod
    <2>1. PICK x \in Task : x.kind # "reply" /\ Push(x)
      <3>1. PICK t \in Targets : Push(Event(t)) \/ Push(Invoke(t))
        BY <1>4 DEF EmitEvent, InvokeRemoteMethod, AliveObjects
      <3>2. t \in Nat
        BY Elements DEF Targets, TypeInv, TypeOK, RegistryTypes
      <3> QED BY <3>1, <3>2, TaskTypes DEF Event, Invoke
    <2>2. posted' = posted \o <<x>> /\ UNCHANGED <<sent, performed, popup>>
      BY <2>1 DEF Push, Post
    <2>3. posted' = Append(posted, x)
      BY <1>2, <2>2, ConcatOne
    <2>4. TurnsOK(sent, performed, popup, Append(posted, x))
      BY <1>1, <1>2, <2>1, PushTurn
    <2> QED BY <2>2, <2>3, <2>4 DEF TurnInv
  <1>5. CASE /\ UNCHANGED <<sent, popup, posted>>
             /\ performed' \in {performed, performed + 1}
    BY <1>1, <1>2, <1>5, SilentTurn DEF TurnInv
  <1>6. \/ /\ UNCHANGED <<sent, popup, posted>>
           /\ performed' \in {performed, performed + 1}
        \/ ClientAction \/ EmitEvent \/ InvokeRemoteMethod \/ PerformCreate
        \/ PerformCall \/ PerformPopup \/ PopupReturns \/ PerformDelete
    BY DEF Next, vars, ProcessChunk, UIThread, RunCallback, IgnoreReply,
           PerformReply, IOThread, SendReply, SendEvent, SendInvokeInserts,
           SendInvokeWrites, SendInvokeReturns, Quit, DeleteNonSessions,
           DeleteSessions
  <1> QED
    BY <1>1, <1>3, <1>4, <1>5, <1>6, PopupTurn, AnsweredTurn, ReturnTurn

-----------------------------------------------------------------------------
(* The invariant about standard output. *)

(* The queue grows at its end, and the identifiers stay what they are. *)
LEMMA OutUntouched ==
  ASSUME TypeInv, OutInv, UNCHANGED <<out, actionId>>,
         LastWritten' = LastWritten,
         \A i \in 1..Len(posted) : posted'[i] = posted[i]
  PROVE  OutInv'
  <1>1. \A j \in 1..Len(out) : j \in 1..Len(posted)
    BY Elements DEF TypeInv, TypeOK, OutputTypes
  <1>2. OutIsPosted'
    BY <1>1 DEF OutInv, OutIsPosted
  <1>3. PushesNumbered'
    BY DEF OutInv, PushesNumbered
  <1> QED BY <1>2, <1>3 DEF OutInv

(* One more message; a push takes the identifier after the last. *)
LEMMA OneWritten ==
  ASSUME TypeInv, OutInv, Len(out) < Len(posted), UNCHANGED posted,
         NEW id \in Nat, WriteMessage(id),
         NextTask.kind = "reply" =>
           id = NextTask.id /\ LastWritten' = LastWritten,
         NextTask.kind # "reply" =>
           id = LastWritten + 1 /\ LastWritten' = id
  PROVE  OutInv'
  <1>1. /\ out' \in Seq(Contract!Message) /\ Len(out') = Len(out) + 1
        /\ Len(out) \in Nat
        /\ out'[Len(out) + 1] = [kind |-> NextTask.kind, id |-> id,
                                 target |-> NextTask.target]
        /\ \A i \in 1..Len(out) : out'[i] = out[i]
    BY Written
  <1>2. /\ DOMAIN out = 1..Len(out) /\ DOMAIN out' = 1..(Len(out) + 1)
        /\ Len(out) + 1 \notin DOMAIN out
        /\ DOMAIN out' = DOMAIN out \union {Len(out) + 1}
    BY <1>1, Elements DEF TypeInv, TypeOK, OutputTypes
  <1>3. /\ out'[Len(out) + 1].kind = NextTask.kind
        /\ out'[Len(out) + 1].id = id
        /\ out'[Len(out) + 1].target = NextTask.target
    BY <1>1
  <1>4. OutIsPosted'
    BY <1>1, <1>2, <1>3 DEF OutInv, OutIsPosted, NextTask
  <1>5. LastWritten \in Nat
    BY DEF TypeInv, TypeOK, OutputTypes, IOPosition, LastWritten
  <1> DEFINE Ids  == {out[j].id : j \in {k \in DOMAIN out : ~Contract!IsReply(out[k])}}
             Ids2 == {out'[j].id : j \in {k \in DOMAIN out' : ~Contract!IsReply(out'[k])}}
  <1>6. Ids = 1..LastWritten
    BY DEF OutInv, PushesNumbered
  <1>7. CASE NextTask.kind = "reply"
    <2>1. Ids2 = Ids
      BY <1>1, <1>2, <1>3, <1>7 DEF Contract!IsReply
    <2> QED BY <1>4, <1>6, <1>7, <2>1 DEF OutInv, PushesNumbered
  <1>8. CASE NextTask.kind # "reply"
    <2>1. Ids2 = Ids \union {id}
      BY <1>1, <1>2, <1>3, <1>8 DEF Contract!IsReply
    <2>2. 1..LastWritten' = (1..LastWritten) \union {id}
      BY <1>5, <1>8
    <2> QED BY <1>4, <1>6, <2>1, <2>2 DEF OutInv, PushesNumbered
  <1> QED BY <1>7, <1>8

LEMMA NextOut == TypeInv /\ OutInv /\ [Next]_vars => OutInv'
  <1> SUFFICES ASSUME TypeInv, OutInv, [Next]_vars PROVE OutInv'
    OBVIOUS
  <1>1. actionId \in Nat /\ posted \in Seq(Task)
    BY DEF TypeInv, TypeOK, OutputTypes
  <1>2. CASE /\ UNCHANGED <<out, actionId>>
             /\ ioPhase' = ioPhase \/ (ioPhase = "inserting" /\ ioPhase' = "lost")
             /\ \/ posted' = posted
                \/ \E x \in Task : posted' = posted \o <<x>>
                \/ \E x, y \in Task : posted' = posted \o <<x, y>>
    <2>1. \A i \in 1..Len(posted) : posted'[i] = posted[i]
      BY <1>1, <1>2, PostOne, PostTwo DEF Post
    <2>2. LastWritten' = LastWritten
      BY <1>2 DEF LastWritten
    <2> QED BY <1>2, <2>1, <2>2, OutUntouched
  <1>3. CASE SendReply
    <2>1. NextTask.id \in Nat /\ NextTask.kind = "reply" /\ Len(out) < Len(posted)
      <3>1. Len(out) + 1 \in 1..Len(posted)
        BY <1>3, Elements DEF SendReply, IORuns, TypeInv, TypeOK, OutputTypes
      <3>2. NextTask \in Task
        BY <1>1, <3>1, Elements DEF NextTask
      <3> QED BY <1>3, <3>2 DEF Task, SendReply, IORuns
    <2>2. LastWritten' = LastWritten
      BY <1>3 DEF SendReply, LastWritten
    <2> QED BY <1>3, <2>1, <2>2, OneWritten DEF SendReply
  <1>4. CASE SendEvent
    <2>1. /\ actionId + 1 = LastWritten + 1 /\ LastWritten' = actionId + 1
          /\ NextTask.kind # "reply" /\ Len(out) < Len(posted)
      BY <1>4 DEF SendEvent, IORuns, LastWritten
    <2> QED BY <1>1, <1>4, <2>1, OneWritten DEF SendEvent
  <1>5. CASE SendInvokeInserts
    <2>1. LastWritten' = LastWritten /\ out' = out
      BY <1>1, <1>5 DEF SendInvokeInserts, LastWritten
    <2> QED BY <1>5, <2>1 DEF SendInvokeInserts, OutInv, OutIsPosted, PushesNumbered
  <1>6. CASE SendInvokeWrites
    <2>1. /\ actionId = LastWritten + 1 /\ LastWritten' = actionId
          /\ NextTask.kind # "reply" /\ Len(out) < Len(posted)
      BY <1>1, <1>6 DEF SendInvokeWrites, IORuns, LastWritten
    <2> QED BY <1>1, <1>6, <2>1, OneWritten DEF SendInvokeWrites
  <1>7. CASE SendInvokeReturns
    <2>1. LastWritten' = LastWritten
      BY <1>7 DEF SendInvokeReturns, LastWritten
    <2> QED BY <1>7, <2>1, OutUntouched DEF SendInvokeReturns
  <1>8. PerformCreate \/ PerformCall \/ PopupReturns \/ PerformDelete \/ EmitEvent
          \/ InvokeRemoteMethod
          => \/ posted' = posted
             \/ \E x \in Task : posted' = posted \o <<x>>
             \/ \E x, y \in Task : posted' = posted \o <<x, y>>
    <2>1. CASE EmitEvent \/ InvokeRemoteMethod
      <3>1. PICK t \in Targets : Push(Event(t)) \/ Push(Invoke(t))
        BY <2>1 DEF EmitEvent, InvokeRemoteMethod, AliveObjects
      <3>2. Event(t) \in Task /\ Invoke(t) \in Task
        BY TaskTypes, Elements DEF Targets, TypeInv, TypeOK, RegistryTypes
      <3> QED BY <3>1, <3>2 DEF Push, Post
    <2>2. CASE PerformCreate \/ PerformDelete
      <3>1. performed + 1 \in Nat /\ Len(objects) + 1 \in Nat
        BY <2>2, Elements, NextAction
        DEF PerformCreate, Create, PerformDelete, Delete, Perform, TypeInv, TypeOK, RegistryTypes
      <3>2. \A n \in Nat : Reply(performed + 1, n) \in Task
        BY <3>1, TaskTypes
      <3> QED BY <2>2, <3>1, <3>2 DEF PerformCreate, Create, PerformDelete, Delete, Post
    <2>3. CASE PerformCall
      <3>1. performed + 1 \in Nat /\ sent[performed + 1].target \in Nat
        BY <2>3, NextAction DEF PerformCall, CallMethod, Perform, TypeInv, TypeOK
      <3>2. Reply(performed + 1, 0) \in Task /\ Event(sent[performed + 1].target) \in Task
        BY <3>1, TaskTypes
      <3> QED BY <2>3, <3>2 DEF PerformCall, CallMethod, Post
    <2>4. CASE PopupReturns
      <3>1. popup \in Nat
        BY DEF TypeInv, TypeOK, InputTypes
      <3> QED BY <2>4, <3>1, TaskTypes DEF PopupReturns, Post
    <2> QED BY <2>1, <2>2, <2>3, <2>4
  <1>9. \/ /\ UNCHANGED <<out, actionId>>
           /\ ioPhase' = ioPhase \/ (ioPhase = "inserting" /\ ioPhase' = "lost")
           /\ \/ posted' = posted
              \/ \E x \in Task : posted' = posted \o <<x>>
              \/ \E x, y \in Task : posted' = posted \o <<x, y>>
        \/ SendReply \/ SendEvent \/ SendInvokeInserts \/ SendInvokeWrites
        \/ SendInvokeReturns
    <2>1. CASE PerformCreate \/ PerformCall \/ PopupReturns \/ PerformDelete
                 \/ EmitEvent \/ InvokeRemoteMethod
      <3>1. UNCHANGED <<out, actionId, ioPhase>>
        BY <2>1 DEF PerformCreate, Create, PerformCall, CallMethod, PopupReturns,
                    PerformDelete, Delete, Perform, EmitEvent, InvokeRemoteMethod, Push, ioVars
      <3> QED BY <1>8, <2>1, <3>1
    <2>2. CASE ClientAction \/ ProcessChunk \/ PerformPopup \/ RunCallback
                 \/ IgnoreReply \/ Quit \/ DeleteNonSessions \/ DeleteSessions
                 \/ UNCHANGED vars
      BY <2>2 DEF vars, ioVars, ClientAction, ClientWrites, ProcessChunk,
                  PerformPopup, Perform,
                  RunCallback, IgnoreReply, PerformReply, Quit,
                  DeleteNonSessions, DeleteSessions
    <2> QED BY <2>1, <2>2 DEF Next, UIThread, IOThread
  <1> QED BY <1>2, <1>3, <1>4, <1>5, <1>6, <1>7, <1>9

-----------------------------------------------------------------------------
(* The steps of the implementation are steps of the contract. *)

(* What standard output says of a target, the log says of its prefix. *)
LEMMA OutAnnounces ==
  ASSUME TypeInv, OutInv, NEW t
  PROVE  /\ Contract!Created(t) <=> Announced(posted, t, Len(out))
         /\ Contract!Deleted(t) <=> Acknowledged(sent, posted, t, Len(out))
  <1>1. DOMAIN out = 1..Len(out)
    BY Elements DEF TypeInv, TypeOK, OutputTypes
  <1> QED BY <1>1 DEF OutInv, OutIsPosted, Contract!Created, Contract!Deleted,
                      Contract!IsReply, Announced, Acknowledged

LEMMA SendReplyStep == TypeInv /\ LogInv /\ SendReply => Contract!Answer
  <1> SUFFICES ASSUME TypeInv, LogInv, SendReply PROVE Contract!Answer
    OBVIOUS
  <1> DEFINE m == [kind |-> "reply", id |-> NextTask.id, target |-> NextTask.target]
             n == Len(out) + 1
  <1>1. /\ n \in 1..Len(posted) /\ Len(out) \in Nat /\ NextTask.kind = "reply"
        /\ posted \in Seq(Task) /\ NextTask = posted[n]
        /\ DOMAIN out = 1..Len(out) /\ DOMAIN sent = 1..Len(sent)
        /\ Len(out) < Len(posted) /\ Len(posted) \in Nat
    BY Elements DEF SendReply, IORuns, NextTask, TypeInv, TypeOK, OutputTypes,
                    InputTypes
  <1>2. NextTask.id \in Nat
    <2>1. posted[n] \in Task
      BY <1>1, Elements
    <2> QED BY <1>1, <2>1 DEF Task
  <1>3. out' = Append(out, m) /\ Len(out') = n /\ out'[n] = m /\ sent' = sent
    BY <1>1, <1>2, Written DEF SendReply, WriteMessage
  <1>4. m.kind = "reply" /\ m.id = posted[n].id /\ m.target = posted[n].target
    BY <1>1
  <1>5. /\ m.id \in 1..performed /\ sent[m.id].action \in Contract!Expected
        /\ m.target # 0 => sent[m.id].action = "create"
    BY <1>1, <1>4 DEF LogInv, PostedInv, LogOK, RepliesPerformed
  <1>6. m.id \in DOMAIN sent
    BY <1>1, <1>5 DEF TypeInv, TypeOK, InputTypes
  <1>7. \A i \in 1..Len(out) :
          out[i].kind = "reply" => (m.target # 0 => out[i].target # m.target)
    <2>1. \A i \in 1..Len(out) : i \in 1..Len(posted) /\ i < n
      BY <1>1
    <2>2. \A i \in 1..Len(out) :
            posted[i].kind = "reply" =>
              (posted[n].target # 0 => posted[i].target # posted[n].target)
      BY <1>1, <2>1 DEF LogInv, PostedInv, LogOK, AnnouncedOnce
    <2> HIDE DEF m, n
    <2> QED BY <1>4, <2>2 DEF LogInv, OutInv, OutIsPosted
  <1>8. m.target # 0 => ~Contract!Created(m.target)
    BY <1>1, <1>7 DEF Contract!Created, Contract!IsReply
  <1> HIDE DEF m
  <1>9. ~Contract!Answered(m.id) /\ Contract!InTurn(m.id)
    <2>1. TurnOf(sent, posted, m.id, Len(out))
      BY <1>1, <1>4 DEF LogInv, TurnInv, TurnsOK
    <2>2. \A i \in 1..Len(out) : /\ Contract!IsReply(out[i]) <=> posted[i].kind = "reply"
                                 /\ out[i].target = posted[i].target
                                 /\ posted[i].kind = "reply" => out[i].id = posted[i].id
      BY DEF LogInv, OutInv, OutIsPosted, Contract!IsReply
    <2>3. ~Contract!Answered(m.id)
      BY <1>1, <2>1, <2>2 DEF TurnOf, AnswersTo, Contract!Answered
    <2>4. \A i, j \in DOMAIN out :
            Contract!Overtakes(i, m.id) /\ i < j /\ Contract!IsReply(out[j]) =>
              out[i].id < out[j].id
      BY <1>1, <2>1, <2>2 DEF TurnOf, RisingPast, Contract!Overtakes
    <2>5. (\E i \in DOMAIN out : Contract!Overtakes(i, m.id)) =>
            Contract!MayWait(sent[m.id])
      BY <1>1, <2>1, <2>2
      DEF TurnOf, AnswersPast, AnnouncedMenu, Contract!Overtakes,
          Contract!MayWait, Contract!OfType
    <2> QED BY <2>3, <2>4, <2>5 DEF Contract!InTurn
  <1> QED BY <1>1, <1>3, <1>4, <1>5, <1>6, <1>8, <1>9
          DEF Contract!Answer, Contract!Extends, Contract!IsReply

LEMMA PushStep ==
  ASSUME TypeInv, LogInv, Len(out) < Len(posted), NextTask.kind # "reply",
         NEW id \in Nat, id = LastWritten + 1, WriteMessage(id), sent' = sent
  PROVE  Contract!Push
  <1> DEFINE m == [kind |-> NextTask.kind, id |-> id, target |-> NextTask.target]
             n == Len(out) + 1
  <1>1. /\ n \in 1..Len(posted) /\ n - 1 = Len(out) /\ NextTask = posted[n]
        /\ posted \in Seq(Task) /\ DOMAIN posted = 1..Len(posted)
    BY Elements DEF NextTask, TypeInv, TypeOK, OutputTypes
  <1>2. out' = Append(out, m) /\ Len(out') = n /\ out'[n] = m
    BY <1>1, Written DEF WriteMessage
  <1>3. m.kind # "reply" /\ m.id = id /\ m.target = posted[n].target
    BY <1>1
  <1>4. m.target # 0
    <2>1. posted[n].target \in Targets
      BY <1>1 DEF TypeInv, PushTargets
    <2> QED BY <1>3, <2>1 DEF Targets
  <1> HIDE DEF m, n
  <1>5. /\ Announced(posted, m.target, Len(out))
        /\ ~Acknowledged(sent, posted, m.target, Len(out))
    BY <1>1, <1>3 DEF LogInv, PostedInv, LogOK, PushesInside
  <1>6. Contract!Created(m.target) /\ ~Contract!Deleted(m.target)
    BY <1>5, OutAnnounces DEF LogInv
  <1>7. Contract!FollowsPushes(m.id)
    <2> DEFINE Used == {out[j].id : j \in {k \in DOMAIN out : ~Contract!IsReply(out[k])}}
    <2>1. Used = 1..LastWritten
      BY DEF LogInv, OutInv, PushesNumbered
    <2>2. LastWritten \in Nat
      BY DEF TypeInv, TypeOK, OutputTypes, IOPosition, LastWritten
    <2> HIDE DEF Used
    <2>3. \A i \in Used : i < m.id
      BY <1>3, <2>1, <2>2
    <2>4. m.id = 1 \/ LastWritten \in Used
      BY <1>3, <2>1, <2>2
    <2>5. m.id = 1 \/ \E i \in Used : m.id = i + 1
      BY <1>3, <2>4
    <2> QED BY <2>3, <2>5 DEF Contract!FollowsPushes, Used
  <1> QED BY <1>2, <1>3, <1>4, <1>6, <1>7
          DEF Contract!Push, Contract!Extends, Contract!IsReply

(* Whatever the threads do, the client sees the contract kept.             *)
THEOREM ContractImplemented == Spec => ImplementsContract
  <1>1. Init => Contract!Init
    BY DEF Init, Contract!Init
  <1>2. TypeInv /\ LogInv /\ [Next]_vars => [Contract!Next]_<<sent, out>>
    <2> SUFFICES ASSUME TypeInv, LogInv, [Next]_vars
                 PROVE  Contract!Next \/ UNCHANGED <<sent, out>>
      OBVIOUS
    <2>1. CASE SendEvent
      <3>1. /\ actionId + 1 = LastWritten + 1 /\ actionId + 1 \in Nat
            /\ NextTask.kind # "reply" /\ Len(out) < Len(posted)
        BY <2>1 DEF SendEvent, IORuns, LastWritten, TypeInv, TypeOK, OutputTypes
      <3> QED BY <2>1, <3>1, PushStep DEF SendEvent, Contract!Next
    <2>2. CASE SendInvokeWrites
      <3>1. /\ actionId = LastWritten + 1 /\ actionId \in Nat
            /\ NextTask.kind # "reply" /\ Len(out) < Len(posted)
        BY <2>2 DEF SendInvokeWrites, IORuns, LastWritten, TypeInv, TypeOK,
                    OutputTypes
      <3> QED BY <2>2, <3>1, PushStep DEF SendInvokeWrites, Contract!Next
    <2>3. \/ UNCHANGED <<sent, out>>
          \/ ClientAction \/ SendReply \/ SendEvent \/ SendInvokeWrites
      BY DEF Next, vars, ioVars, ProcessChunk, UIThread, PerformCreate, Create,
             PerformCall, CallMethod, PerformPopup, PopupReturns, PerformDelete, Delete, Perform, RunCallback, IgnoreReply,
             PerformReply, EmitEvent, InvokeRemoteMethod, Push, IOThread,
             SendInvokeInserts, SendInvokeReturns, Quit, DeleteNonSessions,
             DeleteSessions
    <2> QED BY <2>1, <2>2, <2>3, ClientWritesStep, SendReplyStep DEF Contract!Next
  <1>3. Init => LogInv
    BY InitLogInv
  <1>4. TypeInv /\ LogInv /\ [Next]_vars => LogInv'
    BY NextPosted, NextTypes, NextTurns, NextOut DEF LogInv
  <1> QED
    BY <1>1, <1>2, <1>3, <1>4, TypeInvariant, PTL
    DEF Spec, ImplementsContract, Contract!Spec
=============================================================================
