----------------------------- MODULE APIServer -----------------------------
(***************************************************************************)
(* src/api/api.cc, api_binding.cc and api_server.cc: the registry of       *)
(* binding objects and the server that exposes it to the client program.   *)
(*                                                                         *)
(* Four actors share the state:                                            *)
(*   - the client writes actions to the shell's standard input;            *)
(*   - the handler thread cuts the input into actions and posts one        *)
(*     PerformAction task per action to the UI thread;                     *)
(*   - the UI thread performs them and runs the binding objects, which     *)
(*     emit events and invoke methods of the client;                       *)
(*   - the IO thread writes every message to standard output, from tasks   *)
(*     the UI thread posted.                                               *)
(*                                                                         *)
(* Both task queues are kept as a log and the number of tasks already run: *)
(* the UI queue is sent[performed + 1 .. parsed], the IO queue is          *)
(* posted[Len(out) + 1 .. Len(posted)].                                    *)
(*                                                                         *)
(* One task of the UI thread does not run to its end at once: the call     *)
(* that pops up a menu runs a message loop of its own until the menu is    *)
(* closed, and the UI thread performs the next actions in there.           *)
(***************************************************************************)
EXTENDS Naturals, Sequences, FiniteSets

CONSTANTS
  Types,          \* the types a binding factory is installed for
  UnknownType,    \* stands for every other type name
  SessionType,    \* "session": its objects invoke methods of the client
  WindowType,     \* "window"
  MenuType,       \* "menu": its objects pop up over a window
  MaxSent,        \* bound on the actions the client writes
  MaxPushes,      \* bound on the events and invocations posted
  MaxTraffic      \* bound on both together

ASSUME TypesAssumption ==
  /\ SessionType \in Types /\ UnknownType \notin Types
  /\ SessionType # WindowType /\ SessionType # MenuType
ASSUME BoundsAssumption ==
  MaxSent \in Nat /\ MaxPushes \in Nat /\ MaxTraffic \in Nat

VARIABLES
  sent,           \* log of the actions written by the client
  parsed,         \* how many of them the handler thread has posted
  performed,      \* how many of them the UI thread has begun to perform
  popup,          \* the call whose menu is open, or 0
  objects,        \* every binding object created; its position is its target
  bindings,       \* API::bindings_: the registered targets
  apiRemotes,     \* API::remotes_: targets with a raw Remote pointer
  clientRemotes,  \* Client::remotes_: targets whose Remote is owned
  destroyed,      \* binding objects destroyed: target and thread
  posted,         \* log of the tasks posted to the IO thread
  ioPhase,        \* where the IO thread is inside Client::SendInvoke
  actionId,       \* Client::action_id_
  invokes,        \* Client::invokes_: id and the object its callback holds
  ran,            \* the invocations whose callback was run, oldest first
  out,            \* log of the messages on standard output
  client          \* life of the Client object

uiVars     == <<objects, bindings, apiRemotes, clientRemotes>>
ioVars     == <<ioPhase, actionId, out>>
vars == <<sent, parsed, performed, popup, objects, bindings, apiRemotes,
          clientRemotes, destroyed, posted, ioPhase, actionId, invokes, ran,
          out, client>>

Contract == INSTANCE APIContract

Targets == 1..Len(objects)

Task == [kind : {"reply", "event", "invoke"}, id : Nat, target : Nat]

Reply(id, target) == [kind |-> "reply", id |-> id, target |-> target]
Event(target)     == [kind |-> "event", id |-> 0, target |-> target]
Invoke(target)    == [kind |-> "invoke", id |-> 0, target |-> target]

Init ==
  /\ sent = <<>> /\ parsed = 0 /\ performed = 0 /\ popup = 0
  /\ objects = <<>> /\ bindings = {} /\ apiRemotes = {} /\ clientRemotes = {}
  /\ destroyed = {}
  /\ posted = <<>> /\ ioPhase = "idle" /\ actionId = 0
  /\ invokes = {} /\ ran = <<>> /\ out = <<>>
  /\ client = "running"

-----------------------------------------------------------------------------
(***************************************************************************)
(* References.  A binding object lives as long as bindings_ or a callback  *)
(* bound to it holds a scoped_refptr: a callback is held by an unrun       *)
(* SendInvoke task, by the task the IO thread is running, or by invokes_.  *)
(* Whichever thread drops the last reference runs the destructor.          *)
(***************************************************************************)
IsDestroyed(t) == \E d \in destroyed : d.target = t

TaskHolds(t) ==
  \E i \in DOMAIN posted :
    /\ posted[i].kind = "invoke" /\ posted[i].target = t
    /\ i > Len(out) \/ (ioPhase = "written" /\ i = Len(out))

Pinned(t) == TaskHolds(t) \/ \E inv \in invokes : inv.target = t

\* Slip: callbacks do not keep their binding object alive.
Release_CallbacksHoldNothing(T, thread) ==
  destroyed' = destroyed \union
    {[target |-> t, thread |-> thread] :
       t \in {u \in T : ~IsDestroyed(u) /\ u \notin bindings'}}

Release(T, thread) ==
  destroyed' = destroyed \union
    {[target |-> t, thread |-> thread] :
       t \in {u \in T : ~IsDestroyed(u) /\ u \notin bindings' /\ ~Pinned(u)'}}

\* Slip: the pointer of a deleted binding's remote is used all the same.
HasRemote_Stale(t) == t # 0

(* API::GetRemote: the remote a binding's events and invocations go to. *)
HasRemote(t) == t \in bindings /\ t \in apiRemotes

-----------------------------------------------------------------------------
(***************************************************************************)
(* The client and the handler thread.                                      *)
(***************************************************************************)
Pushes == {i \in DOMAIN posted : posted[i].kind # "reply"}

Room == Len(sent) + Cardinality(Pushes) < MaxTraffic

ClientWrites(a) ==
  /\ Len(sent) < MaxSent /\ Room
  /\ Contract!WellFormed(a)
  /\ sent' = Append(sent, a)
  /\ UNCHANGED <<parsed, performed, popup, uiVars, destroyed, posted, ioVars,
                 invokes, ran, client>>

Known == {t \in Targets : Contract!Created(t)}

ClientAction ==
  \/ \E ty \in Types \union {UnknownType}, s \in Known \union {0} :
       /\ s # 0 => objects[s].type = SessionType /\ ty = WindowType
       /\ ClientWrites([action |-> "create", type |-> ty, target |-> s])
  \/ \E kind \in {"call", "delete"}, t \in Known :
       ClientWrites([action |-> kind, type |-> Contract!NoType, target |-> t])
  \/ \E m \in {out[j] : j \in DOMAIN out} :
       /\ m.kind = "invoke"
       /\ ClientWrites([action |-> "reply", type |-> Contract!NoType,
                        target |-> m.id])

(* Client::ProcessChunk posts one task per complete action. *)
ProcessChunk ==
  /\ client = "running"
  /\ parsed < Len(sent)
  /\ parsed' = parsed + 1
  /\ UNCHANGED <<sent, performed, popup, uiVars, destroyed, posted, ioVars, invokes,
                 ran, client>>

-----------------------------------------------------------------------------
(***************************************************************************)
(* The UI thread: Client::PerformAction, one action per branch.            *)
(***************************************************************************)
Post(tasks) == posted' = posted \o tasks

MayPush == Cardinality(Pushes) < MaxPushes /\ Room

Perform(kind) ==
  /\ client = "running"
  /\ performed < parsed
  /\ sent[performed + 1].action = kind
  /\ performed' = performed + 1
  /\ UNCHANGED <<sent, parsed, ioVars, client>>

(***************************************************************************)
(* API::Create and API::SetRemote.  The factory runs before the binding is *)
(* registered, so nothing the constructor emits has a remote to go to.  A  *)
(* window falls back on the default session (0) when the one it names is   *)
(* not registered.                                                         *)
(***************************************************************************)
Create(a, t) ==
  /\ objects' = Append(objects,
        [type    |-> a.type,
         session |-> IF a.target \in bindings THEN a.target ELSE 0])
  /\ bindings' = bindings \union {t}
  /\ apiRemotes' = apiRemotes \union {t}

(* The Remote is allocated even for target 0, the answer to an unknown     *)
(* type.                                                                   *)
PerformCreate ==
  LET id == performed + 1
      a  == sent[id]
      t  == IF a.type \in Types THEN Len(objects) + 1 ELSE 0
  IN  /\ Perform("create")
      /\ IF t = 0 THEN UNCHANGED <<objects, bindings, apiRemotes>>
         ELSE Create(a, t)
      /\ clientRemotes' = clientRemotes \union {t}
      /\ Post(<<Reply(id, t)>>)
      /\ UNCHANGED <<popup, destroyed, invokes, ran>>

(***************************************************************************)
(* API::CallMethod.  CallLocalMethod runs its callback before it returns,  *)
(* and may emit an event first; a call on an object that is no longer      *)
(* registered drops the callback.                                          *)
(***************************************************************************)
CallMethod(id, t) ==
  IF t \in bindings
    THEN \/ Post(<<Reply(id, 0)>>)
         \/ MayPush /\ HasRemote(t) /\ Post(<<Event(t), Reply(id, 0)>>)
    ELSE UNCHANGED posted

PerformCall ==
  LET id == performed + 1
      t  == sent[id].target
  IN  /\ Perform("call")
      /\ CallMethod(id, t)
      /\ UNCHANGED <<popup, uiVars, destroyed, invokes, ran>>

(***************************************************************************)
(* The method "popup" of a menu, where the toolkit is Views: RunMenuAt     *)
(* returns when the menu is closed, and the callback is run after it.  A   *)
(* popup while another menu is open cancels that one and returns at once,  *)
(* and so does one on the Mac before any other task runs: both are the     *)
(* calls above.                                                            *)
(***************************************************************************)
OfType(ty) == {t \in bindings : objects[t].type = ty}

PerformPopup ==
  LET id == performed + 1
  IN  /\ Perform("call")
      /\ sent[id].target \in OfType(MenuType)
      /\ OfType(WindowType) # {}
      /\ popup = 0 /\ popup' = id
      /\ UNCHANGED <<posted, uiVars, destroyed, invokes, ran>>

(***************************************************************************)
(* The menu is closed, by the user, a second popup or the window.  Nothing *)
(* held the binding: if it was deleted meanwhile its menu is gone, and     *)
(* what happens then is undefined.                                         *)
(***************************************************************************)
PopupReturns ==
  /\ client = "running"
  /\ popup # 0
  /\ popup' = 0
  /\ \/ Post(<<Reply(popup, 0)>>) /\ UNCHANGED client
     \/ /\ sent[popup].target \notin bindings
        /\ client' = "crashed" /\ UNCHANGED posted
  /\ UNCHANGED <<sent, parsed, performed, uiVars, destroyed, ioVars, invokes, ran>>

\* Slip: API::Delete leaves the raw pointer in remotes_.
PerformDelete_KeepsRemote ==
  LET id == performed + 1
      t  == sent[id].target
  IN  /\ Perform("delete")
      /\ bindings' = bindings \ {t}
      /\ clientRemotes' = clientRemotes \ {t}
      /\ Post(<<Reply(id, 0)>>)
      /\ UNCHANGED <<popup, objects, apiRemotes, invokes, ran>>
      /\ Release(bindings \intersect {t}, "UI")

\* Slip: a delete of an object that is no longer registered returns early.
PerformDelete_SkipsUnknown ==
  LET id == performed + 1
      t  == sent[id].target
  IN  /\ Perform("delete")
      /\ bindings' = bindings \ {t}
      /\ apiRemotes' = apiRemotes \ {t}
      /\ clientRemotes' = clientRemotes \ {t}
      /\ Post(IF t \in bindings THEN <<Reply(id, 0)>> ELSE <<>>)
      /\ UNCHANGED <<popup, objects, invokes, ran>>
      /\ Release(bindings \intersect {t}, "UI")

(***************************************************************************)
(* API::Delete.  The binding leaves bindings_ before its destructor runs,  *)
(* so what the destructor emits has no remote either.                      *)
(***************************************************************************)
Delete(t) ==
  /\ bindings' = bindings \ {t}
  /\ apiRemotes' = IF t \in bindings THEN apiRemotes \ {t} ELSE apiRemotes

PerformDelete ==
  LET id == performed + 1
      t  == sent[id].target
  IN  /\ Perform("delete")
      /\ Delete(t)
      /\ clientRemotes' = clientRemotes \ {t}
      /\ Post(<<Reply(id, 0)>>)
      /\ UNCHANGED <<popup, objects, invokes, ran>>
      /\ Release(bindings \intersect {t}, "UI")

(***************************************************************************)
(* The "reply" branch.  invokes_ is read and erased here while the IO      *)
(* thread may be inserting into it, with no lock: find may then miss the   *)
(* entry, and the erasure may lose the insertion under way (ioPhase        *)
(* becomes "lost").                                                        *)
(***************************************************************************)
PerformReply(id) ==
  /\ client = "running"
  /\ performed < parsed
  /\ sent[performed + 1].action = "reply"
  /\ sent[performed + 1].target = id
  /\ performed' = performed + 1
  /\ UNCHANGED <<sent, parsed, popup, uiVars, posted, actionId, out, client>>

Entry(id) == {inv \in invokes : inv.id = id}

\* Slip: the callback is run and stays in invokes_.
RunCallback_NoErase ==
  \E id \in 1..actionId :
    /\ PerformReply(id)
    /\ Entry(id) # {}
    /\ ran' = Append(ran, id)
    /\ UNCHANGED <<invokes, ioPhase, destroyed>>

RunCallback ==
  \E id \in 1..actionId :
    /\ PerformReply(id)
    /\ Entry(id) # {}
    /\ invokes' = invokes \ Entry(id)
    /\ ran' = Append(ran, id)
    /\ \/ UNCHANGED ioPhase
       \/ ioPhase = "inserting" /\ ioPhase' = "lost"
    /\ Release({inv.target : inv \in Entry(id)}, "UI")

IgnoreReply ==
  \E id \in 1..actionId :
    /\ PerformReply(id)
    /\ Entry(id) = {} \/ ioPhase = "inserting"
    /\ UNCHANGED <<invokes, ran, ioPhase, destroyed>>

(***************************************************************************)
(* What the binding objects do of their own accord on the UI thread, for a *)
(* user's gesture or a message of another process.  A binding without a    *)
(* remote drops the event, or the invocation and its callback, which       *)
(* changes nothing here.                                                   *)
(***************************************************************************)
Push(task) ==
  /\ client = "running"
  /\ MayPush
  /\ HasRemote(task.target)
  /\ Post(<<task>>)
  /\ UNCHANGED <<sent, parsed, performed, popup, uiVars, destroyed, ioVars, invokes,
                 ran, client>>

AliveObjects == {t \in Targets : ~IsDestroyed(t)}

EmitEvent == \E t \in AliveObjects : Push(Event(t))

InvokeRemoteMethod ==
  \E t \in AliveObjects : objects[t].type = SessionType /\ Push(Invoke(t))

-----------------------------------------------------------------------------
(***************************************************************************)
(* The IO thread.                                                          *)
(***************************************************************************)
NextTask == posted[Len(out) + 1]

IORuns(kind) ==
  /\ client \in {"running", "stopping"}
  /\ Len(out) < Len(posted)
  /\ NextTask.kind = kind

WriteMessage(id) ==
  out' = Append(out, [kind |-> NextTask.kind, id |-> id,
                      target |-> NextTask.target])

SendReply ==
  /\ ioPhase = "idle"
  /\ IORuns("reply")
  /\ WriteMessage(NextTask.id)
  /\ UNCHANGED <<sent, parsed, performed, popup, uiVars, destroyed, posted, ioPhase,
                 actionId, invokes, ran, client>>

SendEvent ==
  /\ ioPhase = "idle"
  /\ IORuns("event")
  /\ actionId' = actionId + 1
  /\ WriteMessage(actionId + 1)
  /\ UNCHANGED <<sent, parsed, performed, popup, uiVars, destroyed, posted, ioPhase,
                 invokes, ran, client>>

(***************************************************************************)
(* Client::SendInvoke takes an identifier and starts to insert the         *)
(* callback; then writes the message; then returns, and the task gives up  *)
(* its own copy of the callback.  The client can have answered by then.    *)
(***************************************************************************)
SendInvokeInserts ==
  /\ ioPhase = "idle"
  /\ IORuns("invoke")
  /\ actionId' = actionId + 1
  /\ ioPhase' = "inserting"
  /\ UNCHANGED <<sent, parsed, performed, popup, uiVars, destroyed, posted, out,
                 invokes, ran, client>>

SendInvokeWrites ==
  /\ ioPhase \in {"inserting", "lost"}
  /\ IORuns("invoke")
  /\ WriteMessage(actionId)
  /\ invokes' = IF ioPhase = "lost" THEN invokes
                ELSE invokes \union {[id |-> actionId,
                                      target |-> NextTask.target]}
  /\ ioPhase' = "written"
  /\ UNCHANGED <<sent, parsed, performed, popup, uiVars, destroyed, posted, actionId,
                 ran, client>>

SendInvokeReturns ==
  /\ ioPhase = "written"
  /\ ioPhase' = "idle"
  /\ UNCHANGED <<sent, parsed, performed, popup, uiVars, posted, actionId, out,
                 invokes, ran, client>>
  /\ Release({posted[Len(out)].target}, "IO")

-----------------------------------------------------------------------------
(***************************************************************************)
(* The end of the process.  The UI loop quits first and runs no more task, *)
(* which it cannot while a call inside it runs a loop of its own;          *)
(* the IO thread runs what it was posted and is joined; then the Client is *)
(* destroyed, in two passes over remotes_.  The first one calls a method   *)
(* of the binding of each remote, and there is none for target 0.          *)
(***************************************************************************)
Quit ==
  /\ client = "running" /\ popup = 0
  /\ client' = "stopping"
  /\ UNCHANGED <<sent, parsed, performed, popup, uiVars, destroyed, posted, ioVars,
                 invokes, ran>>

IODrained == ioPhase = "idle" /\ Len(out) = Len(posted)

\* Slip: the first pass takes the sessions.
IsSession_Inverted(t) == objects[t].type # SessionType

IsSession(t) == objects[t].type = SessionType

DeleteNonSessions ==
  /\ client = "stopping" /\ IODrained
  /\ UNCHANGED <<sent, parsed, performed, popup, objects, posted, ioVars, invokes,
                 ran>>
  /\ IF clientRemotes \subseteq bindings
       THEN /\ bindings' = {t \in bindings :
                              t \notin clientRemotes \/ IsSession(t)}
            /\ apiRemotes' = {t \in apiRemotes :
                                t \notin clientRemotes \/ IsSession(t)}
            /\ clientRemotes' = {t \in clientRemotes : IsSession(t)}
            /\ Release(clientRemotes, "UI")
            /\ client' = "sessions"
       ELSE /\ client' = "crashed"
            /\ UNCHANGED <<bindings, apiRemotes, clientRemotes, destroyed>>

(* The second pass; then the members of Client go, invokes_ among them. *)
DeleteSessions ==
  /\ client = "sessions"
  /\ bindings' = bindings \ clientRemotes
  /\ apiRemotes' = apiRemotes \ clientRemotes
  /\ clientRemotes' = {}
  /\ invokes' = {}
  /\ client' = "destroyed"
  /\ UNCHANGED <<sent, parsed, performed, popup, objects, posted, ioVars, ran>>
  /\ Release((clientRemotes \intersect bindings)
                \union {inv.target : inv \in invokes}, "UI")

-----------------------------------------------------------------------------
UIThread == \/ PerformCreate \/ PerformCall \/ PerformPopup \/ PerformDelete
            \/ RunCallback \/ IgnoreReply

IOThread == \/ SendReply \/ SendEvent
            \/ SendInvokeInserts \/ SendInvokeWrites \/ SendInvokeReturns

Next ==
  \/ ClientAction \/ ProcessChunk
  \/ UIThread \/ PopupReturns \/ EmitEvent \/ InvokeRemoteMethod
  \/ IOThread
  \/ Quit \/ DeleteNonSessions \/ DeleteSessions

Spec == Init /\ [][Next]_vars

(***************************************************************************)
(* Each thread runs the tasks of its loop one after the other as long as   *)
(* there are any; nothing makes the client write, the process quit or the  *)
(* user close a menu.                                                      *)
(***************************************************************************)
Fairness == /\ WF_vars(ProcessChunk)
            /\ WF_vars(UIThread)
            /\ WF_vars(IOThread)

FairSpec == Spec /\ Fairness
-----------------------------------------------------------------------------
(***************************************************************************)
(* Properties.                                                             *)
(***************************************************************************)

(* The variables hold values of the types api.h and api_server.h declare,  *)
(* and each queue has run no more tasks than it was given.                 *)
InputTypes ==
  /\ sent \in Seq(Contract!Action)
  /\ parsed \in 0..Len(sent)
  /\ performed \in 0..parsed
  /\ popup \in 0..performed

RegistryTypes ==
  /\ objects \in Seq([type : Types, session : Nat])
  /\ bindings \subseteq Targets
  /\ apiRemotes \subseteq Targets
  /\ clientRemotes \subseteq Targets \union {0}
  /\ destroyed \subseteq [target : Targets, thread : {"UI", "IO"}]

OutputTypes ==
  /\ posted \in Seq(Task)
  /\ out \in Seq(Contract!Message)
  /\ Len(out) <= Len(posted)
  /\ ioPhase \in {"idle", "inserting", "lost", "written"}
  /\ actionId \in Nat

CallbackTypes ==
  /\ invokes \subseteq [id : 1..actionId, target : Targets]
  /\ ran \in Seq(1..actionId)

TypeOK ==
  /\ InputTypes /\ RegistryTypes /\ OutputTypes /\ CallbackTypes
  /\ client \in {"running", "stopping", "sessions", "destroyed", "crashed"}

(* API::remotes_ holds raw pointers to Remote objects that the Client      *)
(* owns: whatever was created, deleted or torn down, each of them is still *)
(* owned, and exactly the registered bindings have one ("The Remote is not *)
(* owned by the API and should be nullified on deletion").                 *)
RemotesOwned == apiRemotes \subseteq clientRemotes /\ apiRemotes = bindings

(* The messages on standard output honour the contract with the client:    *)
(* answers in order (but for the one that waits for its menu to close), no *)
(* event about a target before the answer that announces it or after the   *)
(* one that acknowledges its deletion, fresh identifiers, although actions *)
(* and messages cross three threads and the UI thread may be inside a call *)
(* that runs a loop of its own.                                            *)
ImplementsContract == Contract!Spec

(* The callback of an invocation runs at most once, whatever the client    *)
(* answers and however often, and never again once erased from invokes_.   *)
CallbackRunsOnce ==
  /\ \A i, j \in DOMAIN ran : ran[i] = ran[j] => i = j
  /\ \A inv \in invokes : \A i \in DOMAIN ran : ran[i] # inv.id

(* A binding object is destroyed exactly when nothing refers to it any     *)
(* more: never under a callback still to be run by the UI thread or still  *)
(* carried by the IO thread, and without leaving an object behind.         *)
AliveIffHeld ==
  client # "crashed" =>
    \A t \in Targets : IsDestroyed(t) <=> t \notin bindings /\ ~Pinned(t)

(* A window is destroyed on the UI thread, where it lives: of the objects  *)
(* whose last reference the IO thread may drop, all are sessions.          *)
OnlySessionsDieOnIO ==
  \A d \in destroyed :
    d.thread = "IO" => objects[d.target].type = SessionType

(* The destructor of Client destroys no session a living window uses.      *)
SessionsLast ==
  [][client # "running" /\ client' # client =>
       \A t \in Targets : (~IsDestroyed(t) /\ IsDestroyed(t)') =>
         \A w \in Targets :
           objects[w].session = t => IsDestroyed(w)']_vars

(* Every create and every delete the client wrote is answered on standard  *)
(* output, unless the process quits first.                                 *)
CreatesAndDeletesAnswered ==
  \A i \in 1..MaxSent :
    (i <= Len(sent) /\ sent[i].action \in {"create", "delete"})
      ~> (Contract!Answered(i) \/ client # "running")

-----------------------------------------------------------------------------
(***************************************************************************)
(* What comments of the source say and the code does not do.               *)
(***************************************************************************)

(* "The result of the call is returnd asynchronously to the callback"      *)
(* (api.h:62): so every call the client wrote is answered, or its menu is  *)
(* open.                                                                   *)
CallsAnswered ==
  \A i \in 1..MaxSent :
    (i <= Len(sent) /\ sent[i].action = "call")
      ~> (Contract!Answered(i) \/ popup = i \/ client # "running")
=============================================================================
