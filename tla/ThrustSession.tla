--------------------------- MODULE ThrustSession ---------------------------
(***************************************************************************)
(* src/browser/session/thrust_session.cc and thrust_session_cookie_store.  *)
(* cc, src/api/thrust_session_binding.cc: the life of a session and the    *)
(* cookie store that lives with the client.                                *)
(*                                                                         *)
(* The network stack asks for cookies and reports changes on the IO        *)
(* thread; the store posts to the UI thread, whose binding invokes remote  *)
(* methods or emits events, which the IO thread writes to the client, in   *)
(* the order posted.  The binding is reference counted: the registry, a    *)
(* task bound to it and a callback waiting for an answer each hold it.     *)
(* Whoever lets go last runs ~ThrustSession.                               *)
(*                                                                         *)
(* SessionServices adds the request context, the proxy and the downloads.  *)
(***************************************************************************)
EXTENDS Naturals, Sequences, FiniteSets

CONSTANTS
  MaxRequests,    \* bound on what the network stack asks of the store,
  MaxWrites       \*   and on the changes it reports

ASSUME SessionAssumption == MaxRequests \in Nat /\ MaxWrites \in Nat

VARIABLES
  type,           \* "client" (cookie_store), "dummy", or the "system" session
  session,        \* "alive", "dying" (the UI thread has begun to destroy it
                  \*   and cookie_store_->parent_ is still set), or "gone"
  registered,     \* the registry has the binding, with its Remote
  opCount,        \* op_count_
  toUI,           \* the tasks of the UI thread
  toIO,           \* the tasks of the IO thread
  returning,      \* the IO thread is at the end of a SendInvoke, whose
                  \*   callback it has stored and still holds
  invokes,        \* Client::invokes_, by request
  request,        \* what was asked and came of it, by request
  written,        \* what the client was sent and has not read
  seen,           \* the changes the client has applied
  asked,          \* the requests the client has read and not answered
  resource,       \* resource_context_ exists
  getter,         \* how the getter is held: "session", "released", "others",
                  \*   or "gone"
  crashed         \* "no", or the error that ended the process

queues == <<toUI, toIO, returning>>
clientVars == <<written, seen, asked>>
cookieVars == <<opCount, queues, invokes, request, clientVars>>
lifeVars == <<type, session, registered, resource, getter>>
sessionVars == <<cookieVars, lifeVars, crashed>>

Requests == 1..MaxRequests

Kinds == {"load", "flush"}
Changes == {"add", "update_access_time", "delete"}

Unused == [kind |-> "none", before |-> 0, ran |-> 0, answer |-> 0, ok |-> TRUE]

(* ThrustSessionBinding, with or without "cookie_store", or browser_main_   *)
(* parts, which passes no binding.                                         *)
Types == {"client", "dummy", "system"}

SessionInit ==
  /\ type \in Types
  /\ session = "alive" /\ registered = (type # "system")
  /\ opCount = 0 /\ toUI = <<>> /\ toIO = <<>> /\ returning = FALSE
  /\ invokes = {} /\ request = [r \in Requests |-> Unused]
  /\ written = <<>> /\ seen = <<>> /\ asked = {}
  /\ resource = TRUE /\ getter = "session" /\ crashed = "no"

(* A task, of either queue, and a message: about request r or change n;    *)
(* answer and ok are those of a reply.                                     *)
Task(kind, r, n, answer, ok) ==
  [kind |-> kind, request |-> r, change |-> n, answer |-> answer, ok |-> ok]

Method(r) == Task("method", {r}, 0, 0, TRUE)
Emit(n) == Task("emit", {}, n, 0, TRUE)
Reply(r, answer, ok) == Task("reply", {r}, 0, answer, ok)
Callback(r, answer) == Task("callback", {r}, 0, answer, TRUE)
Destroyed(what) == Task(what, {}, 0, 0, TRUE)

Of(task) == CHOOSE r \in task.request : TRUE
-----------------------------------------------------------------------------
(***************************************************************************)
(* ThrustSessionCookieStore, on the IO thread.  The test of parent_ and    *)
(* the use of parent_->binding_ are one step: what the destructor does     *)
(* between them is no worse than what it does before "dying" ends.         *)
(***************************************************************************)
Bound == session # "gone" /\ type # "system"

PostToBinding(task) ==
  IF ~Bound THEN UNCHANGED <<toUI, crashed>>
  ELSE IF session = "dying" THEN crashed' = "binding" /\ UNCHANGED toUI
  ELSE toUI' = Append(toUI, task) /\ UNCHANGED crashed

(* Load and LoadCookiesForKey, which differ in what is loaded, and Flush;  *)
(* a request is named by its place among them.                             *)
Ask(r) ==
  /\ crashed = "no" /\ ~returning
  /\ request[r].kind = "none"
  /\ \A q \in 1..r - 1 : request[q].kind # "none"
  /\ \E kind \in Kinds :
       request' = [request EXCEPT ![r].kind = kind, ![r].before = opCount]
  /\ IF type # "client"
     THEN toIO' = Append(toIO, Callback(r, 0)) /\ UNCHANGED <<toUI, crashed>>
     ELSE PostToBinding(Method(r)) /\ UNCHANGED toIO
  /\ UNCHANGED <<opCount, returning, invokes, clientVars, lifeVars>>

(* AddCookie, UpdateCookieAccessTime, DeleteCookie: a dummy store reports  *)
(* them all the same.  Which of the three is told from the event's name.   *)
Change(kind) ==
  /\ crashed = "no" /\ ~returning /\ opCount < MaxWrites
  /\ kind \in Changes
  /\ opCount' = IF Bound THEN opCount + 1 ELSE opCount
  /\ PostToBinding(Emit(opCount))
  /\ UNCHANGED <<toIO, returning, invokes, request, clientVars, lifeVars>>
-----------------------------------------------------------------------------
(***************************************************************************)
(* The UI thread: ThrustSessionBinding, and the actions of the client      *)
(* (APIServer).                                                            *)
(***************************************************************************)
HoldsBinding(task) == task.kind \in {"method", "emit", "invoke"}

Holders ==
  {i \in DOMAIN toUI : HoldsBinding(toUI[i])} \union
  {i \in DOMAIN toIO : HoldsBinding(toIO[i])} \union invokes

Held == registered \/ Holders # {} \/ returning

(* The last reference is gone: the UI thread begins to destroy it. *)
LetGo ==
  session' = IF session = "alive" /\ type # "system" /\ ~Held' THEN "dying"
             ELSE session

(* InvokeRemoteMethod and EmitEvent do nothing without a Remote.           *)
SendToRemote(task) == IF registered THEN Append(toIO, task) ELSE toIO

(* CookiesLoad, CookiesLoadForKey, CookiesFlush. *)
InvokeStore_Ahead(task) ==
  IF registered THEN <<Task("invoke", task.request, 0, 0, TRUE)>> \o toIO
  ELSE toIO

InvokeStore(task) == SendToRemote(Task("invoke", task.request, 0, 0, TRUE))

(* CookiesAdd, CookiesUpdateAccessTime, CookiesDelete. *)
EmitChange(task) == SendToRemote(Task("event", {}, task.change, 0, TRUE))

(* CookiesLoadCallback takes what cookies it finds, error or not;          *)
(* CookiesFlushCallback runs the callback unless there is an error.        *)
RunsCallback_NoErrors(r, ok) == ok

RunsCallback(r, ok) == ok \/ request[r].kind # "flush"

RunCallback(task) ==
  LET r == Of(task)
  IN  IF r \in invokes /\ RunsCallback(r, task.ok)
      THEN Append(toIO, Callback(r, task.answer)) ELSE toIO

UIThread ==
  /\ crashed = "no" /\ session # "dying" /\ toUI # <<>>
  /\ LET task == Head(toUI)
     IN  /\ toIO' = CASE task.kind = "method" -> InvokeStore(task)
                      [] task.kind = "emit"   -> EmitChange(task)
                      [] task.kind = "reply"  -> RunCallback(task)
                      [] task.kind = "delete" -> toIO
         /\ invokes' = IF task.kind = "reply" THEN invokes \ task.request
                       ELSE invokes
         /\ request' = IF task.kind = "reply"
                       THEN [request EXCEPT ![Of(task)].ok = task.ok]
                       ELSE request
         /\ registered' = (registered /\ task.kind # "delete")
  /\ toUI' = Tail(toUI)
  /\ UNCHANGED <<opCount, returning, clientVars, type, resource, getter, crashed>>
  /\ LetGo

(* ~ThrustSession on the UI thread: the resource context and then, unless  *)
(* others hold it, the getter are deleted by tasks of the IO thread.       *)
DestroySession ==
  /\ crashed = "no" /\ session = "dying" /\ session' = "gone"
  /\ \E others \in BOOLEAN :
       /\ getter' = IF others THEN "others" ELSE "released"
       /\ toIO' = IF others THEN Append(toIO, Destroyed("~resource"))
                  ELSE toIO \o <<Destroyed("~resource"), Destroyed("~getter")>>
  /\ UNCHANGED <<opCount, toUI, returning, invokes, request, clientVars, type,
                 registered, resource, crashed>>
-----------------------------------------------------------------------------
(***************************************************************************)
(* The IO thread: APIServer writes to the client, callbacks run.           *)
(***************************************************************************)
NextTask(kinds) ==
  /\ crashed = "no" /\ ~returning
  /\ toIO # <<>> /\ Head(toIO).kind \in kinds
  /\ toIO' = Tail(toIO)

Writes ==
  /\ NextTask({"invoke", "event"})
  /\ written' = Append(written, Head(toIO))
  /\ invokes' = invokes \union Head(toIO).request
  /\ returning' = (Head(toIO).kind = "invoke")
  /\ UNCHANGED <<opCount, toUI, request, seen, asked, lifeVars, crashed>>

(* SendInvoke lets go of its copy of the callback.  Should the answer have *)
(* been handled meanwhile, and the session been deleted, this is the last  *)
(* reference: ~ThrustSession runs on the IO thread, where the getter is    *)
(* destroyed at once and the resource context still by a task.             *)
SendInvokeReturns ==
  /\ crashed = "no" /\ returning /\ returning' = FALSE
  /\ IF registered \/ Holders # {} \/ session # "alive"
     THEN UNCHANGED <<session, getter, toIO>>
     ELSE /\ session' = "gone"
          /\ getter' \in {"others", "gone"}
          /\ toIO' = Append(toIO, Destroyed("~resource"))
  /\ UNCHANGED <<opCount, toUI, invokes, request, clientVars, type,
                 registered, resource, crashed>>

RunsOnIO ==
  /\ NextTask({"callback"})
  /\ LET task == Head(toIO)
         r == Of(task)
     IN  request' = [request EXCEPT ![r].ran = @ + 1, ![r].answer = task.answer]
  /\ UNCHANGED <<opCount, toUI, returning, invokes, clientVars, lifeVars, crashed>>

DeleteResourceContext ==
  /\ NextTask({"~resource"})
  /\ resource' = FALSE
  /\ UNCHANGED <<opCount, toUI, returning, invokes, request, clientVars, type,
                 session, registered, getter, crashed>>
-----------------------------------------------------------------------------
(* The client program: it reads, keeps the cookies, answers in any order,  *)
(* with or without an error, and deletes the session once.                 *)
ClientReads ==
  /\ crashed = "no" /\ written # <<>> /\ written' = Tail(written)
  /\ LET message == Head(written)
     IN  IF message.kind = "event"
         THEN seen' = Append(seen, message.change) /\ UNCHANGED asked
         ELSE asked' = asked \union message.request /\ UNCHANGED seen
  /\ UNCHANGED <<opCount, queues, invokes, request, lifeVars, crashed>>

ClientAnswers(r) ==
  /\ crashed = "no" /\ r \in asked /\ asked' = asked \ {r}
  /\ \E ok \in BOOLEAN :
       toUI' = Append(toUI, Reply(r, IF ok THEN Len(seen) ELSE 0, ok))
  /\ UNCHANGED <<opCount, toIO, returning, invokes, request, written, seen,
                 lifeVars, crashed>>

ClientDeletes ==
  /\ crashed = "no" /\ registered
  /\ \A i \in DOMAIN toUI : toUI[i].kind # "delete"
  /\ toUI' = Append(toUI, Task("delete", {}, 0, 0, TRUE))
  /\ UNCHANGED <<opCount, toIO, returning, invokes, request, clientVars,
                 lifeVars, crashed>>

CookieNext ==
  \/ \E r \in Requests : Ask(r) \/ ClientAnswers(r)
  \/ \E kind \in Changes : Change(kind)
  \/ ClientReads
=============================================================================
