--------------------------- MODULE RemoteMessages ---------------------------
(***************************************************************************)
(* The renderer's side of a window: the script contexts DidCreateScript-   *)
(* Context makes, the modules each of them loads, and the messages the     *)
(* client and the pages exchange over THRUST.remote.                       *)
(*                                                                         *)
(* A frame has one observer.  Every document it shows gets a context, and  *)
(* every context adds its RemoteBindings to the observer, which calls all  *)
(* of them for each message of the client.  Everything in the renderer     *)
(* runs on its main thread; the callbacks of a page run inside the         *)
(* dispatch of a message and may change the list that is being walked.     *)
(***************************************************************************)
EXTENDS Integers, Sequences, FiniteSets, SequencesExt

CONSTANTS
  Listeners,     \* the callbacks a page passes to THRUST.remote.listen
  MaxDocuments,  \* bound: documents the window shows
  MaxMessages,   \* bound: messages of the client
  MaxCalls       \* bound: calls of THRUST.remote by the pages

ASSUME RemoteAssumption ==
  /\ IsFiniteSet(Listeners)
  /\ MaxDocuments \in Nat /\ MaxMessages \in Nat /\ MaxCalls \in Nat

VARIABLES
  frame,     \* "live", or "gone" with its renderer process
  shown,     \* the number of documents shown so far
  contexts,  \* remote_bindings_ of the frame's observer: one context each
  dispatch,  \* the RemoteDispatch that runs, or Idle
  toFrame,   \* ThrustFrameMsg_RemoteDispatch on their way
  sent,      \* the number of messages the client has sent
  toClient,  \* ThrustFrameHostMsg_RemoteSend on their way, and "remote" events
  said,      \* what each document has passed to send
  got,       \* the messages the client has received
  lost,      \* a renderer process has gone
  calls      \* calls of THRUST.remote so far

renderer == <<frame, shown, contexts, dispatch>>
down == <<toFrame, sent>>
up == <<toClient, said, got, lost>>
vars == <<renderer, down, up, calls>>

Documents == 1..MaxDocuments
Idle == [on |-> FALSE]

(***************************************************************************)
(* The module system of a context.                                         *)
(***************************************************************************)

Natives == {"document_natives", "webview_natives", "remote_natives"}

\* The sources RenderThreadStarted registers and the natives each of them
\* requires when it runs.
Needs == [webview |-> {"document_natives", "webview_natives"},
          remote |-> {"remote_natives"}]

\* A context as its constructors leave it: nothing loaded, natives disabled.
NewContext(d) ==
  [doc |-> d, natives |-> {}, enabled |-> 0, modules |-> {}, handler |-> FALSE,
   listeners |-> <<>>]

RegisterNativeHandlers(c) == [c EXCEPT !.natives = Natives]
EnterNatives(c) == [c EXCEPT !.enabled = @ + 1]
LeaveNatives(c) == [c EXCEPT !.enabled = @ - 1]

\* requireNative throws while natives are disabled.
RequireNative(c, n) == c.enabled > 0 /\ n \in c.natives

\* A module that throws is reported, and require returns undefined without
\* caching it; remote.js sets its handler as it runs.
RunModule(c, m) ==
  IF \A n \in Needs[m] : RequireNative(c, n)
  THEN [c EXCEPT !.modules = @ \cup {m}, !.handler = @ \/ m = "remote"]
  ELSE c

Require(c, m) ==
  IF m \in c.modules \/ m \notin DOMAIN Needs THEN c ELSE RunModule(c, m)

\* DidCreateScriptContext for the main frame.
StartedContext(d) ==
  LET c == RegisterNativeHandlers(EnterNatives(NewContext(d)))
  IN  LeaveNatives(Require(Require(c, "webview"), "remote"))

(***************************************************************************)
(* THRUST.remote: the list of listeners.                                   *)
(***************************************************************************)

IndexOf(ls, l) == CHOOSE i \in DOMAIN ls : ls[i] = l
Has(ls, l) == \E i \in DOMAIN ls : ls[i] = l

\* The loop of remove goes over the list from its end; walked[i] is the list
\* after its i last entries.
remove(ls, l) ==
  LET walked[i \in 0..Len(ls)] ==
        IF i = 0 THEN ls
        ELSE LET at == Len(ls) - i + 1
             IN  IF ls[at] = l THEN RemoveAt(walked[i - 1], at) ELSE walked[i - 1]
  IN  walked[Len(ls)]

listen_Twice(ls, l) == Append(ls, l)
listen(ls, l) == Append(remove(ls, l), l)

-----------------------------------------------------------------------------

Init ==
  /\ frame = "live" /\ shown = 0 /\ contexts = <<>> /\ dispatch = Idle
  /\ toFrame = <<>> /\ sent = 0
  /\ toClient = <<>> /\ said = [d \in Documents |-> <<>>] /\ got = <<>> /\ lost = FALSE
  /\ calls = 0

(***************************************************************************)
(* The window and its client.                                              *)
(***************************************************************************)

\* ThrustWindow::RemoteDispatch: the message goes to the main frame; a frame
\* whose process is gone drops it.
RemoteDispatchSent ==
  /\ sent < MaxMessages
  /\ sent' = sent + 1
  /\ toFrame' = IF frame = "live" THEN Append(toFrame, sent + 1) ELSE toFrame
  /\ UNCHANGED <<renderer, up, calls>>

\* ThrustWindow::RemoteSend and the event "remote".
RemoteSendReceived ==
  /\ toClient # <<>>
  /\ got' = Append(got, Head(toClient))
  /\ toClient' = Tail(toClient)
  /\ UNCHANGED <<renderer, down, said, lost, calls>>

(***************************************************************************)
(* Documents and processes.                                                *)
(***************************************************************************)

\* The frame shows another document and its script context is made.  Nothing
\* removes the bindings of the documents before it.
DidCreateScriptContext ==
  /\ frame = "live" /\ dispatch = Idle /\ shown < MaxDocuments
  /\ shown' = shown + 1
  /\ contexts' = Append(contexts, StartedContext(shown + 1))
  /\ UNCHANGED <<frame, dispatch, down, up, calls>>

\* The process goes, with what it had not read and some of what it wrote.
RenderProcessGone ==
  /\ frame = "live" /\ ~lost
  /\ frame' = "gone" /\ lost' = TRUE
  /\ contexts' = <<>> /\ dispatch' = Idle /\ toFrame' = <<>>
  /\ \E n \in 0..Len(toClient) : toClient' = SubSeq(toClient, 1, n)
  /\ UNCHANGED <<shown, sent, said, got, calls>>

\* The next navigation makes another process, frame and observer.
RenderFrameCreated ==
  /\ frame = "gone"
  /\ frame' = "live"
  /\ UNCHANGED <<shown, contexts, dispatch, down, up, calls>>

(***************************************************************************)
(* THRUST.remote.send.                                                     *)
(***************************************************************************)

\* A value of a page is an object, something that is none, or an array, which
\* is one for JavaScript and does not convert to a dictionary (nor does null).
Values == {"object", "plain", "array"}

\* send puts what is no object into one.
Wrapped(v) == IF v = "plain" THEN "object" ELSE v

SendMessage_NotWhileDispatching(m, v) ==
  toClient' = IF v # "object" \/ dispatch.on THEN toClient ELSE Append(toClient, m)

\* What is no dictionary goes nowhere, and nobody is told.
SendMessage(m, v) ==
  toClient' = IF v = "object" THEN Append(toClient, m) ELSE toClient

\* A message is its document and the number it takes there.
send(d) ==
  /\ calls < MaxCalls
  /\ calls' = calls + 1
  /\ \E v \in Values :
       /\ said' = [said EXCEPT ![d] = Append(@, v)]
       /\ SendMessage(<<d, Len(said[d]) + 1>>, Wrapped(v))

(***************************************************************************)
(* The dispatch of a message.                                              *)
(***************************************************************************)

\* The call of the handler of context i with message m: forEach takes the
\* length of the list once.  "threw" says that a listener ended it; "stay",
\* "heard" and "shifted" are history: who was in the list at the start and has
\* not been removed, who was called, and whether an entry was removed that the
\* walk had reached.
Walk(m, i) ==
  LET ls == contexts[i].listeners IN
  [on |-> TRUE, msg |-> m, at |-> i, k |-> 1, len |-> Len(ls), threw |-> FALSE,
   stay |-> {ls[j] : j \in DOMAIN ls}, heard |-> <<>>, shifted |-> FALSE]

\* DispatchMessage does nothing in a context without a handler.
Answering(i) == contexts[i].handler

NextContext(m, i) ==
  LET later == {j \in i..Len(contexts) : Answering(j)}
  IN  IF later = {} THEN Idle
      ELSE Walk(m, CHOOSE j \in later : \A h \in later : j <= h)

RemoteDispatch_AwaitsDocument ==
  /\ frame = "live" /\ dispatch = Idle /\ toFrame # <<>> /\ contexts # <<>>
  /\ dispatch' = NextContext(Head(toFrame), 1)
  /\ toFrame' = Tail(toFrame)
  /\ UNCHANGED <<frame, shown, contexts, sent, up, calls>>

RemoteDispatch ==
  /\ frame = "live" /\ dispatch = Idle /\ toFrame # <<>>
  /\ dispatch' = NextContext(Head(toFrame), 1)
  /\ toFrame' = Tail(toFrame)
  /\ UNCHANGED <<frame, shown, contexts, sent, up, calls>>

List == contexts[dispatch.at].listeners
Walking ==
  /\ dispatch.on /\ ~dispatch.threw
  /\ dispatch.k <= dispatch.len /\ dispatch.k <= Len(List)

\* The walk after the running listener, at index k, has removed l (gone) or
\* registered it again.
Removed(w, l) ==
  IF ~Has(List, l) THEN w
  ELSE [w EXCEPT !.stay = @ \ {l}, !.shifted = @ \/ IndexOf(List, l) <= w.k]

Called == [dispatch EXCEPT !.heard = Append(@, List[dispatch.k])]
Onward(w) == [w EXCEPT !.k = @ + 1]

\* A listener runs and returns.
CallListener ==
  /\ Walking
  /\ dispatch' = Onward(Called)
  /\ UNCHANGED <<frame, shown, contexts, down, up, calls>>

\* It calls remove or listen before it returns.
CallListenerThatEdits ==
  /\ Walking /\ calls < MaxCalls
  /\ calls' = calls + 1
  /\ \E l \in Listeners, op \in {"remove", "listen"} :
       /\ contexts' = [contexts EXCEPT ![dispatch.at].listeners =
            IF op = "remove" THEN remove(@, l) ELSE listen(@, l)]
       /\ dispatch' = Onward(Removed(Called, l))
  /\ UNCHANGED <<frame, shown, down, up>>

\* It answers with send.
CallListenerThatSends ==
  /\ Walking
  /\ send(contexts[dispatch.at].doc)
  /\ dispatch' = Onward(Called)
  /\ UNCHANGED <<frame, shown, contexts, down, got, lost>>

\* It throws, out of forEach and of the handler: no listener of its document
\* after it is called.
Ended(w) == [w EXCEPT !.threw = TRUE]

CallListenerThatThrows ==
  /\ Walking /\ calls < MaxCalls
  /\ calls' = calls + 1
  /\ dispatch' = Ended(Onward(Called))
  /\ UNCHANGED <<frame, shown, contexts, down, up>>

\* The walk is over, either way: the bindings of the next document are called.
HandlerReturns ==
  /\ dispatch.on /\ ~Walking
  /\ dispatch' = NextContext(dispatch.msg, dispatch.at + 1)
  /\ UNCHANGED <<frame, shown, contexts, down, up, calls>>

(***************************************************************************)
(* The document shown calls THRUST.remote from its own scripts.            *)
(***************************************************************************)

Current == Len(contexts)
Scripted == dispatch = Idle /\ contexts # <<>> /\ contexts[Current].handler

PageEdits ==
  /\ Scripted /\ calls < MaxCalls
  /\ calls' = calls + 1
  /\ \E l \in Listeners, op \in {"remove", "listen"} :
       contexts' = [contexts EXCEPT ![Current].listeners =
         IF op = "remove" THEN remove(@, l) ELSE listen(@, l)]
  /\ UNCHANGED <<frame, shown, dispatch, down, up>>

PageSends ==
  /\ Scripted
  /\ send(contexts[Current].doc)
  /\ UNCHANGED <<renderer, down, got, lost>>

Next ==
  \/ RemoteDispatchSent \/ RemoteSendReceived
  \/ DidCreateScriptContext \/ RenderProcessGone \/ RenderFrameCreated
  \/ RemoteDispatch \/ CallListener \/ CallListenerThatEdits
  \/ CallListenerThatSends \/ CallListenerThatThrows \/ HandlerReturns
  \/ PageEdits \/ PageSends

Spec == Init /\ [][Next]_vars

\* The message loops of the two processes go on, and a script returns.
Fairness ==
  /\ WF_vars(RemoteSendReceived)
  /\ WF_vars(RemoteDispatch) /\ WF_vars(HandlerReturns) /\ WF_vars(CallListener)

FairSpec == Spec /\ Fairness

-----------------------------------------------------------------------------

Context ==
  [doc : Documents, natives : SUBSET Natives, enabled : Nat,
   modules : SUBSET DOMAIN Needs, handler : BOOLEAN, listeners : Seq(Listeners)]

\* A dispatch that runs; at most every listener is in the list once.
Dispatch ==
  [on : {TRUE}, msg : 1..MaxMessages, at : Nat, k : Nat, threw : BOOLEAN,
   len : 0..Cardinality(Listeners), stay : SUBSET Listeners,
   heard : Seq(Listeners), shifted : BOOLEAN]

TypeOK ==
  /\ frame \in {"live", "gone"} /\ shown \in 0..MaxDocuments
  /\ contexts \in Seq(Context)
  /\ \/ dispatch = Idle
     \/ /\ dispatch \in Dispatch /\ dispatch.at \in DOMAIN contexts
        /\ dispatch.k \in 1..(dispatch.len + 1)
  /\ toFrame \in Seq(1..MaxMessages) /\ sent \in 0..MaxMessages
  /\ toClient \in Seq(Documents \X (1..MaxCalls)) /\ got \in Seq(Documents \X (1..MaxCalls))
  /\ said \in [Documents -> Seq(Values)] /\ calls \in 0..MaxCalls /\ lost \in BOOLEAN

\* Every document a live frame has shown can send and listen, and none keeps
\* the right to reach the natives once its modules are loaded: the two modules
\* are required while natives are enabled, in the scope of
\* DidCreateScriptContext and no longer.
EveryDocumentHasRemote ==
  \A i \in DOMAIN contexts :
    contexts[i].modules = DOMAIN Needs /\ contexts[i].enabled = 0

\* A listener that was there when its document began to handle a message, and
\* was not removed meanwhile, is called exactly once by the time the walk ends,
\* whatever the listeners call, with two exceptions.  If one of them removed an
\* entry the walk had already reached (itself, for instance), the next one is
\* skipped or called again.  If one of them threw, those after it are not
\* called, and those up to it have been, once.  listen() removes before it
\* appends, so that no listener is in the list twice.
Times(l) == Cardinality({i \in DOMAIN dispatch.heard : dispatch.heard[i] = l})

\* The thrower is at index k - 1.
AfterThrower(l) == dispatch.threw /\ IndexOf(List, l) >= dispatch.k

EveryListenerHearsOnce ==
  dispatch.on /\ ~Walking /\ ~dispatch.shifted =>
    \A l \in dispatch.stay : Times(l) = IF AfterThrower(l) THEN 0 ELSE 1

\* What the client receives from a document is what the document sent, in
\* order: everything but the arrays and null, which nothing reports.  Beyond
\* that only the end of a process loses messages, the last ones of its
\* documents.
Arriving == got \o toClient

InOrder ==
  \A i, j \in DOMAIN Arriving :
    i < j /\ Arriving[i][1] = Arriving[j][1] => Arriving[i][2] < Arriving[j][2]

Sendable(d) == {n \in DOMAIN said[d] : said[d][n] # "array"}

WithoutGaps ==
  \A i \in DOMAIN Arriving :
    /\ Arriving[i][2] \in Sendable(Arriving[i][1])
    /\ \A n \in Sendable(Arriving[i][1]) :
         n <= Arriving[i][2] => \E j \in 1..i : Arriving[j] = <<Arriving[i][1], n>>

Arrives(d) ==
  \A n \in Sendable(d) : \E i \in DOMAIN Arriving : Arriving[i] = <<d, n>>

ClientHearsInOrder ==
  InOrder /\ WithoutGaps /\ (~lost => \A d \in Documents : Arrives(d))

\* A message on its way to the frame is handled by every document of the
\* frame, or the process is gone: no listener, whether it throws, sends or
\* changes the list, can hold up the messages behind it.
MessagesHandled ==
  \A m \in 1..MaxMessages :
    (\E i \in DOMAIN toFrame : toFrame[i] = m) ~>
      (dispatch = Idle /\ ~\E i \in DOMAIN toFrame : toFrame[i] = m)

\* When a message is handled, the document shown is among those that handle
\* it: the walk over the bindings never stops before the last of them.
ShownDocumentHandles ==
  [][dispatch.on /\ dispatch' = Idle /\ frame' = "live" =>
       dispatch.at = Len(contexts)]_vars

\* Every document of a frame can listen, and each of its listeners hears every
\* message once, unless one before it threw or took an entry out of the list.
MessagesHeard == TypeOK /\ EveryDocumentHasRemote /\ EveryListenerHearsOnce

\* A dispatch comes to its end, and to the document that is shown.
DispatchCompletes == MessagesHandled /\ ShownDocumentHandles
=============================================================================
