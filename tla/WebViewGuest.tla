---------------------------- MODULE WebViewGuest ----------------------------
(***************************************************************************)
(* The browser's half of <webview>: src/browser/web_view/web_view_guest.cc *)
(* and its dialog manager, the handlers of thrust_window.cc that drive it, *)
(* and the registry of guests in session/thrust_session.cc.                *)
(*                                                                         *)
(* A handler is a function on the browser's state b, which is the record   *)
(* of the variables it may change.  Every event of a guest goes through    *)
(* the window that embeds it, which is looked up again each time: a guest  *)
(* that no window embeds yet, or any more, makes the browser use a null    *)
(* pointer ("unattached"), and so does a request for a guest that is gone  *)
(* ("dead").  Events that the element only passes on to its page (loading  *)
(* started or stopped, console, title, new window, close, crashed) are     *)
(* Notices: they keep that use and leave out the message.                  *)
(***************************************************************************)
EXTENDS Integers, Sequences, FiniteSets, SequencesExt, AutoSize

CONSTANTS
  Urls,           \* what src may be set to; "" stands for no src
  Zooms,          \* zoom factors
  DefaultZoom,    \* the factor of a site nobody zoomed
  MaxGuests,      \* bound on the guests created
  MaxActs,        \* bound on the links followed and crashes of guests
  MaxDialogs      \* bound on the dialogs opened

NoUrl == ""

ASSUME WebViewAssumption ==
  /\ NoUrl \notin Urls
  /\ DefaultZoom \in Zooms
  /\ MaxGuests \in Nat /\ MaxDialogs \in Nat /\ MaxActs \in Nat

Ids == 1..MaxGuests
Dialogs == 1..MaxDialogs

VARIABLES
  guests,         \* the WebViewGuests by instance id
  registered,     \* guest_web_contents_ of the session
  lastId,         \* current_instance_id_
  lastDialog,     \* the dialogs opened so far
  acts,           \* the links followed and crashes so far
  zoomMap,        \* HostZoomMap
  embedder,       \* the contents of the window: "open" or "gone"
  crashed,        \* the null pointer the browser used, if any
  misanswered,    \* a dialog was closed with the answer to another
  up,             \* messages of the renderer on their way to the browser
  down            \* events of the guests on their way to the renderer

guestVars == <<guests, registered, lastId, lastDialog, acts, zoomMap,
               embedder, crashed, misanswered, up, down>>

None == [url |-> NoUrl, at |-> 0, started |-> FALSE]

\* A navigation goes to an entry of the history, or to a new one (at = 0); it
\* has started once the guest's renderer says so.
Pending == [url : Urls \union {NoUrl}, at : Nat, started : BOOLEAN]

Guest == [
  state    : {"none", "live", "gone"},
  attached : BOOLEAN,             \* embedder_web_contents_ is not null
  page     : {"alive", "crashed"},
  crashes  : BOOLEAN,             \* its renderer has crashed at some time
  entries  : Seq(Urls),           \* the navigation controller
  index    : Nat,
  pending  : Pending,
  failed   : BOOLEAN,             \* the last navigation failed
  zoom     : Zooms,               \* current_zoom_factor_
  asking   : Dialogs \union {0},  \* the dialog its page waits for
  callback : Dialogs \union {0} ] \* dialog_callback_ of the dialog manager

\* The constructor leaves current_zoom_factor_ as it finds it.
NewGuest(zoom) ==
  [state |-> "live", attached |-> FALSE, page |-> "alive", crashes |-> FALSE,
   entries |-> <<>>, index |-> 0, pending |-> None, failed |-> FALSE,
   zoom |-> zoom, asking |-> 0, callback |-> 0]

NoGuest == [NewGuest(DefaultZoom) EXCEPT !.state = "none"]

Message(kind, g, arg) == [kind |-> kind, guest |-> g, arg |-> arg]

GuestInit ==
  /\ guests = [g \in Ids |-> NoGuest]
  /\ registered = {}
  /\ lastId = 0 /\ lastDialog = 0 /\ acts = 0
  /\ zoomMap = [u \in Urls |-> DefaultZoom]
  /\ embedder = "open"
  /\ crashed = "no"
  /\ misanswered = FALSE
  /\ up = <<>> /\ down = <<>>

\* The page the guest shows: its last committed entry.
Url(g) == IF g.entries = <<>> THEN NoUrl ELSE g.entries[g.index]

\* The entry a zoom is read from and written to.
VisibleUrl(g) == IF g.pending # None THEN g.pending.url ELSE Url(g)

CanGoToOffset(g, offset) == g.index + offset \in 1..Len(g.entries)

-----------------------------------------------------------------------------
(* Events. *)
Browser ==
  [guests |-> guests, registered |-> registered, zoomMap |-> zoomMap,
   crashed |-> crashed, misanswered |-> misanswered, down |-> down]

Crash(b, why) == [b EXCEPT !.crashed = IF @ = "no" THEN why ELSE @]

\* GetThrustWindow()->WebViewEmit(...).
GetThrustWindow(b, g) == b.guests[g].attached

WebViewEmit(b, g, message) ==
  IF GetThrustWindow(b, g) THEN [b EXCEPT !.down = Append(@, message)]
                           ELSE Crash(b, "unattached")

Notice(b, g) == IF GetThrustWindow(b, g) THEN b ELSE Crash(b, "unattached")

-----------------------------------------------------------------------------
(* Life of a guest. *)
AddGuest(registry, g) == registry \union {g}

RemoveGuest(registry, g) == registry \ {g}

WebContentsDestroyed(b, g) ==
  LET told == WebViewEmit(b, g, Message("destroyed", g, NoUrl))
  IN  [told EXCEPT !.guests[g].state = "gone", !.guests[g].pending = None,
                   !.guests[g].asking = 0, !.guests[g].callback = 0]

Destroy(b, g) ==
  WebContentsDestroyed(
    [b EXCEPT !.registered = RemoveGuest(@, g)], g)

Init_(b, g, zoom) ==
  [b EXCEPT !.guests[g] = NewGuest(zoom),
            !.registered = AddGuest(@, g)]

\* The plugin's container attaches the guest it finds in the registry.
DidAttach(b, g, src) == WebViewEmit(b, g, Message("did-attach", g, src))

WillAttach(b, g) == [b EXCEPT !.guests[g].attached = TRUE]

Attach(b, g, src) ==
  IF g \in b.registered THEN DidAttach(WillAttach(b, g), g, src) ELSE b

PluginDestroyed(b, g) == IF g \in b.registered THEN Destroy(b, g) ELSE b

\* The embedder's contents is destroyed, or its renderer is gone: each guest
\* forgets its embedder and then destroys itself.
EmbedderObserverDestroy(b, g) ==
  Destroy([b EXCEPT !.guests[g].attached = FALSE], g)

-----------------------------------------------------------------------------
(* Navigation, zoom and the other requests of the element. *)
Navigate(b, g, url, at) ==
  [b EXCEPT !.guests[g].pending = [url |-> url, at |-> at, started |-> FALSE],
            !.guests[g].failed = FALSE]

LoadUrl(b, g, url) == Navigate(b, g, url, 0)

Go(b, g, offset) ==
  IF CanGoToOffset(b.guests[g], offset)
  THEN LET at == b.guests[g].index + offset
       IN  Navigate(b, g, b.guests[g].entries[at], at)
  ELSE b

Reload(b, g) == Go(b, g, 0)

Stop(b, g) ==
  IF b.guests[g].pending = None THEN b
  ELSE LET stopped == [b EXCEPT !.guests[g].pending = None,
                                !.guests[g].failed = TRUE]
       IN  IF b.guests[g].pending.started THEN Notice(stopped, g) ELSE stopped

SetZoom(b, g, factor) ==
  LET url  == VisibleUrl(b.guests[g])
      told == WebViewEmit(b, g, Message("zoom-changed", g, factor))
  IN  [told EXCEPT !.guests[g].zoom = factor,
                   !.zoomMap = [u \in Urls |-> IF u = url THEN factor
                                                          ELSE @[u]]]

\* Find, StopFinding, InsertCSS, ExecuteScript and the devtools go to the
\* guest's contents and leave nothing behind here.
PassToContents(b, g) == b

JavaScriptDialogClosed(b, g, for) ==
  IF b.guests[g].callback = 0 THEN b
  ELSE [b EXCEPT
          !.misanswered = @ \/ b.guests[g].callback # for,
          !.guests[g].asking = IF @ = b.guests[g].callback THEN 0 ELSE @,
          !.guests[g].callback = 0]

RunJavaScriptDialog(b, g, dialog) ==
  WebViewEmit(
    [b EXCEPT !.guests[g].asking = dialog, !.guests[g].callback = dialog],
    g, Message("dialog", g, dialog))

\* What the handlers of ThrustWindow make of an id: the contents in the
\* registry, and the guest of these contents.
GetGuestByInstanceID(b, g) == g \in b.registered

FromWebContents(b, g) == b.guests[g].state = "live"

GuestOf(b, g) == GetGuestByInstanceID(b, g) /\ FromWebContents(b, g)

\* They use the guest at once, whether or not there is one.
DestroyWebViewGuest(b, g) ==
  IF GuestOf(b, g) THEN Destroy(b, g) ELSE Crash(b, "dead")

WebViewGuestJavaScriptDialogClosed(b, g, for) ==
  IF GuestOf(b, g) THEN JavaScriptDialogClosed(b, g, for) ELSE Crash(b, "dead")

\* The requests that only its contents remember, and those for its size.
RequestOfContents(b, m) ==
  IF GuestOf(b, m.guest) THEN PassToContents(b, m.guest) ELSE Crash(b, "dead")

RequestOfGuest(b, m) ==
  IF ~GuestOf(b, m.guest) THEN Crash(b, "dead")
  ELSE CASE m.kind = "LoadUrl" -> LoadUrl(b, m.guest, m.arg)
         [] m.kind = "Go"      -> Go(b, m.guest, m.arg)
         [] m.kind = "Reload"  -> Reload(b, m.guest)
         [] m.kind = "Stop"    -> Stop(b, m.guest)
         [] m.kind = "SetZoom" -> SetZoom(b, m.guest, m.arg)

OnMessageReceived(b, m) ==
  CASE m.kind = "Attach"          -> Attach(b, m.guest, m.arg)
    [] m.kind = "PluginDestroyed" -> PluginDestroyed(b, m.guest)
    [] m.kind = "Destroy"         -> DestroyWebViewGuest(b, m.guest)
    [] m.kind = "DialogClosed"    ->
         WebViewGuestJavaScriptDialogClosed(b, m.guest, m.arg)
    [] m.kind \in {"SetAutoSize", "Find"} -> RequestOfContents(b, m)
    [] OTHER                      -> RequestOfGuest(b, m)

-----------------------------------------------------------------------------
(* Steps of the browser. *)
Running == crashed = "no" /\ embedder = "open"

Becomes(b) ==
  /\ guests' = b.guests
  /\ registered' = b.registered
  /\ zoomMap' = b.zoomMap
  /\ crashed' = b.crashed
  /\ misanswered' = b.misanswered
  /\ down' = b.down

BrowserHandles ==
  /\ Running /\ up # <<>>
  /\ Becomes(OnMessageReceived(Browser, Head(up)))
  /\ up' = Tail(up)
  /\ UNCHANGED <<lastId, lastDialog, acts, embedder>>

GuestActs(b) ==
  /\ Running
  /\ Becomes(b)
  /\ UNCHANGED <<lastId, embedder, up>>

\* The navigation under way commits.  (A page that waits for a dialog does
\* not hear of it.)
Committed(g) ==
  LET to == g.pending
  IN  [g EXCEPT !.page = "alive", !.pending = None,
                !.entries = IF to.at = 0
                            THEN Append(SubSeq(@, 1, g.index), to.url) ELSE @,
                !.index = IF to.at = 0 THEN @ + 1 ELSE to.at]

\* What the element learns from a commit; the index counts from 0.
CommitEvent(g, guest) ==
  Message("did-commit", g,
    [url |-> Url(guest), index |-> guest.index - 1,
     count |-> Len(guest.entries)])

DidStartProvisionalLoadForFrame(b, g) == Notice(b, g)

DidStartLoading(g) ==
  /\ guests[g].state = "live" /\ guests[g].asking = 0
  /\ guests[g].pending # None /\ ~guests[g].pending.started
  /\ GuestActs(DidStartProvisionalLoadForFrame(
       Notice([Browser EXCEPT !.guests[g].pending.started = TRUE], g), g))
  /\ UNCHANGED <<lastDialog, acts>>

DidCommitProvisionalLoadForFrame(g) ==
  LET guest  == Committed(guests[g])
      factor == zoomMap[Url(guest)]
      told   == WebViewEmit([Browser EXCEPT !.guests[g] = guest], g,
                            CommitEvent(g, guest))
  IN  /\ guests[g].state = "live"
      /\ guests[g].pending.started /\ guests[g].asking = 0
      /\ GuestActs(IF guest.zoom = factor THEN told
                   ELSE [WebViewEmit(told, g,
                                     Message("zoom-changed", g, factor))
                           EXCEPT !.guests[g].zoom = factor])
      /\ UNCHANGED <<lastDialog, acts>>

DidFailProvisionalLoad(g) ==
  /\ guests[g].state = "live"
  /\ guests[g].pending.started /\ guests[g].asking = 0
  /\ GuestActs(Notice([Browser EXCEPT !.guests[g].pending = None,
                                      !.guests[g].failed = TRUE], g))
  /\ UNCHANGED <<lastDialog, acts>>

\* The page of a guest follows a link.
OpenURLFromTab(g, url) ==
  /\ guests[g].state = "live" /\ Url(guests[g]) # NoUrl
  /\ guests[g].page = "alive" /\ guests[g].asking = 0
  /\ acts < MaxActs /\ acts' = acts + 1
  /\ GuestActs(LoadUrl(Browser, g, url))
  /\ UNCHANGED lastDialog

\* The page tells its title, logs, or opens or closes a window.
PageNotifies(g) ==
  /\ guests[g].state = "live" /\ Url(guests[g]) # NoUrl
  /\ guests[g].page = "alive" /\ guests[g].asking = 0
  /\ GuestActs(Notice(Browser, g))
  /\ UNCHANGED <<lastDialog, acts>>

\* It asks for a colour, a file or a directory: a dialog of the window.
PageChooses(g) ==
  /\ guests[g].state = "live" /\ Url(guests[g]) # NoUrl
  /\ guests[g].page = "alive" /\ guests[g].asking = 0
  /\ GuestActs(IF GetThrustWindow(Browser, g) THEN Browser
               ELSE Crash(Browser, "unattached"))
  /\ UNCHANGED <<lastDialog, acts>>

OpenDialog(g) ==
  /\ guests[g].state = "live" /\ Url(guests[g]) # NoUrl
  /\ guests[g].page = "alive" /\ guests[g].asking = 0
  /\ lastDialog < MaxDialogs
  /\ lastDialog' = lastDialog + 1
  /\ GuestActs(RunJavaScriptDialog(Browser, g, lastDialog'))
  /\ UNCHANGED acts

RenderProcessGone(g) ==
  /\ guests[g].state = "live" /\ Url(guests[g]) # NoUrl
  /\ guests[g].page = "alive"
  /\ acts < MaxActs /\ acts' = acts + 1
  /\ GuestActs(Notice([Browser EXCEPT !.guests[g].page = "crashed",
                                      !.guests[g].crashes = TRUE,
                                      !.guests[g].asking = 0,
                                      !.guests[g].pending = None,
                                      !.guests[g].failed = TRUE], g))
  /\ UNCHANGED lastDialog

\* The window is closed or its renderer dies.  The first attached guest it
\* still has is the first to destroy itself.
EmbedderGoes ==
  /\ Running
  /\ embedder' = "gone"
  /\ LET embedded == {g \in registered : guests[g].attached}
     IN  IF embedded = {} THEN Becomes(Browser)
         ELSE \E g \in embedded : Becomes(EmbedderObserverDestroy(Browser, g))
  /\ UNCHANGED <<lastId, lastDialog, acts, up>>

GuestStep ==
  \/ BrowserHandles
  \/ \E g \in Ids :
       \/ DidStartLoading(g)
       \/ DidCommitProvisionalLoadForFrame(g)
       \/ DidFailProvisionalLoad(g)
       \/ \E url \in Urls : OpenURLFromTab(g, url)
       \/ PageNotifies(g) \/ PageChooses(g)
       \/ OpenDialog(g)
       \/ RenderProcessGone(g)
  \/ EmbedderGoes
=============================================================================
