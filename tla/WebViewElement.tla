--------------------------- MODULE WebViewElement ---------------------------
(***************************************************************************)
(* The renderer's half of <webview>: one element of                        *)
(* src/renderer/extensions/resources/web_view.js with the bindings it      *)
(* calls (web_view_bindings.cc), composed with the browser's half.         *)
(*                                                                         *)
(* The handlers of the element are functions on a turn t: the element, the *)
(* messages its code sends, the records its mutation observer is owed and  *)
(* whether it asked for a guest.  A turn is one callback of the renderer;  *)
(* the observer's records are delivered when it ends.  A message to the    *)
(* browser is a request to the guest named by its id; CreateGuest is       *)
(* synchronous and waits for the messages sent before it.                  *)
(*                                                                         *)
(* The page that embeds the element is the environment.  "careless"        *)
(* remembers that it used the element in a way the code may not survive:   *)
(* it touched it before its guest was attached, gave src to a detached     *)
(* element, gave it to a new one more than once in a script, hid it, or    *)
(* put it back into the document before it had seen the "destroyed" of the *)
(* guest it had before.                                                    *)
(***************************************************************************)
EXTENDS WebViewGuest

CONSTANTS
  MaxTurns,       \* bound on what the embedding page does to the element
  MaxWrites,      \* bound on the writes of src in one script of the page
  Calls,          \* the methods without state it calls
  ContentCalls    \* those of them for the contents of the guest

ASSUME ElementAssumption ==
  /\ MaxTurns \in Nat /\ MaxWrites \in Nat
  /\ Calls \subseteq {"Reload", "Stop"} /\ ContentCalls \subseteq {"Find"}

Offsets == {-1, 1}

VARIABLES
  el,             \* the element
  turns,          \* what the page did so far, each write of src counted
  careless        \* the page was careless

vars == <<guestVars, el, turns, careless>>

Element == [
  attached : BOOLEAN,             \* in the document
  hidden   : BOOLEAN,             \* display: none
  plugin   : BOOLEAN,             \* the plugin of the <object> is loaded
  bound    : Ids \union {0},      \* the guest the plugin holds
  timer    : BOOLEAN,             \* setTimeout of internalbindings
  dying    : SUBSET Ids,          \* guests of plugins about to be destroyed
  guest    : Ids \union {0},      \* guest_instance_id, 0 for null
  first    : BOOLEAN,             \* before_first_navigation
  ignore   : BOOLEAN,             \* ignore_next_src
  attr     : Urls \union {NoUrl}, \* the attribute src
  src      : Urls \union {NoUrl}, \* my.src
  index    : Int, count : Nat,    \* entry_index, entry_count
  zoom     : Zooms,
  held     : SUBSET Dialogs ]     \* dialog events the page has to answer

\* An element is made with or without src.
NewElement(url) ==
  [attached |-> FALSE, hidden |-> FALSE, plugin |-> FALSE, bound |-> 0,
   timer |-> FALSE, dying |-> {}, guest |-> 0, first |-> TRUE,
   ignore |-> FALSE, attr |-> url, src |-> url, index |-> 0, count |-> 0,
   zoom |-> DefaultZoom, held |-> {}]

Init ==
  /\ GuestInit
  /\ \E url \in Urls \union {NoUrl} : el = NewElement(url)
  /\ turns = 0
  /\ careless = FALSE

Turn == [el |-> el, msgs |-> <<>>, recs |-> <<>>, made |-> FALSE]

-----------------------------------------------------------------------------
(* The natives: a request goes out only for a guest that is a number. *)
Send(t, kind, g, arg) == [t EXCEPT !.msgs = Append(@, Message(kind, g, arg))]

Native(t, kind, arg) ==
  IF t.el.guest = 0 THEN t ELSE Send(t, kind, t.el.guest, arg)

\* Find, StopFinding, InsertCSS, ExecuteScript and the three of the devtools.
NativeOfContents(t, kind) == Native(t, kind, NoUrl)

api_setAutoSize(t) == Native(t, "SetAutoSize", NoUrl)

api_loadUrl(t, url) == Native(t, "LoadUrl", url)

api_canGoBack(e) == e.count > 1 /\ e.index > 0

api_canGoForward(e) == e.index >= 0 /\ e.index < e.count - 1

is_plugin_in_render_tree(t) == t.el.plugin

\* The plugin ignores the guest it already holds and gives up another.
PluginAttach(t, g) ==
  IF t.el.bound = g THEN t
  ELSE [Send(t, "Attach", g, t.el.src)
          EXCEPT !.el.dying = @ \union ({t.el.bound} \ {0}),
                 !.el.bound = g]

attach_window(t, g) ==
  LET named == [t EXCEPT !.el.guest = g]
  IN  IF is_plugin_in_render_tree(t) THEN PluginAttach(named, g) ELSE named

create_guest(t) ==
  LET g    == lastId + 1
      made == [t EXCEPT !.made = TRUE]
  IN  IF t.el.attached THEN attach_window(made, g)
                       ELSE Send(made, "Destroy", g, NoUrl)

attr_src_parse(t) ==
  LET url    == t.el.attr
      parsed == [t EXCEPT !.el.src = url]
  IN  CASE url = NoUrl                       -> parsed
        [] url # NoUrl /\ t.el.guest # 0     -> api_loadUrl(parsed, url)
        [] url # NoUrl /\ t.el.guest = 0 /\ t.el.first
             -> create_guest([parsed EXCEPT !.el.first = FALSE])
        [] OTHER                             -> parsed

-----------------------------------------------------------------------------
(* Mutations of src.  The change of an attribute runs the handler at once  *)
(* when its value changed, and owes the observer a record in any case.     *)
src_changed(t, new) ==
  LET s == [t EXCEPT !.el.src = new]
  IN  IF s.el.ignore THEN [s EXCEPT !.el.ignore = FALSE]
                     ELSE attr_src_parse(s)

Written(t, new) ==
  [t EXCEPT !.el.attr = new, !.recs = Append(@, t.el.attr)]

webview_mutation_handler(t, old, new) ==
  IF new = NoUrl /\ old # NoUrl
  THEN src_changed(Written([t EXCEPT !.el.ignore = TRUE], old), old)
  ELSE src_changed(t, new)

setAttribute(t, new) ==
  IF new = t.el.attr THEN Written(t, new)
  ELSE webview_mutation_handler(Written(t, new), t.el.attr, new)

\* A script of the page writes src, NoUrl for its removal, and runs to its
\* end before the observer has the records of all its writes.
Assign(t, v) == IF v = NoUrl /\ t.el.attr = NoUrl THEN t ELSE setAttribute(t, v)

Scripts == UNION {[1..n -> Urls \union {NoUrl}] : n \in 1..MaxWrites}

Script(t, values) ==
  LET Write[i \in 0..Len(values)] ==
        IF i = 0 THEN t ELSE Assign(Write[i - 1], values[i])
  IN  Write[Len(values)]

\* The observer keeps to the records that end where they began.
src_observer_Deaf(t) == [t EXCEPT !.recs = <<>>]

src_observer(t) ==
  LET Observe[i \in 0..Len(t.recs)] ==
        IF i = 0 THEN t
        ELSE IF t.recs[i] # Observe[i - 1].el.attr THEN Observe[i - 1]
        ELSE webview_mutation_handler(Observe[i - 1], t.recs[i], t.recs[i])
  IN  [Observe[Len(t.recs)] EXCEPT !.recs = <<>>]

-----------------------------------------------------------------------------
(* Events of the guest. *)
did_attach(t, src) ==
  LET sized == api_setAutoSize(t)
  IN  IF src = NoUrl THEN sized ELSE api_loadUrl(sized, src)

did_commit_KeepsSrc(t, event) ==
  [t EXCEPT !.el.index = event.index, !.el.count = event.count]

did_commit(t, event) ==
  LET told == [t EXCEPT !.el.index = event.index, !.el.count = event.count]
  IN  IF event.url = t.el.attr THEN told
      ELSE setAttribute([told EXCEPT !.el.ignore = TRUE], event.url)

\* The page keeps a dialog to answer it later, or leaves it to be cancelled.
dialog_Dropped(t, d, kept) ==
  IF kept THEN [t EXCEPT !.el.held = @ \union {d}] ELSE t

dialog_CancelsToo(t, d, kept) ==
  Native(IF kept THEN [t EXCEPT !.el.held = @ \union {d}] ELSE t,
         "DialogClosed", d)

dialog(t, d, kept) ==
  IF kept THEN [t EXCEPT !.el.held = @ \union {d}]
          ELSE Native(t, "DialogClosed", d)

event_handler(t, m, kept) ==
  CASE m.kind = "did-attach"   -> did_attach(t, m.arg)
    [] m.kind = "did-commit"   -> did_commit(t, m.arg)
    [] m.kind = "zoom-changed" -> [t EXCEPT !.el.zoom = m.arg]
    [] m.kind = "dialog"       -> dialog(t, m.arg, kept)
    [] m.kind = "destroyed"    -> t

-----------------------------------------------------------------------------
(* The element enters and leaves the document. *)
attachedCallback(t) ==
  attr_src_parse([t EXCEPT !.el.attached = TRUE])

reset_KeepsId(t) == Native(t, "Destroy", NoUrl)

reset_Forgets(t) == [t EXCEPT !.el.guest = 0, !.el.first = TRUE]

reset(t) ==
  IF t.el.guest = 0 THEN t
  ELSE [Native(t, "Destroy", NoUrl) EXCEPT !.el.guest = 0, !.el.first = TRUE]

\* Without its box the plugin goes, and deletes itself a little later.
PluginGoes(t) ==
  [t EXCEPT !.el.dying = @ \union ({t.el.bound} \ {0}),
            !.el.bound = 0, !.el.plugin = FALSE]

detachedCallback(t) ==
  PluginGoes(reset([t EXCEPT !.el.attached = FALSE]))

internalbindings(t) ==
  IF is_plugin_in_render_tree(t) /\ t.el.guest # 0
  THEN PluginAttach(t, t.el.guest) ELSE t

-----------------------------------------------------------------------------
(* Steps of the renderer. *)
CreateWebViewGuest(g) ==
  \E zoom \in Zooms :
    /\ guests' = [guests EXCEPT ![g] = NewGuest(zoom)]
    /\ registered' = AddGuest(registered, g)

\* A callback runs to its end, the observer has its records, and what was
\* sent goes out.
Runs(turn) ==
  LET t == src_observer(turn)
  IN  /\ Running
      /\ el' = t.el
      /\ up' = up \o t.msgs
      /\ IF t.made
         THEN /\ up = <<>> /\ lastId < MaxGuests
              /\ lastId' = lastId + 1
              /\ CreateWebViewGuest(lastId')
         ELSE UNCHANGED <<guests, registered, lastId>>
      /\ UNCHANGED <<lastDialog, acts, zoomMap, embedder, crashed,
                     misanswered>>

\* The element is at rest with its guest, or is nothing yet.
Ready == el.guest = el.bound /\ (el.guest # 0 \/ el.first)

PageActs(times, turn, careful) ==
  /\ turns + times <= MaxTurns
  /\ turns' = turns + times
  /\ careless' = (careless \/ ~careful)
  /\ Runs(turn)
  /\ UNCHANGED down

PageDoes(turn, careful) == PageActs(1, turn, careful)

PageAttaches ==
  /\ ~el.attached
  /\ PageDoes(attachedCallback(Turn), registered = {} /\ down = <<>>)

PageDetaches ==
  el.attached /\ PageDoes(detachedCallback(Turn), Ready)

PageHides ==
  /\ el.attached /\ ~el.hidden
  /\ PageDoes(PluginGoes([Turn EXCEPT !.el.hidden = TRUE]), FALSE)

PageShows == el.hidden /\ PageDoes([Turn EXCEPT !.el.hidden = FALSE], TRUE)

PageSetsSrc(values) ==
  PageActs(Len(values), Script(Turn, values),
           el.attached /\ Ready /\ (el.guest # 0 \/ Len(values) = 1))

PageCalls ==
  /\ el.guest # 0
  /\ \/ \E method \in Calls : PageDoes(Native(Turn, method, NoUrl), Ready)
     \/ \E method \in ContentCalls :
          PageDoes(NativeOfContents(Turn, method), Ready)
     \/ \E offset \in Offsets : PageDoes(Native(Turn, "Go", offset), Ready)
     \/ \E zoom \in Zooms : PageDoes(Native(Turn, "SetZoom", zoom), Ready)

PageAnswers(d) ==
  /\ d \in el.held
  /\ PageDoes(Native([Turn EXCEPT !.el.held = @ \ {d}], "DialogClosed", d),
              Ready)

HandleEvent ==
  /\ down # <<>>
  /\ \E kept \in BOOLEAN :
       Runs(event_handler(Turn, Head(down), kept))
  /\ down' = Tail(down)
  /\ UNCHANGED <<turns, careless>>

PluginLoads ==
  /\ el.attached /\ ~el.hidden /\ ~el.plugin
  /\ Runs([Turn EXCEPT !.el.plugin = TRUE, !.el.timer = TRUE])
  /\ UNCHANGED <<down, turns, careless>>

TimerFires ==
  /\ el.timer
  /\ Runs(internalbindings([Turn EXCEPT !.el.timer = FALSE]))
  /\ UNCHANGED <<down, turns, careless>>

PluginDies ==
  \E g \in el.dying :
    /\ Runs(Send([Turn EXCEPT !.el.dying = @ \ {g}],
                 "PluginDestroyed", g, NoUrl))
    /\ UNCHANGED <<down, turns, careless>>

PageStep ==
  \/ PageAttaches \/ PageDetaches \/ PageHides \/ PageShows
  \/ \E values \in Scripts : PageSetsSrc(values)
  \/ PageCalls
  \/ \E d \in Dialogs : PageAnswers(d)

Next ==
  \/ GuestStep /\ UNCHANGED <<el, turns, careless>>
  \/ PageStep
  \/ HandleEvent \/ PluginLoads \/ TimerFires \/ PluginDies

Spec == Init /\ [][Next]_vars

\* The message loops of both processes run, and a navigation ends: as long as
\* a task is due, one runs.
NavigationEnds(g) ==
  /\ \/ DidStartLoading(g)
     \/ DidCommitProvisionalLoadForFrame(g) \/ DidFailProvisionalLoad(g)
  /\ UNCHANGED <<el, turns, careless>>

\* A task of either process that is due.
TaskRuns ==
  \/ BrowserHandles /\ UNCHANGED <<el, turns, careless>>
  \/ HandleEvent \/ PluginLoads \/ TimerFires \/ PluginDies
  \/ \E g \in Ids : NavigationEnds(g)

Fairness == WF_vars(TaskRuns)

FairSpec == Spec /\ Fairness

-----------------------------------------------------------------------------
TypeOK ==
  /\ guests \in [Ids -> Guest]
  /\ registered \subseteq Ids
  /\ lastId \in 0..MaxGuests /\ lastDialog \in 0..MaxDialogs
  /\ zoomMap \in [Urls -> Zooms]
  /\ embedder \in {"open", "gone"}
  /\ crashed \in {"no", "dead", "unattached"}
  /\ misanswered \in BOOLEAN
  /\ el \in Element
  /\ turns \in 0..MaxTurns /\ acts \in 0..MaxActs /\ careless \in BOOLEAN

\* A page that uses its element only while it is attached and its guest is in
\* place never makes the browser use a guest that is gone or has no window,
\* however its own events, those of the guest and the plugin's interleave.
CarefulPagesNeverCrash ==
  crashed # "no" /\ embedder = "open" => careless

\* No guest is left behind: one that is alive is its element's, or a message
\* that destroys it is under way, or the plugin that held it is about to send
\* it.
GuestsAccountedFor ==
  Running =>
    \A g \in Ids : guests[g].state = "live"
      => \/ g = el.guest \/ g \in el.dying
         \/ \E i \in 1..Len(up) : /\ up[i].guest = g
                                  /\ up[i].kind \in {"Destroy",
                                                     "PluginDestroyed"}

\* The flag that silences one change of src never waits for a later one.
IgnoreNeverStale == ~el.ignore

\* Once nothing is under way the element shows what its guest shows: the
\* attribute, the property and the history it bases canGoBack and
\* canGoForward on, unless the navigation asked for last has failed.
Quiet ==
  Running /\ up = <<>> /\ down = <<>> /\ el.guest # 0
    /\ guests[el.guest].pending = None

ElementSettles ==
  LET guest == guests[el.guest]
  IN  Quiet /\ guest.attached /\ guest.state = "live" /\ Url(guest) # NoUrl
        => /\ guest.failed \/ (el.attr = Url(guest) /\ el.src = Url(guest))
           /\ api_canGoBack(el) <=> CanGoToOffset(guest, -1)
           /\ api_canGoForward(el) <=> CanGoToOffset(guest, 1)

\* getZoom answers with the factor the page is shown at, however zooming and
\* navigating overlap.  (The next guest of an element starts from a factor
\* that nobody has set, and may keep quiet when that happens to be right.)
ZoomFollows ==
  LET guest == guests[el.guest]
  IN  Quiet /\ guest.attached /\ guest.state = "live" /\ lastId = 1
        /\ Url(guest) # NoUrl /\ ~guest.failed
        => el.zoom = zoomMap[Url(guest)]

\* Six events of any kind leave the sizes of a guest sound, and the request
\* that follows attachment turns the mode off.
AutoSizeSane ==
  LET some == {[w |-> 1, h |-> 1], [w |-> 2, h |-> 2], [w |-> 2, h |-> 0]}
      attributes == [autosize : BOOLEAN, min : some, max : some]
  IN  \A s \in Sizings(6, some, attributes) :
        /\ SizingSound(s)
        /\ s.attached => \A a \in attributes : ~AnswersDidAttach(s, a).enabled

\* Whatever the page, the links of the guest and the messages of the two
\* processes do to each other, the element ends up describing its guest.
ElementShowsGuest ==
  TypeOK /\ IgnoreNeverStale /\ ElementSettles /\ ZoomFollows /\ AutoSizeSane

\* The page's answer closes the dialog it was given for, unless the renderer
\* of the guest has crashed in the meantime or the page has taken the element
\* out of the document and back while it held the dialog.
AnswersReachTheirDialog ==
  misanswered => \/ \E g \in Ids : guests[g].crashes
                 \/ lastId > 1

\* docs/api/webview.md: writing to src navigates.  A script that writes src of
\* an element with a guest, as often as it likes, to the same address too, has
\* that guest asked for addresses src had in the meantime and for nothing
\* else, and for the last of them last; a single write asks once.  (A script
\* that leaves an address and comes back to it has it asked for again for
\* each record that says so.)  An address the guest itself went to is not
\* asked for again.
AssignmentsNavigate ==
  [][/\ \A values \in Scripts :
          PageSetsSrc(values) /\ el.guest # 0
            => /\ \A i \in (Len(up) + 1)..Len(up') :
                    /\ up'[i].kind = "LoadUrl" /\ up'[i].guest = el.guest
                    /\ up'[i].arg \in Range(values) \union {el.attr}
               /\ el'.attr # NoUrl
                    => Len(up') > Len(up) /\ up'[Len(up')].arg = el'.attr
               /\ Len(values) = 1 => Len(up') <= Len(up) + 1
     /\ HandleEvent /\ Head(down).kind = "did-commit"
          => Len(up') = Len(up)]_vars

\* An element in the document and on the screen has its guest attached.
GuestInPlace == careless \/ el.guest = 0 \/ el.bound = el.guest

\* docs/api/webview.md: the default behaviour is to cancel the dialog.  A
\* guest is frozen only by a dialog that the page keeps for itself.
Asked(d) == \E g \in Ids : guests[g].asking = d

NobodyFrozen == \A d \in Dialogs : Asked(d) => d \in el.held

\* Whatever the page does, the two processes come to a state where neither
\* the element waits for its guest nor the guest for an answer nobody is about
\* to give: attachment by plugin and timer, and dialogs nobody keeps, end.
NothingHangs == []<>(Running => GuestInPlace /\ NobodyFrozen)
=============================================================================
