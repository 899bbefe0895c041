---------------------------- MODULE ThrustWindow ----------------------------
(***************************************************************************)
(* src/browser/thrust_window.cc, its two platform halves                   *)
(* (thrust_window_views.cc and thrust_window_mac.mm) and                   *)
(* src/api/thrust_window_binding.cc: the life of a window, and what the    *)
(* client on the other side of the API learns of it.                       *)
(*                                                                         *)
(* A window owns a web contents and a native window and the two end apart: *)
(* the page may take its time, or refuse, before it lets itself be closed; *)
(* on Views the user destroys the native window first.  The object itself  *)
(* lives until the client deletes its binding.                             *)
(***************************************************************************)
EXTENDS Naturals, Sequences, FiniteSets, SequencesExt

CONSTANTS
  Windows,        \* the windows that may be created
  Platforms,      \* the builds: a subset of {"views", "mac"}
  Methods,        \* the methods the client calls
  MaxCalls        \* bound on the client's calls

NativeMethods == {"resize", "show", "focus", "blur", "maximize", "unmaximize",
                  "minimize", "restore", "fullscreen", "unfullscreen",
                  "kiosk", "unkiosk"}
ContentMethods == {"open_devtools", "close_devtools", "is_devtools_opened",
                   "remote"}

ASSUME WindowAssumption ==
  /\ Platforms \subseteq {"views", "mac"}
  /\ Methods \subseteq NativeMethods \union ContentMethods
  /\ MaxCalls \in Nat

VARIABLES
  platform,       \* the build that runs
  win,            \* the windows and what the client was told of each
  instances,      \* s_instances
  crashed,        \* the window through which a null pointer was used, if any
  calls           \* calls so far

vars == <<platform, win, instances, crashed, calls>>

NoWindow == "none"

Window == [
  obj        : {"none", "live", "freed"},
  bound      : BOOLEAN,   \* its binding is registered with the API
  frame      : BOOLEAN,   \* has_frame_
  contents   : BOOLEAN,   \* inspectable_web_contents_ is not null
  closed     : BOOLEAN,   \* is_closed_
  native     : BOOLEAN,   \* the native window has not been closed
  shown      : BOOLEAN,
  maximized  : BOOLEAN,
  minimized  : BOOLEAN,
  fullscreen : BOOLEAN,
  kiosk      : BOOLEAN,   \* is_kiosk_, used on the Mac only
  active     : BOOLEAN,
  devtools   : BOOLEAN,
  beforeunload : BOOLEAN, \* NeedToFireBeforeUnload of the page
  page       : {"idle", "beforeunload", "unload"},
  hung       : BOOLEAN,   \* what the hang monitor thinks of the renderer
  toldClosed : 0..2,      \* "closed" events the client was sent
  toldActive : BOOLEAN,   \* the last of its focus and blur events
  toldHung   : BOOLEAN ]  \* the last of unresponsive and responsive

Absent ==
  [obj |-> "none", bound |-> FALSE, frame |-> FALSE, contents |-> FALSE,
   closed |-> FALSE, native |-> FALSE, shown |-> FALSE, maximized |-> FALSE,
   minimized |-> FALSE, fullscreen |-> FALSE, kiosk |-> FALSE,
   active |-> FALSE, devtools |-> FALSE, beforeunload |-> FALSE,
   page |-> "idle", hung |-> FALSE, toldClosed |-> 0, toldActive |-> FALSE,
   toldHung |-> FALSE]

Init ==
  /\ platform \in Platforms
  /\ win = [w \in Windows |-> Absent]
  /\ instances = <<>>
  /\ crashed = NoWindow
  /\ calls = 0

-----------------------------------------------------------------------------
(* Events reach the client as long as its remote is there. *)
EmitClosed(x) ==
  IF x.bound THEN [x EXCEPT !.toldClosed = @ + 1] ELSE x

\* The native window is activated or loses the activation.  The Mac's
\* delegate returns before it emits when there is no web contents.
ViewsActivation_Silent(x, active) == [x EXCEPT !.active = active]

ViewsActivation(x, active) ==
  [x EXCEPT !.active = active,
            !.toldActive = IF x.bound THEN active ELSE @]

MacActivation(x, active) ==
  [x EXCEPT !.active = active,
            !.toldActive = IF x.bound /\ x.contents THEN active ELSE @]

-----------------------------------------------------------------------------
(* Closing. *)
AskPage(x) ==
  [x EXCEPT !.page = IF @ # "unload" /\ x.beforeunload THEN "beforeunload"
                     ELSE "unload"]

\* The widget is gone.  The Close this ends with finds is_closed_ set or the
\* contents alive, and a second CloseNow finds no native window.
DeleteDelegate(x) ==
  LET told == EmitClosed(x)
  IN  IF x.contents THEN AskPage(told) ELSE [told EXCEPT !.closed = TRUE]

ViewsCloseImmediately(x) ==
  IF x.native
  THEN DeleteDelegate([x EXCEPT !.native = FALSE, !.shown = FALSE,
                                !.active = FALSE])
  ELSE x

\* Emits whether or not the window was closed before.
windowWillClose(x) == EmitClosed(x)

MacCloseImmediately(x) ==
  windowWillClose([x EXCEPT !.native = FALSE, !.shown = FALSE, !.active = FALSE])

PlatformCloseImmediately(x) ==
  IF platform = "views" THEN ViewsCloseImmediately(x)
                        ELSE MacCloseImmediately(x)

CloseImmediately(x) ==
  IF x.closed THEN x
  ELSE PlatformCloseImmediately([x EXCEPT !.closed = TRUE])

DestroyWebContents(x) ==
  [x EXCEPT !.contents = FALSE, !.devtools = FALSE, !.page = "idle",
            !.hung = FALSE]

CloseContents_WindowStays(x) == DestroyWebContents(x)

CloseContents(x) == CloseImmediately(DestroyWebContents(x))

Close(x) == IF x.contents THEN AskPage(x) ELSE CloseImmediately(x)

-----------------------------------------------------------------------------
(* The platform's methods.  Views' widget does nothing once it is closed;  *)
(* an NSWindow that is closed and not released goes on obeying.            *)
ViewsMethod(method, x) ==
  CASE method = "resize"     -> x
    [] method = "show"       -> [x EXCEPT !.shown = TRUE]
    [] method = "focus"      -> ViewsActivation(x, TRUE)
    [] method = "blur"       -> ViewsActivation(x, FALSE)
    [] method = "maximize"   -> [x EXCEPT !.maximized = TRUE,
                                          !.minimized = FALSE]
    [] method \in {"unmaximize", "restore"}
                             -> [x EXCEPT !.maximized = FALSE,
                                          !.minimized = FALSE]
    [] method = "minimize"   -> [x EXCEPT !.minimized = TRUE]
    [] method \in {"fullscreen", "kiosk"}
                             -> [x EXCEPT !.fullscreen = TRUE]
    [] method \in {"unfullscreen", "unkiosk"}
                             -> [x EXCEPT !.fullscreen = FALSE]

MacSetKiosk(kiosk, x) ==
  IF kiosk = x.kiosk THEN x
  ELSE [x EXCEPT !.kiosk = kiosk, !.fullscreen = kiosk]

MacMethod(method, x) ==
  CASE method = "resize"   -> x
    [] method = "show"     -> MacActivation([x EXCEPT !.shown = TRUE], TRUE)
    [] method = "focus"    -> MacActivation([x EXCEPT !.shown = TRUE], TRUE)
    [] method = "blur"     -> x
    [] method \in {"maximize", "unmaximize"}
                           -> [x EXCEPT !.maximized = ~@]
    [] method = "minimize" -> [x EXCEPT !.minimized = TRUE]
    [] method = "restore"  -> [x EXCEPT !.minimized = FALSE]
    [] method = "fullscreen"   -> [x EXCEPT !.fullscreen = TRUE]
    [] method = "unfullscreen" -> [x EXCEPT !.fullscreen = FALSE]
    [] method = "kiosk"    -> MacSetKiosk(TRUE, x)
    [] method = "unkiosk"  -> MacSetKiosk(FALSE, x)

PlatformMethod(method, x) ==
  CASE platform = "mac"               -> MacMethod(method, x)
    [] platform = "views" /\ x.native -> ViewsMethod(method, x)
    [] OTHER                          -> x

ContentMethod(method, x) ==
  CASE method = "open_devtools"  -> [x EXCEPT !.devtools = TRUE]
    [] method = "close_devtools" -> [x EXCEPT !.devtools = FALSE]
    [] OTHER                     -> x

\* Methods that go through the web contents without asking whether it is
\* there; on the Mac a frameless window clips its web view when it resizes.
UsesContents(method, x) ==
  \/ method \in ContentMethods
  \/ method = "resize" /\ platform = "mac" /\ ~x.frame

\* The Mac's delegate releases itself when its window closes, and the window
\* goes on calling it.
UsesDelegate(method, x) ==
  /\ platform = "mac" /\ x.closed
  /\ method \in {"resize", "show", "focus", "kiosk", "unkiosk"}

-----------------------------------------------------------------------------
(* The client. *)
ClientActs == crashed = NoWindow /\ calls < MaxCalls /\ calls' = calls + 1

NewWindow(frame, beforeunload) ==
  [Absent EXCEPT !.obj = "live", !.bound = TRUE, !.frame = frame,
                 !.contents = TRUE, !.native = TRUE,
                 !.beforeunload = beforeunload]

Create(w) ==
  /\ ClientActs
  /\ win[w].obj = "none"
  /\ \E frame, beforeunload \in BOOLEAN :
       win' = [win EXCEPT ![w] = NewWindow(frame, beforeunload)]
  /\ instances' = Append(instances, w)
  /\ UNCHANGED <<platform, crashed>>

CallLocalMethod(w, method) ==
  /\ ClientActs
  /\ win[w].bound
  /\ \/ /\ UsesContents(method, win[w]) /\ ~win[w].contents
        /\ crashed' = w
        /\ UNCHANGED win
     \/ /\ UsesDelegate(method, win[w])
        /\ crashed' = w
        /\ UNCHANGED win
     \/ /\ UsesContents(method, win[w]) => win[w].contents
        /\ win' = [win EXCEPT ![w] =
                     IF method \in ContentMethods
                     THEN ContentMethod(method, @)
                     ELSE PlatformMethod(method, @)]
        /\ UNCHANGED crashed
  /\ UNCHANGED <<platform, instances>>

ClientCloses(w) ==
  /\ ClientActs
  /\ win[w].bound
  /\ win' = [win EXCEPT ![w] = Close(@)]
  /\ UNCHANGED <<platform, instances, crashed>>

\* The API forgets the binding and then destroys it, and the window with it.
Erase(w) == RemoveFirst(instances, w)

Delete(w) ==
  /\ ClientActs
  /\ win[w].bound
  /\ LET x == CloseImmediately([win[w] EXCEPT !.bound = FALSE])
     IN  win' = [win EXCEPT ![w] =
                   [DestroyWebContents(x) EXCEPT !.obj = "freed"]]
  /\ instances' = Erase(w)
  /\ UNCHANGED <<platform, crashed>>

-----------------------------------------------------------------------------
(* The user, the page and the hang monitor of the renderer. *)
Happens(w, x) ==
  /\ crashed = NoWindow
  /\ win' = [win EXCEPT ![w] = x]
  /\ UNCHANGED <<platform, instances, crashed, calls>>

UserCloses(w) ==
  /\ win[w].native /\ win[w].shown
  /\ Happens(w, IF platform = "views"
                THEN DeleteDelegate([win[w] EXCEPT !.native = FALSE,
                                                   !.shown = FALSE,
                                                   !.active = FALSE])
                ELSE Close(win[w]))

UserActivates(w) ==
  /\ win[w].native /\ win[w].shown
  /\ Happens(w, IF platform = "views"
                THEN ViewsActivation(win[w], ~win[w].active)
                ELSE MacActivation(win[w], ~win[w].active))

\* The dialog manager of a window lets every page go.
RunBeforeUnloadDialog(w) ==
  /\ win[w].page = "beforeunload"
  /\ Happens(w, [win[w] EXCEPT !.page = "unload"])

PageUnloads(w) ==
  /\ win[w].page = "unload"
  /\ Happens(w, CloseContents(win[w]))

\* window.close() in the page.
PageCloses(w) ==
  /\ win[w].contents
  /\ Happens(w, CloseContents(win[w]))

RendererUnresponsive(w) ==
  /\ win[w].contents /\ ~win[w].hung
  /\ Happens(w, [win[w] EXCEPT !.hung = TRUE, !.toldHung = TRUE])

RendererResponsive(w) ==
  /\ win[w].contents /\ win[w].hung
  /\ Happens(w, [win[w] EXCEPT !.hung = FALSE, !.toldHung = FALSE])

Next ==
  \E w \in Windows :
    \/ Create(w)
    \/ \E method \in Methods : CallLocalMethod(w, method)
    \/ ClientCloses(w)
    \/ Delete(w)
    \/ UserCloses(w)
    \/ UserActivates(w)
    \/ RunBeforeUnloadDialog(w)
    \/ PageUnloads(w)
    \/ PageCloses(w)
    \/ RendererUnresponsive(w)
    \/ RendererResponsive(w)

Spec == Init /\ [][Next]_vars

\* A renderer that is asked to unload its page does: it answers, or the
\* content layer gives up on it.
Fairness ==
  \A w \in Windows :
    WF_vars(RunBeforeUnloadDialog(w)) /\ WF_vars(PageUnloads(w))

FairSpec == Spec /\ Fairness

-----------------------------------------------------------------------------
TypeOK ==
  /\ platform \in Platforms
  /\ win \in [Windows -> Window]
  /\ instances \in Seq(Windows)
  /\ crashed \in Windows \union {NoWindow}
  /\ calls \in 0..MaxCalls

\* However a window ends (by its page, the client, the user, the deletion of
\* its binding, one after the other), the client reads at most one "closed".
ClosedOnce == \A w \in Windows : win[w].toldClosed <= 1

\* The client is never kept in the dark: a window whose contents is gone has
\* told it so, and therefore a call may only fall on missing contents after
\* the client could have read "closed".
ContentsGoneIsTold ==
  /\ \A w \in Windows : win[w].bound /\ ~win[w].contents
                          => win[w].closed /\ win[w].toldClosed > 0
  /\ crashed # NoWindow => win[crashed].toldClosed > 0

\* s_instances, through which guests find their window and menus find all of
\* them, holds exactly the windows alive, each once.
InstancesExact ==
  /\ \A i, j \in 1..Len(instances) : instances[i] = instances[j] => i = j
  /\ {instances[i] : i \in 1..Len(instances)} =
       {w \in Windows : win[w].obj = "live"}

\* What the client heard last of the focus and of the renderer is true, as
\* long as the window is on the screen and has contents.
ClientFollowsWindow ==
  \A w \in Windows : win[w].bound /\ win[w].native /\ win[w].contents
    => /\ win[w].toldActive = win[w].active
       /\ win[w].toldHung = win[w].hung

\* The client knows of every window what it needs to use it: whether it is
\* closed, told once, whether it is active, whether its renderer answers; and
\* so does the shell, by its list of windows.
ClientKnows ==
  /\ TypeOK
  /\ ClosedOnce /\ ContentsGoneIsTold /\ InstancesExact /\ ClientFollowsWindow

\* A window that is gone from the screen, or whose page was asked to go, does
\* get closed: no page survives its window for good.
ClosesEventually ==
  \A w \in Windows :
    (win[w].page # "idle" \/ (win[w].obj = "live" /\ ~win[w].native))
      ~> (win[w].closed \/ crashed # NoWindow)
=============================================================================
