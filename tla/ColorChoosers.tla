--------------------------- MODULE ColorChoosers ---------------------------
(***************************************************************************)
(* Colour choosers of the pages, on the three platforms.                   *)
(*                                                                         *)
(* A page asks for a chooser; its web contents asks the window for one     *)
(* (OpenColorChooser), owns it and deletes it when it is told of its end.  *)
(* Windows has one at a time, whose native dialog runs on a thread of its  *)
(* own and cannot be closed by the program; OS X has one shared panel,     *)
(* which the next chooser takes over; Aura has a widget for each.          *)
(* A request, its chooser and its native dialog have the same number.      *)
(***************************************************************************)
EXTENDS Integers, FiniteSets

CONSTANTS
  Contents,    \* web contents, of windows and of guests
  Platforms,   \* {"win", "mac", "aura"}
  MaxRequests, \* bound: requests of the pages
  MaxReports   \* bound: reports of the program's changes on their way (OS X)

VARIABLES
  platform,
  alive,   \* web contents not yet destroyed
  page,    \* of each request, the web contents that made it, once made
  ui,      \* what the UI thread keeps, a record
  panel,   \* OS X: the shared panel, a record
  dialog,  \* of each native dialog: "none", "showing", "chosen", "cancelled"
           \* (answered, the task on its way to the UI thread) or "gone"
  picked,  \* requests in whose dialog the user picked a colour
  custom,  \* Windows: custom_colors_ of each dialog, and g_custom_colors
  overlapped  \* Windows: two dialogs were on screen at the same time

chooserVars ==
  <<platform, alive, page, ui, panel, dialog, picked, custom, overlapped>>

Requests == 1..MaxRequests
Nobody == 0

ASSUME ColorChoosersAssumption ==
  /\ Nobody \notin Contents
  /\ Platforms \subseteq {"win", "mac", "aura"}
  /\ MaxRequests \in Nat /\ MaxReports \in Nat

Made == {r \in Requests : page[r] # Nobody}
Showing == {r \in Requests : dialog[r] = "showing"}
Live(s) == {r \in Requests : s.chooser[r] = "live"}

(* ui.current  current_color_chooser_ (Windows, OS X)                      *)
(* ui.target   the chooser to which the shared panel reports (OS X)        *)
(* ui.told     choosers whose dialog or widget still has its listener      *)
(* ui.info     the chooser each web contents owns                          *)
(* ui.received what pages were given, as <<request, colour>>: a colour is  *)
(*             the request in whose dialog it was picked, Nobody if the    *)
(*             program set it                                              *)
(* ui.ended    requests whose page was told of the end                     *)
(* ui.nonUserChange  the flag of the target: not to pass the next report   *)
(* ui.dangling a chooser was used after its deletion                       *)
(*                                                                         *)
(* panel.shown   the colour the panel shows, which its reports read        *)
(* panel.reports its reports of changes by the program, on their way       *)
(* panel.crossed two of them were on their way at the same time            *)

-----------------------------------------------------------------------------
(* The web contents (external): it deletes the chooser when it hears of    *)
(* its end, and gives a colour to the page whose chooser it owns.          *)

DidEndColorChooser(s, c) ==
  IF s.info[c] = Nobody THEN s
  ELSE [s EXCEPT !.ended = @ \cup {s.info[c]},
                 !.chooser[s.info[c]] = "deleted", !.info[c] = Nobody]

DidChooseColor(s, c, colour) ==
  IF s.info[c] = Nobody THEN s
  ELSE [s EXCEPT !.received = @ \cup {<<s.info[c], colour>>}]

Use(s, r) == [s EXCEPT !.dangling = @ \/ s.chooser[r] # "live"]

-----------------------------------------------------------------------------
(* The choosers. *)

\* ColorChooserDialog::ListenerDestroyed, ColorChooserView::set_listener,
\* [ColorPanelCocoa dealloc]
Silence_ForgetsListener(s, r) == s

Silence(s, r) ==
  [s EXCEPT !.told = @ \ {r},
            !.target = IF @ = r THEN Nobody ELSE @]

\* ColorChooserWin::OnColorChooserDialogClosed, ColorChooserMac::End,
\* ColorChooserAura::End and OnColorChooserDialogClosed
End_TellsNobody(s, r) ==
  LET t == Silence(Use(s, r), r) IN
  IF platform = "aura" THEN t ELSE [t EXCEPT !.current = Nobody]

End(s, r) ==
  LET t == Silence(Use(s, r), r) IN
  DidEndColorChooser(
    IF platform = "aura" THEN t ELSE [t EXCEPT !.current = Nobody], page[r])

OnColorChosen(s, r, colour) == DidChooseColor(Use(s, r), page[r], colour)

\* The panel is given a colour by the program; it may report the change, at
\* some later time, or not.
SetColor(p) ==
  {[shown |-> Nobody, reports |-> n, crossed |-> p.crossed \/ n > 1] :
     n \in {p.reports, p.reports + 1} \cap 0..MaxReports}

\* The constructors; the one of OS X gives the panel the page's first colour.
NewChooser(s, r) ==
  [s EXCEPT !.chooser[r] = "live",
            !.told = @ \cup {r},
            !.target = IF platform = "mac" THEN r ELSE @,
            !.nonUserChange = (platform = "mac"),
            !.current = IF platform = "aura" THEN @ ELSE r]

\* What ShowColorChooser does before it makes a chooser, and when it does not.
Refused == platform = "win" /\ ui.current # Nobody

MakeRoom(s) ==
  IF platform = "mac" /\ s.current # Nobody THEN End(s, s.current) ELSE s

-----------------------------------------------------------------------------

ChooserInit ==
  /\ platform \in Platforms
  /\ alive = Contents
  /\ page = [r \in Requests |-> Nobody]
  /\ ui = [chooser |-> [r \in Requests |-> "none"],
           info |-> [c \in Contents |-> Nobody],
           current |-> Nobody, target |-> Nobody, told |-> {},
           received |-> {}, ended |-> {}, nonUserChange |-> FALSE,
           dangling |-> FALSE]
  /\ panel = [shown |-> Nobody, reports |-> 0, crossed |-> FALSE]
  /\ dialog = [r \in Requests |-> "none"]
  /\ picked = {}
  /\ custom = [r \in 0..MaxRequests |-> {}]  \* 0 is g_custom_colors
  /\ overlapped = FALSE

\* A new chooser takes the panel over; on Aura the widget of a chooser that
\* was ended is closed.
Replaces(s, d) ==
  platform = "mac" \/ (platform = "aura" /\ s.chooser[d] = "deleted")

\* A page asks for a chooser.  Its web contents, once it has the new one, ends
\* the one it owned.
OpenColorChooser(c) ==
  \E r \in Requests :
    /\ c \in alive /\ Made = 1..(r - 1)
    /\ page' = [page EXCEPT ![r] = c]
    /\ IF platform = "mac" THEN panel' \in SetColor(panel) ELSE UNCHANGED panel
    /\ IF Refused THEN UNCHANGED <<ui, dialog, custom, overlapped>>
       ELSE LET s == NewChooser(MakeRoom(ui), r)
                t == IF s.info[c] = Nobody THEN s ELSE End(s, s.info[c])
            IN  /\ ui' = [t EXCEPT !.info[c] = r]
                /\ dialog' = [d \in Requests |->
                     IF d = r THEN "showing"
                     ELSE IF dialog[d] = "showing" /\ Replaces(t, d)
                     THEN "gone" ELSE dialog[d]]
                /\ custom' = IF platform = "win"
                             THEN [custom EXCEPT ![r] = custom[0]] ELSE custom
                /\ overlapped' = (overlapped \/
                     \E d \in Requests : dialog[d] \notin {"none", "gone"})
    /\ UNCHANGED <<platform, alive, picked>>

\* A chooser is ended from the side of its web contents: on Aura its widget is
\* closed, the dialog of Windows and the panel of OS X stay on the screen.
EndedByContents(c) ==
  /\ ui' = IF ui.info[c] = Nobody THEN ui ELSE End(ui, ui.info[c])
  /\ dialog' = IF ui.info[c] = Nobody \/ platform # "aura" THEN dialog
               ELSE [dialog EXCEPT ![ui.info[c]] = "gone"]
  /\ UNCHANGED <<platform, page, panel, picked, custom, overlapped>>

\* The page ends its request, navigates or is closed with its web contents.
PageEnds(c) ==
  c \in alive /\ ui.info[c] # Nobody /\ EndedByContents(c) /\ UNCHANGED alive

ContentsDestroyed(c) ==
  c \in alive /\ alive' = alive \ {c} /\ EndedByContents(c)

\* The page sets the colour its chooser shows: on OS X through the panel.
SetSelectedColor(c) ==
  /\ c \in alive /\ ui.info[c] # Nobody /\ platform = "mac"
  /\ ui' = [Use(ui, ui.info[c]) EXCEPT !.nonUserChange = TRUE]
  /\ panel' \in SetColor(panel)
  /\ UNCHANGED <<platform, alive, page, dialog, picked, custom, overlapped>>

\* didChooseColor: of the panel that shows a colour: the report that follows a
\* change by the program is taken for the one of that change.
Report_EchoesPass(s, colour) ==
  IF s.target = Nobody THEN s ELSE OnColorChosen(s, s.target, colour)

Report(s, colour) ==
  IF s.target = Nobody THEN s
  ELSE IF s.nonUserChange THEN [s EXCEPT !.nonUserChange = FALSE]
  ELSE OnColorChosen(s, s.target, colour)

\* A report of a change by the program arrives, to whoever is the target now.
PanelEchoes ==
  /\ panel.reports > 0
  /\ panel' = [panel EXCEPT !.reports = @ - 1]
  /\ ui' = Report(ui, panel.shown)
  /\ UNCHANGED <<platform, alive, page, dialog, picked, custom, overlapped>>

\* The user picks a colour and leaves the panel or the widget open.
UserPicks(r) ==
  /\ platform # "win" /\ r \in Showing
  /\ picked' = picked \cup {r}
  /\ panel' = IF platform = "mac" THEN [panel EXCEPT !.shown = r] ELSE panel
  /\ ui' = IF platform = "mac" THEN Report(ui, r)
           ELSE IF r \in ui.told THEN OnColorChosen(ui, r, r) ELSE ui
  /\ UNCHANGED <<platform, alive, page, dialog, custom, overlapped>>

\* The user closes the panel (windowWillClose:) or the widget.
UserCloses(r) ==
  /\ platform # "win" /\ r \in Showing
  /\ dialog' = [dialog EXCEPT ![r] = "gone"]
  /\ ui' = IF r \in ui.told THEN End([ui EXCEPT !.nonUserChange = FALSE], r) ELSE ui
  /\ UNCHANGED <<platform, alive, page, panel, picked, custom, overlapped>>

\* ExecuteOpen: ChooseColor returns on the dialog's thread, which posts the
\* outcome.  The user may have added a custom colour in either case.
ExecuteOpen(r) ==
  /\ platform = "win" /\ r \in Showing
  /\ \E chose \in BOOLEAN :
       /\ dialog' = [dialog EXCEPT ![r] = IF chose THEN "chosen" ELSE "cancelled"]
       /\ picked' = IF chose THEN picked \cup {r} ELSE picked
  /\ custom' \in {custom, [custom EXCEPT ![r] = @ \cup {r}]}
  /\ UNCHANGED <<platform, alive, page, ui, panel, overlapped>>

DidCloseDialog(r) ==
  /\ dialog[r] \in {"chosen", "cancelled"}
  /\ dialog' = [dialog EXCEPT ![r] = "gone"]
  /\ custom' = [custom EXCEPT ![0] = custom[r]]
  /\ ui' = IF r \notin ui.told THEN ui
           ELSE End(IF dialog[r] = "chosen" THEN OnColorChosen(ui, r, r) ELSE ui, r)
  /\ UNCHANGED <<platform, alive, page, panel, picked, overlapped>>

ChooserNext ==
  \/ \E c \in Contents :
       \/ OpenColorChooser(c) \/ PageEnds(c) \/ ContentsDestroyed(c)
       \/ SetSelectedColor(c)
  \/ PanelEchoes
  \/ \E r \in Requests :
       \/ UserPicks(r) \/ UserCloses(r) \/ ExecuteOpen(r) \/ DidCloseDialog(r)

ChooserSpec == ChooserInit /\ [][ChooserNext]_chooserVars

\* The user closes what is on the screen, and the UI thread runs its tasks.
ChooserFairSpec ==
  /\ ChooserSpec
  /\ \A r \in Requests :
       WF_chooserVars(UserCloses(r)) /\ WF_chooserVars(ExecuteOpen(r)) /\ WF_chooserVars(DidCloseDialog(r))

-----------------------------------------------------------------------------

\* Types of the variables; the panel belongs to OS X, the static pointer to
\* the platforms that have one chooser in all.
ChooserTypeOK ==
  /\ platform \in Platforms /\ alive \subseteq Contents
  /\ page \in [Requests -> Contents \cup {Nobody}]
  /\ ui.chooser \in [Requests -> {"none", "live", "deleted"}]
  /\ ui.info \in [Contents -> 0..MaxRequests]
  /\ {ui.current, ui.target} \subseteq 0..MaxRequests
  /\ UNION {ui.told, ui.ended, picked} \subseteq Requests
  /\ ui.received \subseteq Requests \X (0..MaxRequests)
  /\ panel \in [shown : 0..MaxRequests, reports : 0..MaxReports, crossed : BOOLEAN]
  /\ dialog \in [Requests -> {"none", "showing", "chosen", "cancelled", "gone"}]
  /\ custom \in [0..MaxRequests -> SUBSET Requests]
  /\ {ui.nonUserChange, ui.dangling, overlapped} \subseteq BOOLEAN
  /\ platform # "mac" => ui.target = Nobody /\ ~ui.nonUserChange /\ panel.reports = 0
  /\ platform = "aura" => ui.current = Nobody

\* Nothing ever points to a chooser that was deleted: not the static pointer,
\* not the dialog of another thread, not the shared panel, not a widget; and a
\* chooser is owned by the web contents that asked for it, which is alive.
PointersLive ==
  /\ ~ui.dangling
  /\ ({ui.current, ui.target} \cup ui.told) \ {Nobody} \subseteq Live(ui)
  /\ \A r \in Live(ui) : page[r] \in alive /\ ui.info[page[r]] = r

\* Windows and OS X have one chooser in all, which is the one the static
\* pointer names; Aura one for each web contents.
OneChooser ==
  IF platform = "aura" THEN \A r, q \in Live(ui) : page[r] = page[q] => r = q
  ELSE Live(ui) = {ui.current} \ {Nobody}

\* A page is given only a colour the user picked in the dialog opened for its
\* own request, however late a dialog that outlived its chooser is answered or
\* a report of the shared panel arrives, and whoever had the panel before.  A
\* colour that the program itself gave to the panel comes back as a choice of
\* the user only after two reports of such changes were on their way together:
\* nonUserChange_ then stands for one of them.
ColoursReachTheirPage ==
  \A given \in ui.received :
    \/ given[2] = given[1] /\ given[1] \in picked
    \/ given[2] = Nobody /\ panel.crossed

\* The custom colours of dialogs that were never on the screen together are
\* there for the dialogs that follow.
CustomColoursKept ==
  \/ overlapped
  \/ \A r, q \in Requests :
       (dialog[r] = "gone" /\ dialog[q] # "none" /\ q > r) =>
         custom[r] \subseteq custom[q]

\* Every chooser ends: the user closes its dialog, and its page is told.
ChoosersEnd == \A r \in Requests : (r \in Live(ui)) ~> (r \in ui.ended)

\* Choosers are owned, found and forgotten rightly, however late their native
\* dialogs are answered.
ChoosersSound == ChooserTypeOK /\ PointersLive /\ OneChooser

\* Colours go where they were picked for, and stay for the dialogs to come.
ColoursKept == ColoursReachTheirPage /\ CustomColoursKept
=============================================================================
