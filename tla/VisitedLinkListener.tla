------------------------- MODULE VisitedLinkListener -------------------------
(***************************************************************************)
(* src/browser/visitedlink/visitedlink_event_listener.cc and               *)
(* src/renderer/visitedlink/visitedlink_slave.cc: how the renderers of a   *)
(* session learn which links to paint as visited.                          *)
(*                                                                         *)
(* The master's table lives in shared memory.  A renderer maps the table   *)
(* it was last told of and looks links up in it whenever it paints; it     *)
(* repaints a link that is on the page only when a message says so.  The   *)
(* listener collects additions for 100 ms and holds everything back from   *)
(* a renderer without a visible widget.                                    *)
(*                                                                         *)
(* The table is a set of links here (VisitedLinkMaster is its detail), and *)
(* every page shows every link.                                            *)
(***************************************************************************)
EXTENDS Naturals, FiniteSets, Sequences

CONSTANTS
  Renderers,      \* the renderer processes, by id
  Links,          \* the links in play
  Threshold,      \* kVisitedLinkBufferThreshold
  Operations,     \* the operations of the master that are called
  MaxOps          \* bound on them

ASSUME ListenerAssumption ==
  /\ Threshold \in Nat /\ MaxOps \in Nat
  /\ Operations \subseteq {"AddURL", "DeleteAllURLs", "DeleteURLs", "Rebuild"}

VARIABLES
  tables,         \* the contents of every shared memory so far, the last
                  \*   being that of the master
  pendingLinks,   \* pending_visited_links_
  timer,          \* whether coalesce_timer_ runs
  updaters,       \* the renderers with an updater: those that are alive
  resetNeeded,    \* reset_needed_ of each updater
  pending,        \* pending_ of each updater
  visible,        \* the renderers with a visible widget
  channel,        \* the messages sent to each renderer and not yet handled
  mapped,         \* the shared memory each renderer has mapped, 0 for none
  shown,          \* the links each renderer shows as visited
  deleting,       \* links DeleteURLs has announced and not yet deleted
  raced,          \* whether DeleteURLs was ever called (see ColoursCorrected)
  ops             \* operations so far

master == <<tables, deleting, raced, ops>>
listener == <<pendingLinks, timer, updaters, resetNeeded, pending, channel>>
pages == <<visible, mapped, shown>>
vars == <<master, listener, pages>>

Current == tables[Len(tables)]

NewTable(i)  == [kind |-> "NewTable", table |-> i, links |-> {}]
AddLinks(S)  == [kind |-> "Add", table |-> 0, links |-> S]
Reset        == [kind |-> "Reset", table |-> 0, links |-> {}]

Init ==
  /\ tables \in {<<S>> : S \in SUBSET Links}
  /\ pendingLinks = {} /\ timer = FALSE
  /\ updaters = {} /\ visible = {}
  /\ resetNeeded = [r \in Renderers |-> FALSE]
  /\ pending = [r \in Renderers |-> {}]
  /\ channel = [r \in Renderers |-> <<>>]
  /\ mapped = [r \in Renderers |-> 0]
  /\ shown = [r \in Renderers |-> {}]
  /\ deleting = {} /\ raced = FALSE /\ ops = 0
-----------------------------------------------------------------------------
(***************************************************************************)
(* VisitedLinkUpdater::Update for the renderers of a set, from the reset   *)
(* flags R and the buffers P of their updaters; sent is what the renderers *)
(* were sent just before.                                                  *)
(***************************************************************************)
Message(R, P, r) ==
  IF R[r] THEN <<Reset>> ELSE IF P[r] # {} THEN <<AddLinks(P[r])>> ELSE <<>>

Update(S, R, P, sent) ==
  LET Now == S \intersect visible
  IN  /\ channel' = [r \in Renderers |->
                       IF r \in Now THEN sent[r] \o Message(R, P, r)
                       ELSE sent[r]]
      /\ resetNeeded' = [r \in Renderers |-> R[r] /\ r \notin Now]
      /\ pending' = [r \in Renderers |->
                       IF r \in Now /\ ~R[r] THEN {} ELSE P[r]]

(* VisitedLinkEventListener::NewTable, if the master replaced its table:   *)
(* sent at once, visible or not.                                           *)
SendTable_Visible(replaced, i) ==
  [r \in Renderers |->
     IF replaced /\ r \in visible THEN Append(channel[r], NewTable(i))
     ELSE channel[r]]

SendTable(replaced, i) ==
  [r \in Renderers |->
     IF replaced /\ r \in updaters THEN Append(channel[r], NewTable(i))
     ELSE channel[r]]

(* The shared memory of the master after its table became S: the same, or  *)
(* a new one, the old one being what the master left it.                   *)
Replace(replaced, S) ==
  LET written == [tables EXCEPT ![Len(tables)] = S]
  IN  IF replaced THEN Append(written, S) ELSE written

Operation(op) ==
  /\ op \in Operations
  /\ ops < MaxOps /\ ops' = ops + 1
  /\ raced' = (raced \/ op = "DeleteURLs")
  /\ deleting = {}
  /\ UNCHANGED pages

(* AddURL of a new link, with Listener::Add, and maybe a resize.           *)
AddURL ==
  /\ Operation("AddURL")
  /\ \E l \in Links \ Current, replaced \in BOOLEAN :
       /\ tables' = Replace(replaced, Current \union {l})
       /\ pendingLinks' = pendingLinks \union {l} /\ timer' = TRUE
       /\ channel' = SendTable(replaced, Len(tables'))
  /\ UNCHANGED <<updaters, resetNeeded, pending, deleting>>

(* Listener::Reset: what was collected is dropped, AddReset and Update for *)
(* every updater.                                                          *)
ResetAll(sent) ==
  /\ pendingLinks' = {} /\ timer' = FALSE
  /\ Update(updaters,
            [r \in Renderers |-> r \in updaters \/ resetNeeded[r]],
            [r \in Renderers |-> IF r \in updaters THEN {} ELSE pending[r]],
            sent)

(* The table is emptied, maybe shrunk, and then the listener is told. *)
DeleteAllURLs ==
  /\ Operation("DeleteAllURLs")
  /\ \E replaced \in BOOLEAN :
       /\ tables' = Replace(replaced, {})
       /\ ResetAll(SendTable(replaced, Len(tables')))
  /\ UNCHANGED <<updaters, deleting>>

(* DeleteURLs tells the listener first and deletes afterwards; a renderer  *)
(* may handle the message in between.                                      *)
DeleteURLs ==
  /\ Operation("DeleteURLs")
  /\ \E S \in SUBSET Links \ {{}} : deleting' = S
  /\ ResetAll(channel)
  /\ UNCHANGED <<tables, updaters>>

FinishDeleteURLs ==
  /\ deleting # {} /\ deleting' = {}
  /\ \E replaced \in BOOLEAN :
       /\ tables' = Replace(replaced, Current \ deleting)
       /\ channel' = SendTable(replaced, Len(tables'))
  /\ UNCHANGED <<pendingLinks, timer, updaters, resetNeeded, pending,
                 raced, ops>>
  /\ UNCHANGED pages

(* OnTableRebuildComplete: the same links in a new table. *)
Rebuild ==
  /\ Operation("Rebuild")
  /\ tables' = Append(tables, Current)
  /\ channel' = SendTable(TRUE, Len(tables'))
  /\ UNCHANGED <<pendingLinks, timer, updaters, resetNeeded, pending, deleting>>
-----------------------------------------------------------------------------
(***************************************************************************)
(* The timer: every updater buffers the links, or gives up and asks for a  *)
(* reset when they are too many (VisitedLinkUpdater::AddLinks).            *)
(***************************************************************************)
Overflows(r) == Cardinality(pending[r]) + Cardinality(pendingLinks) > Threshold

Buffered_VisibleOnly(r) ==
  IF resetNeeded[r] \/ r \notin visible THEN pending[r]
  ELSE IF Overflows(r) THEN {} ELSE pending[r] \union pendingLinks

Buffered(r) ==
  IF resetNeeded[r] \/ r \notin updaters THEN pending[r]
  ELSE IF Overflows(r) THEN {} ELSE pending[r] \union pendingLinks

CommitVisitedLinks ==
  /\ deleting = {} /\ timer /\ timer' = FALSE
  /\ pendingLinks' = {}
  /\ Update(updaters,
            [r \in Renderers |->
               resetNeeded[r] \/ (r \in updaters /\ Overflows(r))],
            [r \in Renderers |-> Buffered(r)],
            channel)
  /\ UNCHANGED <<master, updaters, pages>>
-----------------------------------------------------------------------------
(***************************************************************************)
(* Observe.                                                                *)
(***************************************************************************)
ProcessCreated(r) ==
  /\ deleting = {} /\ r \notin updaters
  /\ updaters' = updaters \union {r}
  /\ resetNeeded' = [resetNeeded EXCEPT ![r] = FALSE]
  /\ pending' = [pending EXCEPT ![r] = {}]
  /\ channel' = [channel EXCEPT ![r] = <<NewTable(Len(tables))>>]
  /\ UNCHANGED <<master, pendingLinks, timer, pages>>

ProcessTerminated(r) ==
  /\ deleting = {} /\ r \in updaters
  /\ updaters' = updaters \ {r}
  /\ channel' = [channel EXCEPT ![r] = <<>>]
  /\ mapped' = [mapped EXCEPT ![r] = 0]
  /\ shown' = [shown EXCEPT ![r] = {}]
  /\ visible' = visible \ {r}
  /\ UNCHANGED <<master, pendingLinks, timer, resetNeeded, pending>>

Hide(r) ==
  /\ deleting = {} /\ r \in visible
  /\ visible' = visible \ {r}
  /\ UNCHANGED <<master, listener, mapped, shown>>

Show_NoUpdate(r) ==
  /\ deleting = {} /\ r \in updaters \ visible
  /\ visible' = visible \union {r}
  /\ UNCHANGED <<master, listener, mapped, shown>>

(* The widget count is raised before the notification is sent. *)
Show(r) ==
  /\ deleting = {} /\ r \in updaters \ visible
  /\ visible' = visible \union {r}
  /\ channel' = [channel EXCEPT ![r] = @ \o Message(resetNeeded, pending, r)]
  /\ resetNeeded' = [resetNeeded EXCEPT ![r] = FALSE]
  /\ pending' = [pending EXCEPT ![r] = IF resetNeeded[r] THEN @ ELSE {}]
  /\ UNCHANGED <<master, pendingLinks, timer, updaters, mapped, shown>>
-----------------------------------------------------------------------------
(***************************************************************************)
(* The renderer: VisitedLinkSlave, and the pages, which are outside src.   *)
(* No page is loaded before the first message, the table, is handled.      *)
(***************************************************************************)
Lookup(i) == IF i = 0 THEN {} ELSE tables[i]

Repaint(r, S, table) == (shown[r] \ S) \union (S \intersect Lookup(table))

OnControlMessageReceived(r) ==
  /\ channel[r] # <<>>
  /\ LET message == Head(channel[r])
         table == IF message.kind = "NewTable" THEN message.table ELSE mapped[r]
         again == IF message.kind = "Reset" \/ mapped[r] = 0 THEN Links
                  ELSE message.links
     IN  /\ mapped' = [mapped EXCEPT ![r] = table]
         /\ shown' = [shown EXCEPT ![r] = Repaint(r, again, table)]
  /\ channel' = [channel EXCEPT ![r] = Tail(@)]
  /\ UNCHANGED <<master, pendingLinks, timer, updaters, resetNeeded, pending,
                 visible>>

(* A page is laid out again, in part or as a whole, at any time. *)
Paint(r) ==
  /\ mapped[r] # 0
  /\ \E S \in SUBSET Links :
       shown' = [shown EXCEPT ![r] = Repaint(r, S, mapped[r])]
  /\ UNCHANGED <<master, listener, visible, mapped>>
-----------------------------------------------------------------------------
Next ==
  \/ AddURL \/ DeleteAllURLs \/ DeleteURLs \/ FinishDeleteURLs \/ Rebuild
  \/ CommitVisitedLinks
  \/ \E r \in Renderers :
       \/ ProcessCreated(r) \/ ProcessTerminated(r) \/ Hide(r) \/ Show(r)
       \/ OnControlMessageReceived(r) \/ Paint(r)

Spec == Init /\ [][Next]_vars

(* The timer fires, an operation under way ends, and a renderer that is    *)
(* alive handles its messages.                                             *)
Fairness ==
  /\ WF_vars(CommitVisitedLinks) /\ WF_vars(FinishDeleteURLs)
  /\ \A r \in Renderers : WF_vars(OnControlMessageReceived(r))

FairSpec == Spec /\ Fairness
-----------------------------------------------------------------------------
(***************************************************************************)
(* Properties.                                                             *)
(***************************************************************************)
Messages ==
  [kind : {"NewTable", "Add", "Reset"}, table : Nat, links : SUBSET Links]

(* The members have their types, and only a renderer with an updater, one  *)
(* of this session that is alive, is sent anything.                        *)
TypeOK ==
  /\ tables \in Seq(SUBSET Links) /\ Len(tables) > 0
  /\ pendingLinks \subseteq Links /\ timer \in BOOLEAN
  /\ updaters \subseteq Renderers /\ visible \subseteq updaters
  /\ resetNeeded \in [Renderers -> BOOLEAN]
  /\ pending \in [Renderers -> SUBSET Links]
  /\ channel \in [Renderers -> Seq(Messages)]
  /\ mapped \in [Renderers -> 0..Len(tables)]
  /\ shown \in [Renderers -> SUBSET Links]
  /\ deleting \subseteq Links /\ raced \in BOOLEAN /\ ops \in 0..MaxOps
  /\ \A r \in Renderers \ updaters :
       channel[r] = <<>> /\ mapped[r] = 0 /\ shown[r] = {}

(* A hidden renderer costs at most Threshold buffered links, and a reset   *)
(* stands for all of them.                                                 *)
BufferBounded ==
  \A r \in updaters :
    /\ Cardinality(pending[r]) <= Threshold
    /\ resetNeeded[r] => pending[r] = {}

(* The table a renderer has mapped after handling n of its messages.       *)
TableAfter(r, n) ==
  LET Tables == {i \in 1..n : channel[r][i].kind = "NewTable"}
  IN  IF Tables = {} THEN mapped[r]
      ELSE channel[r][CHOOSE i \in Tables : \A j \in Tables : j <= i].table

(* Whoever is alive has the master's table, or is being sent it: no        *)
(* renderer is left with shared memory that is no longer written to.       *)
NoRendererLeftBehind ==
  \A r \in updaters : TableAfter(r, Len(channel[r])) = Len(tables)

(* A message under way makes r look l up again in a table that agrees with *)
(* that of the master on l.                                                *)
MessageRepaints(r, l) ==
  \E n \in DOMAIN channel[r] :
    /\ \/ channel[r][n].kind = "Reset" \/ l \in channel[r][n].links
       \/ TableAfter(r, n - 1) = 0
    /\ l \in Lookup(TableAfter(r, n)) <=> l \in Current

(* Whenever a page shows a link wrongly, what corrects it is on its way:   *)
(* collected and waiting for a timer that runs, held back by the updater   *)
(* until the renderer is visible, or sent.  Nothing is forgotten when      *)
(* buffers overflow, tables are replaced or renderers are hidden.          *)
ChangesAnnounced ==
  deleting = {} =>
    \A r \in updaters, l \in Links :
      \/ l \in shown[r] <=> l \in Current
      \/ timer /\ l \in pendingLinks
      \/ resetNeeded[r] \/ l \in pending[r]
      \/ MessageRepaints(r, l)

(* The same of the operations that announce a change once it is made: all  *)
(* but DeleteURLs, whose reset may be handled before the deletion.         *)
ColoursCorrected == raced \/ ChangesAnnounced

(* A renderer that stays visible comes to show the master's links, again   *)
(* unless a DeleteURLs was raced.                                          *)
EventuallyPainted ==
  \A r \in Renderers :
    <>[](r \in visible) => <>[](raced \/ shown[r] = Current)

(* Whatever is shown, hidden, created or terminated: messages go only to   *)
(* renderers of the session, which are left neither with a table out of    *)
(* use nor with a buffer that grows.                                       *)
EveryRendererServed == TypeOK /\ BufferBounded /\ NoRendererLeftBehind
=============================================================================
