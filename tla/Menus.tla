------------------------------- MODULE Menus -------------------------------
(***************************************************************************)
(* Menus on X11: the menus of the client, the application menu, the global *)
(* menu bar of each window, context menus, and the registrar on D-Bus that *)
(* is told which windows have a bar.                                       *)
(*                                                                         *)
(* A bar copies the items of a model when it is built, and each of its     *)
(* items keeps a pointer to the model and an index into it.  A model keeps *)
(* pointers to the models of its submenus.  Nothing clears these pointers  *)
(* when a menu is deleted or cleared: "careless" records that the client   *)
(* did so with a menu in use.  A context menu runs a nested message loop   *)
(* inside the call that opened it.                                         *)
(***************************************************************************)
EXTENDS Integers, Sequences, FiniteSets

CONSTANTS
  Menus, Windows, Commands,
  None,         \* no menu, no bar, no context menu
  MaxItems,     \* bound: items of a menu
  MaxCalls,     \* bound: calls of the client
  MaxRestarts,  \* bound: changes of the registrar's owner
  Workloads     \* {"menus", "registrar"}: what a behaviour is about

ASSUME MenusAssumption ==
  /\ IsFiniteSet(Menus) /\ None \notin Menus
  /\ IsFiniteSet(Windows) /\ Windows \subseteq Int
  /\ {MaxItems, MaxCalls, MaxRestarts} \subseteq Nat

VARIABLES
  menu,      \* of each menu, whether it is "alive" and its items
  app,       \* application_menu_
  win,       \* "absent", "open", "closed" or "deleted"
  bar,       \* global_menu_bar_: what it shows, or None
  popup,     \* the menu PlatformPopup runs, or None
  careless,  \* the client broke a menu in use
  mistaken,  \* a command was executed that was not the one shown
  crashed,   \* "no", or what was followed into nothing
  calls,
  \* the registrar
  proxy,     \* registrar_proxy_: "none", "pending", "ready" or "failed"
  live,      \* live_xids_
  owner,     \* the owner of the registrar's name, a number, 0 for nobody
  known,     \* the owner the proxy knows
  bus,       \* calls on their way to the registrar
  registered, \* what the registrar knows
  restarts,
  workload

menuVars == <<menu, app, popup>>
barVars == <<win, bar>>
faults == <<careless, mistaken, crashed>>
busVars == <<proxy, live, owner, known, bus, registered, restarts>>
vars == <<menuVars, barVars, faults, calls, busVars, workload>>

Alive(m) == menu[m].state = "alive"
Item(c, s) == [cmd |-> c, sub |-> s]

-----------------------------------------------------------------------------
(* GlobalMenuBarRegistrarX11. *)

Call(op, w, to) == [op |-> op, window |-> w, to |-> to]

InOrder(op, ws, to) ==
  [i \in 1..Cardinality(ws) |->
     Call(op, CHOOSE w \in ws : Cardinality({v \in ws : v <= w}) = i, to)]

\* Mapping a window makes the singleton, and with it the proxy is asked for.
OnWindowMapped_ReadyOnly(ws) ==
  /\ live' = IF proxy = "ready" THEN live \cup ws ELSE live
  /\ proxy' = IF ws # {} /\ proxy = "none" THEN "pending" ELSE proxy
  /\ bus' = IF proxy = "ready" THEN bus \o InOrder("register", ws, known) ELSE bus
  /\ UNCHANGED <<owner, known, registered, restarts>>

OnWindowMapped(ws) ==
  /\ live' = live \cup ws
  /\ proxy' = IF ws # {} /\ proxy = "none" THEN "pending" ELSE proxy
  /\ bus' = IF proxy = "ready" THEN bus \o InOrder("register", ws, known) ELSE bus
  /\ UNCHANGED <<owner, known, registered, restarts>>

OnWindowUnmapped(ws) ==
  /\ live' = live \ ws
  /\ bus' = IF proxy = "ready" THEN bus \o InOrder("unregister", ws, known) ELSE bus
  /\ UNCHANGED <<proxy, owner, known, registered, restarts>>

\* OnNameOwnerChanged registers every window mapped; OnProxyCreated, when
\* there is no error, ends with it.
RegisterAll ==
  /\ known' = owner
  /\ bus' = bus \o InOrder("register", live, owner)

OnProxyCreated ==
  /\ proxy = "pending"
  /\ \/ proxy' = "failed" /\ UNCHANGED <<known, bus>>
     \/ proxy' = "ready" /\ RegisterAll
  /\ UNCHANGED <<live, owner, registered, restarts>>

\* The registrar starts, or ends with all it knew.
OwnerChanges ==
  /\ restarts < MaxRestarts
  /\ restarts' = restarts + 1
  /\ owner' = IF owner = 0 THEN restarts + 1 ELSE 0
  /\ registered' = {}
  /\ UNCHANGED <<proxy, live, known, bus>>

OnNameOwnerChanged ==
  /\ proxy = "ready" /\ known # owner
  /\ RegisterAll
  /\ UNCHANGED <<proxy, live, owner, registered, restarts>>

\* A call reaches the owner it was sent to, if that one is still there.
Delivered ==
  /\ bus # <<>>
  /\ bus' = Tail(bus)
  /\ LET c == Head(bus) IN
     registered' = IF c.to = 0 \/ c.to # owner THEN registered
                   ELSE IF c.op = "register" THEN registered \cup {c.window}
                   ELSE registered \ {c.window}
  /\ UNCHANGED <<proxy, live, owner, known, restarts>>

RegistrarStep ==
  /\ workload = "registrar"
  /\ OnProxyCreated \/ OwnerChanges \/ OnNameOwnerChanged \/ Delivered
  /\ UNCHANGED <<menuVars, barVars, faults, calls, workload>>

-----------------------------------------------------------------------------
(* Bars. *)

\* A list of a bar: the model it was built from and its items as they were.
BuildMenuFromModel(m) == [model |-> m, items |-> menu[m].items]

InstancesOf(states) == {w \in Windows : win[w] \in states}
Instances == InstancesOf({"open", "closed"})

\* The bar of a window without a native window cannot be made.
NeedsWindow(ws) == \E w \in ws : bar[w] = <<>> /\ win[w] = "closed"

\* AttachMenu for the windows ws: those that have no bar get one.
AttachMenu(ws, m) ==
  /\ bar' = [w \in Windows |-> IF w \in ws THEN <<BuildMenuFromModel(m)>> ELSE bar[w]]
  /\ OnWindowMapped({w \in ws : bar[w] = <<>>})

DetachMenu(ws) ==
  /\ bar' = [w \in Windows |-> IF w \in ws THEN <<>> ELSE bar[w]]
  /\ OnWindowUnmapped({w \in ws : bar[w] # <<>>})

-----------------------------------------------------------------------------
(* What is in use. *)

Subs(m) == {menu[m].items[i].sub : i \in DOMAIN menu[m].items} \ {None}

\* The menus below m, and m: those that are in every set that has m and, with
\* a menu, its submenus.
Tree(m) ==
  {x \in Menus : \A ms \in SUBSET Menus :
     m \in ms /\ (\A y \in ms : Subs(y) \subseteq ms) => x \in ms}

Cyclic(m) == \E s \in Subs(m) : m \in Tree(s)

Shown(m) == \E w \in Windows : \E i \in DOMAIN bar[w] : bar[w][i].model = m
Above(m) == {x \in Menus : Alive(x) /\ m \in Subs(x)}
Popped(m) == popup # None /\ m \in Tree(popup)

-----------------------------------------------------------------------------

Init ==
  /\ menu = [m \in Menus |-> [state |-> "absent", items |-> <<>>]]
  /\ app = None /\ popup = None
  /\ win = [w \in Windows |-> "absent"] /\ bar = [w \in Windows |-> <<>>]
  /\ careless = FALSE /\ mistaken = FALSE /\ crashed = "no"
  /\ calls = 0
  /\ proxy = "none" /\ live = {} /\ known = 0 /\ bus = <<>> /\ registered = {}
  /\ restarts = 0
  /\ workload \in Workloads
  /\ owner \in IF workload = "registrar" THEN {0, -1} ELSE {0}

(* Calls of the client. *)
ClientCalls ==
  /\ crashed = "no" /\ calls < MaxCalls /\ calls' = calls + 1
  /\ UNCHANGED <<mistaken, workload>>
Crash(why) == crashed' = why /\ UNCHANGED <<menuVars, barVars, busVars, careless>>

CreateMenu(m) ==
  /\ ClientCalls /\ menu[m].state = "absent"
  /\ menu' = [menu EXCEPT ![m].state = "alive"]
  /\ UNCHANGED <<app, popup, barVars, busVars, careless, crashed>>

AddItem(m, c) ==
  /\ ClientCalls /\ workload = "menus" /\ Alive(m) /\ Len(menu[m].items) < MaxItems
  /\ menu' = [menu EXCEPT ![m].items = Append(@, Item(c, None))]
  /\ UNCHANGED <<app, popup, barVars, busVars, careless, crashed>>

\* A menu that is not found is an error and changes nothing.
AddSubMenu(m, s, c) ==
  /\ ClientCalls /\ workload = "menus" /\ Alive(m) /\ Alive(s)
  /\ Len(menu[m].items) < MaxItems
  /\ menu' = [menu EXCEPT ![m].items = Append(@, Item(c, s))]
  /\ careless' = (careless \/ m \in Tree(s))
  /\ UNCHANGED <<app, popup, barVars, busVars, crashed>>

Clear(m) ==
  /\ ClientCalls /\ workload = "menus" /\ Alive(m) /\ menu[m].items # <<>>
  /\ menu' = [menu EXCEPT ![m].items = <<>>]
  /\ careless' = (careless \/ Shown(m) \/ Popped(m))
  /\ UNCHANGED <<app, popup, barVars, busVars, crashed>>

\* SetApplicationMenu walks every window that is not deleted.
SetApplicationMenu(m) ==
  /\ ClientCalls /\ Alive(m)
  /\ IF NeedsWindow(Instances) THEN Crash("window")
     ELSE /\ app' = m
          /\ AttachMenu(Instances, m)
          /\ UNCHANGED <<menu, popup, win, careless, crashed>>

\* ~ThrustMenu.  A menu other than the application menu leaves the bars as
\* they are.
DeleteMenu_NoCleanup(m) ==
  /\ ClientCalls /\ Alive(m)
  /\ menu' = [menu EXCEPT ![m] = [state |-> "deleted", items |-> <<>>]]
  /\ careless' = (careless \/ Above(m) # {} \/ Popped(m) \/ (m # app /\ Shown(m)))
  /\ app' = IF m = app THEN None ELSE app
  /\ UNCHANGED <<popup, win, bar, busVars, crashed>>

DeleteMenu(m) ==
  /\ ClientCalls /\ Alive(m)
  /\ menu' = [menu EXCEPT ![m] = [state |-> "deleted", items |-> <<>>]]
  /\ careless' = (careless \/ Above(m) # {} \/ Popped(m) \/ (m # app /\ Shown(m)))
  /\ IF m = app THEN app' = None /\ DetachMenu(Instances)
                ELSE UNCHANGED <<app, bar, busVars>>
  /\ UNCHANGED <<popup, win, crashed>>

\* A window made while there is an application menu shows it.
CreateWindow_NoMenu(w) ==
  /\ ClientCalls /\ win[w] = "absent"
  /\ win' = [win EXCEPT ![w] = "open"]
  /\ UNCHANGED <<menuVars, bar, busVars, careless, crashed>>

CreateWindow(w) ==
  /\ ClientCalls /\ win[w] = "absent"
  /\ win' = [win EXCEPT ![w] = "open"]
  /\ IF app # None THEN AttachMenu({w}, app) ELSE UNCHANGED <<bar, busVars>>
  /\ UNCHANGED <<menuVars, careless, crashed>>

DeleteWindow(w) ==
  /\ ClientCalls /\ w \in Instances
  /\ win' = [win EXCEPT ![w] = "deleted"]
  /\ DetachMenu({w})
  /\ UNCHANGED <<menuVars, careless, crashed>>

\* A context menu is built with all its submenus, and the call does not return
\* before it is closed.  If one is open already, that one is cancelled and the
\* call returns at once.
Popup(m, w) ==
  /\ ClientCalls /\ workload = "menus" /\ Alive(m) /\ w \in Instances
  /\ CASE win[w] = "closed" -> Crash("window")
       [] \E x \in Tree(m) : Cyclic(x) -> Crash("recursion")
       [] \E x \in Tree(m) : ~Alive(x) -> Crash("submenu")
       [] OTHER -> /\ popup' = IF popup = None THEN m ELSE None
                   /\ UNCHANGED <<menu, app, barVars, busVars, careless, crashed>>

ClientActs ==
  \/ \E m \in Menus :
       \/ CreateMenu(m) \/ Clear(m) \/ SetApplicationMenu(m) \/ DeleteMenu(m)
       \/ \E c \in Commands : AddItem(m, c) \/ \E s \in Menus : AddSubMenu(m, s, c)
       \/ \E w \in Windows : Popup(m, w)
  \/ \E w \in Windows : CreateWindow(w) \/ DeleteWindow(w)

(* The user. *)
UserActs ==
  crashed = "no" /\ UNCHANGED <<menu, app, busVars, careless, calls, workload>>

WindowCloses(w) ==
  /\ UserActs /\ win[w] = "open"
  /\ win' = [win EXCEPT ![w] = "closed"]
  /\ UNCHANGED <<popup, bar, mistaken, crashed>>

Row(w, d, i) == bar[w][d].items[i]

\* What a row's model and index lead to now.
Follow(w, d, i) ==
  LET m == bar[w][d].model
  IN  IF ~Alive(m) THEN "model"
      ELSE IF i \notin DOMAIN menu[m].items THEN "index" ELSE "item"

Target(w, d, i) == menu[bar[w][d].model].items[i]

\* A row that is not a submenu is clicked: ActivatedAt executes the command
\* that is at the index now.
OnItemActivated(w, d, i) ==
  /\ UserActs /\ win[w] = "open" /\ Row(w, d, i).sub = None
  /\ IF Follow(w, d, i) # "item"
     THEN crashed' = Follow(w, d, i) /\ UNCHANGED mistaken
     ELSE /\ mistaken' = (mistaken \/ Target(w, d, i).cmd # Row(w, d, i).cmd)
          /\ UNCHANGED crashed
  /\ UNCHANGED <<popup, barVars>>

\* A submenu is opened: its rows are built anew from the model that is at the
\* index now.
OnSubMenuShow(w, d, i) ==
  /\ UserActs /\ win[w] = "open" /\ Row(w, d, i).sub # None /\ d < Cardinality(Menus)
  /\ LET ok == Follow(w, d, i) = "item"
         s == IF ok THEN Target(w, d, i).sub ELSE None
     IN  IF s # None /\ s \in Menus /\ Alive(s)
         THEN /\ bar' = [bar EXCEPT ![w] = Append(SubSeq(@, 1, d), BuildMenuFromModel(s))]
              /\ mistaken' = (mistaken \/ s # Row(w, d, i).sub)
              /\ UNCHANGED crashed
         ELSE /\ crashed' = IF ok THEN "submenu" ELSE Follow(w, d, i)
              /\ UNCHANGED <<bar, mistaken>>
  /\ UNCHANGED <<popup, win>>

\* The context menu is closed, with a command or without: its model is looked
\* at once more.
PopupEnds ==
  /\ UserActs /\ popup # None
  /\ IF \E x \in Tree(popup) : ~Alive(x)
     THEN crashed' = "popup" /\ UNCHANGED popup
     ELSE popup' = None /\ UNCHANGED crashed
  /\ UNCHANGED <<barVars, mistaken>>

User ==
  \/ PopupEnds
  \/ \E w \in Windows :
       \/ WindowCloses(w)
       \/ \E d \in DOMAIN bar[w] : \E i \in DOMAIN bar[w][d].items :
            OnItemActivated(w, d, i) \/ OnSubMenuShow(w, d, i)

Next == ClientActs \/ User \/ RegistrarStep

Spec == Init /\ [][Next]_vars

-----------------------------------------------------------------------------

TypeOK ==
  /\ \A m \in Menus :
       /\ menu[m].state \in {"absent", "alive", "deleted"}
       /\ menu[m].items \in Seq([cmd : Commands, sub : Menus \cup {None}])
       /\ Len(menu[m].items) <= MaxItems
  /\ app \in Menus \cup {None} /\ popup \in Menus \cup {None}
  /\ \A w \in Windows :
       /\ win[w] \in {"absent", "open", "closed", "deleted"}
       /\ \A d \in DOMAIN bar[w] : bar[w][d].model \in Menus
       /\ bar[w] # <<>> => win[w] \in {"open", "closed"}
  /\ proxy \in {"none", "pending", "ready", "failed"}
  /\ live \subseteq Windows /\ registered \subseteq Windows

\* The static pointer to the application menu never outlives the menu,
\* whatever the client deletes and in whatever order.
ApplicationMenuAlive == app # None => Alive(app)

\* Every window, made before or after the application menu was set, shows the
\* menu that was set last; once it is deleted none shows any.
BarsShowApplicationMenu ==
  \A w \in Windows :
    /\ app # None /\ win[w] = "open" => bar[w] # <<>> /\ bar[w][1].model = app
    /\ app = None => bar[w] = <<>>

\* As long as the client deletes no submenu before its menu, clears no menu on
\* display and deletes none while it pops up, no pointer to a model is
\* followed into nothing, and a click executes the command the user saw,
\* whatever items are added, menus replaced and windows opened meanwhile.
CarefulMenusWork ==
  ~careless => crashed \in {"no", "window"} /\ ~mistaken

\* When nothing is under way the registrar knows exactly the windows that have
\* a bar, although the proxy is made late, the registrar may come and go, and
\* calls sent to an owner that has gone are lost.
RegistrarKnowsBars ==
  proxy = "ready" /\ bus = <<>> /\ known = owner /\ owner # 0
    => registered = {w \in Windows : bar[w] # <<>>}

\* The bars on screen follow the application menu of the client.
BarsFollow == TypeOK /\ ApplicationMenuAlive /\ BarsShowApplicationMenu
=============================================================================
