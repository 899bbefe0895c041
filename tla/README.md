# A verification of the Thrust shell in TLA+

The Thrust shell (`src/`) is a browser window driver: a client program writes
JSON *actions* to its standard input ("create a window", "call method `show` on
object 3", "delete object 3") and reads JSON *messages* from its standard output
(answers, events of the objects, methods the shell asks the client to run). The
shell is built on Chromium's content layer; its own code is a few thousand lines
of C++ that cross three threads of the browser process, the renderer processes
and the client process.

This directory holds TLA+ modules that model that code, the TLC configurations
that check them on small instances, and theorems about them that TLAPS proves.
Paths below are relative to the repository.

## 1. Inventory

| component | state it keeps | operations | talks to | what is hard | what makes it correct |
|---|---|---|---|---|---|
| **API registry and server** (`src/api/api*.cc`) | `factories_`, `bindings_`, `remotes_`, `next_binding_id_`; per client `acc_`, `action_id_`, `remotes_`, `invokes_` | ProcessChunk, PerformAction (create, call, delete, reply), InvokeMethod, EmitEvent, Send\*, destructor | client (pipes), every binding | four actors; `invokes_` shared between two threads without a lock; raw pointers from the registry to the client's Remotes; last reference dropped on any thread | the client reads messages in an order it can follow; no dangling Remote; each callback runs at most once; objects live exactly as long as they are referred to |
| **Session binding, cookie store** (`src/api/thrust_session_binding.cc`, `src/browser/session/thrust_session_cookie_store.cc`) | `op_count_`, `parent_`, `dummy_`, pending callbacks | Load, LoadCookiesForKey, Flush, AddCookie, UpdateCookieAccessTime, DeleteCookie | cookie monster on the IO thread, client through *invoke* | a request crosses IO -> UI -> client -> UI -> IO, the session may be deleted at any hop; an answer that never comes leaves the cookie monster waiting | each load is answered exactly once; writes reach the client in order |
| **Proxy configuration** (`src/browser/session/thrust_session_proxy_config_service.cc`) | `fixed_service_`, observers, `parent_` | SetProxyRules, ClearProxyRules, AddObserver, RemoveObserver, GetLatest, OnLazyPoll | network stack (IO), session (UI) | the service that the IO thread is using is replaced on the UI thread | observers follow the replacement; the last rules set win |
| **Session** (`src/browser/session/thrust_session.cc`) | guests by instance id, request context, path | AddGuest, RemoveGuest, GetNextInstanceID, CreateRequestContext | windows, guests | destroyed while windows or the IO thread refer to it | ids of guests are fresh; nothing refers to a dead session |
| **Visited links, master** (`src/browser/visitedlink/visitedlink_master.cc`) | open-addressed hash table in shared memory, its file, `added_since_rebuild_`, `deleted_since_rebuild_`, `table_builder_` | Init, AddURL(s), DeleteURLs, DeleteAllURLs, ResizeTable, WriteFullTable, WriteHashRangeToFile, rebuild | delegate (history), blocking-pool file thread, listener | deletion in a probing table; growth and shrinking under load; a table rebuilt in the background while URLs come and go; a crash between two file writes | every added fingerprint is found by probing; used count = non-empty slots; what was deleted during a rebuild stays deleted; a file that loads is the table that was saved |
| **Visited links, listener and slave** (`visitedlink_event_listener.cc`, `src/renderer/visitedlink/`) | per renderer pending fingerprints, reset flag, table handle; coalescing timer and `pending_visited_links_` | NewTable, Add, Reset, CommitVisitedLinks, Observe, Update | renderer processes | hidden renderers defer updates; buffer limit of 50; processes appear and terminate | no renderer that stays visible misses an update for ever |
| **Window** (`src/browser/thrust_window*.cc`, `src/api/thrust_window_binding.cc`) | web contents, inspectable contents, `is_closed_`, guests, `s_instances` | create, show, close, Close / CloseContents / CloseImmediately, WebViewGuest\* messages | web contents, binding, session, guests | a close asked by the user, by the client and by the page, with a `beforeunload` dialog in between; calls after the close | "closed" is emitted once; no call reaches a closed window's contents |
| **WebView guests** (`src/browser/web_view/`, `resources/web_view.js`) | guest instance id, attached, embedder, opener, `destruction_callback_`, sizes; in the renderer `ignore_next_src`, `before_first_navigation` | create, attach, destroy, navigate, events, dialogs | embedder renderer, session, window | two processes that create and destroy the same thing by asynchronous messages | a guest is destroyed once and never used afterwards |
| **JavaScript dialogs of guests** (`web_view_javascript_dialog_manager.cc`) | `dialog_callback_` | RunJavaScriptDialog, RunBeforeUnloadDialog, JavaScriptDialogClosed | guest renderer, embedder | the guest blocks until it is answered | each dialog is answered exactly once |
| **Menu** (`src/browser/thrust_menu.cc`, `src/api/thrust_menu_binding.cc`) | model, command states, radio groups, sub-menus by raw pointer, application menu | add\_\*, set\_\*, popup, attach | window, other menus | a sub-menu deleted under its parent | no menu shows a deleted model |
| **Renderer** (`src/renderer/`, `src/renderer/extensions/`) | one observer per frame, its `remote_bindings_`; per document a context with natives, module cache, listeners | DidCreateScriptContext, require, listen, send, RemoteDispatch | pages' JavaScript, browser process | listeners that change the list being walked, throw or send; documents that replace each other; the process ends | every listener is called once per message; what a page sends arrives in order |
| **Downloads** (`src/browser/dialog/download_manager_delegate*.cc`) | download manager pointer | DetermineDownloadTarget, GenerateFilename, OnDownloadPathGenerated, Shutdown | file thread, file dialog | shutdown, cancellation and the end of the page between the thread hops | every download gets its target |
| **Dialogs** (`src/browser/dialog/`) | `current_color_chooser_`, the shared panel, custom colours; modal file dialogs | OpenColorChooser, End, the dialog's answers; RunFileChooser | pages, native toolkits, a dialog thread on Windows | a dialog outlives its chooser; one panel serves all pages | a colour reaches the page that asked; a page gets the files its mode means |
| **Platform code** (`*_views.cc`, `*_mac.mm`, `src/browser/ui/`) | native window, global menu bar, `registrar_proxy_`, `live_xids_` | moves, resizes, hit tests, bars, accelerators | toolkits, D-Bus | coordinates that run the other way on the Mac; a registrar that comes and goes | both platforms answer the client alike; the registrar knows the bars there are |
| **Start-up, network delegate, geolocation, IPC glue** | toolkit handles | calls into the content layer | | | not protocol state; not modelled |

How they fit together: the **client** drives the **registry**, which creates the
**bindings**; a session binding owns a session, a window binding owns a window
built on a session; a window hosts guests, which live in the session; the visited
link master belongs to the session and tells every renderer of it. The UI thread
runs the registry, the bindings, the windows and the master; the IO thread runs
the standard output, the cookie store and the proxy service; a handler thread
reads the standard input; a blocking-pool sequence writes the visited-link file.

## 2. The modules

| part | modules | run | section |
|---|---|---|---|
| API server | `APIContract` (abstract), `APIServer`, `Framing`; proofs `APIServerProofs` | `api_server`, `api_calls` | 3 |
| visited links, master | `VisitedLinks` (abstract), `VisitedLinkTable`, `VisitedLinkMaster`, `VisitedLinkProbing`; proofs in `SessionProofs` | `visited_links`, `visited_links_wrap` | 4 |
| visited links, distribution | `VisitedLinkListener`; proofs `VisitedLinkListenerProofs` | `listener` | 5 |
| windows | `ThrustWindow`, `WindowGeometry`; proofs `ThrustWindowProofs`, `ListLemmas` | `window` | 6 |
| guests | `WebViewGuest` (browser, with `AutoSize`) extended by `WebViewElement` (renderer); proofs `WebViewProofs` | `webview` | 7 |
| sessions | `ThrustSession` (life, cookies) extended by `SessionServices` (request context, proxy, downloads); proofs `SessionProofs` | `session`, `session_reclaimed` | 8 |
| remote messages | `RemoteMessages`; proofs `RemoteMessagesProofs`, `ListLemmas` | `remote` | 9 |
| menus | `Menus` and `Accelerators`, put together in `MenuShortcuts`; proofs `MenusAndDialogsProofs` | `menu` | 10 |
| dialogs | `ColorChoosers` and `FileDialogs`, put together in `Dialogs`; proofs `MenusAndDialogsProofs` | `dialogs` | 11 |

Each `MC` module instantiates a component for TLC. Some modules are algorithms
without state (`Framing`, `VisitedLinkProbing`, `WindowGeometry`, `Accelerators`,
`AutoSize`, `FileDialogs`): their properties quantify over all small inputs, or over the inputs that a state
of their component has, and are invariants of the run of that component.

Conventions. Where a handler changes several members at once they are fields of
one record and the private functions of the code are operators from one record
to the next, so that an action is a whole handler. `crashed` names the pointer
that was followed into nothing, or is `"no"`; the system stops there. Variables
such as `careless`, `overlapped`, `overtaken`, `raced` and `unsaved` are not in
the code: they remember that something happened for which a property makes an
exception, which the section of the component explains. An operator named after
another with an underscore and a reason (`Silence_ForgetsListener`) is that operator
with a plausible mistake; no action uses it, and putting it in the place of the
other breaks the property that `PROJECT.json` pairs it with. Deadlock is not
checked anywhere: every environment (client, user, page) may fall silent, and
every model bounds how often it acts.

What could come next: theorems about lookups during a deletion and about what a
crash leaves of the visited links (section 13 says what stands in the way), and the
composition of a window with its guests and its session.


## 3. The API server

### 3.1 Modules

| module | what it is |
|---|---|
| `APIContract` | what the two ends of the pipes see: `sent` (actions written by the client) and `out` (messages written by the shell), and which messages are allowed when |
| `APIServer` | `api.cc`, `api_binding.cc`, `api_server.cc`: one action per branch of `PerformAction`, per task of the IO thread (three for `SendInvoke`), per pass of the destructor |
| `Framing` | how bytes read in pieces become actions (`ProcessChunk`, `ThreadRun`) |
| `MCAPIServer` | the instances for TLC |
| `APIServerProofs` | type correctness, ownership of the Remotes, callbacks run once, the reference counts (who may destroy what, and where), and that `APIServer` implements `APIContract` |

### 3.2 State and actions

Both task queues are kept as a log plus the number of tasks already run. The UI
queue is `sent[performed+1 .. parsed]`: one `PerformAction` task per action. The
IO queue is `posted[Len(out)+1 .. Len(posted)]`. `objects` is every binding ever
created, by target (`next_binding_id_` is its length); `bindings`, `apiRemotes`
and `clientRemotes` are the keys of `API::bindings_`, `API::remotes_` and
`Client::remotes_`; `invokes` is `Client::invokes_`, with the object that the bound
callback keeps alive.

- `ClientAction`: the client writes any well-formed action; it names only what it
  was told of (external).
- `ProcessChunk`: the handler thread posts one task per action.
- `PerformCreate/Call/Delete`, `RunCallback`, `IgnoreReply`: the branches of
  `PerformAction`, with the calls into `API` they make.
- `PerformPopup`, `PopupReturns`: the one call that is not over at once. Where the
  toolkit is Views, `popup` of a menu runs a message loop until the menu is closed
  (`thrust_menu_views.cc:21-28`) and runs its callback after it
  (`thrust_menu_binding.cc:155`); the UI thread performs the next actions in there.
  `popup` is that call. There is one: a second popup cancels the first menu and
  returns (section 10). Nothing holds the binding meanwhile: if it is deleted, the
  return is undefined (`client = "crashed"`, or the answer all the same).
- `EmitEvent`, `InvokeRemoteMethod`: what bindings do of their own accord.
- `SendReply`, `SendEvent`, `SendInvokeInserts/Writes/Returns`: the IO thread.
  `SendInvoke` is three steps because the client can answer between the write and
  the return, and the UI thread can touch `invokes_` during the insertion.
- `Quit`, `DeleteNonSessions`, `DeleteSessions`: the end of the process.

The data race on `invokes_` (written at `api_server.cc:292`, read and erased at
228-230, no lock) is a choice: the search may miss an entry while an insertion
is under way, and an erasure may lose the insertion (`ioPhase = "lost"`). A map
left corrupt in memory is beyond the model.

### 3.3 Runs

| run | instance | what it shows |
|---|---|---|
| `api_server` | 4 actions, 2 events or invocations, 5 in all, 3 types; 702 503 states | `RemotesOwned`, `CallbackRunsOnce`, `AliveIffHeld`, the refinement `ImplementsContract`, the action property `SessionsLast`; `CreatesAndDeletesAnswered`: every create and delete is answered unless the process quits; `ActionsArrive`: two messages of up to a few bytes, ends of line among them, arrive as written for every small buffer size |
| `api_calls` (violation) | 3 actions | a call whose target was deleted in the meantime is never answered, although `api.h:62` promises the result |

Bounds: with one push, four actions are a menu, a window, the popup and an action
that overtakes it; or a session, a window on it and two of delete, call and reply.
With three actions two pushes allow an invocation with an event or a second
invocation overlapping it, which the race on `invokes_` needs.

`Framing` has a boundary whose first and last byte are equal, as those of the
code's are. The boundary of the code has a border of two bytes (`--`), so a
message whose last byte belongs to the boundary could end it early; JSON ends
with `}`, and `ActionsArrive` assumes as much. Ends of line inside a message are
dropped, which JSON does not notice.

Fairness (`FairSpec`): the handler thread, the UI loop and the IO loop each keep
running the tasks they have. Nothing makes the client write, the user quit or close
a menu, or a binding emit.

### 3.4 Proofs

For every set of types and every bound:

- `TypeCorrect`: `TypeOK`, split into the input, registry, output and callback
  parts; each action disturbs one or two of them.
- `RemotesStayOwned`: `RemotesOwned` is inductive as it stands given `TypeOK`.
- `CallbacksRunOnce`: `CallbackRunsOnce` is strengthened with: an identifier being
  inserted by the IO thread is `actionId`, larger than all those stored or run.
- `SessionsAloneDieOnIO`: the strengthening says every invoke task comes from a
  session.
- `ObjectsAliveIffHeld`: the strengthening relates the objects destroyed, the
  registry and the holders; an object that is held was never destroyed, so a push
  can only pin a living object.
- `ContractImplemented`: the refinement. The invariant `LogInv` speaks of the whole
  log `posted`, not only of `out`: a push about a target lies after the answer that
  creates it and before the one that acknowledges its deletion (`PostedInv`), and
  `out` is the image of a prefix of `posted` (`OutInv`). The order of the answers
  (`TurnInv`): each is posted in its turn, that is, no answer to a later action
  stands before it, or it is the answer to a call on a menu and those before it
  came in their order; and the call whose menu is open has the turn as long as it
  waits. That the target of such a call is a menu for the client too follows from
  `AnnouncedTypes`: an object has the type that its create asked for.

- `SessionsGoLast`: `SessionsLast`. It takes an invariant because what a step drops
  may be held elsewhere: an object made with a session is no session itself and
  names one (`UsersAreNoSessions`, from what the client can write,
  `CreatesNameSessions`); callbacks and invocations hold sessions only
  (`CallbacksHoldSessions`, `SessionsInvoke`), so that they keep no window alive; and
  when the destructor of `Client` comes to the sessions nothing else is registered
  (`SessionsRemain`).

`ActionsArrive` is about the bytes of `Framing`, whose recursion stays with TLC;
liveness under fairness is out of the prover's reach.

### 3.5 Findings and observations

Finding 1: `API::CallMethod` on a target that is no longer registered drops the
callback (`api.cc:91`): the client never gets an answer.

Observations, in the model or met while writing it, that no run states:

- A `create` with an unknown type leaves a Remote for target 0, on which the
  destructor of `Client` dereferences a NULL binding (`api_server.cc:85`; the
  model reaches `client = "crashed"`).
- `delete` on a session destroys it although windows use it, which the destructor
  of `Client` takes care never to do (`api_server.cc:94` and 219).
- A NUL byte ends a chunk, JSON that is not a dictionary is dereferenced, and the
  handler thread spins at the end of its input.


## 4. Visited links

### 4.1 Modules

| module | what it is |
|---|---|
| `VisitedLinkTable` | the open-addressed table as operators: probing, `AddFingerprint`, the run that a deletion empties and refills |
| `VisitedLinkMaster` | `visitedlink_master.cc` as a state machine: the public operations, rebuilding, resizing, the file and the worker that writes it, destruction and crashes |
| `VisitedLinks` | what it promises: a set of links, and which sets a later start may find |
| `VisitedLinkProbing` | a renderer that looks a link up in the shared table while the browser deletes another: every store and every load is a step |
| `MCVisitedLinkMaster` | the instances for TLC |

### 4.2 State and actions

`master` is a record of the members of `VisitedLinkMaster` (the comment in the
module names each), so that the private methods are operators from one master to
the next and a public method is one action: the UI thread runs each to the end.
What it posts to the blocking pool goes to `master.io` and is performed by
`Write`, one task at a time, in order. `Destroy` leaves the tasks behind
(`closing`); `Crash` loses them. `Start` reads the file and checks what
`ReadFileHeader` checks: the length against the size, the count against the
length. A file with no valid header has `length` 0.

The delegate of the shell (`thrust_session_visitedlink_store.cc:47`) completes
every rebuild successfully with no link; it completes in a later task, so links
may be added and deleted before `OnTableRebuildComplete`. The listener is what
`told` records of the last call.

The constant `Operations` is there because the shell only calls `AddURL` and
`DeleteAllURLs`; `AddURLs` and `DeleteURLs` are public methods of the class that
nothing calls yet. `MayFail` lets shared memory be refused at a resize or a
rebuild (start-up always gets its table).

Three members of the model are not in the code. `told` was explained. `unsaved` says
that the table was changed and nothing was posted to write that: a rebuild is under
way, or the callers of a resize that was refused memory took the new table to be
written. `mixed` says that the table was read from a file into which the count or
entries of an unsaved table had been written one by one, so that it may be no table at
all; it goes when all links are deleted. The file has such a flag, too, and `Spoiled`
says that it is, or is about to be, set somewhere.

`RoomAssumption` and the odd sizes of `SizesAssumption` are facts about `table_sizes`
(`visitedlink_master.cc:800`), twelve odd numbers from 16 381 to 33 554 347: a table of
150 slots or more always keeps one empty, because no link is added to one more than 80%
full (in integer arithmetic), and a wrapping write, one entry too long, leaves a file
with an even number of entries. The small instances TLC checks have fewer links than
slots instead.

`VisitedLinkProbing` takes the stores of a deletion in program order (the code has
plain stores to shared memory) and 64-bit loads as whole. The memory after each
store is a function `Stores`; the times at which the d-th probe of a lookup may be
made follow from it, so that all interleavings are covered without a state.

### 4.3 Runs

| run | instance | what it shows |
|---|---|---|
| `visited_links` | all operations, 3 calls, 1 crash, memory refused at any time; 198 995 states | probing finds every link and the count is right until a crash (`TableSound`, of `ProbesComplete` and `CountsUsed`), once the worker is done header and entries of the file are the table's (`SavedWhenQuiet`), a rebuild neither undoes nor loses what changed meanwhile and the listener hears of every change (`ChangesKeptAndTold`, of `RebuildKeepsChanges` and `ListenerTold`), the refinement `Durable`; `LookupsDuringDeletion`: whatever the calls, rebuilds, failures and crashes made of the table, during the next deletion from it a lookup finds no link that was not there, misses only links of the run being emptied, ends, and is right afterwards |
| `visited_links_wrap` (violation) | `DeleteURLs` of a wrapping run | one entry too many is written, the file no longer loads |

Bounds: tables of 5 and 11 slots stand for `table_sizes`. Of the links 4, 9 and 15,
two share the last slot of the small table as their home, so that their run wraps
around, and two share a slot of the larger one. `AddURLs` and `DeleteURLs` take any set
of links, so that three calls fill the table, delete any part of it, in memory, in
place on disk (one link) or in bulk (`BigDelete` is 1), and add again. Two links added
during the first rebuild make the table of 11, which a deletion shrinks again. The 80%
guard of `TryToAddURL` divides by 8 and by 10 in integers and is never false at these
sizes: it is modelled but not exercised, and the proofs are about it at all sizes.
Deadlock is not checked: the calls are bounded.

A crash between the two writes of `AddURL` leaves a used count that no later start
corrects: `CountsUsed` is stated for runs without a crash, and `SavedWhenQuiet`
allows for the extra entry of finding 2. `TableSound` and `SavedWhenQuiet` claim
nothing of a table that goes back to a mixed file, nor does `Durable` of such a file.
`LookupsDuringDeletion` is evaluated when nothing waits to be written: a write does
not change the table.

### 4.4 Proofs

`SessionProofs` proves, after what it proves of the session that stores the links,
`TableAlwaysSound` and `AlwaysSavedWhenQuiet`: `MasterSpec => []TableSound` and
`MasterSpec => []SavedWhenQuiet`, for every set of links and every list of sizes that
the two assumptions allow, any number of calls and of crashes, and whatever memory is
refused.

Neither is inductive. A start takes the table from the file as a crash left it, so
that a claim about the table needs one about the file after every single task of those
still to be performed. The invariant `TableInv` says of a running master:

- the table is sound, and unless a crash cut an update its count is exact and one slot
  is empty (`Right`): without an empty slot a run is the whole table, which
  `DeleteFingerprint` leaves alone although it counts the link as gone;
- performing its tasks one by one leads through files that a start would take for a
  sound table or reject (`OnFile`, `Fit`), to one that would be accepted with the right
  count or rejected (`CountFit`), and whose entries, with whatever header, are those of
  a sound table unless they have an even number (`DataFit`): `WriteFullTable` writes the
  header first, which for a moment goes with the entries of before;
- that last file is the table in memory, up to one entry too many, unless the master is
  unsaved or mixed (`Saved`).

Of a master that is gone it says the same of the tasks it left behind. The lemmas follow
the code: what probing promises survives an addition (`AddKeepsSound`) and the emptying
of a run (`ClearKeepsSound`), and each entry that is put back finds an empty slot within
the run (`NextIsPutBack`), so that the range `DeleteFingerprint` writes to the file
covers every change (`AllPutBack`, `ChangeWritten`); the count follows (`RefilledIs`);
loops over links are recursive functions, and what they keep is proved by induction
over their steps. An addition needs room for one more link than the 80% guard looks at,
which there is from 50 slots on (`RoomLeft`). One lemma per action shows that it keeps
`TableInv`.

### 4.5 Findings and observations

Finding 2: `WriteHashRangeToFile` writes `table_length_ - first_hash + 1` entries
before it wraps (`visitedlink_master.cc:917`): one beyond the table, both in
memory and in the file, which `ReadFileHeader` then rejects, although
`visitedlink_master.h:237` says the function handles it.

Observations:

- When a resize is refused memory, neither it nor its caller writes the table: the
  comments "Resize may write the new table out for us" (`visitedlink_master.cc:326`)
  and "The resize function wrote the new table to disk for us" (431) are not true then.
  Cleared links come back with the next start, which `Durable` allows (an older set is
  found). Worse, links added after that are written one by one among the entries of the
  older table (`mixed`): a later start may read links twice, or links that probing does
  not reach, with a count that is too low and shrinks the table too far. The properties
  make an exception for such a file.
- The assumption of `ReadFromFile` that nothing is pending
  (`visitedlink_master.h:241`) holds per master, not per file: a session made again
  on the path of one just deleted may read the file between its writes. `Start`
  waits for them.


## 5. Distribution of the visited links

`VisitedLinkListener` models the listener, the updaters and the slaves; the
master's table is a set of links here, in one of a sequence of shared memories:
`AddURL`, `DeleteAllURLs`, `DeleteURLs` and `Rebuild` abstract the operations of
`VisitedLinkMaster` to what they do to that set and tell the listener, a resize
being a choice. `CommitVisitedLinks` is the timer. `ProcessCreated`,
`ProcessTerminated`, `Hide` and `Show` are the notifications `Observe` handles.
`OnControlMessageReceived` is the slave; `Paint` is a page laid out again at any
time, from whatever table the renderer has mapped. A page is first laid out after
the first message, the table, is handled: navigation messages come later on the
same channel.

Buffers are sets instead of vectors: between two resets a link is told once.
Every step of the UI thread is atomic except `DeleteURLs`, whose reset leaves for
the renderers before the deletion it announces.

| run | instance | what it shows |
|---|---|---|
| `listener` | 2 renderers, 2 links, threshold 1, 2 operations of all kinds; 651 892 states | `EveryRendererServed`: what waits for a renderer stays within the threshold, and everybody has, or is being sent, the table in use (`BufferBounded`, `NoRendererLeftBehind`); `ColoursCorrected`: a link shown wrongly is always about to be corrected; `EventuallyPainted`: a renderer that stays visible comes to show what the master holds |

`ColoursCorrected` and `EventuallyPainted` make an exception for a race of the
code, remembered in `raced`: `DeleteURLs` resets the colours before it deletes
(`visitedlink_master.cc:342`), so that a renderer may handle the reset, look the
links up in the unchanged table and never be told again. Nothing in the shell
calls `DeleteURLs` yet.

Proofs (`VisitedLinkListenerProofs`): `RenderersAlwaysServed` and
`ColoursAlwaysCorrected`, for every set of renderers and of links, every threshold and
any number of operations; the only assumptions are that the sets are what
`ListenerAssumption` says. `EveryRendererServed` needs that the messages on a channel
carry tables in the order in which the master replaced them and that the last of
them, or the table mapped when there is none, is the one in use (`Served`).
`ColoursCorrected` needs more, because a page may be painted from a table that is out
of use at any moment. The invariant says of each link that a renderer was not told
about: from some message on the channel on, or from now, every table that the renderer
will map is right about the link, and the page looks the link up again after that
(`Settled`, with `After` for the table that is mapped after n messages). Handling a
message shortens the channel, so that the lemmas compare the tables mapped after n
messages of a channel and after n - 1 of its tail. TLC checked `IInv` on the instance
of the run before it was proved.

Bounds: a threshold of 1 stands for 50 and is crossed by the second link; renderers
interact only through what the listener collects, and nothing the listener keeps
for one depends on another, so two (one visible, one hidden) are enough. Fairness (`FairSpec`): the timer fires, the UI
thread finishes the operation it is in, and a renderer that is alive handles its
messages; nothing makes a page repaint or a widget visible. Deadlock is not
checked: the operations are bounded.


## 6. Windows

### 6.1 Modules

| module | what it is |
|---|---|
| `ThrustWindow` | `thrust_window.cc`, `thrust_window_views.cc`, `thrust_window_mac.mm` and `thrust_window_binding.cc`: the life of a window, and what the client learns of it |
| `WindowGeometry` | the arithmetic of moves, resizes and hit tests on the two platforms, as operators |
| `MCThrustWindow` | the instance for TLC |
| `ThrustWindowProofs` | what the client knows, and the arithmetic of the platforms, for every number of windows and every screen |
| `ListLemmas` | induction over the natural numbers, and lists from which an element is removed, for this proof and that of section 5 |

### 6.2 State and actions

`win` has one record per window: the members of `ThrustWindow` that the control
depends on (whether there are contents, `is_closed_`, the native window and its
state, `is_kiosk_`), how far the page is in letting itself be closed, and what
the client was told. `instances` is `s_instances`. `platform` is the build: the
private methods exist once for Views and once for the Mac and
`PlatformCloseImmediately`, `PlatformMethod` choose.

- `Create`, `CallLocalMethod` (all sixteen methods), `ClientCloses`, `Delete`: the
  branches of `ThrustWindowBinding::CallLocalMethod`, its constructor and its
  destructor, each with everything they call.
- `UserCloses`, `UserActivates`: the toolkit's callbacks (`DeleteDelegate`,
  `OnWidgetActivationChanged`; `windowShouldClose:`, `windowDidBecomeMain:`).
- `RunBeforeUnloadDialog`, `PageUnloads`, `PageCloses`: the renderer's answers,
  delivered by the content layer, ending in `CloseContents`.
- `RendererUnresponsive`, `RendererResponsive`: the hang monitor.

A call that goes through contents that are gone stops the model (`crashed`), and
so may a call through the Mac's delegate after it released itself in
`windowWillClose:`; that one is a choice, since the freed object may still answer.

### 6.3 Run

`window`: two windows, both platforms, four calls of the client; 202 034 states.

| property | what it says |
|---|---|
| `ClientKnows` | "closed" is told at most once however a window ends (`ClosedOnce`), contents that are gone were told (`ContentsGoneIsTold`), `s_instances` is exact (`InstancesExact`), what was said last of the focus and of the renderer is true (`ClientFollowsWindow`) |
| `ClosesEventually` | a page that was asked to go, or whose window left the screen, does get closed |
| `PlatformsAgree` | on the Mac: the same calls cover the same part of the screen as on Views and read back the same (`CallsAgree`); a window is created with the size asked for, at the place of Views but for a rounded half point and the height of the frame, and without a frame larger by what a frame takes (`CreatedAsAsked`); setting the size of the content keeps the upper left corner, sets the content on the Mac and on frameless windows of Views, and on Views with a frame the size of the window instead (`ContentSizeSet`) |
| `ClicksDecided` | on Views: the last area around a point decides whether it drags; outside of fullscreen the two hit tests of the toolkit never both claim or both refuse a click |

Bounds: windows share `s_instances` only, so two are enough; create, close, a
method and delete are the four calls that make the longest interesting history of
one window, or two each of two. The geometry runs over all rectangles with
coordinates 0, 1, 3 and 6 and lengths 0, 1 and 4 and pages of up to three areas:
empty, nested, overlapping and disjoint ones. Deadlock is not checked: the client's
calls are bounded.

Fairness: a renderer that is asked to unload its page does, or the content layer
gives up on it (its own timer). Nothing makes the client, the user or a page close
anything.

### 6.4 Proofs

`ClientAlwaysKnows`: `Spec => []ClientKnows` for any finite number of windows and any
number of calls. `ClientKnows` is not inductive: nothing in it forbids a window that
has told "closed" and still has its native window, which the next event would tell
again. `IInv` adds, of each window (`ClosingSound`), that a binding has told the end
exactly when the native window is gone, that on the Mac this is when `is_closed_` is
set, and that a window without a binding has neither a native window nor a page; and
of what was told (`EventsSound`), that it is true as long as there are contents to
tell it. One lemma per private method of the two platforms says what it does to the
record of a window, one per action that the invariant is kept; the facts about
`s_instances` rest on `ListLemmas` (a list without repetition from which an element is
erased loses that element alone).

`PlatformsAlwaysAgree`: `Spec => []PlatformsAgree` for every `ScreenHeight`, `Coordinates`
and `Lengths` that are integers (`GeometryAssumption`, nothing else). A rectangle is
opened into four integers (`RectsAreIntegers`), each conversion is written as a
record, and the two flips cancel by integer arithmetic (`MovesAgree`,
`ResizesAgree`, `ContentSizeAlwaysSet`); that the two ways of centring differ by at
most one point is `HalvesMeet`.

`ClicksAlwaysDecided`: `Spec => []ClicksDecided`. The region that
`UpdateDraggableRegions` builds is a recursive function of the list of areas; the
proof is an induction over the length of the list (`SetInduction`, in the form of a
set of natural numbers, since the library's induction takes an operator), and says
more than the run: the last area around a point decides for any number of areas.

`ClosesEventually` is liveness and stays with TLC.

### 6.5 Observations

- On Views "closed" is emitted when the widget goes, before the page is asked
  (`thrust_window_views.cc:505`), where the docs (`docs/api/window.md:18`) speak of a
  window that was closed; on the Mac it follows the page.
- In fullscreen `ShouldDescendIntoChildForEventHandling` still tests the draggable
  region while `NonClientHitTest` says the whole window is the page's: hence "outside
  of fullscreen" above.
- Methods that go through the web contents (`open_devtools`, `remote`, ...) do not
  ask whether they are there: a client that calls them before it read "closed" could
  end the process. `ContentsGoneIsTold` says that it could always have read it.
- The Mac's `maximize` and `unmaximize` both zoom, which toggles.
- `set_fullscreen` and `set_kiosk` read an uninitialised flag when the argument is
  missing; the two outcomes are those of the two methods.
- `PlatformSetContentSize` "sets the size of the shell content"
  (`thrust_window.h:567`). The Mac's does. On Views, with a frame, `new_size` is computed
  and the window is resized to the size of the content (`thrust_window_views.cc:415-418`),
  so the content is smaller than asked by what the frame takes; `ContentSizeSet` states
  both results. Nothing calls it, so no client sees the difference.
- A new Mac window is centred by its content (`thrust_window_mac.mm:319-324`), which
  `Resize` then keeps the upper edge of: it stands higher than on Views by the height of
  the frame. Without a frame it is not resized and is larger than asked
  (`CreatedAsAsked`).
- `CloseAll` and `FromRenderView` have no caller either.

## 7. WebView guests

### 7.1 Modules

| module | what it is |
|---|---|
| `WebViewGuest` | the browser's half: `web_view_guest.cc`, its dialog manager, the handlers of `thrust_window.cc` that drive it, the registry of guests in `thrust_session.cc` |
| `AutoSize` | the sizes of a guest, what its view is told of them and how the attributes of the element reach it: operators on the members of the guest |
| `WebViewElement` | the renderer's half, which extends it: one element of `web_view.js` with its bindings, and the page that embeds it; the whole specification and its properties |
| `WebViewProofs` | the theorems |
| `MCWebView` | the instance for TLC |

### 7.2 State and actions

The two halves are composed by two queues: `up` holds the requests of the renderer,
`down` the events of the guests. Handlers of the browser are functions on the record
`b` of the variables they may change, and every request or event looks its guest,
or the window that embeds it, up again as the code does: a lookup that fails is a
null pointer (`crashed`: `"dead"` or `"unattached"`). `BrowserHandles` performs one
request; `DidStartLoading`, `DidCommitProvisionalLoadForFrame`,
`DidFailProvisionalLoad`, `OpenURLFromTab`, `PageNotifies`, `PageChooses`,
`OpenDialog`, `RenderProcessGone` and `EmbedderGoes` are the callbacks of the content layer.

Handlers of the element are functions on a *turn*: the element, what it sends, the
mutation records it is owed and whether it asked for a guest. `Runs` is the end of
every callback: the mutation observer gets its records, then the messages go out.
`CreateGuest` is synchronous and therefore waits until `up` is empty. The page's
actions are `PageAttaches`, `PageDetaches`, `PageHides`, `PageShows`,
`PageSetsSrc`, `PageCalls` and `PageAnswers`; the renderer's own
are `HandleEvent`, `PluginLoads`, `TimerFires` and `PluginDies`. `PageSetsSrc` is a
script that writes or removes `src` up to `MaxWrites` times: the handler of an
attribute runs at each change, the mutation observer once, with the records of all
the writes, when the script has ended. A script that goes from "a" to "b" and back
therefore has three navigations for its two writes: of the first record the observer finds that
the element has again the address it had before it.

`careless` is not in the code: it remembers that the page used the element before
its guest was attached, gave `src` to a detached element, or to a new one more than
once in a script, hid it, or put it back
into the document before it had seen the "destroyed" of its previous guest. The code
survives none of these for certain, and the properties say what it does otherwise.

### 7.3 Run

`webview`: one element, two addresses, two zoom factors, two guests one after the
other, two dialogs, three acts of the page (each write of `src` counts as one, two fit in a
script), one link or crash of the guest; 585 412 states.

| property | what it says |
|---|---|
| `CarefulPagesNeverCrash` | a careful page never makes the browser use a guest that is gone or has no window |
| `GuestsAccountedFor` | a guest that is alive is its element's, or its destruction is under way: none leaks |
| `ElementShowsGuest` | once nothing is under way the element has the address, the history and the zoom of its guest (`ElementSettles`, `ZoomFollows`); `ignore_next_src` never outlives the change it was set for (`IgnoreNeverStale`); six events that concern the size of a guest, in any order, leave its limits ordered and not empty, and its view doing what the guest believes (`AutoSizeSane`) |
| `AnswersReachTheirDialog` | an answer closes the dialog it was given for, unless the guest crashed or was replaced meanwhile |
| `AssignmentsNavigate` | a script that writes `src` of an element with a guest has the guest asked for what it wrote and nothing else, and last for the address it leaves, also when it did not change; a single write asks once at most; a navigation of the guest itself is not repeated |
| `NothingHangs` | time and again nobody waits: the element on the screen has its guest attached, and no guest is frozen by a dialog that the page did not keep |

Bounds: three acts are enough to attach, use and detach, or attach, detach and
attach again, which is where the second guest comes in; two dialogs are enough for
an answer to meet the wrong one, two addresses and zooms for a stale one. A second
element would share with the first only the registry, by distinct ids. Deadlock is
not checked: the page's turns are bounded.

Fairness: as long as a task of either process is due, one runs (`TaskRuns`: the two
message loops and the end of a navigation). Since every task but a bounded number
comes from another, each one due is then run in the end. Nothing makes the page act.

### 7.4 Proofs

`WebViewProofs` proves four of the properties for any number of guests, addresses,
factors, dialogs and turns. Its first part says what each handler does, field by
field: the turns of the renderer become a dozen ways in which an element may change
(`Says`, `Parses`, `Disappears`, ...), the callbacks of the browser a few in which a guest
may (`GoesOn`, `Joins`, `Dies`, ...), and `EveryStep` says that each step is one of them. The
invariants are then about these.

- `TypesHold`: `TypeInv`, the types with the contents of the queues, the history of each
  guest and the flag of the observer.
- `GuestsAlwaysAccountedFor`: `GuestsAccountedFor` is strengthened with `IdsInv`. The
  registry knows exactly the live guests, and whatever names a guest names one that was
  made: without it a message that is handled late could destroy a guest to come.
- `AnswersAlwaysReachTheirDialog`: `DialogInv`. As long as there is one guest whose
  renderer lives, what stands for a dialog is in one place: its event on the way, the page
  that holds it, or the answer on the way; and it names the dialog that the guest waits
  for. That no second dialog is opened meanwhile is what makes the answer find its own.
- `CarefulPagesAlwaysSafe`: `CarefulInv` speaks of every message under way and of the
  registry as it will be when the messages before it have been handled
  (`UsableIn`, `DoomedIn`): a request finds its guest alive and attached, and what a
  plugin tells of its guest comes when the guest is gone. `ElementInv` says when a
  careful page sees its element in order: its guest is the only one there is.
- `AssignmentsAlwaysNavigate`: follows from `TypeInv` by induction over the writes of a
  script and over its records. After each write the message sent last has the address of
  the element, or a record is owed that names it (`Owed`); the observer parses each such
  record and leaves the address alone. Of the two ways to hear of a single write exactly
  one parses it. A script on an element without a guest may make it one and navigate it
  in the same turn (`Founds`).

`ElementShowsGuest` and `NothingHangs` are only model-checked; of the first, the parts
`TypeOK` and `IgnoreNeverStale` follow from `TypeInv`.

### 7.5 Observations

- When the embedder goes, each attached guest forgets it and then emits "destroyed"
  through `GetThrustWindow()`, which is now NULL: the model stops with
  `"unattached"` in every such state. `CarefulPagesNeverCrash` is about the time
  before.
- Events of an old guest reach the handlers of an element that has a new one: they
  carry no id the element checks. `web_view.js` keeps the id of a guest that said
  "destroyed".
- `current_zoom_factor_` is read before it is set: the first value of a guest is a
  choice over `Zooms`, and `ZoomFollows` is stated for the first guest.
- Clearing `src` writes the old value back, which the mutation observer sees as a
  change to the same value and navigates to again (`web_view.js:582`), although the
  comment there says it avoids a reload.
- The plugin is given the limits of autosize as the texts of the attributes
  (`web_view.js:237`), and the answer to "did-attach" hands these texts on, which
  `GetInteger` does not read (`thrust_window.cc:597`): autosize written in the markup,
  as `docs/api/webview.md:47` shows it, is off until an attribute is changed while the
  guest is there. `AutoSizeSane` says so of every attachment.
- The docs announce `did-finish-load` (`docs/api/webview.md:163`), the code emits
  `did-frame-finish-load`; `find` ignores
  `forward = false` (`web_view.js:444`).

Events that the element only passes on are `Notices`: what they need is kept, their
text is not. Keyboard events of guests and `ParsePartitionParam` are not modelled,
nor is what `find`, scripts, style sheets and the devtools do in the contents.
## 8. Sessions

### 8.1 Modules

| module | what it is |
|---|---|
| `ThrustSession` | the life of a session and its cookie store: `thrust_session.cc`, `thrust_session_cookie_store.cc`, `thrust_session_binding.cc` |
| `SessionServices` | extends it with the request context (`url_request_context_getter.cc`), the proxy configuration, the downloads and the conversion of cookies; the whole specification and its properties |
| `SessionProofs` | the cookies, the proxy and the conversion for every value of the constants; the visited links a session stores (section 4) too |
| `MCSession` | the instances for TLC |

### 8.2 State and actions

`toUI` and `toIO` are the task queues of the two threads; `UILoop` and `IOLoop` run
their heads. A cookie request goes IO → UI (`Ask`, `InvokeStore`) → IO (`Writes`) →
client (`ClientReads`, `ClientAnswers`, in any order and with or without an error) →
UI (`RunCallback`) → IO (`RunsOnIO`). The binding is reference counted: `Holders` are
the tasks and callbacks that refer to it, and whoever lets go last runs
`~ThrustSession`: on the UI thread in two steps (`"dying"`, while the IO thread can
still see `parent_`), or at the end of a `SendInvoke` on the IO thread.

`SetProxyRules` and `ClearProxyRules` replace `fixed_service_` and then notify
(`NotifyObservers`) what was computed; the IO thread may run in between, and
`SystemChanges` reaches the same observers. A download passes the FILE thread, the
UI thread and a dialog, and may end, or lose its page, at every step.

A `session` is of one of three types: with a cookie store of the client, with the
dummy store, or the system session, which has no binding.

### 8.3 Runs

| run | instance | what it shows |
|---|---|---|
| `session` | two requests, two writes, two rules, four changes of configuration, two downloads; 242 054 states | `CookiesInOrder`: changes reach the client in order without a gap, and what is read includes what was written before; `ProxyFollowsRules`: once a call is over the proxy in use is the one configured; `CookiesSurvive`: exactly which cookies come back as they were, and that the rest is stable; `RequestsServed`: loads, flushes and downloads are answered, and the resource context goes before the getter it points to |
| `session_reclaimed` (violation) | one context, one change | the proxy service writes into a destroyed session |

Bounds: what is asked of a session in one behaviour is one of cookies, proxy and
downloads (`Workloads`); the three share the life of the session, which ends at any
moment in each, and no other variable. Two requests and two writes let answers
overtake each other and changes; four changes are set, clear, and a change of the
system around each. `Word` 4 with times 0, 3, 4 and 9 stands for 2^31 with times
below, at and beyond the first overflow. Deadlock is not checked: what is asked is
bounded.

Fairness: the loops of the threads run, the client reads and answers what it is
asked, and a dialog is closed in the end. The first is Chromium's; the rest is what
the protocol asks of its client and its user, and `RequestsAnswered` would be
meaningless without it.

### 8.4 Proofs

For any number of requests and changes, every set of rules and every width of an int
(`SessionAssumption`, `ServicesAssumption`):

- `CookiesAlwaysInOrder`: `Spec => []CookiesInOrder`. Neither half is inductive. The
  invariant follows a request and a change on their whole way. A request is in one
  place at most, of the tasks of the two threads, the pipe and the client's hands, and
  in none before it is made or after its callback has run (`PlacedAt`); so its callback
  runs at most once, with the answer that belongs to it (`AnsweredAt`). The changes in
  each queue are a run of consecutive numbers that begins where the queue ahead of it
  ends, and a request in a queue has in front of it every change that was reported
  before it (`Follows`): hence the client has applied those when it reads the request.
  `Life` adds that the binding is registered only while the session is alive, without
  which a change could be dropped between two others. The lemmas are about queues: what
  `Run` and `Follows` become when a task is appended (`ChangeAppended`, `OtherAppended`)
  or taken (`ChangeTaken`, `OtherTaken`).
- `ProxyAlwaysFollows`: `Spec => []ProxyFollowsRules`, with what a call under way is
  about to tell the observers (`ProxyInv`).
- `ResourceContextAlwaysFirst`: `Spec => ResourceContextGoesFirst`, the action property
  that is part of `RequestsServed`: in the queue of the IO thread the task that deletes
  the getter has the one that deletes the resource context in front of it
  (`GetterLast`).
- `CookiesAlwaysSurvive`: `Spec => []CookiesSurvive`, a fact about the conversion alone:
  `Narrow` keeps what fits, and what comes out of it fits.

`RequestsAnswered` and `DownloadsTargeted` are liveness and stay with TLC, which also
checked the invariant on the instance of the run before it was proved.

### 8.5 Finding and observations

Finding 3: `~ThrustSessionProxyConfigService` writes into its session
(`thrust_session_proxy_config_service.cc:34`) to avoid an erroneous access, but the
service goes with the request context, which others may hold after the session is
gone.

- The test of `parent_` and its use are one step of the model; what the destructor
  can do in between shows as `crashed = "binding"`, reached while the session is
  "dying". Four more stops (`"context"`, `"getter"`, `"resolver"`, `"page"`) are
  reachable uses of what is gone; properties are stated up to them.
- `ProxyFollowsRules` makes an exception (`overtaken`) for a change of the system's
  configuration while rules are set: the observers are told the system's although
  the rules hold.
- `CookiesLoadCallback` does not look at the error: a client that fails to load and
  one that has no cookies are the same. The docs list `cookies_add` and its
  siblings as remote methods, the code emits them as events; a dummy store reports
  changes all the same.
- The dialog of a download asks the page for its window; a download whose page was
  closed has none.

Not modelled: the registry keys, `IsOffTheRecord`, storage partitions,
`SetForceKeepSessionState`. `Load` and `LoadCookiesForKey` are one kind. The nested
loop of the download dialog is taken to serve other tasks. `CreateRequestContext` is
taken to be done at the start.

## 9. Remote messages

`RemoteMessages` models `render_frame_observer.cc`, `extensions/module_system.cc`,
`remote_bindings.cc`, `resources/remote.js`, `render_process_observer.cc` and the two
methods of the window that send and receive.

A frame (`frame`, `shown`) has one observer; `contexts` is its `remote_bindings_`, one
context per document, with the natives, the modules and the listeners it has. A
context is built by `StartedContext`, which follows `DidCreateScriptContext` and
`require` step by step. `toFrame` and `toClient` are the IPC channel in the two
directions. A dispatch is one task of the renderer, but the callbacks of a page run
inside it: `dispatch` is where the walk over contexts and listeners stands, and each
callback is a step: `CallListener`, `CallListenerThatEdits`, `CallListenerThatSends`,
`CallListenerThatThrows`, then `HandlerReturns`. `threw` is the exception that ends a
walk. Two of its fields are not in the code: `stay`, the listeners nobody removed since
the walk began, and `shifted`, an entry at or before the position was removed. `send`
takes one of three kinds of values: an object, something that is none and gets wrapped
in one, and an array (or null), which the bindings drop; `said` is what each document
passed to it. `DidCreateScriptContext` and the
scripts of a page (`PageEdits`, `PageSends`) run between dispatches.
`RenderProcessGone` may happen at any step.

Run `remote`: three listeners, two documents, two messages, four calls by pages;
473 435 states.

| property | what it says |
|---|---|
| `MessagesHeard` | every document has `THRUST.remote` and no rights left over; a listener that stays is called exactly once per message, whatever the others do, with two exceptions: one that removes an entry the walk has reached shifts it, and one that throws ends it; then those up to the thrower have heard it once, those behind it have not |
| `ClientHearsInOrder` | the client receives what each document passed to `send`, in order: everything but arrays and null, which never arrive; beyond these only the end of a process loses something |
| `DispatchCompletes` | no listener holds up the messages behind it; the walk reaches the document shown |

Bounds: three listeners are one that is being called, one before and one after it;
the second document answers next to the first. Deadlock is not checked: messages and
calls are bounded. Fairness: the message loops of the two processes go on, and
scripts return; a page that loops for ever is excluded, as it blocks its renderer.

Proofs (`RemoteMessagesProofs`), for any number of documents, listeners, messages and
calls: `MessagesAlwaysHeard`, `ClientAlwaysHearsInOrder`, and
`ShownDocumentAlwaysHandles` for the safety half of `DispatchCompletes`.
`MessagesHeard` says what is true when a walk is over; the invariant says why, while it
goes on. No listener is twice in a list (`ContextsSound`); what the walk has called is
the list up to its index, unless an entry before it was removed, and the listeners that
stay lie in the part of the list it will reach (`WalkSound`). The lemmas under it are
about `listen` and `remove` on lists of any length: `remove` walks the list from behind
and takes the one entry out, the others keep their order. For the client, a document
that may still speak has lost nothing and one that is to come has said nothing
(`SpeakersHeard`), so that what is lost is always the end of what a document said.
The other half of `DispatchCompletes` is liveness and stays with TLC.

Observations: a listener that removes itself makes the walk skip the next one, and
one that throws ends the walk of its document, so that a page cannot rely on a listener
behind one it does not know (`EveryListenerHearsOnce` says what holds in both cases).
An array passes the test of `remote.js:54` and is dropped at `remote_bindings.cc:89`;
null is dropped at line 75, or ends a debug build. Nobody is told, nor is
the client when a message of its own finds no process (`thrust_window.cc:259`).
Contexts are never deleted, so that documents that are no longer shown also handle messages (the TODO at `render_frame_observer.cc:145`). Guest pages get
`THRUST.remote` but no window handles what they send. A `remote` call without
"message" dereferences NULL. `request_sender.cc` and `context.cc` are not compiled;
lazy fields, `CallModuleMethod` and `DispatchOnUnloadEvent` have no caller. Not
modelled: safe builtins and the console, and a script of another window that keeps
the `THRUST.remote` of a frame that is gone.

## 10. Menus

`Menus` models `thrust_menu.cc`, `thrust_menu_views.cc`, `thrust_menu_binding.cc` and
`src/browser/ui/views/global_menu_bar_x11.cc`, `global_menu_bar_registrar_x11.cc`;
`Accelerators` models `accelerator_util.cc`; `MenuShortcuts` puts the two together.

`menu` is what the client built, `app` the application menu, `bar` what the bar of
each window shows: a stack, the top level first, then each submenu that was opened.
Every level is a copy of rows with the model they came from. `Follow` is the pointer
and the index of a row followed now. `popup` is the menu whose nested loop runs
inside the call that opened it. `careless` is not in the code: the client deleted a
submenu before its menu, or cleared or deleted a menu on display. `mistaken`: a
command was executed that was not the one shown.

The client's calls are `CreateMenu`, `AddItem`, `AddSubMenu`, `Clear`,
`SetApplicationMenu`, `DeleteMenu`, `Popup`, `CreateWindow` and `DeleteWindow`; the
user's steps `OnItemActivated`, `OnSubMenuShow`, `PopupEnds` and `WindowCloses`. The
registrar's half has the proxy that D-Bus creates late or not at all
(`OnProxyCreated`), the owner of the name that comes and goes (`OwnerChanges`,
external, and `OnNameOwnerChanged`), and the calls under way (`Delivered`).

Run `menu`: three menus of at most two items, two windows, two commands, seven calls,
two changes of the registrar's owner; 758 618 states.

| property | what it says |
|---|---|
| `BarsFollow` | the application menu is alive; every open window shows the one set last |
| `CarefulMenusWork` | as long as the client is careful nothing is followed into nothing, and a click executes the command the user saw |
| `RegistrarKnowsBars` | when nothing is under way the registrar knows exactly the windows that have a bar |
| `AcceleratorsAgree` | what a text of up to three tokens, function keys of any number among them, means does not depend on their order, and a shifted character is shift and its key |

Proofs (`MenusAndDialogsProofs`): `BarsAlwaysFollow`, `CarefulMenusAlwaysWork` and
`RegistrarAlwaysKnowsBars`, for every finite set of menus and of windows, menus of any
length, any number of calls and of restarts of the registrar. The inductive invariant
has one part for each. `BarsInv` says which windows may have a bar and of which menu.
`CarefulInv` says what makes a careful client safe: the submenus of a live menu are
alive, the relation "is a submenu of" has no cycle, so that a menu that is cleared is not
below itself, and what every level on display shows is how the items of a live menu
begin. `RegistrarInv` speaks of the calls under way: what the owner of the name will
know when they have arrived is what is mapped. `AcceleratorsAlwaysAgree` is about texts
of any length: after the first n tokens the parser has what `Meaning` says of the set of
them, with the one key among them, and a set has no order; the induction is over a
set of natural numbers.

Bounds: a behaviour is about menus or about the registrar (`Workloads`), which share
only which windows have bars. Three menus are a bar, a submenu and one that replaces
either; seven calls create a window and two menus, fill both, nest them, set the
application menu and change it. Two changes of owner let one come, go and come
again. Deadlock is not checked: calls are bounded. The specification has no fairness:
all four properties are about safety.

Observations:

- Setting the application menu while a window is closed but not deleted crashes
  (`thrust_menu_views.cc:45`, `global_menu_bar_x11.cc:185`); `CarefulMenusWork`
  allows for it (`"window"`).
- A second popup cancels the first, whose call then returns.
- The parser of accelerators accepts f0 and f25, has the codes of pageup and pagedown
  the wrong way round, and cannot name `+`. The cast of `GetBinding` to a menu is not
  checked.

libdbusmenu is taken to be present. Separators, flags and labels are left out: they
change no pointer. `MenuBar`, `MenuDelegate`, `SubmenuButton` and `MenuLayout` are
never instantiated; accelerator tables have no caller. The menus of OS X are not
modelled.

## 11. Dialogs

`ColorChoosers` models the three implementations of the colour chooser
(`color_chooser_win.cc` with `color_chooser_dialog.cc`, `color_chooser_mac.mm`,
`color_chooser_aura.cc`) and what the web contents does with them. `ui` is what the
UI thread keeps, `panel` the shared panel of OS X, `dialog` each native dialog, `custom` the custom colours on Windows.
A request, its chooser and its dialog have the same number. Actions:
`OpenColorChooser`, `PageEnds`, `ContentsDestroyed`, `SetSelectedColor` (the page and
its contents), `PanelEchoes`, `UserPicks`, `UserCloses` (OS X, Aura), `ExecuteOpen`
(the dialog's thread on Windows) and `DidCloseDialog` (its task on the UI thread).

The flag `nonUserChange_` of the code (`ui.nonUserChange`) and what the panel does
(`panel`) are two things: each colour the program sets may be reported, at any later
moment or never (`panel.reports` counts the reports on their way), a report goes to the
target there is when it arrives and reads the colour the panel shows then
(`panel.shown`, the user's if the user has picked since), and picks come in between.

The specification is `ChooserSpec`. `FileDialogs` is an algorithm: which files a page may be given for each mode on GTK,
Windows and OS X, from the flags of `RunFileChooser` to the results of the native
dialogs, and the folder and name a dialog starts with: each platform's constructor is
translated by itself (`GtkStart`, `WinStart`, `MacStart`) over paths that are empty,
full or bare names, of a folder, a file, something absent or an absent folder. The
code of GTK calls only `gtk_file_chooser_set_filename`, which shows no name for a
file that does not exist; the shell of Windows finds no folder for a bare name
(`DirName` is `.`) nor for a missing one. `Dialogs` puts the two together.

Run `dialogs`: two web contents, three requests, three platforms; two names of files
and folders, with and without a path; at most two reports of the panel on their way; 504 060 states.

| property | what it says |
|---|---|
| `ChoosersSound` | no chooser is used after its deletion, whatever outlives it; the static pointer names the only chooser |
| `ColoursKept` | a page gets only a colour its user picked in the dialog of that request; the program's own colour comes back as the user's only after two reports of such changes were on their way together (`panel.crossed`); custom colours reach the next dialog |
| `FilesFitTheMode` | over every choice of a user and every mode, the three platforms give the page the same thing: what the mode means; and for every kind of default path the dialog proposes the folder and the name that the one of OS X does, or none where `StartsAsOnMac` says so |
| `ChoosersEnd` | every chooser ends and its page is told |

Bounds: two contents compete for the one chooser; a third request comes after a
dialog that outlived its chooser and one that replaced it. Deadlock is not checked:
requests are bounded. Fairness: the user closes what is on the screen and the UI
thread runs its tasks.

Proofs (`MenusAndDialogsProofs`): `ChoosersAlwaysSound` and `ColoursAlwaysKept`, for every
set of web contents, any number of requests and each platform. `IInv` says in addition
which choosers the record of the UI thread may still point to (`Sound`: a chooser that
is alive is the one its contents, the static pointer or its dialog know), that choosers
are made in the order of the requests (`MadeInOrder`), that a dialog shows or has
chosen something only for a chooser that was made (`DialogsHonest`), that unless
reports crossed at most one is on its way and the flag is set for the one that would
report the program's colour (`PanelHonest`), and that the custom
colours of a request are at least those of every dialog that was over when it began
(`ColoursHandedOn`). `End`, which the three platforms run from different callbacks, is
a composition of five operators on a record; a lemma for each says which fields it
changes. `FilesAlwaysFit` is `FilesFitTheMode` for every set of files and
folders: each mode on each platform, from the flags to what the page gets, and each kind of
default path. `ChoosersEnd`
is liveness and stays with TLC.

Observations:

- A name suggested for a new file (`default_file_name`) is lost on GTK, where the save
  dialog would need `gtk_file_chooser_set_current_name`.
- On Windows a dialog cannot be closed by the program, and a page that is refused
  because one is running is never told so.
- Two Windows dialogs on screen together: the one closed last overwrites the custom
  colours of the other, although `color_chooser_dialog.h` says that "future dialogs
  will see the changes". `CustomColoursKept` excepts it (`overlapped`).
- The flag `nonUserChange_` may swallow a pick of the user that comes before the
  panel's echo (the page then hears of it with the echo, if it comes). It stands for
  one report only: after two changes by the program that were both still to be
  reported, the second report gives the page the program's colour as a choice of the
  user, which the comment at `color_chooser_mac.mm:21` says does not happen.
- A guest that is not attached asks `GetThrustWindow()`, which is NULL, for its
  choosers.
- Modal file dialogs run a native loop inside the request. The asynchronous
  `Show*Dialog` have no caller; the enumeration of a folder includes `..`; the lists
  of filters are always empty. The case of `OpenMultiple` falls through into
  `Open`, without which OS X could select nothing.


## 12. Not modelled

- JSON text and the conversion of dictionaries, except that of cookies: payloads
  do not influence the control of what is modelled.
- Start-up (`src/app`, `browser_main_parts.cc` but for the shutdown), the content
  clients, the network delegate, geolocation, resource bundles: straight lines of
  calls into the content layer with no state a protocol depends on.
- Drawing, icons, fonts, the menus of OS X, GTK and X11 plumbing: toolkit calls.
- `request_sender.cc` and `context.cc` of the renderer are not compiled;
  lazy fields, `CallModuleMethod` and unload events of the module system, the
  asynchronous file dialogs, `MenuBar` and `SubmenuButton`, and several accessors
  of the window have no caller.
- Failures of single file writes, the salt of the visited-link file, renderers
  that cannot map its table.
- Undefined behaviour beyond a stated choice: a map corrupted by the data race on
  `invokes_`, members that are read before they are set (`current_zoom_factor_`
  is a choice over the factors; the flags of `set_fullscreen` and `set_kiosk`
  without an argument are the choice the methods' two outcomes make).

## 13. What is proved and what is only model-checked

| component | proved for every value of the constants | only model-checked |
|---|---|---|
| API server | `RemotesOwned`, `CallbackRunsOnce`, `AliveIffHeld`, `SessionsLast`, the refinement | `ActionsArrive`, liveness |
| visited links, master | `TableSound`, `SavedWhenQuiet` | `LookupsDuringDeletion`, `ChangesKeptAndTold`, the refinement |
| visited links, distribution | `EveryRendererServed`, `ColoursCorrected` | liveness |
| windows | `ClientKnows`, `PlatformsAgree`, `ClicksDecided` | liveness |
| guests | `CarefulPagesNeverCrash`, `GuestsAccountedFor`, `AnswersReachTheirDialog`, `AssignmentsNavigate` | `ElementShowsGuest`, liveness |
| sessions | `CookiesInOrder`, `ProxyFollowsRules`, `CookiesSurvive`, `ResourceContextGoesFirst` | liveness |
| remote messages | `MessagesHeard`, `ClientHearsInOrder`, the safety half of `DispatchCompletes` | liveness |
| menus | `BarsFollow`, `CarefulMenusWork`, `RegistrarKnowsBars`, `AcceleratorsAgree` | |
| dialogs | `ChoosersSound`, `ColoursKept`, `FilesFitTheMode` | liveness |

Liveness under fairness is out of the prover's reach. So is `ActionsArrive`, which is
about the bytes of `Framing`, whose operators are recursive. Where the code loops, a
theorem needs the loop to be a recursive function on numbers, which can be reasoned
about step by step: the runs of the visited-link table, the loops over links and the
tokens of an accelerator are written so. `ElementShowsGuest`, what lookups may see of a
deletion, what the listener is told of each change and what a crash leaves of the links
have no proof yet. The proofs assume what the modules assume of their constants and
nothing else.
