# ChromeDriver: TLA+ models, model checking and proofs

ChromeDriver is the server between WebDriver clients and Chrome. Clients send
HTTP requests and, with WebDriver BiDi, WebSocket messages; ChromeDriver
translates them to DevTools commands, which it sends over a WebSocket or a pair
of pipes, and reacts to DevTools events. This directory holds TLA+ models of the
parts of it that are hard to test, the TLC configurations that check them on
small instances, and TLAPS proofs of properties for every instance.

    tlc -workers 2 -config SyncWebSocket.cfg MCSyncWebSocket
    tlapm SyncWebSocket_proofs.tla

`PROJECT.json` lists, per definition, the lines of the source it models, and per
run the properties, with a mutant of the model that breaks each one.

## 1. The system

### Threads

| thread | owns | talks to |
| --- | --- | --- |
| I/O thread | the connections of `net::HttpServer`, every `WebSocket` to a browser | runs posted tasks in order, posts to the CMD thread |
| CMD thread (main) | `session_thread_map_`, `session_connection_map_`, `connection_session_map_`, the counters of GetSessions and QuitAll | posts to the I/O thread and the session threads, joins session threads |
| one thread per session | the `Session` in thread-local storage, `Chrome`, the `WebView`s, the `DevToolsClient`s, `bidi_connections_` | posts to the CMD thread; blocks on the I/O thread in Connect, Send and ReceiveNextMessage |
| pipe reader and writer threads | the two ends of the DevTools pipes | shared buffers under a lock |
| adb thread | requests to `adb` | answered through an event |

### Components

| component | state | hard behaviour | what makes it correct | module |
| --- | --- | --- | --- | --- |
| `SyncWebSocketImpl` (net/) | `socket_`, `is_connected_`, `received_queue_`, notifications | two threads, a retry loop that posts again while the first attempt runs, events in stack frames | no lost wake-up, nothing discarded that matters, loss of the browser noticed | `SyncWebSocket` |
| `PipeConnection` (net/) | buffers, threads, shutdown flags | reads and writes that stop anywhere, a blocked reader, a failing writer | messages whole and in order, the exit of the browser ends the session | `PipeConnection` |
| BiDi connections (server/) | three maps, task queues, `bidi_connections_` | every connection and every session may end at any moment on its own thread | a session is removed once, connections are bound, served and closed | `BidiConnections` |
| Request dispatch (commands.cc, server/) | `session_thread_map_`, reply counters, nested run loops | requests are handled inside nested loops; late replies after a timeout | one answer per request, exact counters, shutdown after the answers | `SessionDispatch`, `SessionService` |
| Routing and answers (server/http_handler.cc) | `command_map_` | some 180 patterns searched in order, two protocols | no pattern hides another, standard error codes | `HttpRouting`, `HttpCommandMap` |
| Server start (server/) | sockets of two address families | ports taken in between, dual-stack sockets | local clients reach the server | `ServerStart` |
| `DevToolsClientImpl` (chrome/) | `response_info_map_`, lists of unnotified listeners, dialogs, parent and children | listeners send commands, so messages are processed recursively at any depth | every response finds its command, nobody waits for what cannot come, events in order | `DevToolsClient` |
| Navigation and prompts (chrome/navigation_tracker.cc, window_commands.cc, alert_commands.cc, prompt_behavior.cc) | loading state per frame, dialog queue, retry loop | events while the state is being asked for, dialogs racing commands | nobody waits for a load that is over | `Navigation` |
| Views (chrome/web_view_impl.cc, frame_, page_, tab_tracker.cc, chrome_impl.cc) | tree of views, `is_locked_`, `is_detached_`, active page | a view is detached, re-attached or activated while calls use it | held views live, the others do not | `WebViews` |
| Elements (element_commands.cc, element_util.cc, web_view_impl.cc) | none: a reference is all | navigation between any two round trips, reused node numbers | no command acts twice or on another element, but for two kinds of retries; stale means stale | `Elements` |
| Input (window_commands.cc, key_converter.cc) | input states, cancel list, sticky modifiers | commands that fail half-way, sources that share keys and buttons | what is released is up, and modifiers agree with the browser | `InputActions` |
| Windows (session_commands.cc, chrome_impl.cc) | current window, list of tabs | window managers that are late, windows that open and close | an answer is true of the window, but for two that `SetWindowBounds` allows itself; only the last close ends the session | `Windows` |
| New Session (session_commands.cc, capabilities.cc, chrome_launcher.cc) | capabilities, process, profile, port file | parts validated alone and merged; another browser at the port or profile | accepted capabilities can be applied; the browser is one's own and gone in the end | `Capabilities`, `NewSession` |
| Devices (chrome/device_manager.cc, adb) | active devices, forwarded ports | adb commands that are lost, refused or late | one session per device, a device is given back clean | `Devices` |
| Overrides (chrome/*_override_manager.cc) | position, network, metrics, download directory | re-applied at navigations, copied to windows, referred to from managers; errors of listeners that nobody sees | the page has what the session asked for | `Overrides` |
| Cookies | none | pages navigate and change cookies inside a command, which may fail half way and be run again | only cookies in reach of the page are touched, and none that was there all the time is missed | `Cookies` |
| FedCM | last dialog | dialogs close and open around an answer | no command for a dialog that is gone | `FedCm` |
| Logs (logging.cc, performance_logger.cc, console_logger.cc) | batches, tracing state | entries added while they are handed out, nested collection of a trace | no entry lost, doubled or moved | `Logs` |
| Log replay (log_replay/) | id map, position in the log | a driver that is asked faster than the log says, recorded commands that were never answered | ids and order are those of the log | `Replay` |

### How they interact

A request arrives on the I/O thread, is posted to the CMD thread, routed by
`HttpHandler` and, for a session command, posted to the session's thread. There
it runs to completion, nested DevTools message processing included, and its
answer is posted back over the CMD thread to the I/O thread. A message of the
browser arrives on the I/O thread, is put in `received_queue_` under a lock and
either wakes a waiting session thread or, when the session asked for a
`webSocketUrl`, is announced to the session thread with a posted notification. A
session ends on its own thread (`Session::Terminate`): it posts the closes of its
BiDi connections and a termination to the CMD thread, which joins the thread.
On the session thread, a command waits for DevTools by processing messages, which
reach the trackers and managers of the views; these send commands in their turn.
So although it is one thread, everything a command read before a round trip may
be different after it. Most modules below are about that.

The hazards found in the survey are in `PROJECT.json`, each at its line.

## 2. Modules

Every module has the state as variables, one action per operation or per stretch
of code between two places where something else may happen, `TypeOK`, and its
properties at the end, each with the code it is about. Operators that a property's
mutant uses stand before the definition they stand in for.

### SyncWebSocket, SyncWebSocket_proofs

`pc` says where the session thread is (in Connect, in Send, in
ReceiveNextMessage, between tasks). The tasks posted to the I/O thread are
`ioQueue`, and the I/O thread also takes the steps of the network. `frame`,
`success` and `signaled` are the local variables of Connect or Send to which the
I/O thread holds raw pointers; a write when that frame is gone is undefined
behaviour and is modelled as hitting nothing, or the frame that lives there now.
Connect posts `ConnectOnIO` again whenever a wait expires; each
`ConnectOnIO` clears `received_queue_` and keeps an open socket. A message with
the id of another client is not queued for ChromeDriver. A notification drains
the queue, unless a message cannot be processed. `webSocketUrl` is chosen in
Init: only such a session handles notifications.

### PipeConnection

Session, reader and writer thread of both platforms, `platform` being chosen in
Init. A message is one byte and its terminator, so a read or write that stops
"anywhere" stops before, inside and after a message. Capacity bounds the pipes.
`pc` and `posted` are the session thread and the notifications posted to it.

### BidiConnections, BidiConnections_proofs

`cmdQueue`, `ioQueue` and `threadQueue[s]` are the task queues. `conn[c]` is what
`net::HttpServer` knows of a connection; `connectionSession`, `bucket` and
`known` are the two connection maps, with `Unbound` for the session id `""`.
`known` is the set of keys, since an entry that exists with an empty vector
differs from a missing one. `tls[s]` is the thread-local Session; `quitting` is
the window between the reply of a command that set `session->quit` and
`Session::Terminate`. `terminate_on_cmd` is bound with `BindPostTask` to the CMD
thread and takes two hops through its queue, as in the code, and erasing a thread joins
it: `OnSessionTerminated` waits until the thread has run its tasks.

### SessionDispatch and SessionService, SessionDispatch_proofs

A request is posted to the CMD thread and handled there. `ExecuteGetSessions`
and `ExecuteQuitAll` post one task per session with a callback that holds raw
pointers to their counter and run a nested loop; the loops are a stack, the
innermost returns first, and all of them handle further requests. Loops time out.
`SessionService` is what a client may rely on: a request is
answered once, by a session that exists or with an error, and a session that is
gone stays gone. `ImplementsService` maps the threads, queues and loops to it.

### HttpRouting with HttpCommandMap, ServerStart

`HttpCommandMap` is the table of the constructor, a path being the sequence of
its segments. `HttpRouting` takes one request at a time, made from every mapping
with every value for the variable segments, through `MatchesCommand`,
`HandleCommand` and the W3C or legacy form of the answer. `ServerStart` is `main`
from the flags to the announced port on the machines it distinguishes (IPv6 or
not, dual-stack or not), with other processes that take ports in between, and
the checks that a request passes.

### DevToolsClient, DevToolsClient_proofs

Everything here runs on the thread of one session, and yet interleaves: a command
waits by processing messages, a message is given to listeners, and a listener
sends commands. `stack` is the call stack, one record per call that can be
interrupted in this way, and `ret` the Status returned last, so `Call` and
`Return` are the only ways control moves. A step runs to the next place
where a message can be received or another call begins. The lists of unnotified
listeners, `unnotified_event_` and `unnotified_cmd_response_info_` are members in
the code and variables here; what a caller leaves in them is what nested
calls find. `commands` is the union of the `response_info_map_`s: `mapped` is
membership, `pending` says that the browser has yet to answer. A response, an
event, a timeout or the loss of the connection is chosen at each receive.
Listeners are reduced to the calls of `OnConnected`, `OnEvent` and
`OnCommandSuccess` that send a command or fail (`SendTargets`). `navigations` are the
commands that are Page.navigate or Page.navigateToHistoryEntry: NavigationTracker fails, or
sends a command, at the success of these alone. `Root` is the
browser-wide client; a page and one out-of-process frame are attached to it.
`FedCmTracker` joins the listeners of a client that is already connected.

### WebViews

A view is the number of its DevTools session. The browser opens and closes tabs,
attaches, activates and detaches their pages and frames, each with an event that
the driver gets in order. The thread is a stack of calls; each holds the views its
`WebViewImplHolder` locked (none for a method that takes no holder) and handles the next event
while it waits; attaching is itself a call. Deleting a view deletes those below it.

### Navigation

The tracker's stack of calls (`trackerCalls`), each waiting for the answer to a
script, the messages of the browser in `inbox`, and on top of them the loop of
`ExecuteWindowCommand` with its retries, the waits for a load with their timeout,
dialogs and what `PromptBehavior` makes of them. The browser's documents go
through loading, interactive and complete, and events lag behind.

### Elements

A command is a table of points, one per script or input it sends, with the points
that may follow (section "function by function"). Every script is the sequence of
`CallFunctionWithTimeoutInternal`: find the loader of the frame, compare it, resolve
the references, run, return. Navigations, removals of nodes and of frames happen at any place; a node number
may come to denote another node. `Ends` is what `ExecuteWindowCommand` makes of the status:
it runs the command again, up to twice, after a navigation, after a timeout and after any
other error while a navigation is pending; `timedOut` and `repeated` note the retries that
need not follow the loss of the page.

### InputActions

What is `down` in the browser against what the session keeps: input states, the
cancel list, sticky modifiers, the mouse position. `PerformActions` goes tick by
tick and source by source over sequences chosen so that keys, mouse, touch and
wheel, sources that share a button, and invalid actions all occur; the older mouse,
touch and key commands share its state. Every dispatch may fail after some events. The
state of a source is found by its id: sequences are not empty and an id keeps its type
(see the observations for both).

### Windows, Overrides, Cookies, FedCm, Logs

One session's command after the other, each a sequence of DevTools commands, with
a browser, window manager or page that acts in between (`windowChanges`,
`losses`, `pageActions`, dialogs, log events). In `Windows` `passed` are the states the
window was in since the command began, and `how` marks the two answers OK that
`SetWindowBounds` gives without the state (not implemented, simulated). In `Cookies`
`reach` collects what happened since the command began, over all its runs: the URLs of the
frame, what pages touched, what the command added and deleted. In `Overrides` an event that
a manager fails on keeps the managers behind it from applying theirs (`neglected`); the
error ends the send only if it is for the same page (`broken`), and is lost otherwise, as in
`HandleMessage`, or where the command ignores or retries the send. `Overrides` numbers the objects of
network conditions, since the manager keeps a pointer: `alive` are those not
deleted, and applying another one is undefined behaviour. `Logs` numbers what
happens in the browser so that an entry can be followed through batches.

### Capabilities, NewSession, Devices, Replay

`Capabilities` enumerates requests over kinds of JSON values; its state is one
request and the result of `ConfigureSession`. `NewSession` interleaves the launch
with the launched browser, another browser on the same profile or port, and the
steps that end a session. `Devices` interleaves two sessions and an adb server that
refuses, loses or delays. `Replay` records a session, then replays it on both
sides: the client that sends commands with substituted ids, and the socket that
answers DevTools commands from the log. A recorded command is awaited or not; it may time
out, and be answered in the log later or never, or be ended by a dialog. At the end of the
log the socket uses a null entry (`crashed`).

### MC modules

`MCSyncWebSocket`, `MCBidiConnections`, `MCSessionDispatch`, `MCDevToolsClient` and
`MCWebViews` instantiate one module each. `MCConnections` checks `PipeConnection`
and `DevToolsClient` with liveness, and `MCServices` checks the fifteen modules of
one thread that share no state: the initial state chooses the
component (`part`), and the variables `s1`, `s2`, ... are those of that component.
The states of such a run are the disjoint union of the states of its parts.
`ReleaseKeys.cfg` and `NetworkOverride.cfg` run a component's module itself.

Three modules extend `MCServices` with proofs: `MCServices_proofs` (`FedCm`,
`Devices`, `Elements`), `MCWindows_proofs` (`ServerStart`, `NewSession`, `Windows`,
`Overrides`) and `MCViews_proofs` (`WebViews`, `Cookies`). No step changes `part`, so that what
holds of a component holds of `MCServices`; in these modules a variable has the
name `s1`, `s2`, ... that `MCServices` gives it. `QueueLemmas` has the facts
on `Append`, `Tail`, `SubSeq` and `EXCEPT` that the proofs about queues and stacks share.

## 3. Runs

| run | instance | states | shows |
| --- | --- | --- | --- |
| sync_websocket | 3 attempts, 2 messages, 2 sends, fair | 379,785 | wake-ups, notifications, order, retries, liveness of Connect and of the end of a session |
| sync_websocket_stale | the same | violation | finding 1 |
| bidi_connections | 1 connection, 2 sessions, 2 messages, fair | 608,416 | maps, binding, removal, closes, answers |
| bidi_orphan | 1 connection, 1 session, fair | violation | finding 2 |
| session_dispatch | 3 requests, 2 sessions, 1 of them may exist before, fair | 1,464,374 | counters of nested loops, one answer, refinement of `SessionService`, shutdown, removal |
| devtools_client | besides attaching, 2 operations and 1 event, or 1 and 2 | 4,721,489 | nested processing, timeouts, dialogs |
| devtools_listener | 3 operations, no event | violation | finding 3 |
| connections | pipe: 2 messages, 2 sends, capacity 1; client: 1 operation, 1 event, beforeunload accepted; fair | 163,091 | both ways to wait for the browser, with liveness |
| services | the fifteen parts below | about 5,922,000 | one property per component |
| views_unheld | as the views below, calls without holder too | violation | finding 4 |
| release_keys | `InputActions`, 2 commands | violation | finding 5 |
| network_override | `Overrides`, 3 commands | violation | finding 6 |

The parts of `services`:

| part | states | bounds | property |
| --- | --- | --- | --- |
| routing | 1,723 | every mapping, 2 values per variable | `RoutingIsStandard`: a request runs the command of the mapping it was made from, answers agree with the two W3C tables |
| server | 193,376 | 2 ports, every kind of machine | `ClientsReachTheServer`: both families, or the process ends; local clients are served |
| views | 37,819 | 2 tabs, 2 pages, a frame in a frame, 3 sessions, 2 events, depth 4 | `HoldersKeepViews`, `ViewsFollowTargets`: no held view is deleted and none is kept; views and active pages are those of the browser when all is quiet |
| input | 235,506 | 3 commands, 5 sources, a page of 3 points | `InputMatchesBrowser`: after Release Actions what was pressed is up; sticky modifiers are those that are down |
| navigation | 175,623 | 2 frames, 1 command, 2 disturbances, 2 messages ahead, depth 2 | `LoadingIsLoading`: when all is read, a frame held to be loading is loading |
| elements | 284,142 | 2 frames, 2 commands, 2 page changes | `ElementCommandsAreExact`: no effect twice, unless the command timed out or had acted and ended in another error while a navigation was pending; stale and missing elements are so |
| capabilities | 4,327 | pairs of values over the parsers | `AcceptedIsApplicable`: parts that are accepted are accepted once merged; an emulation can be applied |
| launch | 33,289 | 2 browsers | `BrowserIsOwned`: the session talks to its own browser, and leaves nothing behind |
| devices | about 153,000 | 2 sessions, 2 devices, 1 fault each | `DevicesAreExclusive`: one session per device, clean when given back |
| windows | 288,685 | 3 tabs, 2 commands, 2 changes | `WindowAnswersAreTrue`: states that are answered were reached, but for bounds that are not implemented and a simulated maximize; only the last close ends the session |
| overrides | 158,221 | 2 pages, 2 commands, 2 navigations, 1 refusal | `OverridesHold`: without an error answered, the page has the position, metrics and directory asked for, but for what a manager failed to apply again |
| cookies | 768,000 | 1 command with its retries, 2 acts of the page | `CookiesInReach`: only cookies in reach are listed, deleted and added; those that were there all the time are not missed |
| fedcm | 9,952 | 3 dialogs, 3 commands | `NoGhostDialog` |
| logs | 141,544 | 2 events, 2 commands, batches of 1 | `LogsAreExact`: nothing lost, doubled or moved |
| replay | 3,436,290 | 4 commands, 2 sends, 1 event, 11 entries recorded | `ReplayIsFaithful`: ids are substituted; answers ahead, and reads beyond the log, only after commands that the log leaves unanswered |

Bounds. Three attempts are the three timeouts of the source. Two messages and
two sends give a batch with a first and a later message, read by commands and by
notifications in either order. One connection moves between two sessions (and
back to unbound). Three requests allow a QuitAll inside a GetSessions with a
session command under way, or a request handled after a shutdown inside the loop
of a third, as a session may exist before the first of them (`Earlier`); two
sessions allow replies of different loops to interleave. Requests are numbered
in the order in which they arrive. In the parts of `services` two disturbances are
enough for one before and one after every round trip of a command; two commands for
state that the first one leaves to the second; three sessions of a target for a view that is
attached again while its old view is held, and once more. A cookie command keeps nothing for
the next one, so one is enough, with up to three runs of it. Four recorded commands let a
GetSessions come before and after the finding of elements.

In `DevToolsClient`, `MaxTotal` bounds operations and events together, `MaxSends` the operations begun by WebDriver
commands and the optional commands of listeners together; attaching, its
`OnConnected` commands, round trips, dialogs and what NavigationTracker sends for the
response of a navigation are not counted. `devtools_listener` has three operations: the
navigation, that of GetFedCmTracker and the next one. Attaching a page
is already three levels of nesting, one event attaches a frame inside it and
the second arrives there, so lists are overwritten, events overtake and dialogs open
while several commands wait. There beforeunload dialogs are left to the command;
accepting them at once (`AutoAccept`) is checked with one event, in `connections`.

Fairness. Threads run the tasks posted to them (WF). The waits of Connect and
ReceiveNextMessage have timeouts and expire (WF). A WebDriver command ends, as
every wait in it has a timeout, and an idle thread eventually takes the
notification in its queue though commands compete with it, since tasks run in
order (SF, for the pipe as for the socket). Nothing is assumed of browsers, clients
and the network, except that a browser that has not exited reads what is written to
its pipe. Nested loops of GetSessions and QuitAll have a timeout task and
return. The thread of `DevToolsClient` keeps running (WF of its steps; each receive
has a timeout), and the timeout of HandleEventsUntil, tested after each 500 ms
interval that expires, expires itself (SF of `HandleEventsEnds`).

`ConnectionsProgress` and `DispatchProgresses` are of the form <>[]: the numbers of
messages and of requests are bounded, and what they speak of (a request that was
sent, a session that ended, a connection that was dropped) stays so once it has
happened, so that "from some time on, all of it is settled" says the same as one
leads-to formula per request, session and connection.

Deadlock is not checked where the system may stop: after shutdown, when clients and
browsers do nothing more, or at a bound.

### Findings

1. `NoStaleFrameAccess` (net/sync_websocket_impl.cc). Connect waits for the I/O
   thread only when it fails. If the first attempt succeeds after its wait
   expired, the second `ConnectOnIO` is still queued when Connect returns; when
   the connection is lost before it runs, it opens a new WebSocket, whose
   completion writes through pointers into the frame of a call that returned,
   which the comment at line 95 says is prevented.
2. `AcceptedWhileEndingIsClosed` (server/http_handler.cc). A connection attached
   after the session thread destroyed its Session is accepted, and nobody
   closes it, though the comment at line 139 says "soon it will be closed".
3. `SuccessHasResponse` (chrome/devtools_client_impl.cc). A `Page.navigate` times
   out, GetFedCmTracker adds a `FedCmTracker` and sends `FedCm.enable`, and while that is
   awaited the answer of `Page.navigate` comes with an `errorText`.
   `NavigationTracker::OnCommandSuccess` returns an error, the tracker behind it stays in
   `unnotified_cmd_response_listeners_` while `unnotified_cmd_response_info_` is
   reset, and the next `ProcessNextMessage` calls it through a null pointer.
   NavigationTracker is the last listener of the constructor, so only a tracker
   added later (`GetFedCmTracker`; CastTracker in the same way) is behind it.
4. `CallsFindTheirView` (chrome/page_tracker.cc). `OnPageDisconnected` deletes a
   page that is not locked. Methods such as `GetUrl`, `Load`, `Reload` and
   `HandleReceivedEvents` take no `WebViewImplHolder`, so a page that is detached
   while one of them processes messages is deleted under it (`ExecuteClose`,
   session_commands.cc:805). `FrameTracker` and holders
   (web_view_impl.h:334) prevent the same for the calls that lock.
5. `ReleaseReleasesKeys` (window_commands.cc, key_converter.cc). `pressed` has the
   key of the action, the cancel list that of the event, which
   `KeyEventBuilder::UpdateKeyString` changes while Shift is down; Release Actions
   does not find it and leaves the key down.
6. `NetworkConditionsAreRequested` (chrome/network_conditions_override_manager.cc).
   The manager keeps a pointer to conditions that the session deletes when they are
   set once more, or that were a local variable of `ExecuteDeleteNetworkConditions`;
   the next navigation applies them.

### Observations

Made while modelling, without a run of their own. The models take these steps, and
properties that would exclude them say so in their comments, except where an item is
marked (outside): its inputs, or the undefined behaviour they lead to, are not modelled.

BiDi and dispatch
- server/http_handler.cc:1948 says that OnClose always finds the entry of a bound
  connection in `session_connection_map_`. `OnSessionTerminated` erases the
  entry while such connections may remain in `connection_session_map_`.
- server/http_handler.cc:1843 answers "session not found" to a connection whose
  session was terminated; as `connection_session_map_` keeps such a
  connection, `session.new` is answered "session already exists" instead.
- When the thread of a new session cannot be started the reply carries the empty id,
  and the connection stays under that id in `connection_session_map_` and in no bucket.
- session.cc, `HandleMessagesAndTerminateIfNecessary`: the DCHECK on fatal
  errors does not hold when an event cannot be processed and at most one web
  view is left.

Sockets and pipes
- net/sync_websocket_impl.h:46 announces a callback whenever messages are
  available. A notification that stops at a message it cannot process leaves the
  rest of the queue unannounced (`drainFailed`), until a command or the loss of
  the connection. ReceiveNextMessage prefers kDisconnected to messages still queued.
- The Windows pipe reader stops at its largest buffer without clearing
  `is_connected_` (`gaveUp`). A failing writer does not wake a reader that is blocked.
  `Send` that fails may notify, and so delete, the BiDi session whose command it is.

DevTools client
- chrome/devtools_client_impl.cc:1173 says that a failed round trip returns its
  error; the code returns `status`, which is kOk there. The commands are
  marked as blocked all the same (`Blocked`).
- `GetFedCmTracker` deletes a tracker that could not be enabled without removing
  it from the listeners of the client (`DeadPointer`).
- A listener that waits on another client does not finish the list of its own client
  first; an event of that client that arrives meanwhile overwrites the list, and
  later listeners miss the first event. None of them acts on these events.
- The listeners hear of an automatically accepted beforeunload dialog after the
  events that arrived while it was accepted; `EventsInOrder` leaves it out.
- `HandleDialog` pops the front of the queue after its command. That this is
  the dialog it accepted relies on the order in which the browser reports
  dialogs; the default prompt text belongs to the last one opened.

Views
- A detached tab stays locked in `web_views_` until the next UpdateWebViews. A frame
  that is attached again while a call holds its old view is ignored. PageTracker
  activates a page after the nested attach, so an activation that arrived meanwhile
  is overwritten. A service worker or app view that is detached while held fails the
  CHECK of `~WebViewImplHolder`.
- `ExecuteSwitchToWindow` keeps raw page pointers across CallFunction.

Routing and start
- A `/shutdown` that is answered with an error still runs `quit_func_`. Parameters of
  the body override those of the path. `kKnownBidiSessionCommands` misspells
  "browsingContext.handleUserPropmpt".
- server/chromedriver_server.cc:230-240 does not update `port` after the IPv4 start
  outside of Mac, although line 254 announces it. With port 0, IPv6 picks a port
  whose IPv4 twin may be taken, and the process exits.

Navigation and prompts
- web_view_impl.cc:1684: the loop after `Page.stopLoading` tests `status` where
  `new_status` is meant. A `frameStartedLoading` that arrives while the old document's
  readyState is evaluated is overwritten with "not loading". The error of
  IsPendingNavigation in the retry branch is returned unmapped. Dialog type
  "beforeunload" is unknown to `PromptBehavior`, which has "beforeUnload".
  `session->prompt_text` survives an unexpected prompt.

Elements
- SetFileInputFiles and GetAXNodeByElementId compare the loader once and then use the
  node number alone. A user's script that a navigation interrupts is run again, and
  input that times out is sent again; so is input that failed, or a script that threw, while
  a navigation is pending (window_commands.cc:750-758). FindElements during a navigation without
  implicit wait returns an empty list. ExecuteFlick leaves the touch down when a move
  fails.

Input
- (outside) Behind an empty sequence `action_input_states[j]` (window_commands.cc:1770)
  is out of range, or the state of another source. (outside) An id that is used again
  with another type replaces the input state and leaves dangling pointers in the cancel
  list.
- A touch pressed in an earlier command gets no touchEnd. The mouse's "pressed"
  mask is read as protocol buttons, which swaps middle and right. The loop over
  modifiers at the end of ConvertKeysToKeyEvents starts at index 2.

New Session, devices
- Perf-logging preferences are validated per part. `w3c: false` in a later firstMatch
  is not looked at. Timeouts before an invalid one are applied.
- When an extension page does not load, LaunchDesktopChrome returns without
  killing the process. An explicit port that another Chrome has makes the driver
  attach to it. Launches on Android ignore the status of the browser-wide connect.
- `am start` that times out leaves `active_package_` empty, so nothing is stopped;
  TearDown ends at a failed ForceStop; two sessions with one androidDevToolsPort take
  each other's forward; `AdbQuerySocket` ignores intermediate results.

Windows, overrides, cookies, FedCM
- `is_last` is counted before pending events are handled. SetWindowRect without a
  state answers OK unchecked, and so does every command on bounds that the browser does not
  implement, and a maximize that is simulated. A failed state change leaves the window normalised.
- The first page of a headless session never gets its download directory. A
  failing full-page screenshot leaves its metrics. Delete Network Conditions leaves
  other windows throttled. SetTimeZone ignores the status. A manager's error on a
  navigation of another page than the one a command is sent to is swallowed
  (devtools_client_impl.cc:1080-1088), so that an override is lost with no error answered.
- A cookie command that a dialog blocks answers OK with its work undone.
- A dialog shown while cancel or click is sent is forgotten by `DialogClosed()`, also
  when the command failed.

Logs and replay
- Trace events between Tracing.end and the next Tracing.start are not recorded; a
  collection that fails ends the session. (outside) A console event with empty
  `callFrames` is undefined behaviour.
- After a command that the log leaves unanswered (it was not waited for, it timed out, or a
  dialog ended it) LogReplaySocket can run ahead. At the end of the log it dereferences a
  null entry (log_replay_socket.cc:65); a Command at the end lets HasNextMessage say yes.
  `_staged_logged_session_id` stays staged when InitSession fails in the replay.

## 4. Proofs

A theorem `Spec => []P` below is proved for every value of the constants of its
module, from the named ASSUMEs of that module alone; TLC evaluates those in the runs. They say
that bounds are natural numbers, that the clients of `DevToolsClient` are three, that
`None` and `Unbound` are no ids, that request ids are numbers and finitely many
sessions exist before (`SessionDispatch`), that no port is 0 and that targets are trees of tabs, pages and frames, a frame at most two
below its page (`MCServices`). So the numbers of attempts,
messages, events, commands, faults, requests, sessions, targets and connections are arbitrary. What a
module fixes by a definition stays fixed: two devices and two sessions in `Devices`, three tabs in `Windows`, two
pages in `Overrides`, the hosts of `Cookies`, two frames and one node number in `Elements`.

Few of the invariants are inductive. The strengthening of each is at the head of its
part of the proofs module and was checked with TLC before it was proved. Each proof has
one step or lemma per action that can disturb the invariant and a last temporal step.

### SyncWebSocket_proofs

`TypeCorrect` and `SleeperIsWoken` (`NoLostWakeup`) are inductive as they stand. The others:

| theorem | inductive invariant | why it is needed |
| --- | --- | --- |
| `QueueIsCovered` | `QueueCovered` | while a notification or a command reads the queue nothing need be posted; the invariant says who owes the messages at each place of the thread |
| `NoSendDuringConnect` | `NoSendYet` | while Connect runs no SendOnIO is queued, so `success` is written by attempts only |
| `LossIsNotified` | `LossCovered`, with `NoSendYet` | before Connect has returned, `success` is all that tells whether there was a connection to lose |
| `ConnectsAreFirst` | `ConnectsFirst` | the queue is first in, first out: all attempts precede the first SendOnIO |
| `MessagesAreNumbered` | `Numbered` | queued and discarded messages are older than `nextMessage` |
| `NoResponseIsDiscarded` | `OnlyUnsolicitedLost` with the two above | a late attempt runs before the first command is sent, and all it can discard has a smaller number |
| `OrderIsKept` | `Ordered` | the invariant speaks of a concatenation; `Ordered` relates the two sequences, on which Append and Tail act, instead |
| `FailedConnectCloses` | `ClosePending` | `CloseOnIO` is the last task, behind every late attempt, so none can open a socket after it |

### SessionDispatch_proofs

| theorem | inductive invariant | why it is needed |
| --- | --- | --- |
| `TypeCorrect` | `Typed`, `Counted` | that a counter stays a natural number is not a matter of types: it equals the number of replies under way |
| `RepliesExact` | `Counted`, `QuitsCovered`, with `Ownership` and `Lifecycle` | a reply lowers the right counter because no queue holds two replies of one session to one loop; each session that a shutdown asked still has the command, is quitting or has ended |
| `AnswersExact` | `Ownership`, `Stopping` | the duty to answer a request is in one place: a task of the CMD thread, a task of one session thread or a nested loop, and in none once it is answered; responses are posted ahead of the task that stops the servers |
| `Implements` | all of them | every step of the queues, threads and loops is one step of `SessionService` or changes nothing that a client sees |

`Implements` proves the whole of `ImplementsService`, initial states and steps;
`SessionService` states no fairness.

### BidiConnections_proofs

`TypeCorrect` has `Typed`. `EndOnce` (`SessionsEndOnce`) and `Served` (`ConnectionsAreServed`) rest on
`Bookkeeping`: the CMD thread hears of each event once, creation before end and
request before close (`Orderly`); a thread whose Session is gone has exactly one task that
announces its end (`Lifecycle`); nobody is bound to a session before it is announced
(`Announced`); a bound connection is in the bucket of its session, and the session
thread has it or has the task that adds it, and none that removes it (`Bound`,
`Closing`). Without the order of the queues the last part fails: a removal could overtake an addition.

### DevToolsClient_proofs

`TypeCorrect` has `Typed`. The other three are about a stack of calls of any depth:

| theorem | inductive invariant | why it is needed |
| --- | --- | --- |
| `ResponsesMeet` | `Chain` | each waiting SendCommand has the ProcessNextMessage of its client or of Root directly above it, ids on the stack differ, and each call is at a place its callee allows; what waits is in `response_info_map_`; nothing happens between the test that a command still waits and the receive |
| `DialogsBlock` | `Blocking`, with `Chain` | the event that opened the dialogs is still being processed and no older command is above it, or no command older than the dialog waits |
| `HearInOrder` | `InOrder`, with `Chain` | a listener is on a list once; nobody has seen anything as new as an event whose processing begins; as long as OnConnected is owed, only AttachTo and what it calls is on the stack |

### MCServices_proofs, MCWindows_proofs, MCViews_proofs

| theorem | inductive invariant | why it is needed |
| --- | --- | --- |
| `GhostsAreForgotten` (`FedCm`) | `FedCmTyped`, `EventsWillTell` | what the tracker believes plus the events on their way is what is shown |
| `DevicesExclusive` (`Devices`) | `DevicesGood` | what a session holds is locked in the manager; a command that adb still has counts as a fault of its session; what was set up on a device is noted for its release |
| `CookiesStayInReach` (`Cookies`) | `UrlsKnown`, `SteadyKept`, `AnswerHolds` | the URL that a run has read is one the frame has had since the command began; cookies that were there all the time are on the list of the run and still to be deleted by it, or gone, whatever an earlier run deleted |
| `ServerIsReached` (`ServerStart`) | `MachineKnown`, `SocketOrder` | which sockets are open at each point on each platform, and that the second one has the port of the first |
| `BrowserOwned` (`NewSession`) | `LaunchOrder`, `OtherIsLate` | which process and directories there are at each point; the port of another browser is read only if that one started in between |
| `WindowAnswersTrue` (`Windows`) | `WindowOrder`, `StatesPassed`, `WindowsCounted` | the present state is among those passed and "normal" is before the bounds are set or the maximized state is simulated; between counting and closing the views do not change, and the mapper's tab is one of them |
| `OverridesAreKept` (`Overrides`) | `OverrideOrder`, `PositionsKept`, `MetricsKept`, `DirectoryKept` | the claim is about the current page; to survive a switch of windows it must hold of each page against its own manager, unless that has failed on a navigation |
| `ViewsAreHeld` (`WebViews`) | `HoldersInv`: `OneView`, `Owned`, `Holders`, `Nested`, `Locks` | a lock is a flag and not a count, so that which call may take it off again is not in the state of the view: `Nested` says that an item remembers whether a call below it holds the view. Sessions are not given twice (`OneView`), also among the events on their way, or an attached target could take the view of a holder |
| `ElementsActOnce` (`Elements`) | `ElementsInv`: `NodesAreOfDocuments`, `CallIsOfCommand`, `CallIsRight`, `BlameIsRight`, `ActsOnceInv` | a document is never older than a reference that was given for it and does not come back; a command that had its effect and lost the answer (`CannotActAgain`) begins again at a script on its element, and the reference is of a document that has gone; the retries after which that need not be so are the exceptions the property names |

Both of the last two depend on the operators their modules are built from. `ChainFacts` and the lemmas after it
say what deleting a view takes with it; `LineIsFound` to `ActsOnElements` say of the table of
points that no two functions share one, that a command stays at its points, and that what acts begins with the element.

### Only model-checked

- Liveness and fairness, and the liveness part of `PipesDeliver`: outside of what the prover supports.
- The invariants of `PipeConnection` in `MCConnections`: they compare concatenations of
  sequences of sequences, which takes induction over data.
- `InputMatchesBrowser`, `LogsAreExact` and `ReplayIsFaithful`: these modules
  filter or fold sequences of events and entries, again induction.
- `RoutingIsStandard` and `AcceptedIsApplicable`: one step from every request to its
  result; TLC enumerates all requests the modules have, and a proof would do the same.
- `LoadingIsLoading`: `Navigation` filters the messages on their way (`SelectSeq`), for which
  the prover has no facts.
- `ViewsFollowTargets`: its strengthening has to follow the target of each view through every
  event that is still on its way; and `TypeOK` of `MCServices` and of `MCConnections`. Neither is attempted (section 6).

## 5. What is not modelled

The bytes of HTTP, WebSocket frames and JSON; the texts of logs and of the command
line; the tables of key codes and the keyboard layouts of the platforms; zip archives and
uploads; printing, gestures and profiles, which are one DevTools command each; the tunnel
that carries DevTools messages inside BiDi messages; BidiTracker, CastTracker and
HeapSnapshotTaker, which append or forward what an event carries; the JavaScript that
runs in pages, except the resolution of references; the Python client, which is the
test harness. `PROJECT.json` lists every component with its reason.

## 6. Plan

The modelling is done. What could still be proved, in this order:

1. `ViewsFollowTargets` of `WebViews`, on top of `HoldersInv`: what the events on their way will make of the views.
2. `LoadingIsLoading` of `Navigation`, whose one filter over the messages on their way has to be restated first.
3. `SleeperHasReader` of `PipeConnection`, the part of its invariants that compares no concatenations.
