--------------------------- MODULE DevToolsClient ---------------------------
(***************************************************************************)
(* chrome/devtools_client_impl.cc with the listeners that call back into   *)
(* it (chrome/frame_tracker.cc, chrome/navigation_tracker.cc, the override *)
(* managers and chrome/web_view_impl.cc): how the thread of a session sends*)
(* DevTools commands and processes what the browser sends.                 *)
(*                                                                         *)
(* One thread takes the steps, but it is not sequential in effect: a       *)
(* command waits by processing messages, a message is given to listeners,  *)
(* and a listener may send a command itself, which waits in turn.  The     *)
(* model keeps the call stack of the thread, with one activation record per*)
(* call that can be interrupted in this way.  The Timeout of a wait may    *)
(* expire at any receive.                                                  *)
(*                                                                         *)
(* The clients form the flat hierarchy that AttachTo enforces: the browser-*)
(* wide client Root owns the socket, Page is the client of the page, Frame *)
(* the one of an out-of-process iframe that its FrameTracker attaches.     *)
(* SendCommandFromWebSocket keeps no state here, and the socket drops what *)
(* answers it; the wrapping of commands for the BiDi tunnel is left out.   *)
(***************************************************************************)
EXTENDS Integers, Sequences

CONSTANTS
  Root, Page, Frame,   \* the clients
  AutoAccept,          \* autoaccept_beforeunload_ of the page and its frames
  MaxSends,            \* bound: operations of WebDriver commands and listeners
  MaxEvents,           \* bound: events the browser sends
  MaxTotal             \* bound: operations and events together

ASSUME ClientsAssumption == Root # Page /\ Root # Frame /\ Page # Frame
ASSUME AutoAcceptAssumption == AutoAccept \in BOOLEAN
ASSUME SendsAssumption == MaxSends \in Nat
ASSUME EventsAssumption == MaxEvents \in Nat

VARIABLES
  stack,         \* activation records of the thread, the running call last
  ret,           \* the Status the running call got from its last callee
  nextId,        \* next_id_ of Root
  commands,      \* the ResponseInfo of each command that has one, by its id
  connected,     \* socket_->IsConnected()
  attached,      \* children_ of Root, and Root itself
  detached,      \* clients that are detached_, or whose view is deleted
  crashed,       \* clients that are crashed_
  listeners,     \* listeners_ of each client
  fedcm,         \* fedcm_tracker_ of the page: none, live or dangling
  unConnect,     \* unnotified_connect_listeners_ of each client
  unEvent,       \* unnotified_event_listeners_
  event,         \* unnotified_event_
  unResponse,    \* unnotified_cmd_response_listeners_
  response,      \* clients whose unnotified_cmd_response_info_ is not null
  dialogs,       \* unhandled_dialog_queue_, as its length
  navigations,   \* commands that are Page.navigate or Page.navigateToHistoryEntry
  sends, events, \* operations and events so far, to bound them
  lastSeen,      \* history: the last event each listener of a client saw
  opened,        \* history: commands sent when the open dialogs began
  failed,        \* history: clients of which an event or a connect failed
  died           \* history: the program dereferenced a dead pointer

clientVars == <<attached, detached, crashed, listeners, fedcm>>
unnotified == <<unConnect, unEvent, event, unResponse, response>>
bounds == <<sends, events>>
history == <<lastSeen, opened, failed, died, navigations>>
commandVars == <<nextId, commands, connected>>
vars == <<stack, ret, commandVars, clientVars, unnotified, dialogs, bounds, history>>

Clients == {Root, Page, Frame}
Listeners == {"frame", "override", "navigation", "fedcm"}
CommandStates == {"kWaiting", "kIgnored", "kBlocked", "kReceived"}
Dialogs == {"alert", "beforeunload"}
EventKinds == {"other", "attachedToTarget", "detachedFromTarget", "dialogClosed",
               "detached", "targetCrashed"} \cup Dialogs
Statuses == {"kOk", "kTimeout", "kDisconnected", "kUnknownError", "kTabCrashed",
             "kTargetDetached", "kUnexpectedAlertOpen", "kNoSuchAlert"}
Functions == {"SendCommand", "ProcessNextMessage", "ProcessEvent", "HandleDialog",
              "ProcessCommandResponse", "AttachTo", "HandleEventsUntil",
              "OnConnected", "OnEvent", "OnCommandSuccess", "GetFedCmTracker"}
Places == {"start", "connect", "event", "response", "handle", "dialog",
           "roundTrip", "retry"}

NoEvent == [number |-> 0, kind |-> "other"]

\* The listeners in the order of the constructor of WebViewImpl.  The ones that
\* send nothing when they are called (TabTracker of Root, HeapSnapshotTaker) are
\* left out, and so are the loggers.  Each of these ListensToConnections.
InitialListeners(c) == IF c = Root THEN <<>> ELSE <<"frame", "override", "navigation">>

Init ==
  /\ stack = <<>> /\ ret = "kOk" /\ nextId = 1 /\ commands = <<>>
  /\ connected = TRUE /\ attached = {Root} /\ detached = {} /\ crashed = {}
  /\ listeners = [c \in Clients |-> InitialListeners(c)] /\ fedcm = "none"
  /\ unConnect = [c \in Clients |-> InitialListeners(c)]
  /\ unEvent = [c \in Clients |-> <<>>] /\ event = [c \in Clients |-> NoEvent]
  /\ unResponse = [c \in Clients |-> <<>>] /\ response = {}
  /\ dialogs = [c \in Clients |-> 0]
  /\ sends = 0 /\ events = 0
  /\ lastSeen = [c \in Clients |-> [l \in Listeners |-> 0]]
  /\ opened = [c \in Clients |-> 0]
  /\ failed = {} /\ died = FALSE /\ navigations = {}

-----------------------------------------------------------------------------
(* Calls and returns.                                                      *)

\* Who runs on client c; caller is the |caller| of ProcessNextMessage, to the
\* client HandleMessage routes a message to, l the listener that is called.
Activation(fn, c) ==
  [fn |-> fn, c |-> c, at |-> "start", id |-> 0, caller |-> c, to |-> c,
   ev |-> NoEvent, l |-> "none"]

Top == stack[Len(stack)]
Running(fn) == stack # <<>> /\ Top.fn = fn
Succeeded == ret = "kOk"

\* The stack with the running call at another place, and without it.
At(place) == [stack EXCEPT ![Len(stack)].at = place]
Below == SubSeq(stack, 1, Len(stack) - 1)

Call(st, activation) == stack' = Append(st, activation) /\ ret' = "kOk"
Return(status) == stack' = Below /\ ret' = status

\* A ResponseInfo: in response_info_map_ (mapped) until the browser answers
\* (pending), with a result (ok) or an error.
NewCommand(c) ==
  [client |-> c, state |-> "kWaiting", mapped |-> TRUE, pending |-> TRUE, ok |-> FALSE]

\* response_info_map_[command_id] = response_info, for a command that was sent.
Register(c) ==
  /\ nextId' = nextId + 1
  /\ commands' = [id \in DOMAIN commands \cup {nextId} |->
                    IF id = nextId THEN NewCommand(c) ELSE commands[id]]

\* The ResponseInfo of a command is gone: answered, and nobody waits for it.
Without(id) == [i \in DOMAIN commands \ {id} |-> commands[i]]

\* SendCommandInternal up to its loop, called with stack st.  The loss of the
\* connection, which the I/O thread sees at any time, is chosen where this thread
\* meets it: here or when it receives.
SendCommand(st, c) ==
  \/ /\ connected
     /\ Register(c)
     /\ Call(st, [Activation("SendCommand", c) EXCEPT !.id = nextId])
     /\ UNCHANGED connected
  \/ /\ connected' = FALSE
     /\ stack' = st /\ ret' = "kDisconnected"
     /\ UNCHANGED <<nextId, commands>>

\* There is room for one more operation or event.
Room == sends + events < MaxTotal

\* Operations of the bound MaxSends.
Spend == sends < MaxSends /\ Room /\ sends' = sends + 1 /\ UNCHANGED events

\* Clients to which a command can be sent.
Usable == attached \ detached

-----------------------------------------------------------------------------
(* The operations of WebDriver commands, begun when the stack is empty.    *)

Idle == stack = <<>> /\ ~died

\* A command that was sent to the page may be a navigation (WebViewImpl::Load and
\* TraverseHistory).  Load ignores the response only without a NavigationTracker.
MayNavigate(c) ==
  \/ UNCHANGED navigations
  \/ c = Page /\ nextId' # nextId /\ navigations' = navigations \cup {nextId}

BeginSendCommand(c) ==
  /\ Idle /\ Spend /\ c \in Usable
  /\ SendCommand(<<>>, c) /\ MayNavigate(c)
  /\ UNCHANGED <<clientVars, unnotified, dialogs, lastSeen, opened, failed, died>>

\* SendCommandAndIgnoreResponse: the entry stays until its response comes.
SendCommandAndIgnoreResponse(c) ==
  /\ Idle /\ Spend /\ c \in Usable /\ connected
  /\ Register(c)
  /\ UNCHANGED <<stack, ret, connected, clientVars, unnotified, dialogs, history>>

BeginHandleEventsUntil(c) ==
  /\ Idle /\ Spend /\ c \in Usable \ {Root} /\ connected
  /\ Call(<<>>, Activation("HandleEventsUntil", c))
  /\ UNCHANGED <<commandVars, clientVars, unnotified, dialogs, history>>

BeginHandleDialog ==
  /\ Idle /\ Spend /\ Page \in Usable
  /\ Call(<<>>, Activation("HandleDialog", Page))
  /\ UNCHANGED <<commandVars, clientVars, unnotified, dialogs, history>>

BeginAttachTo ==
  /\ Idle /\ Page \notin attached /\ connected
  /\ Call(<<>>, Activation("AttachTo", Page))
  /\ UNCHANGED <<commandVars, clientVars, unnotified, dialogs, bounds, history>>

\* WebViewImpl::GetFedCmTracker: a listener is added to a connected client,
\* behind the NavigationTracker, and FedCm.enable is sent.
BeginGetFedCmTracker ==
  /\ Idle /\ Spend /\ Page \in Usable /\ fedcm = "none"
  /\ fedcm' = "live"
  /\ listeners' = [listeners EXCEPT ![Page] = Append(@, "fedcm")]
  /\ SendCommand(<<Activation("GetFedCmTracker", Page)>>, Page)
  /\ UNCHANGED <<attached, detached, crashed, unnotified,
                 dialogs, history>>

\* A tracker that cannot be enabled is deleted, and stays in listeners_.
EndGetFedCmTracker ==
  /\ Running("GetFedCmTracker")
  /\ fedcm' = IF Succeeded THEN fedcm ELSE "dangling"
  /\ Return(ret)
  /\ UNCHANGED <<commandVars, attached, detached, crashed,
                 listeners, unnotified, dialogs, bounds, history>>

-----------------------------------------------------------------------------
(* SendCommandInternal: while (response_info->state == kWaiting).          *)

\* Mutant: a timeout does not end the loop.
SendCommandKeepsWaiting ==
  /\ Running("SendCommand") /\ ~Succeeded
  /\ IF ret = "kTimeout" /\ commands[Top.id].state = "kWaiting"
     THEN Call(stack, [Activation("ProcessNextMessage", Top.c) EXCEPT !.id = Top.id])
     ELSE Return(ret)
  /\ UNCHANGED <<commandVars, clientVars, unnotified, dialogs, bounds, history>>

\* Mutant: a command that fails is erased from response_info_map_.
SendCommandForgets ==
  /\ Running("SendCommand") /\ ~Succeeded
  /\ commands' = [commands EXCEPT ![Top.id].mapped = FALSE]
  /\ Return(ret)
  /\ UNCHANGED <<nextId, connected, clientVars, unnotified, dialogs, bounds, history>>

\* An error leaves the loop.  An entry that still waits stays in the map.
SendCommandFails ==
  /\ Running("SendCommand") /\ ~Succeeded
  /\ commands' = IF commands[Top.id].pending THEN commands ELSE Without(Top.id)
  /\ Return(ret)
  /\ UNCHANGED <<nextId, connected, clientVars, unnotified, dialogs, bounds, history>>

SendCommandLoop ==
  /\ Running("SendCommand") /\ Succeeded
  /\ LET state == commands[Top.id].state IN
       \/ /\ state = "kWaiting"
          /\ Call(stack, [Activation("ProcessNextMessage", Top.c) EXCEPT !.id = Top.id])
          /\ UNCHANGED commands
       \/ /\ state = "kBlocked"
          /\ commands' = [commands EXCEPT ![Top.id].state = "kIgnored"]
          /\ Return("kUnexpectedAlertOpen")
       \/ /\ state = "kReceived"
          /\ commands' = Without(Top.id)
          /\ Return(IF commands[Top.id].ok THEN "kOk" ELSE "kUnknownError")
  /\ UNCHANGED <<nextId, connected, clientVars, unnotified, dialogs, bounds, history>>

(* HandleEventsUntil.                                                      *)

\* The condition is tested when no message is waiting; otherwise, or when it is
\* not met, the next message is processed, with 500 ms to wait for it.  Testing
\* it may fail.
HandleEventsUntil ==
  /\ Running("HandleEventsUntil") /\ ret \in {"kOk", "kTimeout"}
  /\ \/ Return("kOk")
     \/ Return("kUnknownError")
     \/ Call(stack, Activation("ProcessNextMessage", Top.c))
  /\ UNCHANGED <<commandVars, clientVars, unnotified, dialogs, bounds, history>>

\* The whole |timeout| has expired, or an error occurred.
HandleEventsEnds ==
  /\ Running("HandleEventsUntil") /\ ~Succeeded
  /\ Return(ret)
  /\ UNCHANGED <<commandVars, clientVars, unnotified, dialogs, bounds, history>>

-----------------------------------------------------------------------------
(* The listeners that a client has not notified yet: the three functions   *)
(* EnsureListenersNotifiedOf..., called by ProcessNextMessage first of all *)
(* and by AttachTo, ProcessEvent and ProcessCommandResponse.  One step     *)
(* calls the first listeners of a list up to one that sends a command, or  *)
(* fails; the others before it do their work and return at once.           *)

\* ProcessNextMessage finds listeners that do not know of the connection.
ConnectPending(c) == unConnect[c] # <<>>

\* The running call notifies of the connection.
NotifiesConnect ==
  \/ /\ Running("ProcessNextMessage") /\ Top.at \in {"start", "connect"}
     /\ ConnectPending(Top.c)
  \/ Running("AttachTo") /\ Top.at = "connect"

\* ... of an event.
NotifiesEvent ==
  \/ /\ Running("ProcessNextMessage") /\ Top.at \in {"start", "connect", "event"}
     /\ ~ConnectPending(Top.c)
  \/ Running("ProcessEvent") /\ Top.at = "event"

\* ... of the success of a command.
NotifiesCommandResponse ==
  \/ /\ Running("ProcessNextMessage") /\ Top.at # "handle"
     /\ ~ConnectPending(Top.c) /\ unEvent[Top.c] = <<>>
  \/ Running("ProcessCommandResponse")

\* pop_front() before the call: the list when the n-th listener is called.
Unlisted(list, n) == SubSeq(list, n + 1, Len(list))

\* Mutant: a listener of an event leaves the list when it has returned.
UntoldUntilReturned(c, n) == SubSeq(unEvent[c], n, Len(unEvent[c]))

\* The listeners to tell of the event when the n-th of them is called.
Untold(c, n) == Unlisted(unEvent[c], n)

\* The clients to which listener l of client c may send a command and wait:
\* the override managers use their own client, on connect and on
\* Page.frameNavigated; NavigationTracker asks the frame it follows on
\* Page.loadEventFired of the page, and the page after a navigation.
SendTargets(hook, l, c, kind) ==
  CASE hook = "OnConnected" /\ l = "override"                                -> {c}
    [] hook = "OnEvent" /\ l = "override" /\ kind = "other"                  -> {c}
    [] hook = "OnEvent" /\ l = "navigation" /\ c = Page /\ kind = "other"    -> {Page, Frame}
    [] hook = "OnCommandSuccess" /\ l = "navigation"                         -> {Page}
    [] OTHER                                                                 -> {}

\* A listener, called with stack st, sends a command.  The navigations bound the
\* commands that NavigationTracker sends for their responses.
ListenerSends(st, hook, l, c, kind) ==
  /\ IF Running("ProcessCommandResponse") THEN UNCHANGED bounds ELSE Spend
  /\ \E target \in SendTargets(hook, l, c, kind) \cap Usable :
       SendCommand(Append(st, [Activation(hook, c) EXCEPT !.l = l]), target)

\* FrameTracker, which comes first, always sends two commands; one stands for both.
EnsureListenersNotifiedOfConnect ==
  /\ NotifiesConnect /\ Succeeded /\ unConnect[Top.c] # <<>>
  /\ \E n \in 1..Len(unConnect[Top.c]) :
       /\ unConnect' = [unConnect EXCEPT ![Top.c] = Unlisted(@, n)]
       /\ \/ /\ n = Len(unConnect[Top.c]) /\ Head(unConnect[Top.c]) # "frame"
             /\ stack' = At("connect") /\ ret' = "kOk" /\ UNCHANGED <<commandVars, bounds>>
          \/ /\ Head(unConnect[Top.c]) # "frame"
             /\ ListenerSends(At("connect"), "OnConnected", unConnect[Top.c][n], Top.c, "other")
          \/ /\ n = 1 /\ Head(unConnect[Top.c]) = "frame"
             /\ SendCommand(Append(At("connect"), [Activation("OnConnected", Top.c) EXCEPT
                                                   !.l = "frame"]), Top.c)
             /\ UNCHANGED bounds
  /\ UNCHANGED <<clientVars, unEvent, event, unResponse, response, dialogs, history>>

\* A beforeunload dialog is accepted at once, before the listeners hear of it.
AcceptsDialog(kind) == kind = "beforeunload" /\ AutoAccept

\* An auto-accepted dialog is not counted in lastSeen: its own event is given to
\* the listeners after those that came while it was accepted.
SeenAfter(c, n) ==
  [l \in Listeners |->
    IF (\E i \in 1..n : unEvent[c][i] = l) /\ ~AcceptsDialog(event[c].kind)
    THEN event[c].number ELSE lastSeen[c][l]]

\* FrameTracker::OnEvent of Target.attachedToTarget attaches a frame of which it
\* has no view, and does not ask whether that fails; on Target.detachedFromTarget
\* a view in use is marked as detached and another one is deleted.
EnsureListenersNotifiedOfEvent ==
  /\ NotifiesEvent /\ Succeeded /\ unEvent[Top.c] # <<>>
  /\ \E n \in 1..Len(unEvent[Top.c]) :
       LET c == Top.c
           l == unEvent[c][n]
           kind == event[c].kind
           attaches == kind = "attachedToTarget" /\ Frame \notin attached IN
         /\ unEvent' = [unEvent EXCEPT ![c] = Untold(c, n)]
         /\ lastSeen' = [lastSeen EXCEPT ![c] = SeenAfter(c, n)]
         /\ detached' = IF kind = "detachedFromTarget" /\ unEvent[c][1] = "frame"
                        THEN detached \cup ({Frame} \cap attached) ELSE detached
         /\ \/ /\ n = Len(unEvent[c]) /\ ~(attaches /\ unEvent[c][1] = "frame")
               /\ stack' = At("event") /\ ret' = "kOk" /\ UNCHANGED <<commandVars, bounds>>
            \/ ListenerSends(At("event"), "OnEvent", l, c, kind)
            \/ /\ attaches /\ l = "frame"
               /\ Call(Append(At("event"), [Activation("OnEvent", c) EXCEPT !.l = l]),
                       Activation("AttachTo", Frame))
               /\ UNCHANGED <<commandVars, bounds>>
  /\ UNCHANGED <<attached, crashed, listeners, fedcm, unConnect, event, unResponse,
                 response, dialogs, opened, failed, died, navigations>>

\* ProcessCommandResponse tells of the success of a navigation.
OfNavigation == Running("ProcessCommandResponse") /\ Top.id \in navigations

\* NavigationTracker fails when the result of Page.navigate reports an error, and asks
\* the page for its URL when a navigation has begun.  It is not told by
\* ProcessNextMessage: no listener before it sends a command here.
EnsureListenersNotifiedOfCommandResponse ==
  /\ NotifiesCommandResponse /\ Succeeded /\ unResponse[Top.c] # <<>>
  /\ Top.c \in response
  /\ \E n \in 1..Len(unResponse[Top.c]) :
       LET l == unResponse[Top.c][n] IN
         /\ unResponse' = [unResponse EXCEPT ![Top.c] = Unlisted(@, n)]
         /\ \/ /\ n = Len(unResponse[Top.c]) /\ stack' = At("response") /\ ret' = "kOk"
               /\ UNCHANGED <<commandVars, bounds>>
            \/ /\ l = "navigation" /\ OfNavigation
               /\ stack' = At("response") /\ ret' = "kUnknownError"
               /\ UNCHANGED <<commandVars, bounds>>
            \/ /\ OfNavigation
               /\ ListenerSends(At("response"), "OnCommandSuccess", l, Top.c, "other")
  /\ UNCHANGED <<clientVars, unConnect, unEvent, event, response, dialogs, history>>

\* unnotified_cmd_response_info_ is null, or the listener has been deleted: the
\* program ends (or goes on with what the freed memory holds, as above).
DeadPointer ==
  /\ Succeeded
  /\ \/ NotifiesCommandResponse /\ unResponse[Top.c] # <<>> /\ Top.c \notin response
     \/ /\ NotifiesEvent /\ fedcm = "dangling"
        /\ \E i \in 1..Len(unEvent[Top.c]) : unEvent[Top.c][i] = "fedcm"
  /\ died' = TRUE /\ stack' = <<>> /\ ret' = "kOk"
  /\ UNCHANGED <<commandVars, clientVars, unnotified, dialogs, bounds, lastSeen,
                 opened, failed, navigations>>

\* A listener failed.  Only the list of an event is cleared.
NotificationFails ==
  /\ stack # <<>> /\ Top.at \in {"connect", "event", "response"} /\ ~Succeeded
  /\ unEvent' = IF Top.at = "event" THEN [unEvent EXCEPT ![Top.c] = <<>>] ELSE unEvent
  /\ event' = IF Running("ProcessEvent") THEN [event EXCEPT ![Top.c] = NoEvent] ELSE event
  /\ response' = IF Running("ProcessCommandResponse") THEN response \ {Top.c}
                 ELSE response
  /\ failed' = IF Top.at = "response" THEN failed ELSE failed \cup {Top.c}
  /\ Return(ret)
  /\ UNCHANGED <<commandVars, clientVars, unConnect, unResponse, dialogs, bounds,
                 lastSeen, opened, died, navigations>>

InListener == Running("OnConnected") \/ Running("OnEvent") \/ Running("OnCommandSuccess")

\* A listener whose command has returned sends another one, or returns: it passes
\* on the error or handles it.  FrameTracker ignores the status of AttachTo.
ListenerContinues ==
  /\ InListener
  /\ \/ /\ Succeeded
        /\ ListenerSends(Below, Top.fn, Top.l, Top.c, "other")
     \/ /\ \/ Return("kOk")
           \/ ~Succeeded /\ ~(Top.fn = "OnEvent" /\ Top.l = "frame") /\ Return(ret)
        /\ UNCHANGED <<commandVars, bounds>>
  /\ UNCHANGED <<clientVars, unnotified, dialogs, history>>

(* AttachTo, OnConnected and SetUpDevTools.                                *)

\* The client is registered first.  Three commands are sent whose responses are
\* ignored; one stands for them.
SetUpDevTools ==
  /\ Running("AttachTo") /\ Top.at = "start"
  /\ \/ /\ connected
        /\ attached' = attached \cup {Top.c}
        /\ Register(Top.c)
        /\ stack' = At("connect") /\ ret' = "kOk" /\ UNCHANGED connected
     \/ /\ connected' = FALSE /\ Return("kUnknownError")
        /\ UNCHANGED <<attached, nextId, commands>>
  /\ UNCHANGED <<detached, crashed, listeners, fedcm,
                 unnotified, dialogs, bounds, history>>

AttachToReturns ==
  /\ Running("AttachTo") /\ Top.at = "connect" /\ Succeeded
  /\ unConnect[Top.c] = <<>>
  /\ Return("kOk")
  /\ UNCHANGED <<commandVars, clientVars, unnotified, dialogs, bounds, history>>

-----------------------------------------------------------------------------
(* ProcessNextMessage, when its client's listeners are notified.           *)

\* The command has been answered, or blocked, while listeners were notified.
NothingToAwait(id) == id # 0 /\ ~(commands[id].mapped /\ commands[id].state = "kWaiting")

AllNotified ==
  /\ Running("ProcessNextMessage") /\ Top.at # "handle" /\ Succeeded
  /\ ~ConnectPending(Top.c) /\ unEvent[Top.c] = <<>> /\ unResponse[Top.c] = <<>>

\* Early returns, and the call of the parent, which does all the same for Root.
ProcessNextMessage ==
  /\ AllNotified
  /\ \/ NothingToAwait(Top.id) /\ Return("kOk")
     \/ /\ ~NothingToAwait(Top.id)
        /\ \/ Top.c \in crashed /\ Return("kTabCrashed")
           \/ Top.c \in detached \ crashed /\ Return("kTargetDetached")
           \/ /\ Top.c \notin detached \cup crashed \cup {Root}
              /\ Call(Below, [Activation("ProcessNextMessage", Root) EXCEPT
                                !.caller = Top.caller])
  /\ UNCHANGED <<commandVars, clientVars, unnotified, dialogs, bounds, history>>

\* The thread is about to block in socket_->ReceiveNextMessage.
Receives == AllNotified /\ Top.c = Root /\ ~NothingToAwait(Top.id)

ReceiveFails ==
  /\ Receives
  /\ \/ connected /\ Return("kTimeout") /\ UNCHANGED connected
     \/ connected' = FALSE /\ Return("kDisconnected")
  /\ UNCHANGED <<nextId, commands, clientVars, unnotified, dialogs, bounds, history>>

\* HandleMessage routes a message to c, which runs activation.
Handle(c, activation) ==
  Call([stack EXCEPT ![Len(stack)].at = "handle", ![Len(stack)].to = c], activation)

\* The browser reports the dialogs of a page and its frames, and the targets of
\* the frames, on the session of the page.
ReceiveEvent(c, kind) ==
  /\ Receives /\ connected /\ events < MaxEvents /\ Room
  /\ c \in Usable
  /\ kind # "other" => c # Root
  /\ kind \in {"attachedToTarget", "detachedFromTarget", "dialogClosed"} \cup Dialogs
       => c = Page
  /\ events' = events + 1 /\ UNCHANGED sends
  /\ Handle(c, [Activation("ProcessEvent", c) EXCEPT
                  !.ev = [number |-> events + 1, kind |-> kind]])
  /\ UNCHANGED <<commandVars, clientVars, unnotified, dialogs, history>>

\* A call is in the loop of SendCommandInternal for the command.
Awaited(id) == \E i \in 1..Len(stack) : stack[i].fn = "SendCommand" /\ stack[i].id = id

\* ProcessCommandResponse up to the notification of the listeners; a response
\* without a result, and one that nobody expects, notify nobody.
ReceiveResponse(id, ok) ==
  /\ Receives /\ connected
  /\ commands[id].pending /\ commands[id].client \notin detached
  /\ LET c == commands[id].client
         known == commands[id].mapped IN
       /\ commands' = IF ~Awaited(id) THEN Without(id)
                      ELSE [commands EXCEPT
                              ![id].pending = FALSE, ![id].mapped = FALSE, ![id].ok = ok,
                              ![id].state = IF @ = "kIgnored" THEN @ ELSE "kReceived"]
       /\ \/ /\ known /\ ok
             /\ Handle(c, [Activation("ProcessCommandResponse", c) EXCEPT !.id = id])
             /\ unResponse' = [unResponse EXCEPT ![c] = listeners[c]]
             /\ response' = response \cup {c}
          \/ /\ ~(known /\ ok)
             /\ Return(IF ~known /\ (Top.caller = c \/ c = Root)
                       THEN "kUnknownError" ELSE "kOk")
             /\ UNCHANGED <<unResponse, response>>
  /\ UNCHANGED <<nextId, connected, clientVars, unConnect, unEvent, event, dialogs,
                 bounds, history>>

\* The browser answers the commands of a detached session without a session id:
\* Root does not know them, and ignores them.
ReceiveOrphanResponse(id) ==
  /\ Receives /\ connected
  /\ commands[id].pending /\ commands[id].client \in detached
  /\ commands' = IF ~Awaited(id) THEN Without(id)
                 ELSE [commands EXCEPT ![id].pending = FALSE]
  /\ Return("kOk")
  /\ UNCHANGED <<nextId, connected, clientVars, unnotified, dialogs, bounds, history>>

\* HandleMessage: an error in another client than the caller and Root is dropped.
HandleMessageReturns ==
  /\ Running("ProcessNextMessage") /\ Top.at = "handle"
  /\ Return(IF Top.to \in {Top.caller, Root} THEN ret ELSE "kOk")
  /\ UNCHANGED <<commandVars, clientVars, unnotified, dialogs, bounds, history>>

ProcessCommandResponseReturns ==
  /\ Running("ProcessCommandResponse") /\ Succeeded /\ unResponse[Top.c] = <<>>
  /\ response' = response \ {Top.c}
  /\ Return("kOk")
  /\ UNCHANGED <<commandVars, clientVars, unConnect, unEvent, event, unResponse,
                 dialogs, bounds, history>>

-----------------------------------------------------------------------------
(* ProcessEvent.                                                           *)

\* HandleDialogOpening and HandleDialogClosed: the dialog queue, and since when
\* one is open.
DialogsAfter(c, kind) ==
  CASE kind \in Dialogs       -> dialogs[c] + 1
    [] kind = "dialogClosed"  -> 0
    [] OTHER                  -> dialogs[c]

\* unnotified_event_listeners_ and unnotified_event_ for the event of client c.
Announce(c) ==
  /\ stack' = At("event") /\ ret' = "kOk"
  /\ unEvent' = [unEvent EXCEPT ![c] = listeners[c]]
  /\ event' = [event EXCEPT ![c] = Top.ev]

\* ProcessEvent up to the notification of the listeners.  HandleDialogOpening calls
\* HandleDialog in the midst of it, and the event fails with it.
ProcessEvent ==
  /\ Running("ProcessEvent")
  /\ LET c == Top.c
         kind == Top.ev.kind IN
       \/ /\ Top.at = "start"
          /\ dialogs' = [dialogs EXCEPT ![c] = DialogsAfter(c, kind)]
          /\ opened' = IF dialogs[c] = 0 /\ kind \in Dialogs
                       THEN [opened EXCEPT ![c] = nextId - 1] ELSE opened
          /\ \/ /\ AcceptsDialog(kind)
                /\ Call(At("dialog"), Activation("HandleDialog", c))
                /\ UNCHANGED <<unEvent, event>>
             \/ ~AcceptsDialog(kind) /\ Announce(c)
          /\ UNCHANGED failed
       \/ /\ Top.at = "dialog" /\ Succeeded
          /\ Announce(c)
          /\ UNCHANGED <<dialogs, opened, failed>>
       \/ /\ Top.at = "dialog" /\ ~Succeeded
          /\ Return(ret) /\ failed' = failed \cup {c}
          /\ UNCHANGED <<dialogs, opened, unEvent, event>>
  /\ UNCHANGED <<commandVars, clientVars, unConnect, unResponse, response, bounds,
                 lastSeen, died, navigations>>

\* Every listener has been notified.  With an open dialog, a round trip finds out
\* which commands it blocks.
EventNotified ==
  /\ Running("ProcessEvent") /\ Top.at = "event" /\ Succeeded
  /\ unEvent[Top.c] = <<>>
  /\ event' = [event EXCEPT ![Top.c] = NoEvent]
  /\ LET c == Top.c
         kind == Top.ev.kind IN
       \/ /\ kind = "detached" /\ Return("kTargetDetached")
          /\ failed' = failed \cup {c} /\ UNCHANGED <<commandVars, crashed>>
       \/ /\ kind = "targetCrashed" /\ Return("kTabCrashed")
          /\ crashed' = crashed \cup {c} /\ UNCHANGED <<commandVars, failed>>
       \/ /\ kind \notin {"detached", "targetCrashed"} /\ dialogs[c] > 0
          /\ SendCommand([stack EXCEPT ![Len(stack)].at = "roundTrip",
                                       ![Len(stack)].id = nextId], c)
          /\ UNCHANGED <<crashed, failed>>
       \/ /\ kind \notin {"detached", "targetCrashed"} /\ dialogs[c] = 0
          /\ Return("kOk") /\ UNCHANGED <<commandVars, crashed, failed>>
  /\ UNCHANGED <<attached, detached, listeners, fedcm,
                 unConnect, unEvent, unResponse, response, dialogs, bounds,
                 lastSeen, opened, died, navigations>>

\* Mutant: a failed round trip returns before the commands are marked.
BlockedIfOk(c, maxId) ==
  [id \in DOMAIN commands |->
    IF Succeeded /\ commands[id].client = c /\ commands[id].mapped
       /\ id <= maxId /\ commands[id].state = "kWaiting"
    THEN [commands[id] EXCEPT !.state = "kBlocked"] ELSE commands[id]]

\* The commands that wait, up to the one of the round trip, become blocked.
Blocked(c, maxId) ==
  [id \in DOMAIN commands |->
    IF commands[id].client = c /\ commands[id].mapped
       /\ id <= maxId /\ commands[id].state = "kWaiting"
    THEN [commands[id] EXCEPT !.state = "kBlocked"] ELSE commands[id]]

\* The round trip has ended, with whatever status; the event succeeds.
RoundTripReturns ==
  /\ Running("ProcessEvent") /\ Top.at = "roundTrip"
  /\ commands' = Blocked(Top.c, Top.id)
  /\ Return("kOk")
  /\ UNCHANGED <<nextId, connected, clientVars, unnotified, dialogs, bounds, history>>

(* HandleDialog.                                                           *)

\* The command is sent, and sent once more when it failed.
HandleDialog ==
  /\ Running("HandleDialog")
  /\ \/ /\ Top.at = "start" /\ dialogs[Top.c] = 0
        /\ Return("kNoSuchAlert") /\ UNCHANGED commandVars
     \/ /\ Top.at = "start" /\ dialogs[Top.c] > 0
        /\ SendCommand(At("dialog"), Top.c)
     \/ /\ Top.at = "dialog" /\ ~Succeeded
        /\ SendCommand(At("retry"), Top.c)
     \/ /\ Top.at = "retry" /\ ~Succeeded
        /\ Return(ret) /\ UNCHANGED commandVars
  /\ UNCHANGED <<clientVars, unnotified, dialogs, bounds, history>>

\* The queue may have been cleared meanwhile.
DialogHandled ==
  /\ Running("HandleDialog") /\ Top.at \in {"dialog", "retry"} /\ Succeeded
  /\ dialogs' = [dialogs EXCEPT ![Top.c] = IF @ > 0 THEN @ - 1 ELSE 0]
  /\ Return("kOk")
  /\ UNCHANGED <<commandVars, clientVars, unnotified, bounds, history>>

-----------------------------------------------------------------------------
Begin ==
  \/ \E c \in Clients : BeginSendCommand(c) \/ SendCommandAndIgnoreResponse(c)
                        \/ BeginHandleEventsUntil(c)
  \/ BeginHandleDialog \/ BeginAttachTo \/ BeginGetFedCmTracker

Receive ==
  \/ ReceiveFails
  \/ \E c \in Clients, kind \in EventKinds : ReceiveEvent(c, kind)
  \/ \E id \in DOMAIN commands : \/ \E ok \in BOOLEAN : ReceiveResponse(id, ok)
                                  \/ ReceiveOrphanResponse(id)

\* The steps of the thread inside an operation.
Step ==
  \/ EndGetFedCmTracker \/ SendCommandFails \/ SendCommandLoop
  \/ HandleEventsUntil \/ HandleEventsEnds
  \/ EnsureListenersNotifiedOfConnect \/ EnsureListenersNotifiedOfEvent
  \/ EnsureListenersNotifiedOfCommandResponse \/ DeadPointer \/ NotificationFails
  \/ ListenerContinues \/ SetUpDevTools \/ AttachToReturns
  \/ ProcessNextMessage \/ Receive \/ HandleMessageReturns
  \/ ProcessCommandResponseReturns \/ ProcessEvent
  \/ EventNotified \/ RoundTripReturns \/ HandleDialog \/ DialogHandled

Next == Begin \/ Step

\* The thread keeps running, and the timeout of HandleEventsUntil expires.
Fairness == WF_vars(Step) /\ SF_vars(HandleEventsEnds)

Spec == Init /\ [][Next]_vars
FairSpec == Spec /\ Fairness

-----------------------------------------------------------------------------
ActivationRecord ==
  [fn : Functions, c : Clients, at : Places, id : Nat, caller : Clients,
   to : Clients, ev : [number : Nat, kind : EventKinds], l : Listeners \cup {"none"}]
Command == [client : Clients, state : CommandStates, mapped : BOOLEAN,
            pending : BOOLEAN, ok : BOOLEAN]

TypeOK ==
  /\ stack \in Seq(ActivationRecord) /\ ret \in Statuses
  /\ nextId \in Nat \ {0}
  /\ DOMAIN commands \subseteq 1..(nextId - 1)
  /\ \A id \in DOMAIN commands : commands[id] \in Command
  /\ connected \in BOOLEAN
  /\ attached \in SUBSET Clients /\ detached \in SUBSET Clients
  /\ crashed \in SUBSET Clients
  /\ listeners \in [Clients -> Seq(Listeners)]
  /\ fedcm \in {"none", "live", "dangling"}
  /\ unConnect \in [Clients -> Seq(Listeners)]
  /\ unEvent \in [Clients -> Seq(Listeners)]
  /\ event \in [Clients -> [number : Nat, kind : EventKinds]]
  /\ unResponse \in [Clients -> Seq(Listeners)] /\ response \in SUBSET Clients
  /\ dialogs \in [Clients -> Nat]
  /\ sends \in 0..MaxSends /\ events \in 0..MaxEvents
  /\ lastSeen \in [Clients -> [Listeners -> Nat]] /\ opened \in [Clients -> Nat]
  /\ failed \in SUBSET Clients /\ died \in BOOLEAN /\ navigations \in SUBSET Nat

\* Every response finds its command: what the browser still has to answer on a
\* session that is attached is in the response_info_map_ of its client, after
\* timeouts, errors, dialogs and nested commands, and nothing else is.  So
\* ProcessCommandResponse never fails with "unexpected command response".
ResponsesAreExpected ==
  \A id \in DOMAIN commands :
    commands[id].client \notin detached => commands[id].mapped = commands[id].pending

\* The thread never blocks on behalf of a command that has been answered or that
\* a dialog blocks, however many messages were processed inside the calls of
\* the listeners before.
AwaitedIsUnanswered ==
  Receives /\ Len(stack) > 1 /\ stack[Len(stack) - 1].fn = "SendCommand"
    => LET cmd == commands[stack[Len(stack) - 1].id]
       IN  cmd.pending /\ cmd.state = "kWaiting"

\* Both: commands and responses meet exactly once, whatever is processed in between.
ResponsesMeetCommands == ResponsesAreExpected /\ AwaitedIsUnanswered

\* A dialog hangs no command: while a dialog is open, the commands of its client
\* that were sent before it opened do not wait any more, once the event has been
\* processed.  (A listener that fails prevents the round trip.)
DialogsBlockNoCommand ==
  \A i \in 1..Len(stack) :
    LET c == stack[i].c IN
      /\ stack[i].fn = "SendCommand" /\ dialogs[c] > 0 /\ c \notin failed
      /\ stack[i].id <= opened[c]
      /\ commands[stack[i].id].state = "kWaiting"
      => \E j \in (i + 1)..Len(stack) : stack[j].fn = "ProcessEvent" /\ stack[j].c = c

\* No listener hears of an event of its client before it was told of the
\* connection, although both are told inside the commands of other listeners.
ConnectedBeforeEvents ==
  NotifiesEvent /\ unEvent[Top.c] # <<>> /\ Top.c \notin failed
    => unConnect[Top.c] = <<>>

\* A listener sees the events of a client in the order in which they came and
\* each at most once, although later events are processed while an earlier one
\* is still being announced: what it is about to be told of is newer than all it
\* has seen.
EventsInOrder ==
  NotifiesEvent /\ ~AcceptsDialog(event[Top.c].kind)
    => \A i \in 1..Len(unEvent[Top.c]) :
         event[Top.c].number > lastSeen[Top.c][unEvent[Top.c][i]]

\* Both: the connection first, then the events as they came.
ListenersHearInOrder == ConnectedBeforeEvents /\ EventsInOrder

\* Every operation of a WebDriver command returns.
OperationsReturn == stack # <<>> ~> stack = <<>>

\* "Called when a command success response is received": a listener of a client
\* is told of a success only while there is a response to tell of.
SuccessHasResponse ==
  NotifiesCommandResponse /\ Succeeded /\ unResponse[Top.c] # <<>> => Top.c \in response
=============================================================================
