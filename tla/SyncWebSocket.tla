--------------------------- MODULE SyncWebSocket ---------------------------
(***************************************************************************)
(* net/sync_websocket_impl.cc and the part of net/websocket.cc it drives:  *)
(* the blocking WebSocket that a session thread uses to talk to the        *)
(* browser, implemented on top of an asynchronous WebSocket that lives on  *)
(* the I/O thread.                                                         *)
(*                                                                         *)
(* Two threads take steps.  The session thread runs tasks (a WebDriver     *)
(* command, or the notification that messages are available), inside which *)
(* it calls Connect, Send and ReceiveNextMessage.  The I/O thread runs the *)
(* tasks posted to it in FIFO order and reacts to the network.  Connect    *)
(* and Send wait on an event and a success flag that live in their own     *)
(* stack frame, so an I/O step that outlives the call touches a dead frame.*)
(*                                                                         *)
(* chrome_launcher.cc connects a socket once and destroys it when Connect  *)
(* fails, so the model has one Connect per socket.  Messages from the      *)
(* browser are numbered in the order in which they are received.           *)
(***************************************************************************)
EXTENDS Naturals, Sequences

CONSTANTS
  MaxAttempts,   \* rounds of the retry loop of Connect (4, 8 and 16 seconds)
  MaxMessages,   \* bound: messages the browser sends
  MaxSends       \* bound: calls of Send

ASSUME AttemptsAssumption == MaxAttempts \in Nat \ {0}
ASSUME MessagesAssumption == MaxMessages \in Nat
ASSUME SendsAssumption == MaxSends \in Nat

VARIABLES
  webSocketUrl,   \* the session asked for a webSocketUrl (WebDriver BiDi)
  pc,             \* where the session thread is
  task,           \* the task the session thread runs
  status,         \* last status of ReceiveNextMessage in this task
  attempt,        \* round of Connect's retry loop
  connectResult,  \* what Connect returned
  frame,          \* the call whose stack frame holds |success| and |event|
  success,        \* *success of that frame
  signaled,       \* the automatic-reset event of that frame
  ioQueue,        \* tasks posted to the I/O thread
  socket,         \* socket_: "null", or the state_ of the WebSocket
  isConnected,    \* is_connected_
  receivedQueue,  \* received_queue_
  notifications,  \* notify_ tasks posted to the owning sequence
  nextMessage,    \* number of the next message of the browser
  sends,          \* calls of Send so far
  firstSend,      \* history: nextMessage when the first SendOnIO ran
  lost,           \* history: queued messages that ConnectOnIO discarded
  delivered,      \* history: messages ReceiveNextMessage returned
  drainFailed,    \* history: a notification ended with an error, messages left
  staleAccess     \* history: the I/O thread touched a dead stack frame

clientVars == <<webSocketUrl, pc, task, status, attempt, connectResult, sends>>
frameVars == <<frame, success, signaled>>
coreVars == <<isConnected, receivedQueue>>
history == <<firstSend, lost, delivered, drainFailed, staleAccess>>
vars == <<clientVars, frameVars, ioQueue, socket, coreVars, notifications,
          nextMessage, history>>

IoTasks == {"ConnectOnIO", "SendOnIO", "CloseOnIO"}
SocketStates == {"null", "INITIALIZED", "CONNECTING", "OPEN", "CLOSED"}
ClientStates == {"connectPost", "connectWait", "connectCheck", "closeWait",
                 "idle", "running", "sendWait", "receiveWait", "receiveWoken",
                 "gone"}

Init ==
  /\ webSocketUrl \in BOOLEAN
  /\ pc = "connectPost" /\ task = "command" /\ status = "none"
  /\ attempt = 1 /\ connectResult = "pending"
  /\ frame = "Connect" /\ success = FALSE /\ signaled = FALSE
  /\ ioQueue = <<>> /\ socket = "null"
  /\ isConnected = FALSE /\ receivedQueue = <<>>
  /\ notifications = 0 /\ nextMessage = 1 /\ sends = 0
  /\ firstSend = 0 /\ lost = {} /\ delivered = <<>>
  /\ drainFailed = FALSE /\ staleAccess = FALSE

-----------------------------------------------------------------------------
(* The session thread: Core::Connect.                                      *)

\* Mutant: the task is put before the ones already posted.
PostToIOFirst(t) == ioQueue' = <<t>> \o ioQueue

PostToIO(t) == ioQueue' = Append(ioQueue, t)

\* Mutant: the loop over the three timeouts runs once too often.
HasNextAttemptOffByOne == attempt <= MaxAttempts

\* The loop has another timeout to try.
HasNextAttempt == attempt < MaxAttempts

\* One round of the loop: post ConnectOnIO and wait for the event.
ConnectPost ==
  /\ pc = "connectPost"
  /\ PostToIO("ConnectOnIO")
  /\ pc' = "connectWait"
  /\ UNCHANGED <<webSocketUrl, task, status, attempt, connectResult, sends,
                 frameVars, socket, coreVars, notifications, nextMessage,
                 history>>

\* TimedWait returns true: the event is reset and the loop is left.
ConnectSignaled ==
  /\ pc = "connectWait" /\ signaled
  /\ signaled' = FALSE
  /\ pc' = "connectCheck"
  /\ UNCHANGED <<webSocketUrl, task, status, attempt, connectResult, sends,
                 frame, success, ioQueue, socket, coreVars, notifications,
                 nextMessage, history>>

\* TimedWait returns false: the next round, or give up after the last one.
ConnectTimedOut ==
  /\ pc = "connectWait" /\ ~signaled
  /\ \/ /\ HasNextAttempt
        /\ attempt' = attempt + 1 /\ pc' = "connectPost"
     \/ /\ ~HasNextAttempt
        /\ pc' = "connectCheck" /\ UNCHANGED attempt
  /\ UNCHANGED <<webSocketUrl, task, status, connectResult, sends, frameVars,
                 ioQueue, socket, coreVars, notifications, nextMessage,
                 history>>

\* if (!success): post CloseOnIO and wait; otherwise Connect returns true.
ConnectCheck ==
  /\ pc = "connectCheck"
  /\ \/ /\ success
        /\ pc' = "running" /\ connectResult' = "ok" /\ frame' = "none"
        /\ UNCHANGED ioQueue
     \/ /\ ~success
        /\ PostToIO("CloseOnIO")
        /\ pc' = "closeWait"
        /\ UNCHANGED <<connectResult, frame>>
  /\ UNCHANGED <<webSocketUrl, task, status, attempt, sends, success, signaled,
                 socket, coreVars, notifications, nextMessage, history>>

\* event.Wait() after CloseOnIO returns; Connect returns false and
\* CreateBrowserwideDevToolsClientAndConnect destroys the socket.
ConnectFailed ==
  /\ pc = "closeWait" /\ signaled
  /\ signaled' = FALSE /\ frame' = "none"
  /\ connectResult' = "failed" /\ pc' = "gone"
  /\ UNCHANGED <<webSocketUrl, task, status, attempt, sends, success, ioQueue,
                 socket, coreVars, notifications, nextMessage, history>>

-----------------------------------------------------------------------------
(* The session thread: Core::Send.                                         *)

Send ==
  /\ pc = "running" /\ sends < MaxSends
  /\ sends' = sends + 1
  /\ frame' = "Send" /\ success' = FALSE /\ signaled' = FALSE
  /\ PostToIO("SendOnIO")
  /\ pc' = "sendWait"
  /\ UNCHANGED <<webSocketUrl, task, status, attempt, connectResult, socket,
                 coreVars, notifications, nextMessage, history>>

SendReturn ==
  /\ pc = "sendWait" /\ signaled
  /\ signaled' = FALSE /\ frame' = "none" /\ pc' = "running"
  /\ UNCHANGED <<webSocketUrl, task, status, attempt, connectResult, sends,
                 success, ioQueue, socket, coreVars, notifications, nextMessage,
                 history>>

-----------------------------------------------------------------------------
(* The session thread: Core::ReceiveNextMessage.  The lock is held from    *)
(* the test of the loop to the return or to the wait.                      *)

\* on_update_event_.TimedWait releases the lock and waits.
ReceiveWait ==
  /\ pc \in {"running", "receiveWoken"}
  /\ receivedQueue = <<>> /\ isConnected
  /\ pc' = "receiveWait"
  /\ UNCHANGED <<webSocketUrl, task, status, attempt, connectResult, sends,
                 frameVars, ioQueue, socket, coreVars, notifications,
                 nextMessage, history>>

\* The time of the caller is over.
ReceiveTimeout ==
  /\ pc \in {"running", "receiveWait", "receiveWoken"}
  /\ receivedQueue = <<>> /\ isConnected
  /\ pc' = "running" /\ status' = "kTimeout"
  /\ UNCHANGED <<webSocketUrl, task, attempt, connectResult, sends, frameVars,
                 ioQueue, socket, coreVars, notifications, nextMessage,
                 history>>

\* kDisconnected wins over messages that are still queued.
ReceiveDisconnected ==
  /\ pc \in {"running", "receiveWoken"}
  /\ ~isConnected
  /\ pc' = "running" /\ status' = "kDisconnected"
  /\ UNCHANGED <<webSocketUrl, task, attempt, connectResult, sends, frameVars,
                 ioQueue, socket, coreVars, notifications, nextMessage,
                 history>>

\* Mutant: the message that is removed is not the one that is returned.
PopLast == receivedQueue' = SubSeq(receivedQueue, 1, Len(receivedQueue) - 1)

PopFront == receivedQueue' = Tail(receivedQueue)

ReceiveMessage ==
  /\ pc \in {"running", "receiveWoken"}
  /\ receivedQueue # <<>> /\ isConnected
  /\ delivered' = Append(delivered, Head(receivedQueue))
  /\ PopFront
  /\ pc' = "running" /\ status' = "kOk"
  /\ drainFailed' = (drainFailed /\ receivedQueue' # <<>>)
  /\ UNCHANGED <<webSocketUrl, task, attempt, connectResult, sends, frameVars,
                 ioQueue, socket, isConnected, notifications, nextMessage,
                 firstSend, lost, staleAccess>>

-----------------------------------------------------------------------------
(* The tasks of the session thread.                                        *)

BeginCommand ==
  /\ pc = "idle"
  /\ pc' = "running" /\ task' = "command" /\ status' = "none"
  /\ UNCHANGED <<webSocketUrl, attempt, connectResult, sends, frameVars,
                 ioQueue, socket, coreVars, notifications, nextMessage,
                 history>>

\* The command returns.  kDisconnected ends the session, and so may any
\* command (quit).
EndCommand ==
  /\ pc = "running" /\ task = "command"
  /\ \/ pc' = "gone"
     \/ pc' = "idle" /\ status # "kDisconnected"
  /\ UNCHANGED <<webSocketUrl, task, status, attempt, connectResult, sends,
                 frameVars, ioQueue, socket, coreVars, notifications,
                 nextMessage, history>>

\* Session::HandleMessagesAndTerminateIfNecessary does nothing unless the
\* session asked for a webSocketUrl.  Otherwise HandleReceivedEvents runs; it
\* is refused on a lost connection, and the session ends.
BeginNotification ==
  /\ pc = "idle" /\ notifications > 0
  /\ notifications' = notifications - 1
  /\ \/ /\ ~webSocketUrl
        /\ UNCHANGED <<pc, task, status>>
     \/ /\ webSocketUrl
        /\ task' = "notification" /\ status' = "none"
        /\ pc' = IF isConnected THEN "running" ELSE "gone"
  /\ UNCHANGED <<webSocketUrl, attempt, connectResult, sends, frameVars,
                 ioQueue, socket, coreVars, nextMessage, history>>

\* HandleEventsUntil returns when no message is left, when a message could
\* not be processed, or when the connection is lost.  The session ends when the
\* connection is lost or no web view but the BiDiMapper's is left.
EndNotification ==
  /\ pc = "running" /\ task = "notification"
  /\ receivedQueue = <<>> \/ status \in {"kOk", "kDisconnected"}
  /\ \/ /\ pc' = "gone" /\ UNCHANGED drainFailed
     \/ /\ status # "kDisconnected"
        /\ pc' = "idle" /\ drainFailed' = (drainFailed \/ receivedQueue # <<>>)
  /\ UNCHANGED <<webSocketUrl, task, status, attempt, connectResult, sends,
                 frameVars, ioQueue, socket, coreVars, notifications,
                 nextMessage, firstSend, lost, delivered, staleAccess>>

-----------------------------------------------------------------------------
(* The I/O thread.                                                         *)

\* *success = ok; event->Signal() through the pointers the task was given for
\* a call of f.  When the frame is gone the two writes hit whatever the stack
\* holds now: nothing in use, or the frame of the call that runs instead.
SignalFrame(f, ok) ==
  \/ /\ frame = f
     /\ success' = ok /\ signaled' = TRUE
     /\ UNCHANGED <<frame, staleAccess>>
  \/ /\ frame # f
     /\ staleAccess' = TRUE
     /\ \/ UNCHANGED frameVars
        \/ frame # "none" /\ success' = ok /\ signaled' = TRUE /\ UNCHANGED frame

\* Mutant: on_update_event_ is not signalled.
NoWakeup == pc' = pc

\* on_update_event_.Signal()
WakeReceiver == pc' = IF pc = "receiveWait" THEN "receiveWoken" ELSE pc

\* Mutant: the owning sequence is not notified of the loss.
OnCloseSilent == isConnected' = FALSE /\ WakeReceiver /\ UNCHANGED notifications

\* The listener's OnClose, called by WebSocket::Close for an open socket.
OnClose ==
  /\ isConnected' = FALSE
  /\ WakeReceiver
  /\ notifications' = notifications + 1

\* The queue is cleared even when the retry finds the socket connected.
\* A new WebSocket may fail at once (no address, connection refused).
ConnectOnIO ==
  /\ ioQueue # <<>> /\ Head(ioQueue) = "ConnectOnIO"
  /\ ioQueue' = Tail(ioQueue)
  /\ lost' = lost \cup {receivedQueue[i] : i \in 1..Len(receivedQueue)}
  /\ receivedQueue' = <<>> /\ drainFailed' = FALSE
  /\ \/ /\ socket # "null" /\ isConnected
        /\ UNCHANGED <<socket, frameVars, staleAccess>>
     \/ /\ socket = "null" \/ ~isConnected
        /\ \/ socket' = "CONNECTING" /\ UNCHANGED <<frameVars, staleAccess>>
           \/ \E s \in {"INITIALIZED", "CLOSED"} : socket' = s /\ SignalFrame("Connect", FALSE)
  /\ UNCHANGED <<clientVars, isConnected, notifications, nextMessage, firstSend,
                 delivered>>

\* The handshake is over: OnConnectCompletedOnIO with net::OK.
OnConnectCompletedOnIO ==
  /\ socket = "CONNECTING"
  /\ socket' = "OPEN"
  /\ SignalFrame("Connect", TRUE)
  /\ isConnected' = TRUE
  /\ UNCHANGED <<clientVars, ioQueue, receivedQueue, notifications, nextMessage,
                 firstSend, lost, delivered, drainFailed>>

\* Close() during the handshake: OnConnectCompletedOnIO with an error.
OnConnectError ==
  /\ socket = "CONNECTING"
  /\ socket' = "CLOSED"
  /\ SignalFrame("Connect", FALSE)
  /\ UNCHANGED <<clientVars, ioQueue, coreVars, notifications, nextMessage,
                 firstSend, lost, delivered, drainFailed>>

\* Mutant: the queue is tested after the message was pushed.
ShouldNotifyLate(sendToChromedriver) == sendToChromedriver /\ receivedQueue' = <<>>

\* Only the first message of a batch is announced.
ShouldNotify(sendToChromedriver) == sendToChromedriver /\ receivedQueue = <<>>

\* A message for ChromeDriver is queued; one with the id of another client is
\* not.  A notification is posted only when the queue was empty.
OnMessageReceived ==
  /\ socket = "OPEN" /\ nextMessage <= MaxMessages
  /\ nextMessage' = nextMessage + 1
  /\ \E sendToChromedriver \in BOOLEAN :
       /\ receivedQueue' = IF sendToChromedriver
                           THEN Append(receivedQueue, nextMessage)
                           ELSE receivedQueue
       /\ notifications' = IF ShouldNotify(sendToChromedriver)
                           THEN notifications + 1
                           ELSE notifications
  /\ WakeReceiver
  /\ UNCHANGED <<webSocketUrl, task, status, attempt, connectResult, sends,
                 frameVars, ioQueue, socket, isConnected, history>>

\* EOF or an error of the network.
SocketClosed ==
  /\ socket = "OPEN"
  /\ socket' = "CLOSED"
  /\ OnClose
  /\ UNCHANGED <<webSocketUrl, task, status, attempt, connectResult, sends,
                 frameVars, ioQueue, receivedQueue, nextMessage, history>>

\* socket_->Send returns false unless the socket is open; a write that fails
\* closes the socket, and Send has still returned true.
SendOnIO ==
  /\ ioQueue # <<>> /\ Head(ioQueue) = "SendOnIO"
  /\ ioQueue' = Tail(ioQueue)
  /\ SignalFrame("Send", socket = "OPEN")
  /\ firstSend' = IF firstSend = 0 THEN nextMessage ELSE firstSend
  /\ \/ UNCHANGED <<socket, isConnected, notifications, pc>>
     \/ socket = "OPEN" /\ socket' = "CLOSED" /\ OnClose
  /\ UNCHANGED <<webSocketUrl, task, status, attempt, connectResult, sends,
                 receivedQueue, nextMessage, lost, delivered, drainFailed>>

\* Mutant: the socket is left as it is.
KeepSocket == UNCHANGED socket

ResetSocket == socket' = "null"

\* event->Signal() through the pointer Connect gave to CloseOnIO.
SignalClosed ==
  \/ frame = "Connect" /\ signaled' = TRUE /\ UNCHANGED <<frame, success, staleAccess>>
  \/ frame # "Connect" /\ staleAccess' = TRUE /\ UNCHANGED frameVars

CloseOnIO ==
  /\ ioQueue # <<>> /\ Head(ioQueue) = "CloseOnIO"
  /\ ioQueue' = Tail(ioQueue)
  /\ ResetSocket /\ SignalClosed
  /\ UNCHANGED <<clientVars, coreVars, notifications, nextMessage, firstSend,
                 lost, delivered, drainFailed>>

\* Core::OnDestruct: the last reference is gone.  Posted tasks and a pending
\* connect callback hold references.
DestroyCore ==
  /\ pc = "gone" /\ ioQueue = <<>>
  /\ socket \notin {"null", "CONNECTING"}
  /\ socket' = "null"
  /\ UNCHANGED <<clientVars, frameVars, ioQueue, coreVars, notifications,
                 nextMessage, history>>

-----------------------------------------------------------------------------
ConnectSteps == ConnectPost \/ ConnectSignaled \/ ConnectTimedOut
                \/ ConnectCheck \/ ConnectFailed
ReceiveSteps == ReceiveWait \/ ReceiveTimeout \/ ReceiveDisconnected
                \/ ReceiveMessage
TaskSteps == BeginCommand \/ EndCommand \/ BeginNotification \/ EndNotification
IoTaskSteps == ConnectOnIO \/ SendOnIO \/ CloseOnIO
NetworkSteps == OnConnectCompletedOnIO \/ OnConnectError \/ OnMessageReceived
                \/ SocketClosed

Next == \/ ConnectSteps \/ Send \/ SendReturn \/ ReceiveSteps \/ TaskSteps
        \/ IoTaskSteps \/ NetworkSteps \/ DestroyCore

\* Each thread runs its tasks and its waits expire; the network owes nothing.
\* A command ends in bounded time (its waits have timeouts), and a
\* notification ends once it has drained the queue.
Fairness ==
  /\ WF_vars(ConnectSteps) /\ WF_vars(SendReturn) /\ WF_vars(IoTaskSteps)
  /\ WF_vars(ReceiveTimeout) /\ WF_vars(ReceiveMessage)
  /\ WF_vars(ReceiveDisconnected)
  /\ SF_vars(EndCommand) /\ SF_vars(EndNotification)
  /\ SF_vars(BeginNotification)

Spec == Init /\ [][Next]_vars
FairSpec == Spec /\ Fairness

-----------------------------------------------------------------------------
TypeOK ==
  /\ webSocketUrl \in BOOLEAN
  /\ pc \in ClientStates
  /\ task \in {"command", "notification"}
  /\ status \in {"none", "kOk", "kTimeout", "kDisconnected"}
  /\ attempt \in 1..MaxAttempts
  /\ connectResult \in {"pending", "ok", "failed"}
  /\ frame \in {"Connect", "Send", "none"}
  /\ success \in BOOLEAN /\ signaled \in BOOLEAN
  /\ ioQueue \in Seq(IoTasks)
  /\ socket \in SocketStates
  /\ isConnected \in BOOLEAN
  /\ receivedQueue \in Seq(Nat) /\ delivered \in Seq(Nat)
  /\ notifications \in Nat /\ nextMessage \in Nat \ {0}
  /\ sends \in 0..MaxSends /\ firstSend \in Nat
  /\ lost \subseteq Nat
  /\ drainFailed \in BOOLEAN /\ staleAccess \in BOOLEAN

\* A session thread asleep in ReceiveNextMessage has nothing to read and a
\* live connection: neither a message nor the loss of the connection, both
\* signalled by the I/O thread, can leave it asleep.
NoLostWakeup ==
  pc = "receiveWait" => receivedQueue = <<>> /\ isConnected

\* Messages that wait while the thread of a BiDi session is idle have a notification
\* posted for them, although OnMessageReceived posts one only for the first
\* message of a batch and commands read messages in between; the exception is
\* a notification that itself ended with an error.
NotificationCoversQueue ==
  webSocketUrl /\ pc = "idle" /\ receivedQueue # <<>>
    => notifications > 0 \/ drainFailed

\* The loss of an established connection is never silent: the idle thread of a
\* BiDi session has a notification to run, which will end the session.
DisconnectIsNotified ==
  webSocketUrl /\ pc = "idle" /\ ~isConnected => notifications > 0

\* A retry of Connect that runs late discards only messages the browser sent
\* before it was sent any command, so no response is ever discarded by
\* the received_queue_.clear() of ConnectOnIO.
OnlyUnsolicitedLost ==
  firstSend # 0 => \A m \in lost : m < firstSend

\* Messages are returned in the order in which they came, each at most once,
\* across retries, timeouts and notifications.
DeliveredInOrder ==
  LET all == delivered \o receivedQueue
  IN  \A i, j \in 1..Len(all) : i < j => all[i] < all[j]

\* Once a failed Connect has let the I/O thread finish its tasks no WebSocket
\* is left behind, whichever attempts were still under way.
FailedConnectIsClosed ==
  connectResult = "failed" /\ ioQueue = <<>> => socket = "null"

\* Connect returns: every round has a timeout and CloseOnIO signals the event.
ConnectReturns == <>(connectResult # "pending")

\* A connection lost while the thread of a BiDi session is idle or busy ends the
\* session, without the help of a client.
DisconnectEndsSession ==
  (webSocketUrl /\ connectResult = "ok" /\ ~isConnected) ~> (pc = "gone" \/ isConnected)

\* Both: no thread waits for ever for the I/O thread or for a connection that is lost.
WaitsEnd == ConnectReturns /\ DisconnectEndsSession

\* What the comment in Connect promises for CloseOnIO: the connection does
\* not touch |event| or |success| after they have gone out of scope.
NoStaleFrameAccess == ~staleAccess
=============================================================================
