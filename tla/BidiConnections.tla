-------------------------- MODULE BidiConnections --------------------------
(***************************************************************************)
(* server/http_handler.cc, server/http_server.cc, commands.cc and          *)
(* session.cc: the WebSocket connections over which clients speak WebDriver*)
(* BiDi, and the sessions they are bound to.                               *)
(*                                                                         *)
(* Three kinds of threads take steps and talk by posting tasks:            *)
(*  - the I/O thread owns the connections (net::HttpServer),               *)
(*  - the command (CMD) thread owns session_thread_map_,                   *)
(*    session_connection_map_ and connection_session_map_,                 *)
(*  - each session thread owns its Session with bidi_connections_.         *)
(* A session may end at any time (quit, session.end, loss of the browser), *)
(* and a connection may be closed by either end at any time.               *)
(*                                                                         *)
(* The empty session id "" of connections that are not bound yet is the    *)
(* constant Unbound.  Sessions are the ids GenerateId returns.             *)
(***************************************************************************)
EXTENDS Naturals, Sequences, FiniteSets

CONSTANTS
  Connections,   \* connection ids of net::HttpServer
  Sessions,      \* session ids
  Unbound,       \* the session id "" of session_connection_map_
  None,          \* no entry in a map, no connection of a task
  MaxMessages    \* bound: WebSocket messages and quit requests of the clients

ASSUME MessagesAssumption == MaxMessages \in Nat
ASSUME UnboundAssumption == Unbound \notin Sessions
ASSUME NoneAssumption == None \notin Sessions \cup {Unbound} \cup Connections

VARIABLES
  conn,               \* state of each connection in net::HttpServer
  ioQueue,            \* tasks posted to the I/O thread
  cmdQueue,           \* tasks posted to the CMD thread
  connectionSession,  \* connection_session_map_, None for no entry
  bucket,             \* session_connection_map_, the vector as a set ...
  known,              \* ... and the keys it has
  threadMap,          \* keys of session_thread_map_
  threadQueue,        \* tasks posted to each session thread
  quitting,           \* sessions that replied and are about to Terminate()
  tls,                \* the thread-local Session of each session thread
  bidiConnections,    \* bidi_connections_ of each session
  messages,           \* messages and quit requests the clients have sent
  dropped,            \* history: connections CloseAllConnections closes
  orphans             \* history: connections added after Terminate()

netVars == <<conn, messages>>
mapVars == <<connectionSession, bucket, known>>
sessionVars == <<quitting, tls, bidiConnections>>
history == <<dropped, orphans>>
vars == <<netVars, ioQueue, cmdQueue, mapVars, threadMap, threadQueue,
          sessionVars, history>>

Keys == Sessions \cup {Unbound}
ConnStates == {"none", "requested", "open", "rejected", "closed"}
MessageKinds == {"session.new", "session.end", "other"}

Task(op, c, s, ok) == [op |-> op, conn |-> c, session |-> s, ok |-> ok]
IoTask(op, c) == [op |-> op, conn |-> c]
ThreadTask(op, c) == [op |-> op, conn |-> c]

Init ==
  /\ conn = [c \in Connections |-> "none"] /\ messages = 0
  /\ ioQueue = <<>> /\ cmdQueue = <<>>
  /\ connectionSession = [c \in Connections |-> None]
  /\ bucket = [s \in Keys |-> {}] /\ known = {Unbound}
  /\ threadMap = {} /\ threadQueue = [s \in Sessions |-> <<>>]
  /\ quitting = {} /\ tls = [s \in Sessions |-> "unset"]
  /\ bidiConnections = [s \in Sessions |-> <<>>]
  /\ dropped = {} /\ orphans = {}

-----------------------------------------------------------------------------
(* The I/O thread: requests, messages and closes of the clients.           *)

\* A client asks for a WebSocket on /session or on /session/<id>.
ClientConnect(c, target) ==
  /\ conn[c] = "none"
  /\ conn' = [conn EXCEPT ![c] = "requested"]
  /\ cmdQueue' = Append(cmdQueue, Task("WebSocketRequest", c, target, TRUE))
  /\ UNCHANGED <<messages, ioQueue, mapVars, threadMap, threadQueue,
                 sessionVars, history>>

ClientMessage(c, kind) ==
  /\ conn[c] = "open" /\ messages < MaxMessages
  /\ messages' = messages + 1
  /\ cmdQueue' = Append(cmdQueue, Task(kind, c, None, TRUE))
  /\ UNCHANGED <<conn, ioQueue, mapVars, threadMap, threadQueue, sessionVars,
                 history>>

\* net::HttpServer calls OnClose for a connection that either end closes.
CloseConnection(c) ==
  /\ conn' = [conn EXCEPT ![c] = "closed"]
  /\ cmdQueue' = Append(cmdQueue, Task("OnClose", c, None, TRUE))

ClientClose(c) ==
  /\ conn[c] \in {"requested", "open", "rejected"}
  /\ CloseConnection(c)
  /\ UNCHANGED <<messages, ioQueue, mapVars, threadMap, threadQueue,
                 sessionVars, history>>

\* A task posted by the CMD thread; one for a closed connection does nothing.
RunIoTask ==
  /\ ioQueue # <<>>
  /\ ioQueue' = Tail(ioQueue)
  /\ LET t == Head(ioQueue) IN
       \/ /\ t.op = "AcceptWebSocket" /\ conn[t.conn] = "requested"
          /\ conn' = [conn EXCEPT ![t.conn] = "open"] /\ UNCHANGED cmdQueue
       \/ /\ t.op = "Reject" /\ conn[t.conn] = "requested"
          /\ conn' = [conn EXCEPT ![t.conn] = "rejected"] /\ UNCHANGED cmdQueue
       \/ /\ t.op = "Close" /\ conn[t.conn] # "closed"
          /\ CloseConnection(t.conn)
       \/ /\ \/ t.op = "Close" /\ conn[t.conn] = "closed"
             \/ t.op \in {"AcceptWebSocket", "Reject"} /\ conn[t.conn] # "requested"
          /\ UNCHANGED <<conn, cmdQueue>>
  /\ UNCHANGED <<messages, mapVars, threadMap, threadQueue, sessionVars, history>>

-----------------------------------------------------------------------------
(* The CMD thread.                                                         *)

\* The task at the head of the queue of the CMD thread, when it is an op.
CmdTask(op) == cmdQueue # <<>> /\ Head(cmdQueue).op = op

PostToThread(s, t) == threadQueue' = [threadQueue EXCEPT ![s] = Append(@, t)]

\* Mutant: nothing is posted.
AcceptForgotten(c) == UNCHANGED ioQueue

AcceptWebSocket(c) == ioQueue' = Append(ioQueue, IoTask("AcceptWebSocket", c))

\* Mutant: the session thread is not told of the connection.
AddForgotten(s, c) == UNCHANGED threadQueue

PostAddBidiConnection(s, c) == PostToThread(s, ThreadTask("AddBidiConnection", c))

\* OnWebSocketUnboundConnectionRequest.  Its reject of a connection that is
\* bound already needs a second upgrade request, which net::HttpServer does not
\* pass on.
UnboundRequest ==
  /\ CmdTask("WebSocketRequest") /\ Head(cmdQueue).session = Unbound
  /\ LET c == Head(cmdQueue).conn IN
       /\ connectionSession[c] = None
       /\ bucket' = [bucket EXCEPT ![Unbound] = @ \cup {c}]
       /\ connectionSession' = [connectionSession EXCEPT ![c] = Unbound]
       /\ AcceptWebSocket(c)
  /\ cmdQueue' = Tail(cmdQueue)
  /\ UNCHANGED <<netVars, known, threadMap, threadQueue, sessionVars, history>>

\* OnWebSocketAttachToSessionRequest
AttachRequest ==
  /\ CmdTask("WebSocketRequest") /\ Head(cmdQueue).session # Unbound
  /\ LET c == Head(cmdQueue).conn
         s == Head(cmdQueue).session IN
       \/ /\ s \notin known
          /\ ioQueue' = Append(ioQueue, IoTask("Reject", c))
          /\ UNCHANGED <<bucket, connectionSession, threadQueue>>
       \/ /\ s \in known
          /\ bucket' = [bucket EXCEPT ![s] = @ \cup {c}]
          /\ connectionSession' = [connectionSession EXCEPT ![c] = s]
          /\ \/ /\ s \in threadMap
                /\ PostAddBidiConnection(s, c)
                /\ AcceptWebSocket(c)
             \/ /\ s \notin threadMap
                /\ ioQueue' = Append(ioQueue, IoTask("Reject", c))
                /\ UNCHANGED threadQueue
  /\ cmdQueue' = Tail(cmdQueue)
  /\ UNCHANGED <<netVars, known, threadMap, sessionVars, history>>

\* ExecuteCreateSession: start the thread, install the Session, run InitSession.
\* c is the connection of a session.new, None for POST /session.
CreateSession(s, c) ==
  /\ s \notin threadMap /\ tls[s] = "unset"
  /\ threadMap' = threadMap \cup {s}
  /\ tls' = [tls EXCEPT ![s] = "live"]
  /\ PostToThread(s, ThreadTask("InitSession", c))

\* POST /session asking for a webSocketUrl.
HttpNewSession(s) ==
  /\ CreateSession(s, None)
  /\ UNCHANGED <<netVars, ioQueue, cmdQueue, mapVars, quitting, bidiConnections,
                 history>>

\* DELETE /session/<id>
HttpQuit(s) ==
  /\ s \in threadMap /\ messages < MaxMessages
  /\ messages' = messages + 1
  /\ PostToThread(s, ThreadTask("Quit", None))
  /\ UNCHANGED <<conn, ioQueue, cmdQueue, mapVars, threadMap, sessionVars,
                 history>>

NewBucket(c) == {c}

\* OnNewBidiSessionOnCmdThread, whatever the status: the connection leaves the
\* unbound ones, is bound to s and is given to the session thread.
OnNewBidiSession(c, s) ==
  /\ bucket' = IF s \in known
               THEN [bucket EXCEPT ![Unbound] = @ \ {c}]
               ELSE [bucket EXCEPT ![Unbound] = @ \ {c}, ![s] = NewBucket(c)]
  /\ known' = known \cup {s}
  /\ connectionSession' = [connectionSession EXCEPT ![c] = s]

\* A message of a connection without an entry is answered with an error, and
\* so is a session command of an unbound connection.
RefuseMessage ==
  /\ cmdQueue # <<>> /\ Head(cmdQueue).op \in MessageKinds
  /\ LET c == Head(cmdQueue).conn IN
       \/ connectionSession[c] = None
       \/ connectionSession[c] = Unbound /\ Head(cmdQueue).op # "session.new"
       \/ /\ connectionSession[c] \in Sessions \ threadMap
          /\ Head(cmdQueue).op # "session.new"
  /\ cmdQueue' = Tail(cmdQueue)
  /\ UNCHANGED <<netVars, ioQueue, mapVars, threadMap, threadQueue, sessionVars,
                 history>>

\* session.new of an unbound connection: a new session is created, or its
\* thread cannot be started and the reply names the empty session id.
NewSessionMessage ==
  /\ CmdTask("session.new") /\ connectionSession[Head(cmdQueue).conn] = Unbound
  /\ LET c == Head(cmdQueue).conn IN
       \/ /\ \E s \in Sessions : CreateSession(s, c)
          /\ UNCHANGED mapVars
       \/ /\ OnNewBidiSession(c, Unbound)
          /\ UNCHANGED <<threadMap, tls, threadQueue>>
  /\ cmdQueue' = Tail(cmdQueue)
  /\ UNCHANGED <<netVars, ioQueue, quitting, bidiConnections, history>>

\* session.new of a bound connection: "session already exists", passed to the
\* same callback as a new session.
SessionAlreadyExists ==
  /\ CmdTask("session.new") /\ connectionSession[Head(cmdQueue).conn] \in Sessions
  /\ LET c == Head(cmdQueue).conn
         s == connectionSession[c] IN
       /\ OnNewBidiSession(c, s)
       /\ IF s \in threadMap
          THEN PostAddBidiConnection(s, c)
          ELSE UNCHANGED threadQueue
  /\ cmdQueue' = Tail(cmdQueue)
  /\ UNCHANGED <<netVars, ioQueue, threadMap, sessionVars, history>>

\* session.end and the commands for the BiDiMapper go to the session thread.
SessionMessage ==
  /\ cmdQueue # <<>> /\ Head(cmdQueue).op \in {"session.end", "other"}
  /\ LET c == Head(cmdQueue).conn IN
       /\ connectionSession[c] \in threadMap
       /\ PostToThread(connectionSession[c],
                       ThreadTask(IF Head(cmdQueue).op = "session.end"
                                  THEN "BidiSessionEnd" ELSE "ForwardBidiCommand", c))
  /\ cmdQueue' = Tail(cmdQueue)
  /\ UNCHANGED <<netVars, ioQueue, mapVars, threadMap, sessionVars, history>>

\* The reply of InitSession to POST /session: OnNewSessionCreated.
OnNewSessionCreated ==
  /\ CmdTask("OnNewSessionCreated")
  /\ known' = IF Head(cmdQueue).ok THEN known \cup {Head(cmdQueue).session} ELSE known
  /\ cmdQueue' = Tail(cmdQueue)
  /\ UNCHANGED <<netVars, ioQueue, connectionSession, bucket, threadMap,
                 threadQueue, sessionVars, history>>

\* The reply of InitSession to session.new: OnNewBidiSessionOnCmdThread.
OnNewBidiSessionOnCmdThread ==
  /\ CmdTask("OnNewBidiSession")
  /\ LET c == Head(cmdQueue).conn
         s == Head(cmdQueue).session IN
       /\ OnNewBidiSession(c, s)
       /\ IF s \in threadMap
          THEN PostAddBidiConnection(s, c)
          ELSE UNCHANGED threadQueue
  /\ cmdQueue' = Tail(cmdQueue)
  /\ UNCHANGED <<netVars, ioQueue, threadMap, sessionVars, history>>

CloseConnectionOnCommandThread ==
  /\ CmdTask("CloseConnection")
  /\ ioQueue' = Append(ioQueue, IoTask("Close", Head(cmdQueue).conn))
  /\ cmdQueue' = Tail(cmdQueue)
  /\ UNCHANGED <<netVars, mapVars, threadMap, threadQueue, sessionVars, history>>

\* HttpHandler::OnClose with its four early returns.
OnClose ==
  /\ CmdTask("OnClose")
  /\ LET c == Head(cmdQueue).conn
         s == connectionSession[c] IN
       \/ /\ s = None
          /\ UNCHANGED <<mapVars, threadQueue>>
       \/ /\ s # None /\ s \notin known
          /\ UNCHANGED <<mapVars, threadQueue>>
       \/ /\ s \in known /\ c \notin bucket[s]
          /\ UNCHANGED <<mapVars, threadQueue>>
       \/ /\ s \in known /\ c \in bucket[s]
          /\ bucket' = [bucket EXCEPT ![s] = @ \ {c}]
          /\ connectionSession' = [connectionSession EXCEPT ![c] = None]
          /\ IF s \in threadMap
             THEN PostToThread(s, ThreadTask("RemoveBidiConnection", c))
             ELSE UNCHANGED threadQueue
          /\ UNCHANGED known
  /\ cmdQueue' = Tail(cmdQueue)
  /\ UNCHANGED <<netVars, ioQueue, threadMap, sessionVars, history>>

\* terminate_on_cmd is bound with BindPostTask: the task that Terminate()
\* posts only posts OnSessionTerminated behind what is queued by then.
TerminateOnCmd ==
  /\ CmdTask("terminate_on_cmd")
  /\ cmdQueue' = Append(Tail(cmdQueue),
                        Task("OnSessionTerminated", None, Head(cmdQueue).session, TRUE))
  /\ UNCHANGED <<netVars, ioQueue, mapVars, threadMap, threadQueue, sessionVars,
                 history>>

\* Erasing the thread joins it, so the tasks it still has run first.
OnSessionTerminated ==
  /\ CmdTask("OnSessionTerminated")
  /\ LET s == Head(cmdQueue).session IN
       /\ threadQueue[s] = <<>>
       /\ threadMap' = threadMap \ {s}
       /\ known' = known \ {s}
       /\ bucket' = [bucket EXCEPT ![s] = {}]
  /\ cmdQueue' = Tail(cmdQueue)
  /\ UNCHANGED <<netVars, ioQueue, connectionSession, threadQueue, sessionVars,
                 history>>

-----------------------------------------------------------------------------
(* The session threads.                                                    *)

\* The task at the head of the queue of the thread of s, when it is an op.
RunsTask(s, op) ==
  /\ s \notin quitting
  /\ threadQueue[s] # <<>> /\ Head(threadQueue[s]).op = op

DoneTask(s) == threadQueue' = [threadQueue EXCEPT ![s] = Tail(@)]

\* GetThreadLocalSession() != nullptr
HasSession(s) == tls[s] = "live"

\* ExecuteInitSession, run by ExecuteSessionCommandOnSessionThread: the reply
\* is posted first; a failure has set session->quit.
InitSession(s) ==
  /\ RunsTask(s, "InitSession")
  /\ \E ok \in BOOLEAN :
       /\ cmdQueue' = LET c == Head(threadQueue[s]).conn IN
            Append(cmdQueue, Task(IF c = None THEN "OnNewSessionCreated"
                                  ELSE "OnNewBidiSession", c, s, ok))
       /\ quitting' = IF ok THEN quitting ELSE quitting \cup {s}
  /\ DoneTask(s)
  /\ UNCHANGED <<netVars, ioQueue, mapVars, threadMap, tls, bidiConnections,
                 history>>

\* ExecuteSessionCommandOnSessionThread of Quit, session.end and the commands
\* for the BiDiMapper.  Without a Session they only reply; Quit and session.end
\* set session->quit, and so does a command that finds the browser gone.
SessionCommand(s) ==
  /\ RunsTask(s, "Quit") \/ RunsTask(s, "BidiSessionEnd") \/ RunsTask(s, "ForwardBidiCommand")
  /\ \/ HasSession(s) /\ quitting' = quitting \cup {s}
     \/ HasSession(s) /\ RunsTask(s, "ForwardBidiCommand") /\ UNCHANGED quitting
     \/ ~HasSession(s) /\ UNCHANGED quitting
  /\ DoneTask(s)
  /\ UNCHANGED <<netVars, ioQueue, cmdQueue, mapVars, threadMap, tls,
                 bidiConnections, history>>

\* HandleMessagesAndTerminateIfNecessary finds the browser gone.
BrowserGone(s) ==
  /\ tls[s] = "live" /\ s \notin quitting
  /\ ~RunsTask(s, "InitSession")
  /\ quitting' = quitting \cup {s}
  /\ UNCHANGED <<netVars, ioQueue, cmdQueue, mapVars, threadMap, threadQueue,
                 tls, bidiConnections, history>>

\* Mutant: connection and session are swapped.
CloseTaskSwapped(c, s) == Task("CloseConnection", s, c, TRUE)

\* The close_connection callback of a BidiConnection.
CloseTask(c, s) == Task("CloseConnection", c, s, TRUE)

\* The closes that CloseAllConnections posts.
Closes(s) == [i \in 1..Len(bidiConnections[s]) |-> CloseTask(bidiConnections[s][i], s)]

\* Mutant: the session thread removes itself from session_thread_map_.
TerminateDirectly(s) ==
  /\ s \in quitting
  /\ quitting' = quitting \ {s} /\ threadMap' = threadMap \ {s}
  /\ tls' = [tls EXCEPT ![s] = "null"]
  /\ cmdQueue' = cmdQueue \o Closes(s)
  /\ bidiConnections' = [bidiConnections EXCEPT ![s] = <<>>]
  /\ UNCHANGED <<netVars, ioQueue, mapVars, threadQueue, history>>

\* Session::Terminate: post a close for every connection, then terminate_on_cmd.
Terminate(s) ==
  /\ s \in quitting
  /\ quitting' = quitting \ {s}
  /\ tls' = [tls EXCEPT ![s] = "null"]
  /\ cmdQueue' = cmdQueue \o Closes(s) \o <<Task("terminate_on_cmd", None, s, TRUE)>>
  /\ dropped' = dropped \cup {bidiConnections[s][i] : i \in 1..Len(bidiConnections[s])}
  /\ bidiConnections' = [bidiConnections EXCEPT ![s] = <<>>]
  /\ UNCHANGED <<netVars, ioQueue, mapVars, threadMap, threadQueue, orphans>>

\* AddBidiConnectionOnSessionThread; without a Session nothing is done.
AddBidiConnection(s) ==
  /\ RunsTask(s, "AddBidiConnection")
  /\ LET c == Head(threadQueue[s]).conn IN
       \/ /\ tls[s] = "live"
          /\ bidiConnections' = [bidiConnections EXCEPT ![s] = Append(@, c)]
          /\ UNCHANGED orphans
       \/ /\ tls[s] # "live"
          /\ orphans' = orphans \cup {c}
          /\ UNCHANGED bidiConnections
  /\ DoneTask(s)
  /\ UNCHANGED <<netVars, ioQueue, cmdQueue, mapVars, threadMap, quitting, tls,
                 dropped>>

\* RemoveBidiConnection erases the first entry of the connection.
WithoutFirst(seq, c) ==
  IF \E i \in 1..Len(seq) : seq[i] = c
  THEN LET first == CHOOSE i \in 1..Len(seq) :
                      seq[i] = c /\ \A j \in 1..(i - 1) : seq[j] # c
       IN  SubSeq(seq, 1, first - 1) \o SubSeq(seq, first + 1, Len(seq))
  ELSE seq

RemoveBidiConnection(s) ==
  /\ RunsTask(s, "RemoveBidiConnection")
  /\ bidiConnections' = [bidiConnections EXCEPT ![s] =
                           WithoutFirst(@, Head(threadQueue[s]).conn)]
  /\ DoneTask(s)
  /\ UNCHANGED <<netVars, ioQueue, cmdQueue, mapVars, threadMap, quitting, tls,
                 history>>

-----------------------------------------------------------------------------
ClientSteps ==
  \/ \E c \in Connections, t \in Keys : ClientConnect(c, t)
  \/ \E c \in Connections, k \in MessageKinds : ClientMessage(c, k)
  \/ \E c \in Connections : ClientClose(c)
  \/ \E s \in Sessions : HttpNewSession(s) \/ HttpQuit(s) \/ BrowserGone(s)

CmdSteps ==
  \/ UnboundRequest \/ AttachRequest \/ RefuseMessage \/ NewSessionMessage
  \/ SessionAlreadyExists \/ SessionMessage \/ OnNewSessionCreated
  \/ OnNewBidiSessionOnCmdThread \/ CloseConnectionOnCommandThread \/ OnClose
  \/ TerminateOnCmd \/ OnSessionTerminated

ThreadSteps(s) ==
  \/ InitSession(s) \/ SessionCommand(s) \/ Terminate(s)
  \/ AddBidiConnection(s) \/ RemoveBidiConnection(s)

Next == ClientSteps \/ RunIoTask \/ CmdSteps \/ \E s \in Sessions : ThreadSteps(s)

\* Every thread keeps running its tasks; clients and browsers owe nothing.
Fairness ==
  /\ WF_vars(RunIoTask) /\ WF_vars(CmdSteps)
  /\ \A s \in Sessions : WF_vars(ThreadSteps(s))

Spec == Init /\ [][Next]_vars
FairSpec == Spec /\ Fairness

-----------------------------------------------------------------------------
CmdOps == {"WebSocketRequest", "OnNewSessionCreated", "OnNewBidiSession",
           "CloseConnection", "OnClose", "terminate_on_cmd",
           "OnSessionTerminated"} \cup MessageKinds
ThreadOps == {"InitSession", "Quit", "BidiSessionEnd", "ForwardBidiCommand",
              "AddBidiConnection", "RemoveBidiConnection"}

TypeOK ==
  /\ conn \in [Connections -> ConnStates]
  /\ messages \in 0..MaxMessages
  /\ ioQueue \in Seq([op : {"AcceptWebSocket", "Reject", "Close"}, conn : Connections])
  /\ cmdQueue \in Seq([op : CmdOps, conn : Connections \cup {None},
                       session : Keys \cup {None}, ok : BOOLEAN])
  /\ connectionSession \in [Connections -> Keys \cup {None}]
  /\ bucket \in [Keys -> SUBSET Connections]
  /\ known \in SUBSET Keys /\ threadMap \in SUBSET Sessions
  /\ threadQueue \in [Sessions -> Seq([op : ThreadOps, conn : Connections \cup {None}])]
  /\ quitting \in SUBSET Sessions
  /\ tls \in [Sessions -> {"unset", "live", "null"}]
  /\ bidiConnections \in [Sessions -> Seq(Connections)]
  /\ dropped \in SUBSET Connections /\ orphans \in SUBSET Connections

\* The number of tasks of the CMD thread that will remove session s.
Terminations(s) ==
  Cardinality({i \in 1..Len(cmdQueue) :
                 /\ cmdQueue[i].op \in {"terminate_on_cmd", "OnSessionTerminated"}
                 /\ cmdQueue[i].session = s})

\* A session thread that has destroyed its Session is on its way out of
\* session_thread_map_ with exactly one task, and a thread with a Session has
\* none: whichever of quit, session.end and the loss of the browser ends the
\* session, and however many of them race, it is removed once.
TerminatedOnce ==
  \A s \in Sessions :
    Terminations(s) = IF s \in threadMap /\ tls[s] = "null" THEN 1 ELSE 0

\* The reply of InitSession reaches the CMD thread while the session thread is
\* still in session_thread_map_, also when InitSession failed and the session
\* is terminated at once: OnNewBidiSessionOnCmdThread can always post to it.
CreationReplyFindsThread ==
  \A i \in 1..Len(cmdQueue) :
    cmdQueue[i].op \in {"OnNewSessionCreated", "OnNewBidiSession"}
      => cmdQueue[i].session \in threadMap

\* Both: a session ends once, and not before it has been announced.
SessionsEndOnce == TerminatedOnce /\ CreationReplyFindsThread

\* As long as the thread of a session is in session_thread_map_, each of its
\* connections is in its bucket, where OnClose looks for it.
BoundIsInBucket ==
  \A c \in Connections, s \in Sessions :
    connectionSession[c] = s /\ s \in threadMap => s \in known /\ c \in bucket[s]

\* Is a task op for connection c queued on the thread of s?
Posted(s, op, c) ==
  \E i \in 1..Len(threadQueue[s]) : threadQueue[s][i] = ThreadTask(op, c)

\* A connection bound to a live session is one of the connections to which the
\* session forwards BiDi events, or is about to become one.
BoundIsServed ==
  \A c \in Connections, s \in Sessions :
    connectionSession[c] = s /\ tls[s] = "live"
      => \/ \E i \in 1..Len(bidiConnections[s]) : bidiConnections[s][i] = c
         \/ Posted(s, "AddBidiConnection", c)

\* Both: what connection_session_map_ binds is known to the handler and to the session.
ConnectionsAreServed == BoundIsInBucket /\ BoundIsServed

\* In the end no thread has left anything undone: the connections that a session dropped
\* when it terminated are closed, every request for a WebSocket was accepted, rejected or
\* closed, and the thread of a session that has ended is joined and removed.
ConnectionsProgress ==
  <>[]/\ \A c \in Connections : c \in dropped => conn[c] = "closed"
      /\ \A c \in Connections : conn[c] # "requested"
      /\ \A s \in Sessions : tls[s] = "null" => s \notin threadMap

\* What the comment in AddBidiConnectionOnSessionThread says of a connection
\* that was accepted while its session was ending: soon it will be closed.
AcceptedWhileEndingIsClosed ==
  \A c \in Connections : c \in orphans ~> conn[c] = "closed"
=============================================================================
