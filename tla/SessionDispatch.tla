-------------------------- MODULE SessionDispatch --------------------------
(***************************************************************************)
(* commands.cc, server/http_handler.cc and server/chromedriver_server.cc:  *)
(* how HTTP requests become commands of session threads, how the replies   *)
(* find their way back, and how ChromeDriver shuts down.                   *)
(*                                                                         *)
(* The I/O thread passes each request to the command (CMD) thread, which   *)
(* owns session_thread_map_.  A session command is posted to the thread of *)
(* its session and replies with a task for the CMD thread.  GetSessions    *)
(* and QuitAll post a command to every session and run a nested loop until *)
(* all have replied or 10 seconds are over; other requests are handled     *)
(* inside that loop, nested loops included.                                *)
(***************************************************************************)
EXTENDS Naturals, Sequences, FiniteSets

CONSTANTS
  Requests,   \* bound: the HTTP requests the clients send, numbered as they arrive
  Sessions,   \* session ids
  Earlier,    \* bound: sessions that may exist when the first of the requests arrives
  None        \* no session, no request

ASSUME RequestsAssumption == Requests \subseteq Nat
ASSUME EarlierAssumption == Earlier \subseteq Sessions /\ IsFiniteSet(Earlier)
ASSUME NoneAssumption == None \notin Sessions \cup Requests

VARIABLES
  sent,             \* requests that have arrived
  shutdowns,        \* history: those that ask for QuitAll
  cmdQueue,         \* tasks posted to the CMD thread
  ioQueue,          \* tasks posted to the I/O thread
  loops,            \* the nested run loops of the CMD thread, innermost last
  threadMap,        \* keys of session_thread_map_
  threadQueue,      \* tasks posted to each session thread
  quitting,         \* sessions that replied and are about to Terminate()
  tls,              \* the thread-local Session of each session thread
  receivedShutdown, \* received_shutdown_
  quitFunc,         \* quit_func_ was run: cmd_run_loop is to return
  serverUp,         \* the HTTP servers are running
  answered,         \* responses that PrepareResponse produced for each request
  delivered         \* requests whose response the I/O thread sent

requestVars == <<sent, shutdowns>>
sessionVars == <<threadMap, threadQueue, quitting, tls>>
shutdownVars == <<receivedShutdown, quitFunc, serverUp>>
vars == <<requestVars, cmdQueue, ioQueue, loops, sessionVars, shutdownVars,
          answered, delivered>>

\* A session command may end its session: Quit does, and others find it ended.
Kinds == {"Command", "NewSession", "GetSessions", "QuitAll", "Other"}

Task(op, r, s) == [op |-> op, req |-> r, session |-> s]
ThreadTask(op, r, callback) == [op |-> op, req |-> r, callback |-> callback]

Init ==
  /\ sent = {} /\ shutdowns = {}
  /\ cmdQueue = <<>> /\ ioQueue = <<>> /\ loops = <<>>
  /\ threadMap \in SUBSET Earlier /\ threadQueue = [s \in Sessions |-> <<>>]
  /\ tls = [s \in Sessions |-> IF s \in threadMap THEN "live" ELSE "unset"]
  /\ quitting = {}
  /\ receivedShutdown = FALSE /\ quitFunc = FALSE /\ serverUp = TRUE
  /\ answered = [r \in Requests |-> 0] /\ delivered = {}

-----------------------------------------------------------------------------
(* The I/O thread.                                                         *)

\* HandleRequestOnIOThread: a request arrives, for the session id in its path, and
\* is posted to the CMD thread.
HandleRequestOnIOThread(r, k, s) ==
  /\ serverUp /\ r \notin sent /\ \A q \in Requests \ sent : r <= q
  /\ sent' = sent \cup {r}
  /\ shutdowns' = IF k = "QuitAll" THEN shutdowns \cup {r} ELSE shutdowns
  /\ cmdQueue' = Append(cmdQueue, Task(k, r, s))
  /\ UNCHANGED <<ioQueue, loops, sessionVars, shutdownVars, answered, delivered>>

\* HttpServer::OnResponse, or StopServerOnIOThread.
RunIoTask ==
  /\ ioQueue # <<>>
  /\ ioQueue' = Tail(ioQueue)
  /\ \/ /\ Head(ioQueue) # None
        /\ delivered' = delivered \cup {Head(ioQueue)}
        /\ UNCHANGED serverUp
     \/ /\ Head(ioQueue) = None
        /\ serverUp' = FALSE /\ UNCHANGED delivered
  /\ UNCHANGED <<requestVars, cmdQueue, loops, sessionVars, receivedShutdown,
                 quitFunc, answered>>

-----------------------------------------------------------------------------
(* The CMD thread.                                                         *)

\* The innermost loop takes tasks until it is told to quit.
LoopRuns == IF loops = <<>> THEN ~quitFunc ELSE ~loops[Len(loops)].quit

CmdTasksOf(ops) == LoopRuns /\ cmdQueue # <<>> /\ Head(cmdQueue).op \in ops
CmdTask(op) == CmdTasksOf({op})

PostToThread(s, t) == threadQueue' = [threadQueue EXCEPT ![s] = Append(@, t)]

\* Mutant: the response is not posted.
PreparedOnly(r) == answered' = [answered EXCEPT ![r] = @ + 1] /\ UNCHANGED ioQueue

\* PrepareResponse: the response is posted to the I/O thread.
PrepareResponse(r) ==
  /\ answered' = [answered EXCEPT ![r] = @ + 1]
  /\ ioQueue' = Append(ioQueue, r)

\* HttpHandler::Handle answers nothing once it has handled a shutdown.
HandleAfterShutdown ==
  /\ CmdTasksOf(Kinds) /\ receivedShutdown
  /\ cmdQueue' = Tail(cmdQueue)
  /\ UNCHANGED <<requestVars, ioQueue, loops, sessionVars, shutdownVars, answered,
                 delivered>>

\* The request at the head of the queue when HandleCommand has to run it.
Handles(r, k) ==
  /\ CmdTask(k) /\ ~receivedShutdown
  /\ r = Head(cmdQueue).req

\* Status, an unknown command, missing parameters, an address or a path that is
\* not allowed: answered at once.
HandleOther(r) ==
  /\ Handles(r, "Other")
  /\ PrepareResponse(r)
  /\ cmdQueue' = Tail(cmdQueue)
  /\ UNCHANGED <<requestVars, loops, sessionVars, shutdownVars, delivered>>

\* The thread of the new session starts and is given InitSession, or the
\* request is answered with an error.
ExecuteCreateSession(r) ==
  /\ Handles(r, "NewSession")
  /\ \/ /\ \E s \in Sessions :
             /\ s \notin threadMap /\ tls[s] = "unset"
             /\ threadMap' = threadMap \cup {s}
             /\ tls' = [tls EXCEPT ![s] = "live"]
             /\ PostToThread(s, ThreadTask("InitSession", r, "PrepareResponse"))
        /\ UNCHANGED <<ioQueue, answered>>
     \/ PrepareResponse(r) /\ UNCHANGED <<threadMap, tls, threadQueue>>
  /\ cmdQueue' = Tail(cmdQueue)
  /\ UNCHANGED <<requestVars, loops, quitting, shutdownVars, delivered>>

\* Without a thread for the session id the command is answered at once.
ExecuteSessionCommand(r) ==
  /\ Handles(r, "Command")
  /\ LET s == Head(cmdQueue).session IN
       \/ /\ s \in threadMap
          /\ PostToThread(s, ThreadTask("Command", r, "PrepareResponse"))
          /\ UNCHANGED <<ioQueue, answered>>
       \/ /\ s \notin threadMap
          /\ PrepareResponse(r) /\ UNCHANGED threadQueue
  /\ cmdQueue' = Tail(cmdQueue)
  /\ UNCHANGED <<requestVars, loops, threadMap, quitting, tls, shutdownVars,
                 delivered>>

\* After the response to a shutdown: quit_func_ and received_shutdown_.
Responded(r) ==
  /\ PrepareResponse(r)
  /\ quitFunc' = (quitFunc \/ r \in shutdowns)
  /\ receivedShutdown' = (receivedShutdown \/ r \in shutdowns)

\* Mutant: the callback of the request is passed on to the sessions.
PassedCallback == "PrepareResponse"

\* The callback of the commands that a nested loop waits for.
CountingCallback == "Collect"

\* Mutant: the counter starts one too low.
OneReplyLess == Cardinality(threadMap) - 1

\* quit_remaining_count and get_remaining_count.
ReplyCount == Cardinality(threadMap)

\* ExecuteGetSessions and ExecuteQuitAll: post the command to every session and
\* start a nested loop that counts the replies; without sessions answer at once.
CollectFromSessions(r, k, op) ==
  /\ Handles(r, k)
  /\ \/ /\ threadMap = {}
        /\ Responded(r) /\ UNCHANGED <<loops, threadQueue>>
     \/ /\ threadMap # {}
        /\ threadQueue' = [s \in Sessions |->
             IF s \in threadMap
             THEN Append(threadQueue[s], ThreadTask(op, r, CountingCallback))
             ELSE threadQueue[s]]
        /\ loops' = Append(loops, [req |-> r, remaining |-> ReplyCount,
                                   quit |-> FALSE, timedOut |-> FALSE,
                                   asked |-> threadMap])
        /\ UNCHANGED <<answered, ioQueue, quitFunc, receivedShutdown>>
  /\ cmdQueue' = Tail(cmdQueue)
  /\ UNCHANGED <<requestVars, threadMap, quitting, tls, serverUp, delivered>>

ExecuteGetSessions(r) == CollectFromSessions(r, "GetSessions", "Command")
ExecuteQuitAll(r) == CollectFromSessions(r, "QuitAll", "Quit")

\* Mutant: a reply counts for the innermost loop.
CountsForInnermost(i, r) == i = Len(loops)

\* The weak pointer of a callback leads to the counter of its own loop.
CountsFor(i, r) == loops[i].req = r

IsLastReply(i) == loops[i].remaining = 1

\* OnGetSession and OnSessionQuit, the callbacks of the two commands.  The
\* counter is gone once the loop of request r has timed out.
OnSessionReply ==
  /\ CmdTask("Collect")
  /\ LET r == Head(cmdQueue).req
     IN  loops' = [i \in 1..Len(loops) |->
           IF CountsFor(i, r)
           THEN [loops[i] EXCEPT !.remaining = @ - 1, !.quit = @ \/ IsLastReply(i)]
           ELSE loops[i]]
  /\ cmdQueue' = Tail(cmdQueue)
  /\ UNCHANGED <<requestVars, ioQueue, sessionVars, shutdownVars, answered,
                 delivered>>

\* The delayed QuitClosure of a loop; that of an outer loop is due earlier.
LoopTimesOut(i) ==
  /\ LoopRuns /\ i \in 1..Len(loops)
  /\ ~loops[i].quit /\ \A j \in 1..(i - 1) : loops[j].quit
  /\ loops' = [loops EXCEPT ![i].quit = TRUE, ![i].timedOut = TRUE]
  /\ UNCHANGED <<requestVars, cmdQueue, ioQueue, sessionVars, shutdownVars,
                 answered, delivered>>

\* run_loop.Run() returns in the innermost loop and the command is answered.
LoopReturns ==
  /\ loops # <<>> /\ loops[Len(loops)].quit
  /\ Responded(loops[Len(loops)].req)
  /\ loops' = SubSeq(loops, 1, Len(loops) - 1)
  /\ UNCHANGED <<requestVars, cmdQueue, sessionVars, serverUp, delivered>>

\* The reply of a session command.
ReplyOnCmdThread ==
  /\ CmdTask("PrepareResponse")
  /\ PrepareResponse(Head(cmdQueue).req)
  /\ cmdQueue' = Tail(cmdQueue)
  /\ UNCHANGED <<requestVars, loops, sessionVars, shutdownVars, delivered>>

\* terminate_on_cmd is bound with BindPostTask: the task that Terminate()
\* posts only posts OnSessionTerminated behind what is queued by then.
TerminateOnCmd ==
  /\ CmdTask("terminate_on_cmd")
  /\ cmdQueue' = Append(Tail(cmdQueue),
                        Task("OnSessionTerminated", None, Head(cmdQueue).session))
  /\ UNCHANGED <<requestVars, ioQueue, loops, sessionVars, shutdownVars, answered,
                 delivered>>

\* Erasing the thread joins it, so the tasks it still has run first.
OnSessionTerminated ==
  /\ CmdTask("OnSessionTerminated")
  /\ threadQueue[Head(cmdQueue).session] = <<>>
  /\ threadMap' = threadMap \ {Head(cmdQueue).session}
  /\ cmdQueue' = Tail(cmdQueue)
  /\ UNCHANGED <<requestVars, ioQueue, loops, threadQueue, quitting, tls,
                 shutdownVars, answered, delivered>>

\* cmd_run_loop.Run() returns: RunServer posts StopServerOnIOThread.
RunServerReturns ==
  /\ loops = <<>> /\ quitFunc /\ serverUp
  /\ \A i \in 1..Len(ioQueue) : ioQueue[i] # None
  /\ ioQueue' = Append(ioQueue, None)
  /\ UNCHANGED <<requestVars, cmdQueue, loops, sessionVars, shutdownVars, answered,
                 delivered>>

-----------------------------------------------------------------------------
(* The session threads.                                                    *)

\* The task of the CMD thread with the reply of session s; whose reply it is does
\* not matter to PrepareResponse.
Reply(t, s) == Task(t.callback, t.req, IF t.callback = "Collect" THEN s ELSE None)

\* ExecuteSessionCommandOnSessionThread.  The reply is posted in any case;
\* Quit, a failed InitSession and a command that finds the browser gone set
\* session->quit.
ExecuteSessionCommandOnSessionThread(s) ==
  /\ s \notin quitting /\ threadQueue[s] # <<>>
  /\ LET t == Head(threadQueue[s]) IN
       /\ cmdQueue' = Append(cmdQueue, Reply(t, s))
       /\ \/ tls[s] = "live" /\ quitting' = quitting \cup {s}
          \/ ~(tls[s] = "live" /\ t.op = "Quit") /\ UNCHANGED quitting
  /\ threadQueue' = [threadQueue EXCEPT ![s] = Tail(@)]
  /\ UNCHANGED <<requestVars, ioQueue, loops, threadMap, tls, shutdownVars,
                 answered, delivered>>

\* HandleMessagesAndTerminateIfNecessary finds the browser gone.
BrowserGone(s) ==
  /\ tls[s] = "live" /\ s \notin quitting
  /\ threadQueue[s] = <<>>
  /\ quitting' = quitting \cup {s}
  /\ UNCHANGED <<requestVars, cmdQueue, ioQueue, loops, threadMap, threadQueue,
                 tls, shutdownVars, answered, delivered>>

\* Mutant: the thread-local Session is not reset.
TerminateKeepsSession(s) ==
  /\ s \in quitting
  /\ quitting' = quitting \ {s}
  /\ cmdQueue' = Append(cmdQueue, Task("terminate_on_cmd", None, s))
  /\ UNCHANGED <<requestVars, ioQueue, loops, threadMap, threadQueue, tls,
                 shutdownVars, answered, delivered>>

\* Session::Terminate, after the reply.
Terminate(s) ==
  /\ s \in quitting
  /\ quitting' = quitting \ {s}
  /\ tls' = [tls EXCEPT ![s] = "null"]
  /\ cmdQueue' = Append(cmdQueue, Task("terminate_on_cmd", None, s))
  /\ UNCHANGED <<requestVars, ioQueue, loops, threadMap, threadQueue,
                 shutdownVars, answered, delivered>>

-----------------------------------------------------------------------------
Handling ==
  \E r \in Requests :
    \/ HandleOther(r) \/ ExecuteCreateSession(r) \/ ExecuteSessionCommand(r)
    \/ ExecuteGetSessions(r) \/ ExecuteQuitAll(r)

CmdSteps ==
  \/ HandleAfterShutdown \/ Handling \/ OnSessionReply \/ LoopReturns
  \/ ReplyOnCmdThread \/ TerminateOnCmd \/ OnSessionTerminated \/ RunServerReturns

ThreadSteps(s) == ExecuteSessionCommandOnSessionThread(s) \/ Terminate(s)

Next ==
  \/ \E r \in Requests, k \in Kinds \ {"Command"} : HandleRequestOnIOThread(r, k, None)
  \/ \E r \in Requests, s \in Sessions : HandleRequestOnIOThread(r, "Command", s)
  \/ RunIoTask \/ CmdSteps
  \/ \E i \in 1..Len(loops) : LoopTimesOut(i)
  \/ \E s \in Sessions : ThreadSteps(s) \/ BrowserGone(s)

\* Every thread keeps running its tasks: a command ends in bounded time.  No
\* fairness of timeouts is needed, and clients and browsers owe nothing.
Fairness ==
  /\ WF_vars(RunIoTask) /\ WF_vars(CmdSteps)
  /\ \A s \in Sessions : WF_vars(ThreadSteps(s))

Spec == Init /\ [][Next]_vars
FairSpec == Spec /\ Fairness

-----------------------------------------------------------------------------
CmdTasks ==
  [op : Kinds \cup {"PrepareResponse"}, req : Requests, session : Sessions \cup {None}]
  \cup [op : {"Collect"}, req : Requests, session : Sessions]
  \cup [op : {"terminate_on_cmd", "OnSessionTerminated"}, req : {None}, session : Sessions]
ThreadTasks == [op : {"InitSession", "Command", "Quit"}, req : Requests,
                callback : {"PrepareResponse", "Collect"}]
Loops == [req : Requests, remaining : Nat, quit : BOOLEAN, timedOut : BOOLEAN,
          asked : SUBSET Sessions]

TypeOK ==
  /\ sent \in SUBSET Requests /\ shutdowns \in SUBSET sent
  /\ cmdQueue \in Seq(CmdTasks) /\ ioQueue \in Seq(Requests \cup {None})
  /\ loops \in Seq(Loops)
  /\ threadMap \in SUBSET Sessions
  /\ threadQueue \in [Sessions -> Seq(ThreadTasks)]
  /\ quitting \in SUBSET Sessions
  /\ tls \in [Sessions -> {"unset", "live", "null"}]
  /\ receivedShutdown \in BOOLEAN /\ quitFunc \in BOOLEAN /\ serverUp \in BOOLEAN
  /\ answered \in [Requests -> Nat] /\ delivered \in SUBSET Requests

\* The queue q of a session thread has a command of the nested loop of request r.
Asks(q, r) == \E i \in 1..Len(q) : q[i].req = r /\ q[i].callback = "Collect"

\* The queue q of the CMD thread has the reply of session s to that loop.
Replies(q, r, s) ==
  \E i \in 1..Len(q) : q[i].op = "Collect" /\ q[i].req = r /\ q[i].session = s

\* The sessions whose reply the loop of request r still waits for.
Outstanding(r) == {s \in Sessions : Asks(threadQueue[s], r) \/ Replies(cmdQueue, r, s)}

\* The counter of every nested loop is the number of replies under way, so it
\* reaches zero with the last reply and never wraps, whatever sessions end,
\* start or are joined while the loop runs.
RemainingIsOutstanding ==
  \A i \in 1..Len(loops) :
    loops[i].remaining = Cardinality(Outstanding(loops[i].req))

\* No request is answered twice: not by a session command and a nested loop,
\* nor by a reply that comes after the loop has timed out.
AnsweredOnce == \A r \in Requests : answered[r] <= 1

\* A shutdown whose loop did not time out is answered only when every session
\* it found has been told to quit and did: none is left with a live Session
\* that is not about to Terminate().
QuitAllIsComplete ==
  \A i \in 1..Len(loops) :
    loops[i].quit /\ ~loops[i].timedOut /\ loops[i].req \in shutdowns
      => \A s \in loops[i].asked : s \in quitting \/ tls[s] = "null"

\* Both: a nested loop ends with its last reply, when all sessions have done what it asked.
RepliesAreExact == RemainingIsOutstanding /\ QuitAllIsComplete

\* The comment in RunServer: the servers stop after the response to the
\* shutdown request, and every response posted before, have been sent.
StopsAfterResponses ==
  ~serverUp =>
    /\ delivered \cap shutdowns # {}
    /\ \A r \in Requests : answered[r] > 0 => r \in delivered

\* Both: one answer for every request, and no stop before the answers are out.
AnswersAreExact == AnsweredOnce /\ StopsAfterResponses

\* The state of a session as a client sees it.
SessionState(s) ==
  CASE tls[s] = "unset" -> "none"
    [] tls[s] # "unset" /\ s \notin threadMap -> "removed"
    [] tls[s] = "live" /\ s \in threadMap -> "live"
    [] tls[s] = "null" /\ s \in threadMap -> "ended"

Service == INSTANCE SessionService WITH
  request <- [r \in Requests |-> IF r \notin sent THEN "unsent"
                                 ELSE IF r \in delivered THEN "answered" ELSE "sent"],
  session <- [s \in Sessions |-> SessionState(s)],
  running <- serverUp

\* The threads, their queues and the nested loops implement the service.
ImplementsService == Service!Spec

\* Once all requests are sent, each is answered unless a shutdown overtakes it, although
\* sessions end under it and requests nest, and no timeout has to expire for it; the
\* thread of a session that has ended is joined and removed; and a shutdown stops the
\* servers.  (Requests that are sent stay sent, and what is answered stays so.)
DispatchProgresses ==
  <>[]/\ \A r \in sent : r \in delivered \/ receivedShutdown
      /\ \A s \in Sessions : tls[s] = "null" => s \notin threadMap \/ quitFunc
      /\ receivedShutdown => ~serverUp
=============================================================================
