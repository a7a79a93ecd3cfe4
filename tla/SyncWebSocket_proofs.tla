------------------------ MODULE SyncWebSocket_proofs ------------------------
(* Proofs about SyncWebSocket for every number of attempts, messages and   *)
(* calls of Send.                                                          *)
EXTENDS SyncWebSocket, TLAPS

ConnectStates == {"connectPost", "connectWait", "connectCheck", "closeWait"}

\* A queued message has a notification, or the session thread is inside the
\* notification that will read it, or that notification failed.
QueueCovered ==
  webSocketUrl /\ receivedQueue # <<>> =>
    notifications > 0 \/ drainFailed \/ (task = "notification" /\ pc # "idle")

\* While Connect runs no SendOnIO has been posted.
NoSendYet ==
  pc \in ConnectStates =>
    /\ firstSend = 0
    /\ \A i \in 1..Len(ioQueue) : ioQueue[i] # "SendOnIO"

\* Once Connect has returned, a lost connection has a notification.
LossCovered ==
  webSocketUrl /\ ~isConnected =>
    pc = "gone" \/ notifications > 0 \/ (pc \in ConnectStates /\ ~success)

\* The retries of Connect are ahead of every SendOnIO.
ConnectsFirst ==
  /\ \A i, j \in 1..Len(ioQueue) :
       i < j /\ ioQueue[i] = "SendOnIO" => ioQueue[j] # "ConnectOnIO"
  /\ firstSend # 0 => \A i \in 1..Len(ioQueue) : ioQueue[i] # "ConnectOnIO"

\* Messages are numbered as they come.
Numbered ==
  /\ \A i \in 1..Len(receivedQueue) : receivedQueue[i] < nextMessage
  /\ \A m \in lost : m < nextMessage

\* Returned messages are older than queued ones, and both are ordered.
Ordered ==
  /\ \A i \in 1..Len(receivedQueue) : receivedQueue[i] < nextMessage
  /\ \A i \in 1..Len(delivered) : delivered[i] < nextMessage
  /\ \A i, j \in 1..Len(receivedQueue) : i < j => receivedQueue[i] < receivedQueue[j]
  /\ \A i, j \in 1..Len(delivered) : i < j => delivered[i] < delivered[j]
  /\ \A i \in 1..Len(delivered), j \in 1..Len(receivedQueue) :
       delivered[i] < receivedQueue[j]

\* Connect fails with CloseOnIO as its last task.
ClosePending ==
  /\ connectResult = "failed" => pc = "gone"
  /\ pc = "closeWait" \/ connectResult = "failed" =>
       \/ ioQueue = <<>> /\ socket = "null"
       \/ ioQueue # <<>> /\ ioQueue[Len(ioQueue)] = "CloseOnIO"

\* What a step of the I/O thread that signals a frame can do to its variables.
LEMMA SignalFrameType ==
  ASSUME TypeOK, NEW f \in {"Connect", "Send"}, NEW ok \in BOOLEAN, SignalFrame(f, ok)
  PROVE  /\ frame' = frame
         /\ success' \in BOOLEAN /\ signaled' \in BOOLEAN /\ staleAccess' \in BOOLEAN
         /\ success' = success \/ success' = ok
  BY DEF TypeOK, SignalFrame, frameVars

\* Type correctness: every step of the session thread and of the I/O thread
\* keeps each variable, queues and stack frame included, in its type.
THEOREM TypeCorrect == Spec => []TypeOK
<1>1. Init => TypeOK
  <2> SUFFICES ASSUME Init PROVE TypeOK
    OBVIOUS
  <2>1. 1 \in 1..MaxAttempts /\ 0 \in 0..MaxSends
    BY AttemptsAssumption, SendsAssumption
  <2>2. /\ pc \in ClientStates /\ socket \in SocketStates
        /\ ioQueue \in Seq(IoTasks) /\ receivedQueue \in Seq(Nat) /\ delivered \in Seq(Nat)
        /\ notifications \in Nat /\ nextMessage \in Nat \ {0} /\ firstSend \in Nat
    BY DEF Init, ClientStates, SocketStates
  <2> QED BY <2>1, <2>2 DEF Init, TypeOK
<1>2. TypeOK /\ [Next]_vars => TypeOK'
  <2> SUFFICES ASSUME TypeOK, [Next]_vars PROVE TypeOK'
    OBVIOUS
  <2> USE DEF TypeOK
  <2>1. CASE ConnectPost
    <3>1. ioQueue' \in Seq(IoTasks) BY <2>1 DEF ConnectPost, PostToIO, IoTasks
    <3> QED BY <2>1, <3>1 DEF ConnectPost, ClientStates, frameVars, coreVars, history
  <2>2. CASE ConnectSignaled
    BY <2>2, ZenonT(60) DEF ConnectSignaled, ClientStates, coreVars, history
  <2>3. CASE ConnectTimedOut
    <3>1. attempt' \in 1..MaxAttempts
      BY <2>3, AttemptsAssumption DEF ConnectTimedOut, HasNextAttempt
    <3> QED BY <2>3, <3>1 DEF ConnectTimedOut, ClientStates, frameVars, coreVars, history
  <2>4. CASE ConnectCheck
    <3>b. ioQueue' = ioQueue \/ ioQueue' = Append(ioQueue, "CloseOnIO")
      BY <2>4 DEF ConnectCheck, PostToIO
    <3>a. Append(ioQueue, "CloseOnIO") \in Seq(IoTasks) BY DEF IoTasks
    <3>1. ioQueue' \in Seq(IoTasks) BY <3>b, <3>a
    <3> QED BY <2>4, <3>1 DEF ConnectCheck, ClientStates, coreVars, history
  <2>5. CASE ConnectFailed
    BY <2>5 DEF ConnectFailed, ClientStates, coreVars, history
  <2>6. CASE Send
    <3>1. ioQueue' \in Seq(IoTasks) BY <2>6 DEF Send, PostToIO, IoTasks
    <3>2. sends' \in 0..MaxSends BY <2>6, SendsAssumption DEF Send
    <3> QED BY <2>6, <3>1, <3>2 DEF Send, ClientStates, coreVars, history
  <2>7. CASE SendReturn
    BY <2>7 DEF SendReturn, ClientStates, coreVars, history
  <2>8. CASE ReceiveWait
    BY <2>8 DEF ReceiveWait, ClientStates, frameVars, coreVars, history
  <2>9. CASE ReceiveTimeout
    BY <2>9 DEF ReceiveTimeout, ClientStates, frameVars, coreVars, history
  <2>10. CASE ReceiveDisconnected
    BY <2>10 DEF ReceiveDisconnected, ClientStates, frameVars, coreVars, history
  <2>11. CASE ReceiveMessage
    <3>1. receivedQueue' \in Seq(Nat) /\ delivered' \in Seq(Nat)
      BY <2>11 DEF ReceiveMessage, PopFront
    <3>2. drainFailed' \in BOOLEAN
      BY <2>11 DEF ReceiveMessage
    <3> QED BY <2>11, <3>1, <3>2 DEF ReceiveMessage, ClientStates, frameVars
  <2>12. CASE BeginCommand
    BY <2>12 DEF BeginCommand, ClientStates, frameVars, coreVars, history
  <2>13. CASE EndCommand
    BY <2>13 DEF EndCommand, ClientStates, frameVars, coreVars, history
  <2>14. CASE BeginNotification
    <3>1. notifications' \in Nat BY <2>14 DEF BeginNotification
    <3> QED BY <2>14, <3>1 DEF BeginNotification, ClientStates, frameVars, coreVars, history
  <2>15. CASE EndNotification
    <3>1. drainFailed' \in BOOLEAN BY <2>15 DEF EndNotification
    <3>2. pc' \in ClientStates BY <2>15 DEF EndNotification, ClientStates
    <3> QED BY <2>15, <3>1, <3>2 DEF EndNotification, frameVars, coreVars
  <2>16. CASE ConnectOnIO
    <3>1. frame' = frame /\ success' \in BOOLEAN /\ signaled' \in BOOLEAN
          /\ staleAccess' \in BOOLEAN
      BY <2>16, SignalFrameType DEF ConnectOnIO, frameVars
    <3>2. lost' \subseteq Nat
      <4>1. \A i \in 1..Len(receivedQueue) : receivedQueue[i] \in Nat OBVIOUS
      <4>2. lost' = lost \cup {receivedQueue[i] : i \in 1..Len(receivedQueue)}
        BY <2>16 DEF ConnectOnIO
      <4> HIDE DEF TypeOK
      <4> QED BY <4>1, <4>2 DEF TypeOK
    <3>3. ioQueue' \in Seq(IoTasks) /\ receivedQueue' \in Seq(Nat)
      <4>1. ioQueue # <<>> /\ ioQueue' = Tail(ioQueue) /\ receivedQueue' = <<>>
        BY <2>16 DEF ConnectOnIO
      <4> QED BY <4>1
    <3>4. socket' \in SocketStates
      BY <2>16 DEF ConnectOnIO, SocketStates
    <3> QED BY <2>16, <3>1, <3>2, <3>3, <3>4 DEF ConnectOnIO, clientVars
  <2>17. CASE SendOnIO
    <3>1. frame' = frame /\ success' \in BOOLEAN /\ signaled' \in BOOLEAN
          /\ staleAccess' \in BOOLEAN
      BY <2>17, SignalFrameType DEF SendOnIO
    <3>2. /\ ioQueue' \in Seq(IoTasks) /\ socket' \in SocketStates
          /\ pc' \in ClientStates /\ notifications' \in Nat /\ firstSend' \in Nat
      BY <2>17 DEF SendOnIO, OnClose, WakeReceiver, SocketStates, ClientStates
    <3>3. isConnected' \in BOOLEAN
      BY <2>17 DEF SendOnIO, OnClose
    <3> QED BY <2>17, <3>1, <3>2, <3>3 DEF SendOnIO
  <2>18. CASE CloseOnIO
    <3>1. ioQueue' \in Seq(IoTasks) /\ socket' \in SocketStates
      BY <2>18 DEF CloseOnIO, ResetSocket, SocketStates
    <3>2. frame' = frame /\ success' = success /\ signaled' \in BOOLEAN
          /\ staleAccess' \in BOOLEAN
      BY <2>18 DEF CloseOnIO, SignalClosed, frameVars
    <3> QED BY <2>18, <3>1, <3>2 DEF CloseOnIO, clientVars, coreVars
  <2>19. CASE OnConnectCompletedOnIO
    <3>1. frame' = frame /\ success' \in BOOLEAN /\ signaled' \in BOOLEAN
          /\ staleAccess' \in BOOLEAN
      BY <2>19, SignalFrameType DEF OnConnectCompletedOnIO
    <3> QED BY <2>19, <3>1 DEF OnConnectCompletedOnIO, clientVars, SocketStates
  <2>20. CASE OnConnectError
    <3>1. frame' = frame /\ success' \in BOOLEAN /\ signaled' \in BOOLEAN
          /\ staleAccess' \in BOOLEAN
      BY <2>20, SignalFrameType DEF OnConnectError
    <3> QED BY <2>20, <3>1 DEF OnConnectError, clientVars, coreVars, SocketStates
  <2>21. CASE OnMessageReceived
    <3>1. /\ receivedQueue' \in Seq(Nat) /\ notifications' \in Nat
          /\ nextMessage' \in Nat \ {0} /\ pc' \in ClientStates
      BY <2>21 DEF OnMessageReceived, WakeReceiver, ShouldNotify, ClientStates
    <3> QED BY <2>21, <3>1 DEF OnMessageReceived, frameVars, history
  <2>22. CASE SocketClosed
    <3>1. notifications' \in Nat /\ pc' \in ClientStates /\ socket' \in SocketStates
      BY <2>22 DEF SocketClosed, OnClose, WakeReceiver, ClientStates, SocketStates
    <3>2. isConnected' \in BOOLEAN BY <2>22 DEF SocketClosed, OnClose
    <3> QED BY <2>22, <3>1, <3>2 DEF SocketClosed, frameVars, history
  <2>23. CASE DestroyCore
    BY <2>23 DEF DestroyCore, clientVars, frameVars, coreVars, history, SocketStates
  <2>24. CASE UNCHANGED vars
    BY <2>24 DEF vars, clientVars, frameVars, coreVars, history
  <2> QED
    BY <2>1, <2>2, <2>3, <2>4, <2>5, <2>6, <2>7, <2>8, <2>9, <2>10, <2>11, <2>12,
       <2>13, <2>14, <2>15, <2>16, <2>17, <2>18, <2>19, <2>20, <2>21, <2>22, <2>23,
       <2>24
    DEF Next, ConnectSteps, ReceiveSteps, TaskSteps, IoTaskSteps, NetworkSteps
<1> QED BY <1>1, <1>2, PTL DEF Spec

-----------------------------------------------------------------------------
\* No lost wakeup: ReceiveNextMessage never sleeps on a queued message or on a
\* lost connection, whichever thread moves between its test and its wait.
THEOREM SleeperIsWoken == Spec => []NoLostWakeup
<1>1. Init => NoLostWakeup
  BY DEF Init, NoLostWakeup
<1>2. TypeOK /\ NoLostWakeup /\ [Next]_vars => NoLostWakeup'
  <2> SUFFICES ASSUME TypeOK, NoLostWakeup, [Next]_vars PROVE NoLostWakeup'
    OBVIOUS
  <2> USE DEF NoLostWakeup
  <2>1. CASE ConnectPost
    BY <2>1 DEF ConnectPost, coreVars
  <2>2. CASE ConnectSignaled
    BY <2>2 DEF ConnectSignaled, coreVars
  <2>3. CASE ConnectTimedOut
    BY <2>3 DEF ConnectTimedOut, coreVars
  <2>4. CASE ConnectCheck
    BY <2>4 DEF ConnectCheck, coreVars
  <2>5. CASE ConnectFailed
    BY <2>5 DEF ConnectFailed, coreVars
  <2>6. CASE Send
    BY <2>6 DEF Send, coreVars
  <2>7. CASE SendReturn
    BY <2>7 DEF SendReturn, coreVars
  <2>8. CASE ReceiveWait
    BY <2>8 DEF ReceiveWait, coreVars
  <2>9. CASE ReceiveTimeout
    BY <2>9 DEF ReceiveTimeout, coreVars
  <2>10. CASE ReceiveDisconnected
    BY <2>10 DEF ReceiveDisconnected, coreVars
  <2>11. CASE ReceiveMessage
    BY <2>11 DEF ReceiveMessage, PopFront
  <2>12. CASE BeginCommand
    BY <2>12 DEF BeginCommand, coreVars
  <2>13. CASE EndCommand
    BY <2>13 DEF EndCommand, coreVars
  <2>14. CASE BeginNotification
    BY <2>14 DEF BeginNotification, coreVars
  <2>15. CASE EndNotification
    BY <2>15 DEF EndNotification, coreVars
  <2>16. CASE ConnectOnIO
    BY <2>16 DEF ConnectOnIO, clientVars
  <2>17. CASE SendOnIO
    BY <2>17 DEF SendOnIO, OnClose, WakeReceiver
  <2>18. CASE CloseOnIO
    BY <2>18 DEF CloseOnIO, clientVars, coreVars
  <2>19. CASE OnConnectCompletedOnIO
    BY <2>19 DEF OnConnectCompletedOnIO, clientVars
  <2>20. CASE OnConnectError
    BY <2>20 DEF OnConnectError, clientVars, coreVars
  <2>21. CASE OnMessageReceived
    BY <2>21 DEF OnMessageReceived, WakeReceiver
  <2>22. CASE SocketClosed
    BY <2>22 DEF SocketClosed, OnClose, WakeReceiver
  <2>23. CASE DestroyCore
    BY <2>23 DEF DestroyCore, clientVars, coreVars
  <2>24. CASE UNCHANGED vars
    BY <2>24 DEF vars, clientVars, coreVars
  <2> QED
    BY <2>1, <2>2, <2>3, <2>4, <2>5, <2>6, <2>7, <2>8, <2>9, <2>10, <2>11, <2>12,
       <2>13, <2>14, <2>15, <2>16, <2>17, <2>18, <2>19, <2>20, <2>21, <2>22, <2>23,
       <2>24
    DEF Next, ConnectSteps, ReceiveSteps, TaskSteps, IoTaskSteps, NetworkSteps
<1> QED BY <1>1, <1>2, TypeCorrect, PTL DEF Spec

-----------------------------------------------------------------------------
\* An idle session thread with queued messages has a notification to run, or
\* its last notification failed.  Inductive is QueueCovered, which says who
\* owes the messages while a notification or a command is running.
THEOREM QueueIsCovered == Spec => []NotificationCoversQueue
<1>1. Init => QueueCovered
  BY DEF Init, QueueCovered
<1>2. TypeOK /\ QueueCovered /\ [Next]_vars => QueueCovered'
  <2> SUFFICES ASSUME TypeOK, QueueCovered, [Next]_vars PROVE QueueCovered'
    OBVIOUS
  <2> USE DEF QueueCovered, TypeOK
  <2>1. CASE ConnectPost
    BY <2>1 DEF ConnectPost, coreVars, history
  <2>2. CASE ConnectSignaled
    BY <2>2 DEF ConnectSignaled, coreVars, history
  <2>3. CASE ConnectTimedOut
    BY <2>3 DEF ConnectTimedOut, coreVars, history
  <2>4. CASE ConnectCheck
    BY <2>4 DEF ConnectCheck, coreVars, history
  <2>5. CASE ConnectFailed
    BY <2>5 DEF ConnectFailed, coreVars, history
  <2>6. CASE Send
    BY <2>6 DEF Send, coreVars, history
  <2>7. CASE SendReturn
    BY <2>7 DEF SendReturn, coreVars, history
  <2>8. CASE ReceiveWait
    BY <2>8 DEF ReceiveWait, coreVars, history
  <2>9. CASE ReceiveTimeout
    BY <2>9 DEF ReceiveTimeout, coreVars, history
  <2>10. CASE ReceiveDisconnected
    BY <2>10 DEF ReceiveDisconnected, coreVars, history
  <2>11. CASE ReceiveMessage
    BY <2>11 DEF ReceiveMessage, PopFront
  <2>12. CASE BeginCommand
    BY <2>12 DEF BeginCommand, coreVars, history
  <2>13. CASE EndCommand
    BY <2>13 DEF EndCommand, coreVars, history
  <2>14. CASE BeginNotification
    BY <2>14 DEF BeginNotification, coreVars, history
  <2>15. CASE EndNotification
    BY <2>15 DEF EndNotification, coreVars
  <2>16. CASE ConnectOnIO
    BY <2>16 DEF ConnectOnIO, clientVars
  <2>17. CASE SendOnIO
    BY <2>17 DEF SendOnIO, OnClose, WakeReceiver
  <2>18. CASE CloseOnIO
    BY <2>18 DEF CloseOnIO, clientVars, coreVars
  <2>19. CASE OnConnectCompletedOnIO
    BY <2>19 DEF OnConnectCompletedOnIO, clientVars
  <2>20. CASE OnConnectError
    BY <2>20 DEF OnConnectError, clientVars, coreVars
  <2>21. CASE OnMessageReceived
    BY <2>21 DEF OnMessageReceived, history, WakeReceiver, ShouldNotify
  <2>22. CASE SocketClosed
    BY <2>22 DEF SocketClosed, history, OnClose, WakeReceiver
  <2>23. CASE DestroyCore
    BY <2>23 DEF DestroyCore, clientVars, coreVars, history
  <2>24. CASE UNCHANGED vars
    BY <2>24 DEF vars, clientVars, coreVars, history
  <2> QED
    BY <2>1, <2>2, <2>3, <2>4, <2>5, <2>6, <2>7, <2>8, <2>9, <2>10, <2>11, <2>12,
       <2>13, <2>14, <2>15, <2>16, <2>17, <2>18, <2>19, <2>20, <2>21, <2>22, <2>23,
       <2>24
    DEF Next, ConnectSteps, ReceiveSteps, TaskSteps, IoTaskSteps, NetworkSteps
<1>3. QueueCovered => NotificationCoversQueue
  BY DEF QueueCovered, NotificationCoversQueue
<1> QED BY <1>1, <1>2, <1>3, TypeCorrect, PTL DEF Spec

-----------------------------------------------------------------------------
\* While Connect runs there is no SendOnIO, neither queued nor executed, so
\* only attempts to connect write the result of Connect.
THEOREM NoSendDuringConnect == Spec => []NoSendYet
<1>1. Init => NoSendYet
  BY DEF Init, NoSendYet, ConnectStates
<1>2. TypeOK /\ NoSendYet /\ [Next]_vars => NoSendYet'
  <2> SUFFICES ASSUME TypeOK, NoSendYet, [Next]_vars PROVE NoSendYet'
    OBVIOUS
  <2> USE DEF NoSendYet, ConnectStates, TypeOK
  <2>1. CASE ConnectPost
    BY <2>1 DEF ConnectPost, frameVars, coreVars, history, PostToIO
  <2>2. CASE ConnectSignaled
    BY <2>2 DEF ConnectSignaled, coreVars, history
  <2>3. CASE ConnectTimedOut
    BY <2>3 DEF ConnectTimedOut, frameVars, coreVars, history
  <2>4. CASE ConnectCheck
    <3>1. CASE pc' = "running" BY <3>1
    <3>2. CASE ioQueue' = Append(ioQueue, "CloseOnIO") /\ firstSend' = firstSend
      BY <2>4, <3>2 DEF ConnectCheck
    <3> QED BY <2>4, <3>1, <3>2 DEF ConnectCheck, PostToIO, history
  <2>5. CASE ConnectFailed
    BY <2>5 DEF ConnectFailed, coreVars, history
  <2>6. CASE Send
    BY <2>6 DEF Send, coreVars, history, PostToIO
  <2>7. CASE SendReturn
    BY <2>7 DEF SendReturn, coreVars, history
  <2>8. CASE ReceiveWait
    BY <2>8 DEF ReceiveWait, frameVars, coreVars, history
  <2>9. CASE ReceiveTimeout
    BY <2>9 DEF ReceiveTimeout, frameVars, coreVars, history
  <2>10. CASE ReceiveDisconnected
    BY <2>10 DEF ReceiveDisconnected, frameVars, coreVars, history
  <2>11. CASE ReceiveMessage
    BY <2>11 DEF ReceiveMessage, frameVars
  <2>12. CASE BeginCommand
    BY <2>12 DEF BeginCommand, frameVars, coreVars, history
  <2>13. CASE EndCommand
    BY <2>13 DEF EndCommand, frameVars, coreVars, history
  <2>14. CASE BeginNotification
    BY <2>14 DEF BeginNotification, frameVars, coreVars, history
  <2>15. CASE EndNotification
    BY <2>15 DEF EndNotification, frameVars, coreVars
  <2>16. CASE ConnectOnIO
    BY <2>16 DEF ConnectOnIO, clientVars, frameVars
  <2>17. CASE SendOnIO
    <3>1. ioQueue # <<>> /\ ioQueue[1] = "SendOnIO"
      BY <2>17 DEF SendOnIO
    <3>2. pc \notin ConnectStates /\ (pc' = pc \/ pc' \in {"receiveWait", "receiveWoken"})
      BY <2>17, <3>1 DEF SendOnIO, OnClose, WakeReceiver
    <3> QED BY <3>2
  <2>18. CASE CloseOnIO
    BY <2>18 DEF CloseOnIO, clientVars, coreVars, frameVars
  <2>19. CASE OnConnectCompletedOnIO
    BY <2>19 DEF OnConnectCompletedOnIO, clientVars, frameVars
  <2>20. CASE OnConnectError
    BY <2>20 DEF OnConnectError, clientVars, coreVars, frameVars
  <2>21. CASE OnMessageReceived
    BY <2>21 DEF OnMessageReceived, WakeReceiver, history
  <2>22. CASE SocketClosed
    BY <2>22 DEF SocketClosed, OnClose, WakeReceiver, history
  <2>23. CASE DestroyCore
    BY <2>23 DEF DestroyCore, clientVars, frameVars, coreVars, history
  <2>24. CASE UNCHANGED vars
    BY <2>24 DEF vars, clientVars, frameVars, coreVars, history
  <2> QED
    BY <2>1, <2>2, <2>3, <2>4, <2>5, <2>6, <2>7, <2>8, <2>9, <2>10, <2>11, <2>12,
       <2>13, <2>14, <2>15, <2>16, <2>17, <2>18, <2>19, <2>20, <2>21, <2>22, <2>23,
       <2>24
    DEF Next, ConnectSteps, ReceiveSteps, TaskSteps, IoTaskSteps, NetworkSteps
<1> QED BY <1>1, <1>2, TypeCorrect, PTL DEF Spec

-----------------------------------------------------------------------------
\* The loss of the connection reaches an idle session thread as a notification.
\* Inductive is LossCovered: before Connect returns, |success| tells whether the
\* connection was ever established.
THEOREM LossIsNotified == Spec => []DisconnectIsNotified
<1>1. Init => LossCovered
  BY DEF Init, LossCovered, ConnectStates
<1>2. TypeOK /\ NoSendYet /\ LossCovered /\ [Next]_vars => LossCovered'
  <2> SUFFICES ASSUME TypeOK, NoSendYet, LossCovered, [Next]_vars PROVE LossCovered'
    OBVIOUS
  <2> USE DEF LossCovered, ConnectStates, TypeOK
  <2>1. CASE ConnectPost
    BY <2>1 DEF ConnectPost, frameVars, coreVars
  <2>2. CASE ConnectSignaled
    BY <2>2 DEF ConnectSignaled, coreVars
  <2>3. CASE ConnectTimedOut
    BY <2>3 DEF ConnectTimedOut, frameVars, coreVars
  <2>4. CASE ConnectCheck
    BY <2>4 DEF ConnectCheck, coreVars
  <2>5. CASE ConnectFailed
    BY <2>5 DEF ConnectFailed, coreVars
  <2>6. CASE Send
    BY <2>6 DEF Send, coreVars
  <2>7. CASE SendReturn
    BY <2>7 DEF SendReturn, coreVars
  <2>8. CASE ReceiveWait
    BY <2>8 DEF ReceiveWait, frameVars, coreVars
  <2>9. CASE ReceiveTimeout
    BY <2>9 DEF ReceiveTimeout, frameVars, coreVars
  <2>10. CASE ReceiveDisconnected
    BY <2>10 DEF ReceiveDisconnected, frameVars, coreVars
  <2>11. CASE ReceiveMessage
    BY <2>11 DEF ReceiveMessage, frameVars
  <2>12. CASE BeginCommand
    BY <2>12 DEF BeginCommand, frameVars, coreVars
  <2>13. CASE EndCommand
    BY <2>13 DEF EndCommand, frameVars, coreVars
  <2>14. CASE BeginNotification
    BY <2>14 DEF BeginNotification, frameVars, coreVars
  <2>15. CASE EndNotification
    BY <2>15 DEF EndNotification, frameVars, coreVars
  <2>16. CASE ConnectOnIO
    BY <2>16 DEF ConnectOnIO, clientVars, frameVars, SignalFrame
  <2>17. CASE SendOnIO
    <3>1. ioQueue # <<>> /\ ioQueue[1] = "SendOnIO"
      BY <2>17 DEF SendOnIO
    <3>2. pc \notin ConnectStates
      BY <3>1 DEF NoSendYet
    <3> QED BY <2>17, <3>2 DEF SendOnIO, OnClose, WakeReceiver
  <2>18. CASE CloseOnIO
    BY <2>18 DEF CloseOnIO, clientVars, coreVars, SignalClosed, frameVars
  <2>19. CASE OnConnectCompletedOnIO
    BY <2>19 DEF OnConnectCompletedOnIO, clientVars, SignalFrame, frameVars
  <2>20. CASE OnConnectError
    BY <2>20 DEF OnConnectError, clientVars, coreVars, SignalFrame, frameVars
  <2>21. CASE OnMessageReceived
    BY <2>21 DEF OnMessageReceived, frameVars, WakeReceiver
  <2>22. CASE SocketClosed
    BY <2>22 DEF SocketClosed, frameVars, OnClose, WakeReceiver
  <2>23. CASE DestroyCore
    BY <2>23 DEF DestroyCore, clientVars, frameVars, coreVars
  <2>24. CASE UNCHANGED vars
    BY <2>24 DEF vars, clientVars, frameVars, coreVars
  <2> QED
    BY <2>1, <2>2, <2>3, <2>4, <2>5, <2>6, <2>7, <2>8, <2>9, <2>10, <2>11, <2>12,
       <2>13, <2>14, <2>15, <2>16, <2>17, <2>18, <2>19, <2>20, <2>21, <2>22, <2>23,
       <2>24
    DEF Next, ConnectSteps, ReceiveSteps, TaskSteps, IoTaskSteps, NetworkSteps
<1>3. LossCovered => DisconnectIsNotified
  BY DEF LossCovered, DisconnectIsNotified, ConnectStates
<1> QED BY <1>1, <1>2, <1>3, TypeCorrect, NoSendDuringConnect, PTL DEF Spec

-----------------------------------------------------------------------------
\* The I/O thread runs every attempt of Connect before the first SendOnIO.
THEOREM ConnectsAreFirst == Spec => []ConnectsFirst
<1>1. Init => ConnectsFirst
  BY DEF Init, ConnectsFirst
<1>2. TypeOK /\ NoSendYet /\ ConnectsFirst /\ [Next]_vars => ConnectsFirst'
  <2> SUFFICES ASSUME TypeOK, NoSendYet, ConnectsFirst, [Next]_vars PROVE ConnectsFirst'
    OBVIOUS
  <2> USE DEF ConnectsFirst, TypeOK
  <2>1. CASE ConnectPost
    <3>1. ioQueue' = Append(ioQueue, "ConnectOnIO") /\ firstSend' = firstSend
      BY <2>1 DEF ConnectPost, PostToIO, history
    <3>2. firstSend = 0 /\ \A i \in 1..Len(ioQueue) : ioQueue[i] # "SendOnIO"
      BY <2>1 DEF ConnectPost, NoSendYet, ConnectStates
    <3> QED BY <3>1, <3>2
  <2>2. CASE ConnectSignaled
    BY <2>2 DEF ConnectSignaled, coreVars, history
  <2>3. CASE ConnectTimedOut
    BY <2>3 DEF ConnectTimedOut, coreVars, history
  <2>4. CASE ConnectCheck
    <3>1. firstSend' = firstSend
          /\ (ioQueue' = ioQueue \/ ioQueue' = Append(ioQueue, "CloseOnIO"))
      BY <2>4 DEF ConnectCheck, PostToIO, history
    <3>2. CASE ioQueue' = ioQueue BY <3>1, <3>2
    <3>3. CASE ioQueue' = Append(ioQueue, "CloseOnIO") BY <3>1, <3>3
    <3> QED BY <3>1, <3>2, <3>3
  <2>5. CASE ConnectFailed
    BY <2>5 DEF ConnectFailed, coreVars, history
  <2>6. CASE Send
    BY <2>6 DEF Send, coreVars, history, PostToIO
  <2>7. CASE SendReturn
    BY <2>7 DEF SendReturn, coreVars, history
  <2>8. CASE ReceiveWait
    BY <2>8 DEF ReceiveWait, coreVars, history
  <2>9. CASE ReceiveTimeout
    BY <2>9 DEF ReceiveTimeout, coreVars, history
  <2>10. CASE ReceiveDisconnected
    BY <2>10 DEF ReceiveDisconnected, coreVars, history
  <2>11. CASE ReceiveMessage
    BY <2>11 DEF ReceiveMessage
  <2>12. CASE BeginCommand
    BY <2>12 DEF BeginCommand, coreVars, history
  <2>13. CASE EndCommand
    BY <2>13 DEF EndCommand, coreVars, history
  <2>14. CASE BeginNotification
    BY <2>14 DEF BeginNotification, coreVars, history
  <2>15. CASE EndNotification
    BY <2>15 DEF EndNotification, coreVars
  <2>16. CASE ConnectOnIO
    <3>1. ioQueue # <<>> /\ ioQueue' = Tail(ioQueue) /\ firstSend' = firstSend
      BY <2>16 DEF ConnectOnIO
    <3> QED BY <3>1
  <2>17. CASE SendOnIO
    <3>1. ioQueue # <<>> /\ ioQueue[1] = "SendOnIO" /\ ioQueue' = Tail(ioQueue)
      BY <2>17 DEF SendOnIO
    <3>2. \A i \in 1..Len(ioQueue') : ioQueue'[i] # "ConnectOnIO"
      BY <3>1, SMTT(30)
    <3> QED BY <3>2
  <2>18. CASE CloseOnIO
    <3>1. ioQueue # <<>> /\ ioQueue' = Tail(ioQueue) /\ firstSend' = firstSend
      BY <2>18 DEF CloseOnIO
    <3> QED BY <3>1
  <2>19. CASE OnConnectCompletedOnIO
    BY <2>19 DEF OnConnectCompletedOnIO, clientVars
  <2>20. CASE OnConnectError
    BY <2>20 DEF OnConnectError, clientVars, coreVars
  <2>21. CASE OnMessageReceived
    BY <2>21 DEF OnMessageReceived, history
  <2>22. CASE SocketClosed
    BY <2>22 DEF SocketClosed, history
  <2>23. CASE DestroyCore
    BY <2>23 DEF DestroyCore, clientVars, coreVars, history
  <2>24. CASE UNCHANGED vars
    BY <2>24 DEF vars, clientVars, coreVars, history
  <2> QED
    BY <2>1, <2>2, <2>3, <2>4, <2>5, <2>6, <2>7, <2>8, <2>9, <2>10, <2>11, <2>12,
       <2>13, <2>14, <2>15, <2>16, <2>17, <2>18, <2>19, <2>20, <2>21, <2>22, <2>23,
       <2>24
    DEF Next, ConnectSteps, ReceiveSteps, TaskSteps, IoTaskSteps, NetworkSteps
<1> QED BY <1>1, <1>2, TypeCorrect, NoSendDuringConnect, PTL DEF Spec

-----------------------------------------------------------------------------
\* Every message in received_queue_, and every discarded one, was received
\* before the next one.
THEOREM MessagesAreNumbered == Spec => []Numbered
<1>1. Init => Numbered
  BY DEF Init, Numbered
<1>2. TypeOK /\ Numbered /\ [Next]_vars => Numbered'
  <2> SUFFICES ASSUME TypeOK, Numbered, [Next]_vars PROVE Numbered'
    OBVIOUS
  <2> USE DEF Numbered, TypeOK
  <2>1. CASE ConnectPost
    BY <2>1 DEF ConnectPost, coreVars, history
  <2>2. CASE ConnectSignaled
    BY <2>2 DEF ConnectSignaled, coreVars, history
  <2>3. CASE ConnectTimedOut
    BY <2>3 DEF ConnectTimedOut, coreVars, history
  <2>4. CASE ConnectCheck
    BY <2>4 DEF ConnectCheck, coreVars, history
  <2>5. CASE ConnectFailed
    BY <2>5 DEF ConnectFailed, coreVars, history
  <2>6. CASE Send
    BY <2>6 DEF Send, coreVars, history
  <2>7. CASE SendReturn
    BY <2>7 DEF SendReturn, coreVars, history
  <2>8. CASE ReceiveWait
    BY <2>8 DEF ReceiveWait, coreVars, history
  <2>9. CASE ReceiveTimeout
    BY <2>9 DEF ReceiveTimeout, coreVars, history
  <2>10. CASE ReceiveDisconnected
    BY <2>10 DEF ReceiveDisconnected, coreVars, history
  <2>11. CASE ReceiveMessage
    <3>1. receivedQueue # <<>> /\ receivedQueue' = Tail(receivedQueue)
          /\ nextMessage' = nextMessage /\ lost' = lost
      BY <2>11 DEF ReceiveMessage, PopFront
    <3> QED BY <3>1
  <2>12. CASE BeginCommand
    BY <2>12 DEF BeginCommand, coreVars, history
  <2>13. CASE EndCommand
    BY <2>13 DEF EndCommand, coreVars, history
  <2>14. CASE BeginNotification
    BY <2>14 DEF BeginNotification, coreVars, history
  <2>15. CASE EndNotification
    BY <2>15 DEF EndNotification, coreVars
  <2>16. CASE ConnectOnIO
    <3>1. receivedQueue' = <<>> /\ nextMessage' = nextMessage
          /\ lost' = lost \cup {receivedQueue[i] : i \in 1..Len(receivedQueue)}
      BY <2>16 DEF ConnectOnIO
    <3> QED BY <3>1
  <2>17. CASE SendOnIO
    BY <2>17 DEF SendOnIO
  <2>18. CASE CloseOnIO
    BY <2>18 DEF CloseOnIO, coreVars
  <2>19. CASE OnConnectCompletedOnIO
    BY <2>19 DEF OnConnectCompletedOnIO
  <2>20. CASE OnConnectError
    BY <2>20 DEF OnConnectError, coreVars
  <2>21. CASE OnMessageReceived
    <3>1. nextMessage' = nextMessage + 1 /\ lost' = lost
      BY <2>21 DEF OnMessageReceived, history
    <3>2. CASE receivedQueue' = receivedQueue
      BY <3>1, <3>2
    <3>3. CASE receivedQueue' = Append(receivedQueue, nextMessage)
      BY <3>1, <3>3
    <3> QED BY <2>21, <3>2, <3>3 DEF OnMessageReceived
  <2>22. CASE SocketClosed
    BY <2>22 DEF SocketClosed, history
  <2>23. CASE DestroyCore
    BY <2>23 DEF DestroyCore, coreVars, history
  <2>24. CASE UNCHANGED vars
    BY <2>24 DEF vars, coreVars, history
  <2> QED
    BY <2>1, <2>2, <2>3, <2>4, <2>5, <2>6, <2>7, <2>8, <2>9, <2>10, <2>11, <2>12,
       <2>13, <2>14, <2>15, <2>16, <2>17, <2>18, <2>19, <2>20, <2>21, <2>22, <2>23,
       <2>24
    DEF Next, ConnectSteps, ReceiveSteps, TaskSteps, IoTaskSteps, NetworkSteps
<1> QED BY <1>1, <1>2, TypeCorrect, PTL DEF Spec

-----------------------------------------------------------------------------
\* What a late retry of Connect discards was sent before the first command:
\* ConnectsFirst keeps the retries ahead of the commands, and the messages are
\* numbered, so those discarded up to the first SendOnIO are below firstSend.
THEOREM NoResponseIsDiscarded == Spec => []OnlyUnsolicitedLost
<1>1. Init => OnlyUnsolicitedLost
  BY DEF Init, OnlyUnsolicitedLost
<1>2. TypeOK /\ ConnectsFirst /\ Numbered /\ OnlyUnsolicitedLost /\ [Next]_vars => OnlyUnsolicitedLost'
  <2> SUFFICES ASSUME TypeOK, ConnectsFirst, Numbered, OnlyUnsolicitedLost, [Next]_vars PROVE OnlyUnsolicitedLost'
    OBVIOUS
  <2> USE DEF OnlyUnsolicitedLost
  <2>1. CASE ConnectPost
    BY <2>1 DEF ConnectPost, coreVars, history
  <2>2. CASE ConnectSignaled
    BY <2>2 DEF ConnectSignaled, coreVars, history
  <2>3. CASE ConnectTimedOut
    BY <2>3 DEF ConnectTimedOut, coreVars, history
  <2>4. CASE ConnectCheck
    BY <2>4 DEF ConnectCheck, coreVars, history
  <2>5. CASE ConnectFailed
    BY <2>5 DEF ConnectFailed, coreVars, history
  <2>6. CASE Send
    BY <2>6 DEF Send, coreVars, history
  <2>7. CASE SendReturn
    BY <2>7 DEF SendReturn, coreVars, history
  <2>8. CASE ReceiveWait
    BY <2>8 DEF ReceiveWait, coreVars, history
  <2>9. CASE ReceiveTimeout
    BY <2>9 DEF ReceiveTimeout, coreVars, history
  <2>10. CASE ReceiveDisconnected
    BY <2>10 DEF ReceiveDisconnected, coreVars, history
  <2>11. CASE ReceiveMessage
    BY <2>11 DEF ReceiveMessage
  <2>12. CASE BeginCommand
    BY <2>12 DEF BeginCommand, coreVars, history
  <2>13. CASE EndCommand
    BY <2>13 DEF EndCommand, coreVars, history
  <2>14. CASE BeginNotification
    BY <2>14 DEF BeginNotification, coreVars, history
  <2>15. CASE EndNotification
    BY <2>15 DEF EndNotification, coreVars
  <2>16. CASE ConnectOnIO
    <3>1. ioQueue # <<>> /\ ioQueue[1] = "ConnectOnIO" /\ firstSend' = firstSend
      BY <2>16 DEF ConnectOnIO
    <3>2. firstSend = 0
      BY <3>1 DEF ConnectsFirst, TypeOK
    <3> QED BY <3>1, <3>2
  <2>17. CASE SendOnIO
    <3>1. lost' = lost /\ firstSend' = IF firstSend = 0 THEN nextMessage ELSE firstSend
      BY <2>17 DEF SendOnIO
    <3> QED BY <3>1 DEF Numbered
  <2>18. CASE CloseOnIO
    BY <2>18 DEF CloseOnIO, clientVars, coreVars
  <2>19. CASE OnConnectCompletedOnIO
    BY <2>19 DEF OnConnectCompletedOnIO, clientVars
  <2>20. CASE OnConnectError
    BY <2>20 DEF OnConnectError, clientVars, coreVars
  <2>21. CASE OnMessageReceived
    BY <2>21 DEF OnMessageReceived, history
  <2>22. CASE SocketClosed
    BY <2>22 DEF SocketClosed, history
  <2>23. CASE DestroyCore
    BY <2>23 DEF DestroyCore, clientVars, coreVars, history
  <2>24. CASE UNCHANGED vars
    BY <2>24 DEF vars, clientVars, coreVars, history
  <2> QED
    BY <2>1, <2>2, <2>3, <2>4, <2>5, <2>6, <2>7, <2>8, <2>9, <2>10, <2>11, <2>12,
       <2>13, <2>14, <2>15, <2>16, <2>17, <2>18, <2>19, <2>20, <2>21, <2>22, <2>23,
       <2>24
    DEF Next, ConnectSteps, ReceiveSteps, TaskSteps, IoTaskSteps, NetworkSteps
<1> QED
  BY <1>1, <1>2, TypeCorrect, ConnectsAreFirst, MessagesAreNumbered, PTL DEF Spec

-----------------------------------------------------------------------------
\* ReceiveNextMessage returns the messages in the order in which they came and
\* none twice.  Inductive is Ordered, which compares the queue and the returned
\* messages instead of their concatenation.
THEOREM OrderIsKept == Spec => []DeliveredInOrder
<1>1. Init => Ordered
  BY DEF Init, Ordered
<1>2. TypeOK /\ Ordered /\ [Next]_vars => Ordered'
  <2> SUFFICES ASSUME TypeOK, Ordered, [Next]_vars PROVE Ordered'
    OBVIOUS
  <2> USE DEF Ordered, TypeOK
  <2>1. CASE ConnectPost
    BY <2>1 DEF ConnectPost, coreVars, history
  <2>2. CASE ConnectSignaled
    BY <2>2 DEF ConnectSignaled, coreVars, history
  <2>3. CASE ConnectTimedOut
    BY <2>3 DEF ConnectTimedOut, coreVars, history
  <2>4. CASE ConnectCheck
    BY <2>4 DEF ConnectCheck, coreVars, history
  <2>5. CASE ConnectFailed
    BY <2>5 DEF ConnectFailed, coreVars, history
  <2>6. CASE Send
    BY <2>6 DEF Send, coreVars, history
  <2>7. CASE SendReturn
    BY <2>7 DEF SendReturn, coreVars, history
  <2>8. CASE ReceiveWait
    BY <2>8 DEF ReceiveWait, coreVars, history
  <2>9. CASE ReceiveTimeout
    BY <2>9 DEF ReceiveTimeout, coreVars, history
  <2>10. CASE ReceiveDisconnected
    BY <2>10 DEF ReceiveDisconnected, coreVars, history
  <2>11. CASE ReceiveMessage
    <3>1. receivedQueue # <<>> /\ receivedQueue' = Tail(receivedQueue)
          /\ nextMessage' = nextMessage /\ delivered' = Append(delivered, Head(receivedQueue))
      BY <2>11 DEF ReceiveMessage, PopFront
    <3>2. Head(receivedQueue) = receivedQueue[1] /\ receivedQueue[1] \in Nat
      BY <3>1
    <3>3. Len(delivered') = Len(delivered) + 1 /\ delivered'[Len(delivered) + 1] = receivedQueue[1]
          /\ \A i \in 1..Len(delivered) : delivered'[i] = delivered[i]
      BY <3>1, <3>2
    <3>4. Len(receivedQueue') = Len(receivedQueue) - 1
          /\ \A i \in 1..Len(receivedQueue') : receivedQueue'[i] = receivedQueue[i + 1]
      BY <3>1
    <3>5. Len(delivered) \in Nat /\ Len(receivedQueue) \in Nat /\ Len(receivedQueue) > 0
      BY <3>1
    <3>6. /\ \A i \in 1..Len(receivedQueue') : receivedQueue'[i] < nextMessage'
          /\ \A i \in 1..Len(delivered') : delivered'[i] < nextMessage'
      BY <3>1, <3>2, <3>3, <3>4, <3>5
    <3>7. ASSUME NEW i \in 1..Len(receivedQueue'), NEW j \in 1..Len(receivedQueue'), i < j
          PROVE  receivedQueue'[i] < receivedQueue'[j]
      <4>1. i + 1 \in 1..Len(receivedQueue) /\ j + 1 \in 1..Len(receivedQueue) /\ i + 1 < j + 1
        BY <3>4, <3>5, <3>7
      <4>2. receivedQueue[i + 1] < receivedQueue[j + 1]
        BY <4>1
      <4> QED BY <3>4, <4>2
    <3>8. ASSUME NEW i \in 1..Len(delivered'), NEW j \in 1..Len(delivered'), i < j
          PROVE  delivered'[i] < delivered'[j]
      <4>1. i \in 1..Len(delivered) /\ delivered'[i] = delivered[i]
        BY <3>3, <3>5, <3>8
      <4>2. CASE j = Len(delivered) + 1
        BY <3>3, <3>5, <4>1, <4>2
      <4>3. CASE j \in 1..Len(delivered)
        BY <3>3, <3>8, <4>1, <4>3
      <4>4. j = Len(delivered) + 1 \/ j \in 1..Len(delivered)
        BY <3>3, <3>5
      <4> QED BY <4>2, <4>3, <4>4
    <3>9. \A i \in 1..Len(delivered'), j \in 1..Len(receivedQueue') :
            delivered'[i] < receivedQueue'[j]
      BY <3>1, <3>2, <3>3, <3>4, <3>5, SMTT(30)
    <3> QED BY <3>6, <3>7, <3>8, <3>9
  <2>12. CASE BeginCommand
    BY <2>12 DEF BeginCommand, coreVars, history
  <2>13. CASE EndCommand
    BY <2>13 DEF EndCommand, coreVars, history
  <2>14. CASE BeginNotification
    BY <2>14 DEF BeginNotification, coreVars, history
  <2>15. CASE EndNotification
    BY <2>15 DEF EndNotification, coreVars
  <2>16. CASE ConnectOnIO
    <3>1. receivedQueue' = <<>> /\ nextMessage' = nextMessage /\ delivered' = delivered
      BY <2>16 DEF ConnectOnIO
    <3> QED BY <3>1
  <2>17. CASE SendOnIO
    BY <2>17 DEF SendOnIO
  <2>18. CASE CloseOnIO
    BY <2>18 DEF CloseOnIO, coreVars
  <2>19. CASE OnConnectCompletedOnIO
    BY <2>19 DEF OnConnectCompletedOnIO
  <2>20. CASE OnConnectError
    BY <2>20 DEF OnConnectError, coreVars
  <2>21. CASE OnMessageReceived
    <3>1. nextMessage' = nextMessage + 1 /\ delivered' = delivered
      BY <2>21 DEF OnMessageReceived, history
    <3>2. CASE receivedQueue' = receivedQueue
      BY <3>1, <3>2, SMTT(30)
    <3>3. CASE receivedQueue' = Append(receivedQueue, nextMessage)
      BY <3>1, <3>3, SMTT(30)
    <3> QED BY <2>21, <3>2, <3>3 DEF OnMessageReceived
  <2>22. CASE SocketClosed
    BY <2>22 DEF SocketClosed, history
  <2>23. CASE DestroyCore
    BY <2>23 DEF DestroyCore, coreVars, history
  <2>24. CASE UNCHANGED vars
    BY <2>24 DEF vars, coreVars, history
  <2> QED
    BY <2>1, <2>2, <2>3, <2>4, <2>5, <2>6, <2>7, <2>8, <2>9, <2>10, <2>11, <2>12,
       <2>13, <2>14, <2>15, <2>16, <2>17, <2>18, <2>19, <2>20, <2>21, <2>22, <2>23,
       <2>24
    DEF Next, ConnectSteps, ReceiveSteps, TaskSteps, IoTaskSteps, NetworkSteps
<1>3. TypeOK /\ Ordered => DeliveredInOrder
  <2> SUFFICES ASSUME TypeOK, Ordered,
                      NEW i \in 1..Len(delivered \o receivedQueue),
                      NEW j \in 1..Len(delivered \o receivedQueue), i < j
               PROVE  (delivered \o receivedQueue)[i] < (delivered \o receivedQueue)[j]
    BY DEF DeliveredInOrder
  <2>1. /\ Len(delivered \o receivedQueue) = Len(delivered) + Len(receivedQueue)
        /\ \A k \in 1..Len(delivered) : (delivered \o receivedQueue)[k] = delivered[k]
        /\ \A k \in 1..(Len(delivered) + Len(receivedQueue)) :
             k > Len(delivered) =>
               (delivered \o receivedQueue)[k] = receivedQueue[k - Len(delivered)]
        /\ Len(delivered) \in Nat /\ Len(receivedQueue) \in Nat
    BY DEF TypeOK
  <2>2. CASE j <= Len(delivered) BY <2>1, <2>2 DEF Ordered
  <2>3. CASE i <= Len(delivered) /\ j > Len(delivered) BY <2>1, <2>3 DEF Ordered
  <2>4. CASE i > Len(delivered) BY <2>1, <2>4 DEF Ordered
  <2> QED BY <2>1, <2>2, <2>3, <2>4
<1> QED BY <1>1, <1>2, <1>3, TypeCorrect, PTL DEF Spec

-----------------------------------------------------------------------------
\* The last element of a sequence survives Tail.
LEMMA LastOfTail ==
  ASSUME NEW S, NEW q \in Seq(S), Len(q) > 1
  PROVE  Tail(q) # << >> /\ Tail(q)[Len(Tail(q))] = q[Len(q)]
<1>1. Len(q) \in Nat /\ q # << >>
  OBVIOUS
<1>2. Len(Tail(q)) = Len(q) - 1
  BY <1>1
<1>3. Tail(q)[Len(q) - 1] = q[Len(q)]
  <2>1. \A i \in 1..(Len(q) - 1) : Tail(q)[i] = q[i + 1]
    BY <1>1
  <2>2. Len(q) - 1 \in 1..(Len(q) - 1) /\ (Len(q) - 1) + 1 = Len(q)
    BY <1>1
  <2> QED BY <2>1, <2>2
<1>4. Tail(q) # << >>
  <2>1. Len(<< >>) = 0
    OBVIOUS
  <2>2. Len(Tail(q)) # 0
    BY <1>1, <1>2
  <2> QED BY <2>1, <2>2
<1> QED BY <1>2, <1>3, <1>4

\* A Connect that failed leaves no WebSocket behind.  Inductive is ClosePending:
\* CloseOnIO is the last task that is ever posted, behind every late attempt.
THEOREM FailedConnectCloses == Spec => []FailedConnectIsClosed
<1>1. Init => ClosePending
  BY DEF Init, ClosePending
<1>2. TypeOK /\ ClosePending /\ [Next]_vars => ClosePending'
  <2> SUFFICES ASSUME TypeOK, ClosePending, [Next]_vars PROVE ClosePending'
    OBVIOUS
  <2> USE DEF ClosePending, TypeOK
  <2>1. CASE ConnectPost
    BY <2>1 DEF ConnectPost, PostToIO
  <2>2. CASE ConnectSignaled
    BY <2>2 DEF ConnectSignaled
  <2>3. CASE ConnectTimedOut
    BY <2>3 DEF ConnectTimedOut
  <2>4. CASE ConnectCheck
    BY <2>4 DEF ConnectCheck, PostToIO
  <2>5. CASE ConnectFailed
    BY <2>5 DEF ConnectFailed
  <2>6. CASE Send
    BY <2>6 DEF Send, PostToIO
  <2>7. CASE SendReturn
    BY <2>7 DEF SendReturn
  <2>8. CASE ReceiveWait
    BY <2>8 DEF ReceiveWait
  <2>9. CASE ReceiveTimeout
    BY <2>9 DEF ReceiveTimeout
  <2>10. CASE ReceiveDisconnected
    BY <2>10 DEF ReceiveDisconnected
  <2>11. CASE ReceiveMessage
    BY <2>11 DEF ReceiveMessage
  <2>12. CASE BeginCommand
    BY <2>12 DEF BeginCommand
  <2>13. CASE EndCommand
    BY <2>13 DEF EndCommand
  <2>14. CASE BeginNotification
    BY <2>14 DEF BeginNotification
  <2>15. CASE EndNotification
    BY <2>15 DEF EndNotification
  <2>16. CASE ConnectOnIO
    <3>1. ioQueue # <<>> /\ ioQueue[1] = "ConnectOnIO" /\ ioQueue' = Tail(ioQueue)
          /\ pc' = pc /\ connectResult' = connectResult
      BY <2>16 DEF ConnectOnIO, clientVars
    <3>2. CASE ioQueue[Len(ioQueue)] = "CloseOnIO"
      <4>1. Len(ioQueue) \in Nat /\ Len(ioQueue) > 1
        BY <3>1, <3>2
      <4>2. ioQueue' # <<>> /\ ioQueue'[Len(ioQueue')] = ioQueue[Len(ioQueue)]
        BY <3>1, <4>1, LastOfTail
      <4> QED BY <3>1, <3>2, <4>2
    <3>3. CASE ioQueue[Len(ioQueue)] # "CloseOnIO"
      BY <3>1, <3>3
    <3> QED BY <3>2, <3>3
  <2>17. CASE SendOnIO
    <3>1. ioQueue # <<>> /\ ioQueue[1] = "SendOnIO" /\ ioQueue' = Tail(ioQueue)
          /\ connectResult' = connectResult
      BY <2>17 DEF SendOnIO
    <3>2. pc' = pc \/ (pc = "receiveWait" /\ pc' = "receiveWoken")
      <4> HIDE DEF ClosePending, TypeOK
      <4> QED BY <2>17 DEF SendOnIO, OnClose, WakeReceiver
    <3>3. CASE ioQueue[Len(ioQueue)] = "CloseOnIO"
      <4>1. Len(ioQueue) \in Nat /\ Len(ioQueue) > 1
        BY <3>1, <3>3
      <4>2. ioQueue' # <<>> /\ ioQueue'[Len(ioQueue')] = ioQueue[Len(ioQueue)]
        BY <3>1, <4>1, LastOfTail
      <4> QED BY <3>1, <3>2, <3>3, <4>2
    <3>4. CASE ioQueue[Len(ioQueue)] # "CloseOnIO"
      BY <3>1, <3>2, <3>4
    <3> QED BY <3>3, <3>4
  <2>18. CASE CloseOnIO
    <3>1. ioQueue # <<>> /\ ioQueue' = Tail(ioQueue) /\ socket' = "null"
          /\ pc' = pc /\ connectResult' = connectResult
      BY <2>18 DEF CloseOnIO, clientVars, ResetSocket
    <3> QED BY <3>1
  <2>19. CASE OnConnectCompletedOnIO
    BY <2>19 DEF OnConnectCompletedOnIO, clientVars
  <2>20. CASE OnConnectError
    BY <2>20 DEF OnConnectError, clientVars
  <2>21. CASE OnMessageReceived
    BY <2>21 DEF OnMessageReceived, WakeReceiver
  <2>22. CASE SocketClosed
    BY <2>22 DEF SocketClosed, OnClose, WakeReceiver
  <2>23. CASE DestroyCore
    BY <2>23 DEF DestroyCore, clientVars
  <2>24. CASE UNCHANGED vars
    BY <2>24 DEF vars, clientVars
  <2> QED
    BY <2>1, <2>2, <2>3, <2>4, <2>5, <2>6, <2>7, <2>8, <2>9, <2>10, <2>11, <2>12,
       <2>13, <2>14, <2>15, <2>16, <2>17, <2>18, <2>19, <2>20, <2>21, <2>22, <2>23,
       <2>24
    DEF Next, ConnectSteps, ReceiveSteps, TaskSteps, IoTaskSteps, NetworkSteps
<1>3. ClosePending => FailedConnectIsClosed
  BY DEF ClosePending, FailedConnectIsClosed
<1> QED BY <1>1, <1>2, <1>3, TypeCorrect, PTL DEF Spec
=============================================================================
