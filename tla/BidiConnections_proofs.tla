----------------------- MODULE BidiConnections_proofs -----------------------
(* Proofs about BidiConnections, for any connections and any session ids.  *)
EXTENDS BidiConnections, FiniteSetTheorems, WellFoundedInduction, QueueLemmas, TLAPS

\* The tasks that are posted, each with the connection and the session it needs.
CmdTasks ==
  [op : {"WebSocketRequest"}, conn : Connections, session : Keys, ok : BOOLEAN]
  \cup [op : MessageKinds \cup {"OnClose"}, conn : Connections, session : {None}, ok : BOOLEAN]
  \cup [op : {"OnNewBidiSession", "CloseConnection"}, conn : Connections, session : Sessions,
        ok : BOOLEAN]
  \cup [op : {"OnNewSessionCreated", "terminate_on_cmd", "OnSessionTerminated"}, conn : {None},
        session : Sessions, ok : BOOLEAN]
ThreadTasks ==
  [op : {"InitSession", "Quit"}, conn : Connections \cup {None}]
  \cup [op : ThreadOps \ {"InitSession", "Quit"}, conn : Connections]
IoTasks == [op : {"AcceptWebSocket", "Reject", "Close"}, conn : Connections]

Typed ==
  /\ conn \in [Connections -> ConnStates] /\ messages \in 0..MaxMessages
  /\ ioQueue \in Seq(IoTasks) /\ cmdQueue \in Seq(CmdTasks)
  /\ connectionSession \in [Connections -> Keys \cup {None}]
  /\ bucket \in [Keys -> SUBSET Connections]
  /\ known \in SUBSET Keys /\ threadMap \in SUBSET Sessions
  /\ threadQueue \in [Sessions -> Seq(ThreadTasks)]
  /\ quitting \in SUBSET Sessions
  /\ tls \in [Sessions -> {"unset", "live", "null"}]
  /\ bidiConnections \in [Sessions -> Seq(Connections)]
  /\ dropped \in SUBSET Connections /\ orphans \in SUBSET Connections

\* A task of the CMD thread announces the end or the creation of a session.
Ending(t) == t.op \in {"terminate_on_cmd", "OnSessionTerminated"}
Creating(t) == t.op \in {"OnNewSessionCreated", "OnNewBidiSession"}

\* What is in the queue q of the CMD thread ...
Ends(q, s) == \E i \in 1..Len(q) : Ending(q[i]) /\ q[i].session = s
Creates(q, s) == \E i \in 1..Len(q) : Creating(q[i]) /\ q[i].session = s
Asks(q, c) == \E i \in 1..Len(q) : q[i].op = "WebSocketRequest" /\ q[i].conn = c
Shuts(q, c) == \E i \in 1..Len(q) : q[i].op = "OnClose" /\ q[i].conn = c

\* ... and in the queue q of a session thread.
Inits(q) == \E i \in 1..Len(q) : q[i].op = "InitSession"
Adds(q, c) == \E i \in 1..Len(q) : q[i].op = "AddBidiConnection" /\ q[i].conn = c
Removes(q, c) == \E i \in 1..Len(q) : q[i].op = "RemoveBidiConnection" /\ q[i].conn = c
Lists(q, c) == \E i \in 1..Len(q) : q[i] = c

\* The CMD thread hears of each event once: of the creation of a session before its
\* end, and of the request of a connection before its close.
Before(a, b) ==
  \/ Creating(a) /\ Ending(b) /\ a.session = b.session
  \/ a.op = "WebSocketRequest" /\ b.op = "OnClose" /\ a.conn = b.conn
SameEvent(a, b) ==
  \/ Ending(a) /\ Ending(b) /\ a.session = b.session
  \/ Creating(a) /\ Creating(b) /\ a.session = b.session
  \/ a.op \in {"OnClose", "WebSocketRequest"} /\ b.op = a.op /\ a.conn = b.conn
Orderly(q) ==
  \A i, j \in 1..Len(q) :
    (SameEvent(q[i], q[j]) => i = j) /\ (Before(q[i], q[j]) => i < j)

\* InitSession is the first task of a thread.
InitFirst(q) == \A i \in 1..Len(q) : q[i].op = "InitSession" => i = 1

\* A session starts once, with InitSession, is announced, and ends once.
Lifecycle(s) ==
  /\ tls[s] = "live" => s \in threadMap
  /\ s \in threadMap \/ s \in known => tls[s] # "unset"
  /\ s \in quitting => tls[s] = "live"
  /\ tls[s] = "unset" => threadQueue[s] = <<>>
  /\ Ends(cmdQueue, s) <=> s \in threadMap /\ tls[s] = "null"

\* Until a session is announced nobody is bound to it.
Announced(s) ==
  /\ InitFirst(threadQueue[s])
  /\ Inits(threadQueue[s]) => tls[s] = "live" /\ s \notin quitting /\ ~Creates(cmdQueue, s)
  /\ Creates(cmdQueue, s) => s \in threadMap
  /\ Inits(threadQueue[s]) \/ Creates(cmdQueue, s)
       => s \notin known /\ \A c \in Connections : ~Removes(threadQueue[s], c)

\* A bound connection is in the bucket of its session, and the session thread has it,
\* or will have, and is not about to remove it.
Bound(c, s) ==
  connectionSession[c] = s =>
    /\ tls[s] # "unset"
    /\ s \in threadMap => s \in known /\ c \in bucket[s]
    /\ tls[s] = "live" => /\ Lists(bidiConnections[s], c) \/ Adds(threadQueue[s], c)
                          /\ ~Removes(threadQueue[s], c)

\* A session thread removes a connection only after its close.
Closing(c) ==
  /\ Asks(cmdQueue, c) => conn[c] # "none"
  /\ Shuts(cmdQueue, c) => conn[c] = "closed"
  /\ \A s \in Sessions : Removes(threadQueue[s], c) =>
       conn[c] = "closed" /\ ~Asks(cmdQueue, c) /\ ~Shuts(cmdQueue, c)

Bookkeeping ==
  /\ Orderly(cmdQueue)
  /\ \A s \in Sessions : Lifecycle(s) /\ Announced(s)
  /\ \A c \in Connections : Closing(c) /\ \A s \in Sessions : Bound(c, s)

-----------------------------------------------------------------------------
(* Queues.                                                                 *)

\* The CMD thread takes its first task.
LEMMA CmdTail ==
  ASSUME NEW q \in Seq(CmdTasks), q # <<>>, Orderly(q)
  PROVE  /\ Tail(q) \in Seq(CmdTasks) /\ Head(q) \in CmdTasks /\ Orderly(Tail(q))
         /\ \A s : Ends(Tail(q), s) <=> Ends(q, s) /\ ~(Ending(Head(q)) /\ Head(q).session = s)
         /\ \A s : Creates(Tail(q), s) <=>
                     Creates(q, s) /\ ~(Creating(Head(q)) /\ Head(q).session = s)
         /\ \A c : Asks(Tail(q), c) <=>
                     Asks(q, c) /\ ~(Head(q).op = "WebSocketRequest" /\ Head(q).conn = c)
         /\ \A c : Shuts(Tail(q), c) <=>
                     Shuts(q, c) /\ ~(Head(q).op = "OnClose" /\ Head(q).conn = c)
         /\ Ending(Head(q)) => Ends(q, Head(q).session) /\ ~Creates(q, Head(q).session)
         /\ Creating(Head(q)) => Creates(q, Head(q).session)
         /\ Head(q).op = "WebSocketRequest" => Asks(q, Head(q).conn)
         /\ Head(q).op = "OnClose" => Shuts(q, Head(q).conn) /\ ~Asks(q, Head(q).conn)
<1>1. /\ Tail(q) \in Seq(CmdTasks) /\ Len(q) \in Nat \ {0} /\ Len(Tail(q)) = Len(q) - 1
      /\ \A i \in 1..Len(Tail(q)) : Tail(q)[i] = q[i + 1]
      /\ Head(q) = q[1] /\ Head(q) \in CmdTasks
  BY TailFacts
<1>2. \A i \in 1..Len(Tail(q)) : i + 1 \in 1..Len(q) /\ i + 1 # 1
  BY <1>1
<1>3. 1 \in 1..Len(q) /\ \A i \in 1..Len(q) : ~(i < 1)
  BY <1>1
<1>4. \A i \in 1..Len(q) : i = 1 \/ (i - 1 \in 1..Len(Tail(q)) /\ Tail(q)[i - 1] = q[i])
  BY <1>1
<1>5. Orderly(Tail(q))
  <2> SUFFICES ASSUME NEW i \in 1..Len(Tail(q)), NEW j \in 1..Len(Tail(q))
               PROVE  /\ SameEvent(Tail(q)[i], Tail(q)[j]) => i = j
                      /\ Before(Tail(q)[i], Tail(q)[j]) => i < j
    BY DEF Orderly
  <2>1. /\ SameEvent(q[i + 1], q[j + 1]) => i + 1 = j + 1
        /\ Before(q[i + 1], q[j + 1]) => i + 1 < j + 1
    BY <1>2 DEF Orderly
  <2> QED BY <2>1, <1>1
<1>6. \A i \in 1..Len(q) : /\ SameEvent(q[i], q[1]) => i = 1
                           /\ ~Before(q[i], q[1])
  BY <1>3 DEF Orderly
<1>7. \A s : Ends(Tail(q), s) <=> Ends(q, s) /\ ~(Ending(Head(q)) /\ Head(q).session = s)
  BY <1>1, <1>2, <1>4, <1>6 DEF Ends, SameEvent
<1>8. \A s : Creates(Tail(q), s) <=> Creates(q, s) /\ ~(Creating(Head(q)) /\ Head(q).session = s)
  <2> TAKE s
  <2>1. ASSUME Creates(Tail(q), s)
        PROVE  Creates(q, s) /\ ~(Creating(Head(q)) /\ Head(q).session = s)
    <3>1. PICK i \in 1..Len(Tail(q)) : Creating(Tail(q)[i]) /\ Tail(q)[i].session = s
      BY <2>1 DEF Creates
    <3>2. i + 1 \in 1..Len(q) /\ i + 1 # 1 /\ Creating(q[i + 1]) /\ q[i + 1].session = s
      BY <3>1, <1>1, <1>2
    <3> QED BY <3>2, <1>1, <1>6 DEF Creates, SameEvent
  <2>2. ASSUME Creates(q, s), ~(Creating(Head(q)) /\ Head(q).session = s)
        PROVE  Creates(Tail(q), s)
    BY <2>2, <1>1, <1>4 DEF Creates
  <2> QED BY <2>1, <2>2
<1>9. \A c : Asks(Tail(q), c) <=> Asks(q, c) /\ ~(Head(q).op = "WebSocketRequest" /\ Head(q).conn = c)
  BY <1>1, <1>2, <1>4, <1>6 DEF Asks, SameEvent
<1>10. \A c : Shuts(Tail(q), c) <=> Shuts(q, c) /\ ~(Head(q).op = "OnClose" /\ Head(q).conn = c)
  BY <1>1, <1>2, <1>4, <1>6 DEF Shuts, SameEvent
<1>11. /\ Ending(Head(q)) => Ends(q, Head(q).session) /\ ~Creates(q, Head(q).session)
       /\ Creating(Head(q)) => Creates(q, Head(q).session)
  BY <1>1, <1>3, <1>6 DEF Ends, Creates, Before
<1>12. /\ Head(q).op = "WebSocketRequest" => Asks(q, Head(q).conn)
       /\ Head(q).op = "OnClose" => Shuts(q, Head(q).conn) /\ ~Asks(q, Head(q).conn)
  BY <1>1, <1>3, <1>6 DEF Asks, Shuts, Before
<1> QED BY <1>1, <1>5, <1>7, <1>8, <1>9, <1>10, <1>11, <1>12

\* A task comes to the queue of the CMD thread.
LEMMA CmdAppend ==
  ASSUME NEW q \in Seq(CmdTasks), NEW e \in CmdTasks, Orderly(q),
         Ending(e) => ~Ends(q, e.session),
         Creating(e) => ~Creates(q, e.session) /\ ~Ends(q, e.session),
         e.op = "WebSocketRequest" => ~Asks(q, e.conn) /\ ~Shuts(q, e.conn),
         e.op = "OnClose" => ~Shuts(q, e.conn)
  PROVE  /\ Append(q, e) \in Seq(CmdTasks) /\ Orderly(Append(q, e))
         /\ \A s : Ends(Append(q, e), s) <=> Ends(q, s) \/ (Ending(e) /\ e.session = s)
         /\ \A s : Creates(Append(q, e), s) <=> Creates(q, s) \/ (Creating(e) /\ e.session = s)
         /\ \A c : Asks(Append(q, e), c) <=>
                     Asks(q, c) \/ (e.op = "WebSocketRequest" /\ e.conn = c)
         /\ \A c : Shuts(Append(q, e), c) <=> Shuts(q, c) \/ (e.op = "OnClose" /\ e.conn = c)
<1>1. /\ Append(q, e) \in Seq(CmdTasks) /\ Len(q) \in Nat /\ Len(Append(q, e)) = Len(q) + 1
      /\ \A i \in 1..Len(q) : Append(q, e)[i] = q[i]
      /\ Append(q, e)[Len(q) + 1] = e
  BY AppendFacts
<1>2. \A i : i \in 1..Len(Append(q, e)) <=> i \in 1..Len(q) \/ i = Len(q) + 1
  BY <1>1
<1>3. \A s : Ends(Append(q, e), s) <=> Ends(q, s) \/ (Ending(e) /\ e.session = s)
  BY <1>1, <1>2 DEF Ends
<1>4. \A s : Creates(Append(q, e), s) <=> Creates(q, s) \/ (Creating(e) /\ e.session = s)
  BY <1>1, <1>2 DEF Creates
<1>5. \A c : Asks(Append(q, e), c) <=> Asks(q, c) \/ (e.op = "WebSocketRequest" /\ e.conn = c)
  BY <1>1, <1>2 DEF Asks
<1>6. \A c : Shuts(Append(q, e), c) <=> Shuts(q, c) \/ (e.op = "OnClose" /\ e.conn = c)
  BY <1>1, <1>2 DEF Shuts
<1>7. \A i \in 1..Len(q) : ~SameEvent(e, q[i]) /\ ~SameEvent(q[i], e) /\ ~Before(e, q[i])
  BY DEF SameEvent, Before, Ends, Creates, Asks, Shuts
<1>8. ~Before(e, e)
  BY DEF Before, Creating, Ending
<1>9. Orderly(Append(q, e))
  <2> SUFFICES ASSUME NEW i \in 1..Len(Append(q, e)), NEW j \in 1..Len(Append(q, e))
               PROVE  /\ SameEvent(Append(q, e)[i], Append(q, e)[j]) => i = j
                      /\ Before(Append(q, e)[i], Append(q, e)[j]) => i < j
    BY DEF Orderly
  <2>1. CASE i \in 1..Len(q) /\ j \in 1..Len(q)
    BY <1>1, <2>1 DEF Orderly
  <2>2. CASE i \in 1..Len(q) /\ j = Len(q) + 1
    BY <1>1, <1>7, <2>2
  <2>3. CASE i = Len(q) + 1 /\ j \in 1..Len(q)
    BY <1>1, <1>7, <2>3
  <2>4. CASE i = Len(q) + 1 /\ j = Len(q) + 1
    BY <1>1, <1>8, <2>4
  <2> QED BY <1>2, <2>1, <2>2, <2>3, <2>4
<1> QED BY <1>1, <1>3, <1>4, <1>5, <1>6, <1>9

\* CloseAllConnections posts a close for each connection, which announces nothing.
LEMMA CmdConcat ==
  ASSUME NEW q \in Seq(CmdTasks), NEW p \in Seq(CmdTasks), Orderly(q),
         \A i \in 1..Len(p) : p[i].op = "CloseConnection"
  PROVE  /\ q \o p \in Seq(CmdTasks) /\ Orderly(q \o p)
         /\ \A s : Ends(q \o p, s) <=> Ends(q, s)
         /\ \A s : Creates(q \o p, s) <=> Creates(q, s)
         /\ \A c : Asks(q \o p, c) <=> Asks(q, c)
         /\ \A c : Shuts(q \o p, c) <=> Shuts(q, c)
<1> DEFINE qp == q \o p
<1>1. /\ qp \in Seq(CmdTasks) /\ Len(qp) = Len(q) + Len(p) /\ Len(q) \in Nat /\ Len(p) \in Nat
      /\ \A i \in 1..Len(q) + Len(p) : qp[i] = IF i <= Len(q) THEN q[i] ELSE p[i - Len(q)]
  BY ConcatProperties
<1> HIDE DEF qp
<1>2. \A i \in 1..Len(qp) : \/ i \in 1..Len(q) /\ qp[i] = q[i]
                            \/ i \notin 1..Len(q) /\ qp[i].op = "CloseConnection"
  BY <1>1
<1>3. \A i \in 1..Len(q) : i \in 1..Len(qp) /\ qp[i] = q[i]
  BY <1>1
<1>4. \A t : t.op = "CloseConnection" =>
        ~Ending(t) /\ ~Creating(t) /\ t.op # "WebSocketRequest" /\ t.op # "OnClose"
  BY DEF Ending, Creating
<1>5. \A s : Ends(qp, s) <=> Ends(q, s)
  BY <1>2, <1>3, <1>4 DEF Ends
<1>6. \A s : Creates(qp, s) <=> Creates(q, s)
  BY <1>2, <1>3, <1>4 DEF Creates
<1>7. \A c : Asks(qp, c) <=> Asks(q, c)
  BY <1>2, <1>3, <1>4 DEF Asks
<1>8. \A c : Shuts(qp, c) <=> Shuts(q, c)
  BY <1>2, <1>3, <1>4 DEF Shuts
<1>9. Orderly(qp)
  BY <1>2, <1>4 DEF Orderly, SameEvent, Before
<1> QED BY <1>1, <1>5, <1>6, <1>7, <1>8, <1>9 DEF qp

\* A session thread takes its first task, and gets one.
LEMMA ThreadTail ==
  ASSUME NEW q \in Seq(ThreadTasks), q # <<>>
  PROVE  /\ Tail(q) \in Seq(ThreadTasks) /\ Head(q) \in ThreadTasks
         /\ InitFirst(q) => InitFirst(Tail(q)) /\ ~Inits(Tail(q))
         /\ Inits(Tail(q)) => Inits(q)
         /\ Head(q).op = "InitSession" => Inits(q)
         /\ \A c : Removes(Tail(q), c) => Removes(q, c)
         /\ Head(q).op = "RemoveBidiConnection" => Removes(q, Head(q).conn)
         /\ \A c : Adds(q, c) =>
                     Adds(Tail(q), c) \/ (Head(q).op = "AddBidiConnection" /\ Head(q).conn = c)
<1>1. /\ Tail(q) \in Seq(ThreadTasks) /\ Len(q) \in Nat \ {0} /\ Len(Tail(q)) = Len(q) - 1
      /\ \A i \in 1..Len(Tail(q)) : Tail(q)[i] = q[i + 1]
      /\ Head(q) = q[1] /\ Head(q) \in ThreadTasks
  BY TailFacts
<1>2. 1 \in 1..Len(q) /\ \A i \in 1..Len(Tail(q)) : i + 1 \in 1..Len(q) /\ i + 1 # 1
  BY <1>1
<1>3. \A i \in 1..Len(q) : i = 1 \/ (i - 1 \in 1..Len(Tail(q)) /\ Tail(q)[i - 1] = q[i])
  BY <1>1
<1>4. /\ InitFirst(q) => InitFirst(Tail(q)) /\ ~Inits(Tail(q))
      /\ Inits(Tail(q)) => Inits(q)
      /\ Head(q).op = "InitSession" => Inits(q)
  BY <1>1, <1>2 DEF InitFirst, Inits
<1>5. /\ \A c : Removes(Tail(q), c) => Removes(q, c)
      /\ Head(q).op = "RemoveBidiConnection" => Removes(q, Head(q).conn)
  BY <1>1, <1>2 DEF Removes
<1>6. \A c : Adds(q, c) => Adds(Tail(q), c) \/ (Head(q).op = "AddBidiConnection" /\ Head(q).conn = c)
  BY <1>1, <1>3 DEF Adds
<1> QED BY <1>1, <1>4, <1>5, <1>6

\* What the queue of a session thread holds when a task is posted.
LEMMA ThreadAppend ==
  ASSUME NEW q \in Seq(ThreadTasks), NEW e \in ThreadTasks
  PROVE  /\ Append(q, e) \in Seq(ThreadTasks)
         /\ InitFirst(q) /\ (e.op = "InitSession" => q = <<>>) => InitFirst(Append(q, e))
         /\ Inits(Append(q, e)) <=> Inits(q) \/ e.op = "InitSession"
         /\ \A c : Removes(Append(q, e), c) <=>
                     Removes(q, c) \/ (e.op = "RemoveBidiConnection" /\ e.conn = c)
         /\ \A c : Adds(Append(q, e), c) <=>
                     Adds(q, c) \/ (e.op = "AddBidiConnection" /\ e.conn = c)
<1>1. /\ Append(q, e) \in Seq(ThreadTasks) /\ Len(q) \in Nat /\ Len(Append(q, e)) = Len(q) + 1
      /\ \A i \in 1..Len(q) : Append(q, e)[i] = q[i]
      /\ Append(q, e)[Len(q) + 1] = e
  BY AppendFacts
<1>2. \A i : i \in 1..Len(Append(q, e)) <=> i \in 1..Len(q) \/ i = Len(q) + 1
  BY <1>1
<1>3. InitFirst(q) /\ (e.op = "InitSession" => q = <<>>) => InitFirst(Append(q, e))
  BY <1>1, <1>2 DEF InitFirst
<1>4. Inits(Append(q, e)) <=> Inits(q) \/ e.op = "InitSession"
  BY <1>1, <1>2 DEF Inits
<1>5. \A c : Removes(Append(q, e), c) <=> Removes(q, c) \/ (e.op = "RemoveBidiConnection" /\ e.conn = c)
  BY <1>1, <1>2 DEF Removes
<1>6. \A c : Adds(Append(q, e), c) <=> Adds(q, c) \/ (e.op = "AddBidiConnection" /\ e.conn = c)
  BY <1>1, <1>2 DEF Adds
<1> QED BY <1>1, <1>3, <1>4, <1>5, <1>6

\* RemoveBidiConnection takes no other connection from the list.
LEMMA ListRemove ==
  ASSUME NEW q \in Seq(Connections), NEW c0
  PROVE  /\ WithoutFirst(q, c0) \in Seq(Connections)
         /\ \A c : c # c0 /\ Lists(q, c) => Lists(WithoutFirst(q, c0), c)
<1>1. CASE ~\E i \in 1..Len(q) : q[i] = c0
  BY <1>1 DEF WithoutFirst
<1>2. CASE \E i \in 1..Len(q) : q[i] = c0
  <2> DEFINE first == CHOOSE i \in 1..Len(q) : q[i] = c0 /\ \A j \in 1..(i - 1) : q[j] # c0
             a == SubSeq(q, 1, first - 1)
             b == SubSeq(q, first + 1, Len(q))
  <2>1. \E i \in 1..Len(q) : q[i] = c0 /\ \A j \in 1..(i - 1) : q[j] # c0
    <3> DEFINE S == {n \in 1..Len(q) : q[n] = c0}
    <3>1. S \subseteq Nat /\ S # {} BY <1>2
    <3> DEFINE R == {ss \in Nat \X Nat : ss[1] < ss[2]}
    <3>2. IsWellFoundedOn(R, Nat) BY NatLessThanWellFounded DEF OpToRel
    <3>3. R = {ss \in Nat \X Nat : ss[1] < ss[2]} OBVIOUS
    <3>4. S = {n \in 1..Len(q) : q[n] = c0} OBVIOUS
    <3> HIDE DEF R, S
    <3>5. PICK n \in S : \A m \in S : ~(<<m, n>> \in R) BY <3>1, <3>2, WFMin
    <3>6. \A m \in S : ~(m < n) BY <3>1, <3>3, <3>5
    <3>7. n \in 1..Len(q) /\ q[n] = c0 BY <3>4, <3>5
    <3>8. ASSUME NEW j \in 1..(n - 1) PROVE q[j] # c0 BY <3>4, <3>6, <3>7
    <3> QED BY <3>7, <3>8
  <2>2. first \in 1..Len(q) /\ q[first] = c0 BY <2>1
  <2> HIDE DEF first
  <2>3. /\ a \in Seq(Connections) /\ Len(a) = first - 1 /\ \A i \in 1..Len(a) : a[i] = q[i]
    BY <2>2
  <2>4. /\ b \in Seq(Connections) /\ Len(b) = Len(q) - first
        /\ \A i \in 1..Len(b) : b[i] = q[first + i]
    BY <2>2
  <2>5. WithoutFirst(q, c0) = a \o b BY <1>2 DEF WithoutFirst, first
  <2> HIDE DEF a, b
  <2>6. /\ a \o b \in Seq(Connections) /\ Len(a \o b) = Len(a) + Len(b)
        /\ \A i \in 1..Len(a) + Len(b) : (a \o b)[i] = IF i <= Len(a) THEN a[i] ELSE b[i - Len(a)]
    BY <2>3, <2>4, ConcatProperties
  <2>7. ASSUME NEW c, c # c0, Lists(q, c) PROVE Lists(a \o b, c)
    <3>1. PICK i \in 1..Len(q) : q[i] = c BY <2>7 DEF Lists
    <3>2. i # first BY <2>2, <2>7, <3>1
    <3>3. CASE i < first
      <4>1. i \in 1..Len(a) BY <2>2, <2>3, <3>3
      <4>2. i \in 1..Len(a \o b) /\ (a \o b)[i] = a[i] BY <4>1, <2>2, <2>3, <2>4, <2>6
      <4> QED BY <4>1, <4>2, <3>1, <2>3 DEF Lists
    <3>4. CASE i > first
      <4>1. i - first \in 1..Len(b) /\ first + (i - first) = i BY <2>2, <2>4, <3>4
      <4>2. b[i - first] = c BY <4>1, <2>4, <3>1
      <4>3. /\ i - 1 \in 1..Len(a \o b) /\ ~(i - 1 <= Len(a)) /\ (i - 1) - Len(a) = i - first
        BY <2>2, <2>3, <2>4, <2>6, <3>4
      <4>4. (a \o b)[i - 1] = b[i - first] BY <4>3, <2>6
      <4> QED BY <4>2, <4>3, <4>4 DEF Lists
    <3> QED BY <2>2, <3>2, <3>3, <3>4
  <2> QED BY <2>5, <2>6, <2>7
<1> QED BY <1>1, <1>2

-----------------------------------------------------------------------------
(* Types.                                                                  *)

\* What a task of the CMD thread carries.
LEMMA CmdShape ==
  ASSUME NEW t \in CmdTasks
  PROVE  /\ t.op \in MessageKinds \cup {"OnClose", "WebSocketRequest", "OnNewBidiSession",
                                        "CloseConnection"} => t.conn \in Connections
         /\ t.op = "WebSocketRequest" => t.session \in Keys
         /\ t.op \in {"OnNewBidiSession", "OnNewSessionCreated", "terminate_on_cmd",
                      "OnSessionTerminated"} => t.session \in Sessions
BY DEF CmdTasks, MessageKinds

\* The tasks that are posted to the CMD thread.
LEMMA CmdMade ==
  ASSUME NEW c \in Connections, NEW s \in Sessions, NEW ok \in BOOLEAN
  PROVE  /\ \A k \in Keys : Task("WebSocketRequest", c, k, TRUE) \in CmdTasks
         /\ \A k \in MessageKinds : Task(k, c, None, TRUE) \in CmdTasks
         /\ Task("OnClose", c, None, TRUE) \in CmdTasks
         /\ Task("OnNewBidiSession", c, s, ok) \in CmdTasks
         /\ CloseTask(c, s) \in CmdTasks
<1>1. \A k \in Keys : Task("WebSocketRequest", c, k, TRUE) \in CmdTasks BY DEF CmdTasks, Task
<1>2. \A k \in MessageKinds : Task(k, c, None, TRUE) \in CmdTasks BY DEF CmdTasks, Task
<1>3. Task("OnClose", c, None, TRUE) \in CmdTasks BY DEF CmdTasks, Task
<1>4. Task("OnNewBidiSession", c, s, ok) \in CmdTasks BY DEF CmdTasks, Task
<1>5. CloseTask(c, s) \in CmdTasks BY DEF CmdTasks, Task, CloseTask
<1> QED BY <1>1, <1>2, <1>3, <1>4, <1>5

\* The tasks of the CMD thread that name no connection.
LEMMA CmdMadeByThread ==
  ASSUME NEW s \in Sessions, NEW ok \in BOOLEAN
  PROVE  /\ Task("OnNewSessionCreated", None, s, ok) \in CmdTasks
         /\ Task("terminate_on_cmd", None, s, TRUE) \in CmdTasks
         /\ Task("OnSessionTerminated", None, s, TRUE) \in CmdTasks
<1>1. Task("OnNewSessionCreated", None, s, ok) \in CmdTasks BY DEF CmdTasks, Task
<1>2. Task("terminate_on_cmd", None, s, TRUE) \in CmdTasks BY DEF CmdTasks, Task
<1>3. Task("OnSessionTerminated", None, s, TRUE) \in CmdTasks BY DEF CmdTasks, Task
<1> QED BY <1>1, <1>2, <1>3

\* The tasks of the session threads.
LEMMA ThreadShape ==
  /\ \A t \in ThreadTasks : t.op \notin {"InitSession", "Quit"} => t.conn \in Connections
  /\ \A t \in ThreadTasks : t.conn \in Connections \cup {None}
  /\ \A c \in Connections \cup {None} : ThreadTask("InitSession", c) \in ThreadTasks
  /\ ThreadTask("Quit", None) \in ThreadTasks
  /\ \A c \in Connections : /\ ThreadTask("BidiSessionEnd", c) \in ThreadTasks
                            /\ ThreadTask("ForwardBidiCommand", c) \in ThreadTasks
                            /\ ThreadTask("AddBidiConnection", c) \in ThreadTasks
                            /\ ThreadTask("RemoveBidiConnection", c) \in ThreadTasks
<1>1. /\ \A t \in ThreadTasks : t.op \notin {"InitSession", "Quit"} => t.conn \in Connections
      /\ \A t \in ThreadTasks : t.conn \in Connections \cup {None}
  BY DEF ThreadTasks, ThreadOps
<1>2. \A c \in Connections \cup {None} : ThreadTask("InitSession", c) \in ThreadTasks
  BY DEF ThreadTasks, ThreadTask
<1>3. ThreadTask("Quit", None) \in ThreadTasks
  BY DEF ThreadTasks, ThreadTask
<1>4. \A c \in Connections : /\ ThreadTask("BidiSessionEnd", c) \in ThreadTasks
                             /\ ThreadTask("ForwardBidiCommand", c) \in ThreadTasks
  BY DEF ThreadTasks, ThreadTask, ThreadOps
<1>5. \A c \in Connections : /\ ThreadTask("AddBidiConnection", c) \in ThreadTasks
                             /\ ThreadTask("RemoveBidiConnection", c) \in ThreadTasks
  BY DEF ThreadTasks, ThreadTask, ThreadOps
<1> QED BY <1>1, <1>2, <1>3, <1>4, <1>5

\* The tasks of the I/O thread.
LEMMA IoMade ==
  \A c \in Connections : /\ IoTask("AcceptWebSocket", c) \in IoTasks
                         /\ IoTask("Reject", c) \in IoTasks
                         /\ IoTask("Close", c) \in IoTasks
BY DEF IoTasks, IoTask

\* Every task has the connection and the session that the thread which runs it needs.
LEMMA TypedInvariant == Spec => []Typed
<1>1. Init => Typed
  <2> SUFFICES ASSUME Init PROVE Typed OBVIOUS
  <2>1. /\ conn \in [Connections -> ConnStates] /\ messages \in 0..MaxMessages
        /\ ioQueue \in Seq(IoTasks) /\ cmdQueue \in Seq(CmdTasks)
    BY MessagesAssumption DEF Init, ConnStates
  <2>2. /\ connectionSession \in [Connections -> Keys \cup {None}]
        /\ bucket \in [Keys -> SUBSET Connections]
        /\ known \in SUBSET Keys /\ threadMap \in SUBSET Sessions
    BY DEF Init, Keys
  <2>3. /\ threadQueue \in [Sessions -> Seq(ThreadTasks)] /\ quitting \in SUBSET Sessions
        /\ tls \in [Sessions -> {"unset", "live", "null"}]
        /\ bidiConnections \in [Sessions -> Seq(Connections)]
        /\ dropped \in SUBSET Connections /\ orphans \in SUBSET Connections
    BY DEF Init
  <2> QED BY <2>1, <2>2, <2>3 DEF Typed
<1>2. Typed /\ [Next]_vars => Typed'
  <2> SUFFICES ASSUME Typed, [Next]_vars PROVE Typed' OBVIOUS
  <2>0. /\ cmdQueue # <<>> => Tail(cmdQueue) \in Seq(CmdTasks) /\ Head(cmdQueue) \in CmdTasks
        /\ ioQueue # <<>> => Tail(ioQueue) \in Seq(IoTasks) /\ Head(ioQueue) \in IoTasks
        /\ \A s \in Sessions : threadQueue[s] # <<>> =>
             Tail(threadQueue[s]) \in Seq(ThreadTasks) /\ Head(threadQueue[s]) \in ThreadTasks
    BY TailFacts DEF Typed
  <2>a. /\ \A t \in CmdTasks : Append(cmdQueue, t) \in Seq(CmdTasks)
        /\ \A t \in IoTasks : Append(ioQueue, t) \in Seq(IoTasks)
        /\ \A s \in Sessions : \A t \in ThreadTasks : Append(threadQueue[s], t) \in Seq(ThreadTasks)
    BY AppendFacts DEF Typed
  <2>b. ASSUME NEW s \in Sessions, NEW t \in ThreadTasks, PostToThread(s, t)
        PROVE  threadQueue' \in [Sessions -> Seq(ThreadTasks)]
    BY <2>a, <2>b DEF PostToThread, Typed
  <2>c. ASSUME NEW s \in Sessions, threadQueue[s] # <<>>, DoneTask(s)
        PROVE  threadQueue' \in [Sessions -> Seq(ThreadTasks)]
    BY <2>0, <2>c DEF DoneTask, Typed
  <2>d. ASSUME NEW c \in Connections, NEW s \in Keys, OnNewBidiSession(c, s)
        PROVE  mapVars' = mapVars' /\ bucket' \in [Keys -> SUBSET Connections]
               /\ known' \in SUBSET Keys /\ connectionSession' \in [Connections -> Keys \cup {None}]
    BY <2>d DEF OnNewBidiSession, NewBucket, Typed, Keys
  <2>e. ASSUME NEW s \in Sessions, NEW c \in Connections \cup {None}, CreateSession(s, c)
        PROVE  /\ threadMap' \in SUBSET Sessions
               /\ tls' \in [Sessions -> {"unset", "live", "null"}]
               /\ threadQueue' \in [Sessions -> Seq(ThreadTasks)]
    BY <2>b, <2>e, ThreadShape DEF CreateSession, Typed
  <2>1. ASSUME NEW c \in Connections, NEW t \in Keys, ClientConnect(c, t) PROVE Typed'
    <3>1. Task("WebSocketRequest", c, t, TRUE) \in CmdTasks BY DEF Task, CmdTasks
    <3> QED BY <2>1, <2>a, <3>1 DEF ClientConnect, Typed, ConnStates, mapVars, sessionVars, history
  <2>2. ASSUME NEW c \in Connections, NEW k \in MessageKinds, ClientMessage(c, k) PROVE Typed'
    <3>1. Task(k, c, None, TRUE) \in CmdTasks BY DEF Task, CmdTasks
    <3>2. messages' \in 0..MaxMessages
      BY <2>2, MessagesAssumption DEF ClientMessage, Typed
    <3>3. cmdQueue' \in Seq(CmdTasks) BY <2>2, <2>a, <3>1 DEF ClientMessage
    <3> QED BY <2>2, <3>2, <3>3 DEF ClientMessage, Typed, mapVars, sessionVars, history
  <2>f. ASSUME NEW c \in Connections, CloseConnection(c)
        PROVE  conn' \in [Connections -> ConnStates] /\ cmdQueue' \in Seq(CmdTasks)
    <3>1. Task("OnClose", c, None, TRUE) \in CmdTasks BY DEF Task, CmdTasks
    <3> QED BY <2>f, <2>a, <3>1 DEF CloseConnection, Typed, ConnStates
  <2>3. ASSUME NEW c \in Connections, ClientClose(c) PROVE Typed'
    BY <2>3, <2>f DEF ClientClose, Typed, mapVars, sessionVars, history
  <2>4. ASSUME NEW s \in Sessions, HttpNewSession(s) PROVE Typed'
    BY <2>4, <2>e DEF HttpNewSession, Typed, netVars, mapVars, history
  <2>5. ASSUME NEW s \in Sessions, HttpQuit(s) PROVE Typed'
    BY <2>5, <2>b, ThreadShape, MessagesAssumption DEF HttpQuit, Typed, mapVars, sessionVars, history
  <2>6. ASSUME NEW s \in Sessions, BrowserGone(s) PROVE Typed'
    BY <2>6 DEF BrowserGone, Typed, netVars, mapVars, history
  <2>7. CASE RunIoTask
    <3> DEFINE t == Head(ioQueue)
    <3>1. t \in IoTasks /\ t.conn \in Connections /\ ioQueue' \in Seq(IoTasks)
      BY <2>7, <2>0 DEF RunIoTask, IoTasks
    <3>2. conn' \in [Connections -> ConnStates] /\ cmdQueue' \in Seq(CmdTasks)
      BY <2>7, <3>1, <2>f DEF RunIoTask, Typed, ConnStates
    <3> QED BY <2>7, <3>1, <3>2 DEF RunIoTask, Typed, mapVars, sessionVars, history
  <2> DEFINE t == Head(cmdQueue)
  <2>g. \A op : CmdTask(op) => t \in CmdTasks /\ t.op = op /\ Tail(cmdQueue) \in Seq(CmdTasks)
    BY <2>0 DEF CmdTask
  <2>h. \A c \in Connections : /\ Append(ioQueue, IoTask("AcceptWebSocket", c)) \in Seq(IoTasks)
                               /\ Append(ioQueue, IoTask("Reject", c)) \in Seq(IoTasks)
                               /\ Append(ioQueue, IoTask("Close", c)) \in Seq(IoTasks)
    BY <2>a, IoMade
  <2>8. CASE UnboundRequest
    <3>1. t \in CmdTasks /\ t.conn \in Connections /\ cmdQueue' \in Seq(CmdTasks)
      BY <2>8, <2>g, CmdShape DEF UnboundRequest
    <3>2. Unbound \in Keys BY DEF Keys
    <3>3. ioQueue' \in Seq(IoTasks) BY <2>8, <3>1, <2>h DEF UnboundRequest, AcceptWebSocket
    <3>4. /\ bucket' = [bucket EXCEPT ![Unbound] = @ \cup {t.conn}]
          /\ connectionSession' = [connectionSession EXCEPT ![t.conn] = Unbound]
      BY <2>8 DEF UnboundRequest
    <3> HIDE DEF t
    <3>5. /\ bucket' \in [Keys -> SUBSET Connections]
          /\ connectionSession' \in [Connections -> Keys \cup {None}]
      BY <3>1, <3>2, <3>4 DEF Typed
    <3> QED BY <2>8, <3>1, <3>3, <3>5 DEF UnboundRequest, Typed, netVars, sessionVars, history
  <2>9. CASE AttachRequest
    <3>1. /\ t \in CmdTasks /\ t.conn \in Connections /\ t.session \in Sessions
          /\ cmdQueue' \in Seq(CmdTasks)
      BY <2>9, <2>g, CmdShape DEF AttachRequest, Keys
    <3>2. ioQueue' \in Seq(IoTasks)
      BY <2>9, <3>1, <2>h DEF AttachRequest, AcceptWebSocket
    <3>3. threadQueue' \in [Sessions -> Seq(ThreadTasks)]
      BY <2>9, <3>1, <2>b, ThreadShape DEF AttachRequest, PostAddBidiConnection, Typed
    <3>4. /\ bucket' \in [Keys -> SUBSET Connections]
          /\ connectionSession' \in [Connections -> Keys \cup {None}]
      <4>1. CASE UNCHANGED <<bucket, connectionSession>>
        BY <4>1 DEF Typed
      <4>2. CASE /\ bucket' = [bucket EXCEPT ![t.session] = @ \cup {t.conn}]
                 /\ connectionSession' = [connectionSession EXCEPT ![t.conn] = t.session]
        BY <3>1, <4>2 DEF Typed, Keys
      <4> QED BY <2>9, <4>1, <4>2 DEF AttachRequest
    <3> QED BY <2>9, <3>1, <3>2, <3>3, <3>4 DEF AttachRequest, Typed, netVars, sessionVars, history
  <2>10. CASE RefuseMessage
    BY <2>10, <2>0 DEF RefuseMessage, Typed, netVars, mapVars, sessionVars, history
  <2>11. CASE NewSessionMessage
    <3>1. t \in CmdTasks /\ t.conn \in Connections /\ cmdQueue' \in Seq(CmdTasks)
      BY <2>11, <2>g, CmdShape DEF NewSessionMessage, MessageKinds
    <3>2. CASE (\E s \in Sessions : CreateSession(s, t.conn)) /\ UNCHANGED mapVars
      <4>1. PICK s \in Sessions : CreateSession(s, t.conn) BY <3>2
      <4> QED BY <2>11, <3>1, <3>2, <4>1, <2>e
              DEF NewSessionMessage, Typed, netVars, mapVars, history
    <3>3. CASE OnNewBidiSession(t.conn, Unbound) /\ UNCHANGED <<threadMap, tls, threadQueue>>
      <4>1. Unbound \in Keys BY DEF Keys
      <4> QED BY <2>11, <3>1, <3>3, <4>1, <2>d DEF NewSessionMessage, Typed, netVars, history
    <3> QED BY <2>11, <3>2, <3>3 DEF NewSessionMessage
  <2>i. ASSUME NEW c \in Connections, NEW s \in Sessions, OnNewBidiSession(c, s),
               IF s \in threadMap THEN PostAddBidiConnection(s, c) ELSE UNCHANGED threadQueue,
               cmdQueue' \in Seq(CmdTasks),
               UNCHANGED <<netVars, ioQueue, threadMap, sessionVars, history>>
        PROVE  Typed'
    <3>1. threadQueue' \in [Sessions -> Seq(ThreadTasks)]
      BY <2>i, <2>b, ThreadShape DEF PostAddBidiConnection, Typed
    <3>2. s \in Keys BY DEF Keys
    <3> QED BY <2>i, <3>1, <3>2, <2>d DEF Typed, netVars, sessionVars, history
  <2>12. CASE SessionAlreadyExists
    <3>1. t \in CmdTasks /\ t.conn \in Connections /\ cmdQueue' \in Seq(CmdTasks)
      BY <2>12, <2>g, CmdShape DEF SessionAlreadyExists, MessageKinds
    <3> QED BY <2>12, <3>1, <2>i DEF SessionAlreadyExists
  <2>13. CASE SessionMessage
    <3>1. t \in CmdTasks /\ t.conn \in Connections /\ cmdQueue' \in Seq(CmdTasks)
      BY <2>13, <2>0, CmdShape DEF SessionMessage, MessageKinds
    <3>2. connectionSession[t.conn] \in Sessions
      BY <2>13 DEF SessionMessage, Typed
    <3>3. threadQueue' \in [Sessions -> Seq(ThreadTasks)]
      BY <2>13, <3>1, <3>2, <2>b, ThreadShape DEF SessionMessage
    <3> QED BY <2>13, <3>1, <3>3 DEF SessionMessage, Typed, netVars, mapVars, sessionVars, history
  <2>14. CASE OnNewSessionCreated
    <3>1. t \in CmdTasks /\ t.session \in Sessions /\ cmdQueue' \in Seq(CmdTasks)
      BY <2>14, <2>g, CmdShape DEF OnNewSessionCreated
    <3> QED BY <2>14, <3>1 DEF OnNewSessionCreated, Typed, Keys, netVars, sessionVars, history
  <2>15. CASE OnNewBidiSessionOnCmdThread
    <3>1. t \in CmdTasks /\ t.conn \in Connections /\ t.session \in Sessions /\ cmdQueue' \in Seq(CmdTasks)
      BY <2>15, <2>g, CmdShape DEF OnNewBidiSessionOnCmdThread
    <3> QED BY <2>15, <3>1, <2>i DEF OnNewBidiSessionOnCmdThread
  <2>16. CASE CloseConnectionOnCommandThread
    <3>1. t \in CmdTasks /\ t.conn \in Connections /\ cmdQueue' \in Seq(CmdTasks)
      BY <2>16, <2>g, CmdShape DEF CloseConnectionOnCommandThread
    <3> QED BY <2>16, <3>1, <2>h
            DEF CloseConnectionOnCommandThread, Typed, netVars, mapVars, sessionVars, history
  <2>17. CASE OnClose
    <3> DEFINE s == connectionSession[t.conn]
    <3>1. t \in CmdTasks /\ t.conn \in Connections /\ cmdQueue' \in Seq(CmdTasks)
      BY <2>17, <2>g, CmdShape DEF OnClose
    <3>2. threadQueue' \in [Sessions -> Seq(ThreadTasks)]
      BY <2>17, <3>1, <2>b, ThreadShape DEF OnClose, Typed
    <3>3. /\ bucket' \in [Keys -> SUBSET Connections] /\ known' \in SUBSET Keys
          /\ connectionSession' \in [Connections -> Keys \cup {None}]
      <4>1. CASE UNCHANGED mapVars
        BY <4>1 DEF Typed, mapVars
      <4>2. CASE /\ s \in known /\ UNCHANGED known
                 /\ bucket' = [bucket EXCEPT ![s] = @ \ {t.conn}]
                 /\ connectionSession' = [connectionSession EXCEPT ![t.conn] = None]
        BY <3>1, <4>2 DEF Typed
      <4> QED BY <2>17, <4>1, <4>2 DEF OnClose, mapVars
    <3> QED BY <2>17, <3>1, <3>2, <3>3 DEF OnClose, Typed, netVars, sessionVars, history
  <2>18. CASE TerminateOnCmd
    <3>1. t \in CmdTasks /\ t.session \in Sessions /\ Tail(cmdQueue) \in Seq(CmdTasks)
      BY <2>18, <2>g, CmdShape DEF TerminateOnCmd
    <3>2. Task("OnSessionTerminated", None, t.session, TRUE) \in CmdTasks
      BY <3>1, CmdMadeByThread
    <3>3. cmdQueue' \in Seq(CmdTasks) BY <2>18, <3>1, <3>2, AppendFacts DEF TerminateOnCmd
    <3> QED BY <2>18, <3>3 DEF TerminateOnCmd, Typed, netVars, mapVars, sessionVars, history
  <2>19. CASE OnSessionTerminated
    <3>1. t \in CmdTasks /\ t.session \in Sessions /\ cmdQueue' \in Seq(CmdTasks)
      BY <2>19, <2>g, CmdShape DEF OnSessionTerminated
    <3> QED BY <2>19, <3>1 DEF OnSessionTerminated, Typed, Keys, netVars, sessionVars, history
  <2>20. ASSUME NEW s \in Sessions, InitSession(s) PROVE Typed'
    <3> DEFINE c == Head(threadQueue[s]).conn
    <3>1. threadQueue[s] # <<>> /\ c \in Connections \cup {None}
      BY <2>20, <2>0, ThreadShape DEF InitSession, RunsTask
    <3>2. PICK ok \in BOOLEAN :
            /\ cmdQueue' = Append(cmdQueue, Task(IF c = None THEN "OnNewSessionCreated"
                                                 ELSE "OnNewBidiSession", c, s, ok))
            /\ quitting' = IF ok THEN quitting ELSE quitting \cup {s}
      BY <2>20 DEF InitSession
    <3>3. Task(IF c = None THEN "OnNewSessionCreated" ELSE "OnNewBidiSession", c, s, ok) \in CmdTasks
      BY <3>1, CmdMade, CmdMadeByThread
    <3>4. cmdQueue' \in Seq(CmdTasks) /\ quitting' \in SUBSET Sessions
      BY <3>2, <3>3, <2>a DEF Typed
    <3> QED BY <2>20, <3>1, <3>4, <2>c DEF InitSession, Typed, netVars, mapVars, history
  <2>21. ASSUME NEW s \in Sessions, SessionCommand(s) PROVE Typed'
    BY <2>21, <2>c DEF SessionCommand, RunsTask, Typed, netVars, mapVars, history
  <2>22. ASSUME NEW s \in Sessions, Terminate(s) PROVE Typed'
    <3> DEFINE n == Len(bidiConnections[s])
    <3>1. bidiConnections[s] \in Seq(Connections) /\ n \in Nat
          /\ \A i \in 1..n : bidiConnections[s][i] \in Connections
      BY DEF Typed
    <3>2. \A i \in 1..n : CloseTask(bidiConnections[s][i], s) \in CmdTasks
      BY <3>1, CmdMade
    <3>3. Closes(s) \in Seq(CmdTasks)
      BY <3>1, <3>2, FunctionIsSeq DEF Closes
    <3>4. cmdQueue \o Closes(s) \in Seq(CmdTasks)
      BY <3>3, ConcatProperties DEF Typed
    <3>5. <<Task("terminate_on_cmd", None, s, TRUE)>> \in Seq(CmdTasks)
      <4>1. \A e \in CmdTasks : <<e>> \in Seq(CmdTasks) OBVIOUS
      <4>2. Task("terminate_on_cmd", None, s, TRUE) \in CmdTasks BY CmdMadeByThread
      <4> QED BY <4>1, <4>2
    <3>6. cmdQueue' \in Seq(CmdTasks)
      BY <2>22, <3>4, <3>5, ConcatProperties DEF Terminate
    <3>7. dropped' \in SUBSET Connections
      BY <2>22, <3>1 DEF Terminate, Typed
    <3>8. /\ bidiConnections' \in [Sessions -> Seq(Connections)] /\ quitting' \in SUBSET Sessions
          /\ tls' \in [Sessions -> {"unset", "live", "null"}]
      BY <2>22 DEF Terminate, Typed
    <3> QED BY <2>22, <3>6, <3>7, <3>8 DEF Terminate, Typed, netVars, mapVars
  <2>23. ASSUME NEW s \in Sessions, AddBidiConnection(s) PROVE Typed'
    <3> DEFINE c == Head(threadQueue[s]).conn
    <3>1. threadQueue[s] # <<>> /\ c \in Connections
      BY <2>23, <2>0, ThreadShape DEF AddBidiConnection, RunsTask
    <3>2. bidiConnections[s] \in Seq(Connections) /\ Append(bidiConnections[s], c) \in Seq(Connections)
      BY <3>1, AppendFacts DEF Typed
    <3>3. bidiConnections' \in [Sessions -> Seq(Connections)] /\ orphans' \in SUBSET Connections
      BY <2>23, <3>1, <3>2 DEF AddBidiConnection, Typed
    <3> QED BY <2>23, <3>1, <3>3, <2>c DEF AddBidiConnection, Typed, netVars, mapVars
  <2>24. ASSUME NEW s \in Sessions, RemoveBidiConnection(s) PROVE Typed'
    <3> DEFINE c == Head(threadQueue[s]).conn
    <3>1. threadQueue[s] # <<>>
      BY <2>24 DEF RemoveBidiConnection, RunsTask
    <3>2. WithoutFirst(bidiConnections[s], c) \in Seq(Connections)
      BY ListRemove DEF Typed
    <3>3. bidiConnections' \in [Sessions -> Seq(Connections)]
      BY <2>24, <3>2 DEF RemoveBidiConnection, Typed
    <3> QED BY <2>24, <3>1, <3>3, <2>c DEF RemoveBidiConnection, Typed, netVars, mapVars, history
  <2>25. CASE UNCHANGED vars
    BY <2>25 DEF vars, Typed, netVars, mapVars, sessionVars, history
  <2> QED BY <2>1, <2>2, <2>3, <2>4, <2>5, <2>6, <2>7, <2>8, <2>9, <2>10, <2>11, <2>12, <2>13,
             <2>14, <2>15, <2>16, <2>17, <2>18, <2>19, <2>20, <2>21, <2>22, <2>23, <2>24, <2>25
          DEF Next, ClientSteps, CmdSteps, ThreadSteps
<1> QED BY <1>1, <1>2, PTL DEF Spec

\* The type invariant.
THEOREM TypeCorrect == Spec => []TypeOK
<1>1. CmdTasks \subseteq [op : CmdOps, conn : Connections \cup {None},
                          session : Keys \cup {None}, ok : BOOLEAN]
  BY DEF CmdTasks, CmdOps, Keys
<1>2. ThreadTasks \subseteq [op : ThreadOps, conn : Connections \cup {None}]
  BY DEF ThreadTasks, ThreadOps
<1>3. \A S, T : S \subseteq T => Seq(S) \subseteq Seq(T)
  OBVIOUS
<1>4. Typed => TypeOK
  <2>1. Seq(CmdTasks) \subseteq Seq([op : CmdOps, conn : Connections \cup {None},
                                     session : Keys \cup {None}, ok : BOOLEAN])
    BY <1>1, <1>3
  <2>2. Seq(ThreadTasks) \subseteq Seq([op : ThreadOps, conn : Connections \cup {None}])
    BY <1>2, <1>3
  <2> QED BY <2>1, <2>2 DEF Typed, TypeOK, IoTasks
<1> QED BY <1>4, TypedInvariant, PTL

-----------------------------------------------------------------------------
(* The bookkeeping.                                                        *)

\* A queue that holds InitSession has it first.
LEMMA InitAtHead ==
  ASSUME NEW q \in Seq(ThreadTasks), InitFirst(q), Inits(q)
  PROVE  q # <<>> /\ Head(q).op = "InitSession"
<1>1. PICK i \in 1..Len(q) : q[i].op = "InitSession" BY DEF Inits
<1>2. i = 1 BY <1>1 DEF InitFirst
<1> QED BY <1>1, <1>2

\* Steps that only post to the CMD thread, or take from it, what announces nothing.
LEMMA PlainCmdStep ==
  ASSUME Typed, Bookkeeping, Orderly(cmdQueue'),
         \A s : Ends(cmdQueue', s) <=> Ends(cmdQueue, s),
         \A s : Creates(cmdQueue', s) <=> Creates(cmdQueue, s),
         \A c : Asks(cmdQueue', c) => Asks(cmdQueue, c),
         \A c : Shuts(cmdQueue', c) => Shuts(cmdQueue, c),
         UNCHANGED <<conn, connectionSession, bucket, known, threadMap, threadQueue, quitting, tls,
                     bidiConnections>>
  PROVE  Bookkeeping'
<1>1. \A s \in Sessions : Lifecycle(s)' BY DEF Bookkeeping, Lifecycle
<1>2. \A s \in Sessions : Announced(s)' BY DEF Bookkeeping, Announced
<1>3. \A c \in Connections : Closing(c)' BY DEF Bookkeeping, Closing
<1>4. \A c \in Connections, s \in Sessions : Bound(c, s)' BY DEF Bookkeeping, Bound
<1> QED BY <1>1, <1>2, <1>3, <1>4 DEF Bookkeeping

\* A session thread gets a task that is neither InitSession nor a removal.
LEMMA PlainPost ==
  ASSUME Typed, NEW s \in Sessions, NEW t \in ThreadTasks, PostToThread(s, t),
         t.op \notin {"InitSession", "RemoveBidiConnection"}
  PROVE  /\ \A r \in Sessions : /\ InitFirst(threadQueue[r]) => InitFirst(threadQueue'[r])
                                /\ Inits(threadQueue'[r]) <=> Inits(threadQueue[r])
                                /\ r # s => threadQueue'[r] = threadQueue[r]
         /\ \A r \in Sessions, c \in Connections :
              /\ Removes(threadQueue'[r], c) <=> Removes(threadQueue[r], c)
              /\ Adds(threadQueue[r], c) => Adds(threadQueue'[r], c)
         /\ \A c : t.op = "AddBidiConnection" /\ t.conn = c => Adds(threadQueue'[s], c)
<1>1. threadQueue[s] \in Seq(ThreadTasks) BY DEF Typed
<1>2. threadQueue'[s] = Append(threadQueue[s], t)
      /\ \A r \in Sessions : r # s => threadQueue'[r] = threadQueue[r]
  BY DEF Typed, PostToThread
<1>3. /\ InitFirst(threadQueue[s]) => InitFirst(threadQueue'[s])
      /\ Inits(threadQueue'[s]) <=> Inits(threadQueue[s])
  BY <1>1, <1>2, ThreadAppend
<1>4. \A c : /\ Removes(threadQueue'[s], c) <=> Removes(threadQueue[s], c)
             /\ Adds(threadQueue'[s], c) <=> Adds(threadQueue[s], c)
                                             \/ (t.op = "AddBidiConnection" /\ t.conn = c)
  BY <1>1, <1>2, ThreadAppend
<1> QED BY <1>2, <1>3, <1>4

\* A session thread takes a task.
LEMMA PlainDone ==
  ASSUME Typed, NEW s \in Sessions, threadQueue[s] # <<>>, DoneTask(s), InitFirst(threadQueue[s])
  PROVE  /\ \A r \in Sessions : /\ InitFirst(threadQueue[r]) => InitFirst(threadQueue'[r])
                                /\ Inits(threadQueue'[r]) => Inits(threadQueue[r])
                                /\ r # s => threadQueue'[r] = threadQueue[r]
         /\ ~Inits(threadQueue'[s])
         /\ \A r \in Sessions, c \in Connections :
              /\ Removes(threadQueue'[r], c) => Removes(threadQueue[r], c)
              /\ Adds(threadQueue[r], c) =>
                   \/ Adds(threadQueue'[r], c)
                   \/ r = s /\ Head(threadQueue[s]).op = "AddBidiConnection"
                            /\ Head(threadQueue[s]).conn = c
<1>1. threadQueue[s] \in Seq(ThreadTasks) BY DEF Typed
<1>2. threadQueue'[s] = Tail(threadQueue[s])
      /\ \A r \in Sessions : r # s => threadQueue'[r] = threadQueue[r]
  BY DEF Typed, DoneTask
<1>3. InitFirst(threadQueue'[s]) /\ ~Inits(threadQueue'[s])
  BY <1>1, <1>2, ThreadTail
<1>4. \A c : /\ Removes(threadQueue'[s], c) => Removes(threadQueue[s], c)
             /\ Adds(threadQueue[s], c) => Adds(threadQueue'[s], c)
                  \/ (Head(threadQueue[s]).op = "AddBidiConnection" /\ Head(threadQueue[s]).conn = c)
  BY <1>1, <1>2, ThreadTail
<1> QED BY <1>2, <1>3, <1>4

\* The thread of a new session starts with InitSession.
LEMMA CreateStep ==
  ASSUME Typed, Bookkeeping, NEW s \in Sessions, NEW c \in Connections \cup {None},
         CreateSession(s, c), Orderly(cmdQueue'),
         \A r : Ends(cmdQueue', r) <=> Ends(cmdQueue, r),
         \A r : Creates(cmdQueue', r) <=> Creates(cmdQueue, r),
         \A x : Asks(cmdQueue', x) => Asks(cmdQueue, x),
         \A x : Shuts(cmdQueue', x) => Shuts(cmdQueue, x),
         UNCHANGED <<conn, connectionSession, bucket, known, quitting, bidiConnections>>
  PROVE  Bookkeeping'
<1> DEFINE t == ThreadTask("InitSession", c)
<1>1. t \in ThreadTasks /\ t.op = "InitSession"
  BY ThreadShape DEF ThreadTask
<1> HIDE DEF t
<1>2. /\ s \notin threadMap /\ tls[s] = "unset" /\ threadMap' = threadMap \cup {s}
      /\ tls' = [tls EXCEPT ![s] = "live"]
      /\ threadQueue' = [threadQueue EXCEPT ![s] = Append(@, t)]
  BY DEF CreateSession, PostToThread, t
<1>3. tls'[s] = "live" /\ \A r \in Sessions : r # s => tls'[r] = tls[r]
  BY <1>2 DEF Typed
<1>4. /\ threadQueue[s] = <<>> /\ s \notin known /\ s \notin quitting /\ ~Ends(cmdQueue, s)
      /\ ~Creates(cmdQueue, s)
  BY <1>2 DEF Bookkeeping, Lifecycle, Announced
<1>5. /\ threadQueue'[s] = Append(threadQueue[s], t)
      /\ \A r \in Sessions : r # s => threadQueue'[r] = threadQueue[r]
  BY <1>2 DEF Typed
<1>6. threadQueue[s] \in Seq(ThreadTasks) BY DEF Typed
<1>7. InitFirst(threadQueue[s]) BY DEF Bookkeeping, Announced
<1>8. InitFirst(threadQueue'[s])
  BY <1>1, <1>4, <1>5, <1>6, <1>7, ThreadAppend
<1>9. \A x : ~Removes(threadQueue[s], x) BY <1>4 DEF Removes
<1>10. \A x : ~Removes(threadQueue'[s], x)
  BY <1>1, <1>5, <1>6, <1>9, ThreadAppend
<1>11. \A r \in Sessions : Lifecycle(r)'
  BY <1>2, <1>3, <1>4, <1>5 DEF Bookkeeping, Lifecycle
<1>12. \A r \in Sessions : Announced(r)'
  <2>1. Announced(s)' BY <1>2, <1>3, <1>4, <1>8, <1>10 DEF Announced
  <2>2. \A r \in Sessions : r # s => Announced(r)'
    BY <1>2, <1>3, <1>5 DEF Bookkeeping, Announced
  <2> QED BY <2>1, <2>2
<1>13. \A x \in Connections : Closing(x)'
  BY <1>5, <1>10 DEF Bookkeeping, Closing
<1>14. \A x \in Connections, r \in Sessions : Bound(x, r)'
  BY <1>2, <1>3, <1>5 DEF Bookkeeping, Bound
<1> QED BY <1>11, <1>12, <1>13, <1>14 DEF Bookkeeping

\* A task that is neither an event of a session nor of a connection.
Plain(t) ==
  ~Ending(t) /\ ~Creating(t) /\ t.op # "WebSocketRequest" /\ t.op # "OnClose"

\* The CMD thread takes such a task.
LEMMA PlainHead ==
  ASSUME Typed, Bookkeeping, cmdQueue # <<>>, Plain(Head(cmdQueue)), cmdQueue' = Tail(cmdQueue)
  PROVE  /\ Orderly(cmdQueue')
         /\ \A s : Ends(cmdQueue', s) <=> Ends(cmdQueue, s)
         /\ \A s : Creates(cmdQueue', s) <=> Creates(cmdQueue, s)
         /\ \A c : Asks(cmdQueue', c) <=> Asks(cmdQueue, c)
         /\ \A c : Shuts(cmdQueue', c) <=> Shuts(cmdQueue, c)
BY CmdTail DEF Typed, Bookkeeping, Plain

\* Nothing but the tasks of one session thread changes, and none is InitSession or a removal.
LEMMA PlainThreadStep ==
  ASSUME Typed, Bookkeeping, NEW s \in Sessions, NEW t \in ThreadTasks, PostToThread(s, t),
         t.op \notin {"InitSession", "RemoveBidiConnection"}, s \in threadMap, Orderly(cmdQueue'),
         \A r : Ends(cmdQueue', r) <=> Ends(cmdQueue, r),
         \A r : Creates(cmdQueue', r) <=> Creates(cmdQueue, r),
         \A x : Asks(cmdQueue', x) => Asks(cmdQueue, x),
         \A x : Shuts(cmdQueue', x) => Shuts(cmdQueue, x),
         UNCHANGED <<conn, connectionSession, bucket, known, threadMap, quitting, tls,
                     bidiConnections>>
  PROVE  Bookkeeping'
<1>1. /\ \A r \in Sessions : /\ InitFirst(threadQueue[r]) => InitFirst(threadQueue'[r])
                             /\ Inits(threadQueue'[r]) <=> Inits(threadQueue[r])
                             /\ r # s => threadQueue'[r] = threadQueue[r]
      /\ \A r \in Sessions, c \in Connections :
           /\ Removes(threadQueue'[r], c) <=> Removes(threadQueue[r], c)
           /\ Adds(threadQueue[r], c) => Adds(threadQueue'[r], c)
  BY PlainPost
<1>2. \A r \in Sessions : Lifecycle(r)' BY <1>1 DEF Bookkeeping, Lifecycle
<1>3. \A r \in Sessions : Announced(r)' BY <1>1 DEF Bookkeeping, Announced
<1>4. \A c \in Connections : Closing(c)' BY <1>1 DEF Bookkeeping, Closing
<1>5. \A c \in Connections, r \in Sessions : Bound(c, r)' BY <1>1 DEF Bookkeeping, Bound
<1> QED BY <1>2, <1>3, <1>4, <1>5 DEF Bookkeeping

\* A connection closes, whoever closes it.
LEMMA CloseStep ==
  ASSUME Typed, Bookkeeping, NEW c \in Connections, conn[c] # "closed", CloseConnection(c),
         UNCHANGED <<connectionSession, bucket, known, threadMap, threadQueue, quitting, tls,
                     bidiConnections>>
  PROVE  Bookkeeping'
<1> DEFINE e == Task("OnClose", c, None, TRUE)
<1>1. /\ e \in CmdTasks /\ e.op = "OnClose" /\ e.conn = c /\ ~Ending(e) /\ ~Creating(e)
  BY DEF Task, CmdTasks, Ending, Creating
<1>2. cmdQueue' = Append(cmdQueue, e) BY DEF CloseConnection
<1>3. conn'[c] = "closed" /\ \A x \in Connections : x # c => conn'[x] = conn[x]
  BY DEF CloseConnection, Typed
<1> HIDE DEF e
<1>4. ~Shuts(cmdQueue, c) /\ \A s \in Sessions : ~Removes(threadQueue[s], c)
  BY DEF Bookkeeping, Closing
<1>5. cmdQueue \in Seq(CmdTasks) /\ Orderly(cmdQueue) BY DEF Typed, Bookkeeping
<1>6. /\ Orderly(cmdQueue')
      /\ \A s : Ends(cmdQueue', s) <=> Ends(cmdQueue, s)
      /\ \A s : Creates(cmdQueue', s) <=> Creates(cmdQueue, s)
      /\ \A x : Asks(cmdQueue', x) <=> Asks(cmdQueue, x)
      /\ \A x : Shuts(cmdQueue', x) <=> Shuts(cmdQueue, x) \/ x = c
  BY <1>1, <1>2, <1>4, <1>5, CmdAppend
<1>7. \A s \in Sessions : Lifecycle(s)' BY <1>6 DEF Bookkeeping, Lifecycle
<1>8. \A s \in Sessions : Announced(s)' BY <1>6 DEF Bookkeeping, Announced
<1>9. \A x \in Connections : Closing(x)' BY <1>3, <1>4, <1>6 DEF Bookkeeping, Closing
<1>10. \A x \in Connections, s \in Sessions : Bound(x, s)' BY DEF Bookkeeping, Bound
<1> QED BY <1>6, <1>7, <1>8, <1>9, <1>10 DEF Bookkeeping

\* The steps of the clients and of the I/O thread.
LEMMA ClientsKeepBooks ==
  ASSUME Typed, Bookkeeping, ClientSteps \/ RunIoTask
  PROVE  Bookkeeping'
<1>0. cmdQueue \in Seq(CmdTasks) /\ Orderly(cmdQueue) BY DEF Typed, Bookkeeping
<1>1. ASSUME NEW c \in Connections, NEW k \in Keys, ClientConnect(c, k) PROVE Bookkeeping'
  <2> DEFINE e == Task("WebSocketRequest", c, k, TRUE)
  <2>1. /\ e \in CmdTasks /\ e.op = "WebSocketRequest" /\ e.conn = c /\ ~Ending(e) /\ ~Creating(e)
    BY DEF Task, CmdTasks, Ending, Creating
  <2>2. cmdQueue' = Append(cmdQueue, e) BY <1>1 DEF ClientConnect
  <2>3. /\ conn[c] = "none" /\ conn'[c] = "requested"
        /\ \A x \in Connections : x # c => conn'[x] = conn[x]
    BY <1>1 DEF ClientConnect, Typed
  <2> HIDE DEF e
  <2>4. /\ ~Shuts(cmdQueue, c) /\ ~Asks(cmdQueue, c)
        /\ \A s \in Sessions : ~Removes(threadQueue[s], c)
    BY <2>3 DEF Bookkeeping, Closing
  <2>5. /\ Orderly(cmdQueue')
        /\ \A s : Ends(cmdQueue', s) <=> Ends(cmdQueue, s)
        /\ \A s : Creates(cmdQueue', s) <=> Creates(cmdQueue, s)
        /\ \A x : Asks(cmdQueue', x) <=> Asks(cmdQueue, x) \/ x = c
        /\ \A x : Shuts(cmdQueue', x) <=> Shuts(cmdQueue, x)
    BY <1>0, <2>1, <2>2, <2>4, CmdAppend
  <2>6. UNCHANGED <<connectionSession, bucket, known, threadMap, threadQueue, quitting, tls,
                    bidiConnections>>
    BY <1>1 DEF ClientConnect, mapVars, sessionVars
  <2>7. \A s \in Sessions : Lifecycle(s)' BY <2>5, <2>6 DEF Bookkeeping, Lifecycle
  <2>8. \A s \in Sessions : Announced(s)' BY <2>5, <2>6 DEF Bookkeeping, Announced
  <2>9. \A x \in Connections : Closing(x)'
    BY <2>3, <2>4, <2>5, <2>6 DEF Bookkeeping, Closing
  <2>10. \A x \in Connections, s \in Sessions : Bound(x, s)' BY <2>6 DEF Bookkeeping, Bound
  <2> QED BY <2>5, <2>7, <2>8, <2>9, <2>10 DEF Bookkeeping
<1>2. ASSUME NEW c \in Connections, NEW k \in MessageKinds, ClientMessage(c, k) PROVE Bookkeeping'
  <2> DEFINE e == Task(k, c, None, TRUE)
  <2>1. e \in CmdTasks /\ e.op \in MessageKinds
    BY DEF Task, CmdTasks
  <2>2. cmdQueue' = Append(cmdQueue, e) BY <1>2 DEF ClientMessage
  <2> HIDE DEF e
  <2>3. /\ ~Ending(e) /\ ~Creating(e) /\ e.op # "WebSocketRequest" /\ e.op # "OnClose"
    BY <2>1 DEF Ending, Creating, MessageKinds
  <2>4. /\ Orderly(cmdQueue')
        /\ \A s : Ends(cmdQueue', s) <=> Ends(cmdQueue, s)
        /\ \A s : Creates(cmdQueue', s) <=> Creates(cmdQueue, s)
        /\ \A x : Asks(cmdQueue', x) <=> Asks(cmdQueue, x)
        /\ \A x : Shuts(cmdQueue', x) <=> Shuts(cmdQueue, x)
    BY <1>0, <2>1, <2>2, <2>3, CmdAppend
  <2>5. UNCHANGED <<conn, connectionSession, bucket, known, threadMap, threadQueue, quitting, tls,
                    bidiConnections>>
    BY <1>2 DEF ClientMessage, mapVars, sessionVars
  <2> QED BY <2>4, <2>5, PlainCmdStep
<1>3. ASSUME NEW c \in Connections, ClientClose(c) PROVE Bookkeeping'
  BY <1>3, CloseStep DEF ClientClose, mapVars, sessionVars
<1>4. ASSUME NEW s \in Sessions, HttpNewSession(s) PROVE Bookkeeping'
  BY <1>0, <1>4, CreateStep DEF HttpNewSession, netVars, mapVars
<1>5. ASSUME NEW s \in Sessions, HttpQuit(s) PROVE Bookkeeping'
  <2>1. /\ ThreadTask("Quit", None) \in ThreadTasks
        /\ ThreadTask("Quit", None).op \notin {"InitSession", "RemoveBidiConnection"}
    BY ThreadShape DEF ThreadTask
  <2> QED BY <1>0, <1>5, <2>1, PlainThreadStep DEF HttpQuit, mapVars, sessionVars
<1>6. ASSUME NEW s \in Sessions, BrowserGone(s) PROVE Bookkeeping'
  <2>1. /\ tls[s] = "live" /\ s \notin quitting /\ quitting' = quitting \cup {s}
        /\ UNCHANGED <<conn, cmdQueue, connectionSession, bucket, known, threadMap, threadQueue,
                       tls, bidiConnections>>
    BY <1>6 DEF BrowserGone, netVars, mapVars
  <2>2. ~(threadQueue[s] # <<>> /\ Head(threadQueue[s]).op = "InitSession")
    BY <1>6, <2>1 DEF BrowserGone, RunsTask
  <2>3. threadQueue[s] \in Seq(ThreadTasks) /\ InitFirst(threadQueue[s])
    BY DEF Typed, Bookkeeping, Announced
  <2>4. ~Inits(threadQueue[s]) BY <2>2, <2>3, InitAtHead
  <2>5. \A r \in Sessions : Lifecycle(r)' BY <2>1 DEF Bookkeeping, Lifecycle
  <2>6. \A r \in Sessions : Announced(r)' BY <2>1, <2>4 DEF Bookkeeping, Announced
  <2>7. \A c \in Connections : Closing(c)' BY <2>1 DEF Bookkeeping, Closing
  <2>8. \A c \in Connections, r \in Sessions : Bound(c, r)' BY <2>1 DEF Bookkeeping, Bound
  <2> QED BY <2>1, <2>5, <2>6, <2>7, <2>8 DEF Bookkeeping
<1>7. CASE RunIoTask
  <2> DEFINE c == Head(ioQueue).conn
  <2>1. Head(ioQueue) \in IoTasks BY <1>7, TailFacts DEF RunIoTask, Typed
  <2>2. c \in Connections BY <2>1 DEF IoTasks
  <2>3. UNCHANGED <<connectionSession, bucket, known, threadMap, threadQueue, quitting, tls,
                    bidiConnections>>
    BY <1>7 DEF RunIoTask, mapVars, sessionVars
  <2> HIDE DEF c
  <2>4. CASE conn[c] # "closed" /\ CloseConnection(c)
    BY <2>2, <2>3, <2>4, CloseStep
  <2>5. CASE /\ conn[c] = "requested" /\ UNCHANGED cmdQueue
             /\ \E st \in {"open", "rejected"} : conn' = [conn EXCEPT ![c] = st]
    <3>1. conn'[c] \notin {"none", "closed"} /\ \A x \in Connections : x # c => conn'[x] = conn[x]
      BY <2>2, <2>5 DEF Typed
    <3>2. \A s \in Sessions : Lifecycle(s)' BY <2>3, <2>5 DEF Bookkeeping, Lifecycle
    <3>3. \A s \in Sessions : Announced(s)' BY <2>3, <2>5 DEF Bookkeeping, Announced
    <3>4. \A x \in Connections : Closing(x)' BY <2>3, <2>5, <3>1 DEF Bookkeeping, Closing
    <3>5. \A x \in Connections, s \in Sessions : Bound(x, s)' BY <2>3 DEF Bookkeeping, Bound
    <3> QED BY <1>0, <2>5, <3>2, <3>3, <3>4, <3>5 DEF Bookkeeping
  <2>6. CASE UNCHANGED <<conn, cmdQueue>>
    BY <1>0, <2>3, <2>6, PlainCmdStep
  <2> QED BY <1>7, <2>4, <2>5, <2>6 DEF RunIoTask, c
<1> QED BY <1>1, <1>2, <1>3, <1>4, <1>5, <1>6, <1>7 DEF ClientSteps

\* OnNewBidiSession and the post to the session thread that follows it, for a session
\* that is announced just now or has been.
LEMMA BindStep ==
  ASSUME Typed, Bookkeeping, NEW c \in Connections, NEW s \in Sessions, OnNewBidiSession(c, s),
         IF s \in threadMap THEN PostAddBidiConnection(s, c) ELSE UNCHANGED threadQueue,
         tls[s] # "unset",
         tls[s] = "live" => ~Removes(threadQueue[s], c),
         \/ s \in threadMap /\ s \notin known
         \/ connectionSession[c] = s,
         ~Inits(threadQueue[s]), ~Creates(cmdQueue', s), Orderly(cmdQueue'),
         \A r : Ends(cmdQueue', r) <=> Ends(cmdQueue, r),
         \A r : Creates(cmdQueue', r) => Creates(cmdQueue, r),
         \A x : Asks(cmdQueue', x) => Asks(cmdQueue, x),
         \A x : Shuts(cmdQueue', x) => Shuts(cmdQueue, x),
         UNCHANGED <<conn, threadMap, quitting, tls, bidiConnections>>
  PROVE  Bookkeeping'
<1> DEFINE t == ThreadTask("AddBidiConnection", c)
<1>1. t \in ThreadTasks /\ t.op = "AddBidiConnection" /\ t.conn = c
  BY ThreadShape DEF ThreadTask
<1>2. s \in threadMap => PostToThread(s, t) BY DEF PostAddBidiConnection
<1> HIDE DEF t
<1>3. /\ \A r \in Sessions : /\ InitFirst(threadQueue[r]) => InitFirst(threadQueue'[r])
                             /\ Inits(threadQueue'[r]) <=> Inits(threadQueue[r])
                             /\ r # s => threadQueue'[r] = threadQueue[r]
      /\ \A r \in Sessions, x \in Connections :
           /\ Removes(threadQueue'[r], x) <=> Removes(threadQueue[r], x)
           /\ Adds(threadQueue[r], x) => Adds(threadQueue'[r], x)
      /\ s \in threadMap => Adds(threadQueue'[s], c)
  <2>1. CASE s \in threadMap
    <3>1. /\ \A r \in Sessions : /\ InitFirst(threadQueue[r]) => InitFirst(threadQueue'[r])
                                 /\ Inits(threadQueue'[r]) <=> Inits(threadQueue[r])
                                 /\ r # s => threadQueue'[r] = threadQueue[r]
          /\ \A r \in Sessions, x \in Connections :
               /\ Removes(threadQueue'[r], x) <=> Removes(threadQueue[r], x)
               /\ Adds(threadQueue[r], x) => Adds(threadQueue'[r], x)
          /\ \A x : t.op = "AddBidiConnection" /\ t.conn = x => Adds(threadQueue'[s], x)
      BY <1>1, <1>2, <2>1, PlainPost
    <3> QED BY <1>1, <3>1
  <2>2. CASE s \notin threadMap BY <2>2
  <2> QED BY <2>1, <2>2
<1>4. Unbound # s BY UnboundAssumption
<1>5. s \in Keys /\ Unbound \in Keys /\ Sessions \subseteq Keys BY DEF Keys
<1>6. /\ \A r \in Sessions : r # s => bucket'[r] = bucket[r]
      /\ bucket'[s] = IF s \in known THEN bucket[s] ELSE {c}
  BY <1>4, <1>5, UnboundAssumption DEF OnNewBidiSession, NewBucket, Typed
<1>7. /\ known' = known \cup {s} /\ connectionSession'[c] = s
      /\ \A x \in Connections : x # c => connectionSession'[x] = connectionSession[x]
  BY <1>5 DEF OnNewBidiSession, Typed
<1>8. \A r \in Sessions : Lifecycle(r)'
  BY <1>3, <1>7 DEF Bookkeeping, Lifecycle
<1>9. \A r \in Sessions : Announced(r)'
  <2>1. Announced(s)' BY <1>3 DEF Bookkeeping, Announced
  <2>2. \A r \in Sessions : r # s => Announced(r)'
    BY <1>3, <1>7 DEF Bookkeeping, Announced
  <2> QED BY <2>1, <2>2
<1>10. \A x \in Connections : Closing(x)'
  BY <1>3 DEF Bookkeeping, Closing
<1>11. \A x \in Connections, r \in Sessions : Bound(x, r)'
  <2> SUFFICES ASSUME NEW x \in Connections, NEW r \in Sessions, connectionSession'[x] = r
               PROVE  /\ tls'[r] # "unset"
                      /\ r \in threadMap' => r \in known' /\ x \in bucket'[r]
                      /\ tls'[r] = "live" => /\ Lists(bidiConnections'[r], x) \/ Adds(threadQueue'[r], x)
                                             /\ ~Removes(threadQueue'[r], x)
    BY DEF Bound
  <2>1. CASE x = c
    <3>1. r = s BY <1>7, <2>1
    <3>2. s \in threadMap => s \in known' /\ c \in bucket'[s]
      BY <1>6, <1>7 DEF Bookkeeping, Bound
    <3>3. tls[s] = "live" => s \in threadMap BY DEF Bookkeeping, Lifecycle
    <3> QED BY <1>3, <2>1, <3>1, <3>2, <3>3
  <2>2. CASE x # c
    <3>1. connectionSession[x] = r BY <1>7, <2>2
    <3>2. Bound(x, r) BY DEF Bookkeeping
    <3>3. r \in threadMap => r \in known BY <3>1, <3>2 DEF Bound
    <3>4. r \in threadMap => r \in known' /\ x \in bucket'[r]
      BY <1>6, <1>7, <3>1, <3>2, <3>3 DEF Bound
    <3> QED BY <1>3, <3>1, <3>2, <3>4 DEF Bound
  <2> QED BY <2>1, <2>2
<1> QED BY <1>8, <1>9, <1>10, <1>11 DEF Bookkeeping

\* The steps of the CMD thread.
LEMMA CmdKeepsBooks ==
  ASSUME Typed, Bookkeeping, CmdSteps
  PROVE  Bookkeeping'
<1> DEFINE t == Head(cmdQueue)
<1>0. cmdQueue \in Seq(CmdTasks) /\ Orderly(cmdQueue) BY DEF Typed, Bookkeeping
<1>a. cmdQueue # <<>> => t \in CmdTasks BY <1>0, CmdTail
<1>b. Plain(t) /\ cmdQueue # <<>> /\ cmdQueue' = Tail(cmdQueue) =>
        /\ Orderly(cmdQueue')
        /\ \A s : Ends(cmdQueue', s) <=> Ends(cmdQueue, s)
        /\ \A s : Creates(cmdQueue', s) <=> Creates(cmdQueue, s)
        /\ \A c : Asks(cmdQueue', c) <=> Asks(cmdQueue, c)
        /\ \A c : Shuts(cmdQueue', c) <=> Shuts(cmdQueue, c)
  BY PlainHead
<1>c. /\ t.op \in MessageKinds => Plain(t)
      /\ t.op = "CloseConnection" => Plain(t)
  BY DEF Plain, Ending, Creating, MessageKinds
<1>d. /\ t.op = "WebSocketRequest" => ~Ending(t) /\ ~Creating(t) /\ t.op # "OnClose"
      /\ t.op = "OnClose" => ~Ending(t) /\ ~Creating(t) /\ t.op # "WebSocketRequest"
      /\ t.op \in {"OnNewSessionCreated", "OnNewBidiSession"} =>
           Creating(t) /\ ~Ending(t) /\ t.op # "WebSocketRequest" /\ t.op # "OnClose"
      /\ t.op \in {"terminate_on_cmd", "OnSessionTerminated"} =>
           Ending(t) /\ ~Creating(t) /\ t.op # "WebSocketRequest" /\ t.op # "OnClose"
  BY DEF Ending, Creating
<1>e. cmdQueue # <<>> /\ cmdQueue' = Tail(cmdQueue) =>
        /\ Orderly(cmdQueue')
        /\ \A s : Ends(cmdQueue', s) <=> Ends(cmdQueue, s) /\ ~(Ending(t) /\ t.session = s)
        /\ \A s : Creates(cmdQueue', s) <=> Creates(cmdQueue, s) /\ ~(Creating(t) /\ t.session = s)
        /\ \A c : Asks(cmdQueue', c) <=> Asks(cmdQueue, c) /\ ~(t.op = "WebSocketRequest" /\ t.conn = c)
        /\ \A c : Shuts(cmdQueue', c) <=> Shuts(cmdQueue, c) /\ ~(t.op = "OnClose" /\ t.conn = c)
  BY <1>0, CmdTail
<1>f. cmdQueue # <<>> =>
        /\ Ending(t) => Ends(cmdQueue, t.session) /\ ~Creates(cmdQueue, t.session)
        /\ Creating(t) => Creates(cmdQueue, t.session)
        /\ t.op = "WebSocketRequest" => Asks(cmdQueue, t.conn)
        /\ t.op = "OnClose" => Shuts(cmdQueue, t.conn) /\ ~Asks(cmdQueue, t.conn)
  BY <1>0, CmdTail
<1>g. \A x \in Connections : \A r \in Sessions : Bound(x, r) BY DEF Bookkeeping
<1> HIDE DEF t
<1>1. CASE UnboundRequest
  <2>1. /\ cmdQueue # <<>> /\ t.op = "WebSocketRequest" /\ cmdQueue' = Tail(cmdQueue)
        /\ bucket' = [bucket EXCEPT ![Unbound] = @ \cup {t.conn}]
        /\ connectionSession' = [connectionSession EXCEPT ![t.conn] = Unbound]
        /\ UNCHANGED <<conn, known, threadMap, threadQueue, quitting, tls, bidiConnections>>
    BY <1>1 DEF UnboundRequest, CmdTask, t, netVars, sessionVars
  <2>2. t.conn \in Connections BY <1>a, <2>1, CmdShape
  <2>3. /\ \A r \in Sessions : bucket'[r] = bucket[r]
        /\ \A x \in Connections, r \in Sessions :
             connectionSession'[x] = r => connectionSession[x] = r
    BY <2>1, <2>2, UnboundAssumption DEF Typed, Keys
  <2>4. \A r \in Sessions : Lifecycle(r)' BY <1>d, <1>e, <2>1 DEF Bookkeeping, Lifecycle
  <2>5. \A r \in Sessions : Announced(r)' BY <1>d, <1>e, <2>1 DEF Bookkeeping, Announced
  <2>6. \A x \in Connections : Closing(x)' BY <1>d, <1>e, <2>1 DEF Bookkeeping, Closing
  <2>7. \A x \in Connections, r \in Sessions : Bound(x, r)' BY <1>g, <2>1, <2>3 DEF Bound
  <2> QED BY <1>e, <2>1, <2>4, <2>5, <2>6, <2>7 DEF Bookkeeping
<1>2. CASE AttachRequest
  <2> DEFINE c == t.conn
             s == t.session
  <2>1. /\ cmdQueue # <<>> /\ t.op = "WebSocketRequest" /\ cmdQueue' = Tail(cmdQueue)
        /\ s # Unbound
        /\ UNCHANGED <<conn, known, threadMap, quitting, tls, bidiConnections>>
    BY <1>2 DEF AttachRequest, CmdTask, t, netVars, sessionVars
  <2>2. c \in Connections /\ s \in Sessions /\ s \in Keys
    BY <1>a, <2>1, CmdShape DEF Keys
  <2>3. /\ Asks(cmdQueue, c) /\ \A r \in Sessions : ~Removes(threadQueue[r], c)
    BY <1>f, <2>1, <2>2 DEF Bookkeeping, Closing
  <2>4. CASE s \notin known /\ UNCHANGED <<bucket, connectionSession, threadQueue>>
    BY <1>d, <1>e, <2>1, <2>4, PlainCmdStep
  <2>5. CASE /\ s \in known
             /\ bucket' = [bucket EXCEPT ![s] = @ \cup {c}]
             /\ connectionSession' = [connectionSession EXCEPT ![c] = s]
             /\ \/ s \in threadMap /\ PostAddBidiConnection(s, c)
                \/ s \notin threadMap /\ UNCHANGED threadQueue
    <3> DEFINE e == ThreadTask("AddBidiConnection", c)
    <3>1. e \in ThreadTasks /\ e.op = "AddBidiConnection" /\ e.conn = c
      BY <2>2, ThreadShape DEF ThreadTask
    <3>2. s \in threadMap => PostToThread(s, e) BY <2>5 DEF PostAddBidiConnection
    <3> HIDE DEF e, c, s
    <3>3. s \in threadMap =>
            /\ \A r \in Sessions : /\ InitFirst(threadQueue[r]) => InitFirst(threadQueue'[r])
                                   /\ Inits(threadQueue'[r]) <=> Inits(threadQueue[r])
                                   /\ r # s => threadQueue'[r] = threadQueue[r]
            /\ \A r \in Sessions, x \in Connections :
                 /\ Removes(threadQueue'[r], x) <=> Removes(threadQueue[r], x)
                 /\ Adds(threadQueue[r], x) => Adds(threadQueue'[r], x)
            /\ \A x : e.op = "AddBidiConnection" /\ e.conn = x => Adds(threadQueue'[s], x)
      BY <2>2, <3>1, <3>2, PlainPost
    <3>4. /\ \A r \in Sessions : /\ InitFirst(threadQueue[r]) => InitFirst(threadQueue'[r])
                                 /\ Inits(threadQueue'[r]) <=> Inits(threadQueue[r])
                                 /\ r # s => threadQueue'[r] = threadQueue[r]
          /\ \A r \in Sessions, x \in Connections :
               /\ Removes(threadQueue'[r], x) <=> Removes(threadQueue[r], x)
               /\ Adds(threadQueue[r], x) => Adds(threadQueue'[r], x)
          /\ s \in threadMap => Adds(threadQueue'[s], c)
      BY <2>5, <3>1, <3>3
    <3>5. /\ \A r \in Sessions : r # s => bucket'[r] = bucket[r]
          /\ bucket'[s] = bucket[s] \cup {c}
          /\ connectionSession'[c] = s
          /\ \A x \in Connections : x # c => connectionSession'[x] = connectionSession[x]
      BY <2>2, <2>5 DEF Typed, Keys
    <3>6. tls[s] # "unset" /\ (tls[s] = "live" => s \in threadMap)
      BY <2>2, <2>5 DEF Bookkeeping, Lifecycle
    <3>7. \A r \in Sessions : Lifecycle(r)'
      BY <1>d, <1>e, <2>1, <3>4, <3>6 DEF Bookkeeping, Lifecycle
    <3>8. \A r \in Sessions : Announced(r)'
      BY <1>d, <1>e, <2>1, <3>4 DEF Bookkeeping, Announced
    <3>9. \A x \in Connections : Closing(x)'
      BY <1>d, <1>e, <2>1, <3>4 DEF Bookkeeping, Closing
    <3>10. ASSUME NEW x \in Connections, NEW r \in Sessions PROVE Bound(x, r)'
      <4>1. CASE x = c /\ r = s
        BY <4>1, <2>1, <2>2, <2>3, <2>5, <3>4, <3>5, <3>6 DEF Bound
      <4>2. CASE x = c /\ r # s
        BY <4>2, <3>5 DEF Bound
      <4>3. CASE x # c
        BY <4>3, <1>g, <2>1, <3>4, <3>5 DEF Bound
      <4> QED BY <4>1, <4>2, <4>3
    <3> QED BY <1>e, <2>1, <3>7, <3>8, <3>9, <3>10 DEF Bookkeeping
  <2> QED BY <1>2, <2>4, <2>5 DEF AttachRequest, t
<1>3. CASE RefuseMessage
  <2>1. /\ cmdQueue # <<>> /\ t.op \in MessageKinds /\ cmdQueue' = Tail(cmdQueue)
        /\ UNCHANGED <<conn, connectionSession, bucket, known, threadMap, threadQueue, quitting,
                       tls, bidiConnections>>
    BY <1>3 DEF RefuseMessage, t, netVars, mapVars, sessionVars
  <2> QED BY <1>b, <1>c, <2>1, PlainCmdStep
<1>4. CASE NewSessionMessage
  <2>1. /\ cmdQueue # <<>> /\ t.op = "session.new" /\ cmdQueue' = Tail(cmdQueue)
        /\ UNCHANGED <<conn, quitting, bidiConnections>>
    BY <1>4 DEF NewSessionMessage, CmdTask, t, netVars
  <2>2. t.conn \in Connections /\ Plain(t)
    BY <1>a, <1>c, <2>1, CmdShape DEF MessageKinds
  <2>3. CASE (\E s \in Sessions : CreateSession(s, t.conn)) /\ UNCHANGED mapVars
    <3>1. PICK s \in Sessions : CreateSession(s, t.conn) BY <2>3
    <3> QED BY <1>b, <2>1, <2>2, <2>3, <3>1, CreateStep DEF mapVars
  <2>4. CASE OnNewBidiSession(t.conn, Unbound) /\ UNCHANGED <<threadMap, tls, threadQueue>>
    <3>1. Unbound \in Keys /\ Sessions \subseteq Keys BY DEF Keys
    <3>2. \A r \in Sessions : bucket'[r] = bucket[r] /\ (r \in known' <=> r \in known)
      BY <2>4, <3>1, UnboundAssumption DEF OnNewBidiSession, NewBucket, Typed
    <3>3. \A x \in Connections, r \in Sessions : connectionSession'[x] = r => connectionSession[x] = r
      BY <2>2, <2>4, UnboundAssumption DEF OnNewBidiSession, Typed
    <3>4. \A r \in Sessions : Lifecycle(r)'
      BY <1>b, <2>1, <2>2, <2>4, <3>2 DEF Bookkeeping, Lifecycle
    <3>5. \A r \in Sessions : Announced(r)'
      BY <1>b, <2>1, <2>2, <2>4, <3>2 DEF Bookkeeping, Announced
    <3>6. \A x \in Connections : Closing(x)'
      BY <1>b, <2>1, <2>2, <2>4 DEF Bookkeeping, Closing
    <3>7. \A x \in Connections, r \in Sessions : Bound(x, r)'
      BY <1>g, <2>1, <2>4, <3>2, <3>3 DEF Bound
    <3> QED BY <1>b, <2>1, <2>2, <3>4, <3>5, <3>6, <3>7 DEF Bookkeeping
  <2> QED BY <1>4, <2>3, <2>4 DEF NewSessionMessage, t
<1>5. CASE SessionAlreadyExists
  <2> DEFINE c == t.conn
             s == connectionSession[c]
  <2>1. /\ cmdQueue # <<>> /\ t.op = "session.new" /\ cmdQueue' = Tail(cmdQueue) /\ s \in Sessions
        /\ OnNewBidiSession(c, s)
        /\ IF s \in threadMap THEN PostAddBidiConnection(s, c) ELSE UNCHANGED threadQueue
        /\ UNCHANGED <<conn, threadMap, quitting, tls, bidiConnections>>
    BY <1>5 DEF SessionAlreadyExists, CmdTask, t, netVars, sessionVars
  <2>2. c \in Connections /\ Plain(t)
    BY <1>a, <1>c, <2>1, CmdShape DEF MessageKinds
  <2>3. /\ tls[s] # "unset" /\ (s \in threadMap => s \in known)
        /\ tls[s] = "live" => ~Removes(threadQueue[s], c)
    BY <1>g, <2>1, <2>2 DEF Bound
  <2>4. ~Inits(threadQueue[s]) /\ ~Creates(cmdQueue, s)
    BY <2>1, <2>3 DEF Bookkeeping, Announced, Lifecycle
  <2>5. /\ Orderly(cmdQueue')
        /\ \A r : Ends(cmdQueue', r) <=> Ends(cmdQueue, r)
        /\ \A r : Creates(cmdQueue', r) => Creates(cmdQueue, r)
        /\ \A x : Asks(cmdQueue', x) => Asks(cmdQueue, x)
        /\ \A x : Shuts(cmdQueue', x) => Shuts(cmdQueue, x)
    BY <1>b, <2>1, <2>2
  <2> QED BY <2>1, <2>2, <2>3, <2>4, <2>5, BindStep
<1>6. CASE SessionMessage
  <2> DEFINE c == t.conn
             s == connectionSession[c]
             e == ThreadTask(IF t.op = "session.end" THEN "BidiSessionEnd"
                             ELSE "ForwardBidiCommand", c)
  <2>1. /\ cmdQueue # <<>> /\ t.op \in {"session.end", "other"} /\ cmdQueue' = Tail(cmdQueue)
        /\ s \in threadMap /\ PostToThread(s, e)
        /\ UNCHANGED <<conn, connectionSession, bucket, known, threadMap, quitting, tls,
                       bidiConnections>>
    BY <1>6 DEF SessionMessage, t, netVars, mapVars, sessionVars
  <2>2. c \in Connections /\ Plain(t) /\ s \in Sessions
    BY <1>a, <1>c, <2>1, CmdShape DEF MessageKinds, Typed
  <2>3. e \in ThreadTasks /\ e.op \notin {"InitSession", "RemoveBidiConnection"}
    BY <2>2, ThreadShape DEF ThreadTask
  <2> HIDE DEF e, s, c
  <2> QED BY <1>b, <2>1, <2>2, <2>3, PlainThreadStep
<1>7. CASE OnNewSessionCreated
  <2> DEFINE s == t.session
  <2>1. /\ cmdQueue # <<>> /\ t.op = "OnNewSessionCreated" /\ cmdQueue' = Tail(cmdQueue)
        /\ known' = (IF t.ok THEN known \cup {s} ELSE known)
        /\ UNCHANGED <<conn, connectionSession, bucket, threadMap, threadQueue, quitting, tls,
                       bidiConnections>>
    BY <1>7 DEF OnNewSessionCreated, CmdTask, t, netVars, sessionVars
  <2>2. s \in Sessions BY <1>a, <2>1, CmdShape
  <2>3. Creates(cmdQueue, s) BY <1>d, <1>f, <2>1
  <2>4. s \in threadMap /\ tls[s] # "unset" /\ ~Inits(threadQueue[s])
    BY <2>2, <2>3 DEF Bookkeeping, Announced, Lifecycle
  <2>5. ~Creates(cmdQueue', s) BY <1>d, <1>e, <2>1
  <2>6. \A r : r \in known' => r \in known \/ r = s BY <2>1
  <2>7. \A r : r \in known => r \in known' BY <2>1
  <2>8. \A r \in Sessions : Lifecycle(r)'
    BY <1>d, <1>e, <2>1, <2>4, <2>6 DEF Bookkeeping, Lifecycle
  <2>9. \A r \in Sessions : Announced(r)'
    BY <1>d, <1>e, <2>1, <2>4, <2>5, <2>6 DEF Bookkeeping, Announced
  <2>10. \A x \in Connections : Closing(x)' BY <1>d, <1>e, <2>1 DEF Bookkeeping, Closing
  <2>11. \A x \in Connections, r \in Sessions : Bound(x, r)' BY <1>g, <2>1, <2>7 DEF Bound
  <2> QED BY <1>e, <2>1, <2>8, <2>9, <2>10, <2>11 DEF Bookkeeping
<1>8. CASE OnNewBidiSessionOnCmdThread
  <2> DEFINE c == t.conn
             s == t.session
  <2>1. /\ cmdQueue # <<>> /\ t.op = "OnNewBidiSession" /\ cmdQueue' = Tail(cmdQueue)
        /\ OnNewBidiSession(c, s)
        /\ IF s \in threadMap THEN PostAddBidiConnection(s, c) ELSE UNCHANGED threadQueue
        /\ UNCHANGED <<conn, threadMap, quitting, tls, bidiConnections>>
    BY <1>8 DEF OnNewBidiSessionOnCmdThread, CmdTask, t, netVars, sessionVars
  <2>2. c \in Connections /\ s \in Sessions BY <1>a, <2>1, CmdShape
  <2>3. Creates(cmdQueue, s) BY <1>d, <1>f, <2>1
  <2>4. /\ s \in threadMap /\ s \notin known /\ tls[s] # "unset" /\ ~Inits(threadQueue[s])
        /\ ~Removes(threadQueue[s], c)
    BY <2>2, <2>3 DEF Bookkeeping, Announced, Lifecycle
  <2>5. ~Creates(cmdQueue', s) BY <1>d, <1>e, <2>1
  <2>6. /\ Orderly(cmdQueue')
        /\ \A r : Ends(cmdQueue', r) <=> Ends(cmdQueue, r)
        /\ \A r : Creates(cmdQueue', r) => Creates(cmdQueue, r)
        /\ \A x : Asks(cmdQueue', x) => Asks(cmdQueue, x)
        /\ \A x : Shuts(cmdQueue', x) => Shuts(cmdQueue, x)
    BY <1>d, <1>e, <2>1
  <2> HIDE DEF c, s
  <2> QED BY <2>1, <2>2, <2>4, <2>5, <2>6, BindStep
<1>9. CASE CloseConnectionOnCommandThread
  <2>1. /\ cmdQueue # <<>> /\ t.op = "CloseConnection" /\ cmdQueue' = Tail(cmdQueue)
        /\ UNCHANGED <<conn, connectionSession, bucket, known, threadMap, threadQueue, quitting,
                       tls, bidiConnections>>
    BY <1>9 DEF CloseConnectionOnCommandThread, CmdTask, t, netVars, mapVars, sessionVars
  <2> QED BY <1>b, <1>c, <2>1, PlainCmdStep
<1>10. CASE OnClose
  <2> DEFINE c == t.conn
             s == connectionSession[c]
  <2>1. /\ cmdQueue # <<>> /\ t.op = "OnClose" /\ cmdQueue' = Tail(cmdQueue)
        /\ UNCHANGED <<conn, threadMap, quitting, tls, bidiConnections>>
    BY <1>10 DEF OnClose, CmdTask, t, netVars, sessionVars
  <2>2. c \in Connections BY <1>a, <2>1, CmdShape
  <2>3. CASE UNCHANGED <<mapVars, threadQueue>>
    BY <1>d, <1>e, <2>1, <2>3, PlainCmdStep DEF mapVars
  <2>4. CASE /\ s \in known /\ c \in bucket[s]
             /\ bucket' = [bucket EXCEPT ![s] = @ \ {c}]
             /\ connectionSession' = [connectionSession EXCEPT ![c] = None]
             /\ IF s \in threadMap
                THEN PostToThread(s, ThreadTask("RemoveBidiConnection", c))
                ELSE UNCHANGED threadQueue
             /\ UNCHANGED known
    <3> DEFINE e == ThreadTask("RemoveBidiConnection", c)
    <3>1. e \in ThreadTasks /\ e.op = "RemoveBidiConnection" /\ e.conn = c
      BY <2>2, ThreadShape DEF ThreadTask
    <3>2. s \in threadMap => s \in Sessions /\ threadQueue' = [threadQueue EXCEPT ![s] = Append(@, e)]
      BY <2>4 DEF PostToThread, Typed
    <3>3. s \in Keys BY <2>4 DEF Typed
    <3>4. /\ connectionSession'[c] = None
          /\ \A x \in Connections : x # c => connectionSession'[x] = connectionSession[x]
      BY <2>2, <2>4 DEF Typed
    <3> HIDE DEF e, s
    <3>5. \A r \in Keys : bucket'[r] = IF r = s THEN bucket[s] \ {c} ELSE bucket[r]
      BY <2>4, <3>3 DEF Typed
    <3> HIDE DEF c
    <3>6. s \in threadMap =>
            /\ threadQueue[s] \in Seq(ThreadTasks) /\ threadQueue'[s] = Append(threadQueue[s], e)
            /\ \A r \in Sessions : r # s => threadQueue'[r] = threadQueue[r]
      BY <3>2 DEF Typed
    <3>7. s \in threadMap =>
            /\ InitFirst(threadQueue[s]) => InitFirst(threadQueue'[s])
            /\ Inits(threadQueue'[s]) <=> Inits(threadQueue[s])
      BY <3>1, <3>6, ThreadAppend, ZenonT(60)
    <3>8. s \in threadMap =>
            \A x : /\ Removes(threadQueue'[s], x) <=> Removes(threadQueue[s], x) \/ x = c
                   /\ Adds(threadQueue'[s], x) <=> Adds(threadQueue[s], x)
      BY <3>1, <3>6, ThreadAppend, ZenonT(60)
    <3>9. /\ \A r \in Sessions : /\ InitFirst(threadQueue[r]) => InitFirst(threadQueue'[r])
                                 /\ Inits(threadQueue'[r]) <=> Inits(threadQueue[r])
                                 /\ r \notin threadMap => threadQueue'[r] = threadQueue[r]
      BY <2>4, <3>6, <3>7
    <3>10. \A r \in Sessions, x \in Connections :
             /\ Removes(threadQueue'[r], x) =>
                  Removes(threadQueue[r], x) \/ (x = c /\ r = s /\ s \in threadMap)
             /\ Adds(threadQueue[r], x) => Adds(threadQueue'[r], x)
      BY <2>4, <3>6, <3>8
    <3>11. \A r \in Sessions : Lifecycle(r)'
      BY <1>d, <1>e, <2>1, <2>4, <3>9 DEF Bookkeeping, Lifecycle
    <3>12. \A r \in Sessions : Announced(r)'
      <4>1. s \in Sessions => ~Inits(threadQueue[s]) /\ ~Creates(cmdQueue, s)
        BY <2>4 DEF Bookkeeping, Announced
      <4> QED BY <1>d, <1>e, <2>1, <2>4, <3>9, <3>10, <4>1 DEF Bookkeeping, Announced
    <3>13. \A x \in Connections : Closing(x)'
      <4>1. conn[c] = "closed" /\ ~Asks(cmdQueue', c) /\ ~Shuts(cmdQueue', c)
        BY <1>d, <1>e, <1>f, <2>1, <2>2 DEF Bookkeeping, Closing, c
      <4> QED BY <1>d, <1>e, <2>1, <3>10, <4>1 DEF Bookkeeping, Closing
    <3>14. ASSUME NEW x \in Connections, NEW r \in Sessions PROVE Bound(x, r)'
      <4>1. CASE x = c BY <4>1, <3>4, NoneAssumption DEF Bound
      <4>2. CASE x # c
        <5>1. r \in Keys BY DEF Keys
        <5>2. x \in bucket[r] => x \in bucket'[r] BY <3>5, <4>2, <5>1
        <5> QED BY <1>g, <2>1, <2>4, <3>4, <3>10, <4>2, <5>2 DEF Bound
      <4> QED BY <4>1, <4>2
    <3> QED BY <1>e, <2>1, <3>11, <3>12, <3>13, <3>14 DEF Bookkeeping
  <2> QED BY <1>10, <2>3, <2>4 DEF OnClose, t
<1>11. CASE TerminateOnCmd
  <2> DEFINE s == t.session
             e == Task("OnSessionTerminated", None, s, TRUE)
  <2>1. /\ cmdQueue # <<>> /\ t.op = "terminate_on_cmd" /\ cmdQueue' = Append(Tail(cmdQueue), e)
        /\ UNCHANGED <<conn, connectionSession, bucket, known, threadMap, threadQueue, quitting,
                       tls, bidiConnections>>
    BY <1>11 DEF TerminateOnCmd, CmdTask, t, netVars, mapVars, sessionVars
  <2>2. s \in Sessions BY <1>a, <2>1, CmdShape
  <2>3. e \in CmdTasks BY <2>2, CmdMadeByThread
  <2>4. Ending(e) /\ e.session = s /\ ~Creating(e) /\ e.op # "WebSocketRequest" /\ e.op # "OnClose"
    BY DEF Task, Ending, Creating
  <2> HIDE DEF e, s
  <2>5. /\ Tail(cmdQueue) \in Seq(CmdTasks) /\ Orderly(Tail(cmdQueue))
        /\ \A r : Ends(Tail(cmdQueue), r) <=> Ends(cmdQueue, r) /\ ~(Ending(t) /\ t.session = r)
        /\ \A r : Creates(Tail(cmdQueue), r) <=> Creates(cmdQueue, r) /\ ~(Creating(t) /\ t.session = r)
        /\ \A x : Asks(Tail(cmdQueue), x) => Asks(cmdQueue, x)
        /\ \A x : Shuts(Tail(cmdQueue), x) => Shuts(cmdQueue, x)
    BY <1>0, <2>1, CmdTail DEF t
  <2>6. Ends(cmdQueue, s) /\ ~Ends(Tail(cmdQueue), s)
    BY <1>d, <1>f, <2>1, <2>5 DEF s
  <2>7. /\ Orderly(cmdQueue')
        /\ \A r : Ends(cmdQueue', r) <=> Ends(Tail(cmdQueue), r) \/ r = s
        /\ \A r : Creates(cmdQueue', r) <=> Creates(Tail(cmdQueue), r)
        /\ \A x : Asks(cmdQueue', x) <=> Asks(Tail(cmdQueue), x)
        /\ \A x : Shuts(cmdQueue', x) <=> Shuts(Tail(cmdQueue), x)
    BY <2>1, <2>3, <2>4, <2>5, <2>6, CmdAppend
  <2>8. \A r : Ends(cmdQueue', r) <=> Ends(cmdQueue, r)
    BY <1>d, <2>1, <2>5, <2>6, <2>7 DEF s
  <2>9. \A r : Creates(cmdQueue', r) <=> Creates(cmdQueue, r)
    BY <1>d, <2>1, <2>5, <2>7
  <2> QED BY <2>1, <2>5, <2>7, <2>8, <2>9, PlainCmdStep
<1>12. CASE OnSessionTerminated
  <2> DEFINE s == t.session
  <2>1. /\ cmdQueue # <<>> /\ t.op = "OnSessionTerminated" /\ cmdQueue' = Tail(cmdQueue)
        /\ threadQueue[s] = <<>> /\ threadMap' = threadMap \ {s} /\ known' = known \ {s}
        /\ bucket' = [bucket EXCEPT ![s] = {}]
        /\ UNCHANGED <<conn, connectionSession, threadQueue, quitting, tls, bidiConnections>>
    BY <1>12 DEF OnSessionTerminated, CmdTask, t, netVars, sessionVars
  <2>2. s \in Sessions BY <1>a, <2>1, CmdShape
  <2>3. Ends(cmdQueue, s) /\ ~Creates(cmdQueue, s) BY <1>d, <1>f, <2>1
  <2>4. s \in threadMap /\ tls[s] = "null" BY <2>2, <2>3 DEF Bookkeeping, Lifecycle
  <2>5. \A r \in Sessions : r # s => bucket'[r] = bucket[r] BY <2>1 DEF Typed, Keys
  <2>6. /\ \A r : Ends(cmdQueue', r) <=> Ends(cmdQueue, r) /\ r # s
        /\ \A r : Creates(cmdQueue', r) <=> Creates(cmdQueue, r)
        /\ Orderly(cmdQueue')
    BY <1>d, <1>e, <2>1
  <2>7. ~Inits(threadQueue[s]) BY <2>1 DEF Inits
  <2> HIDE DEF s
  <2>8. \A r \in Sessions : Lifecycle(r)' BY <2>1, <2>4, <2>6 DEF Bookkeeping, Lifecycle
  <2>9. \A r \in Sessions : Announced(r)' BY <2>1, <2>3, <2>6, <2>7 DEF Bookkeeping, Announced
  <2>10. \A x \in Connections : Closing(x)' BY <1>d, <1>e, <2>1 DEF Bookkeeping, Closing
  <2>11. \A x \in Connections, r \in Sessions : Bound(x, r)'
    BY <1>g, <2>1, <2>4, <2>5 DEF Bound
  <2> QED BY <2>6, <2>8, <2>9, <2>10, <2>11 DEF Bookkeeping
<1> QED BY <1>1, <1>2, <1>3, <1>4, <1>5, <1>6, <1>7, <1>8, <1>9, <1>10, <1>11, <1>12 DEF CmdSteps

\* A session thread takes a task that leaves the connections of its session as they are.
LEMMA PlainTaskStep ==
  ASSUME Typed, Bookkeeping, NEW s \in Sessions, threadQueue[s] # <<>>, DoneTask(s),
         Head(threadQueue[s]).op # "AddBidiConnection",
         quitting' \subseteq quitting \cup {s}, quitting \subseteq quitting',
         s \in quitting' => tls[s] = "live",
         UNCHANGED <<conn, cmdQueue, connectionSession, bucket, known, threadMap, tls,
                     bidiConnections>>
  PROVE  Bookkeeping'
<1>1. InitFirst(threadQueue[s]) BY DEF Bookkeeping, Announced
<1>2. /\ \A r \in Sessions : /\ InitFirst(threadQueue[r]) => InitFirst(threadQueue'[r])
                             /\ Inits(threadQueue'[r]) => Inits(threadQueue[r])
                             /\ r # s => threadQueue'[r] = threadQueue[r]
      /\ ~Inits(threadQueue'[s])
      /\ \A r \in Sessions, c \in Connections :
           /\ Removes(threadQueue'[r], c) => Removes(threadQueue[r], c)
           /\ Adds(threadQueue[r], c) => Adds(threadQueue'[r], c)
  BY <1>1, PlainDone
<1>3. \A r \in Sessions : Lifecycle(r)' BY <1>2 DEF Bookkeeping, Lifecycle
<1>4. \A r \in Sessions : Announced(r)' BY <1>2 DEF Bookkeeping, Announced
<1>5. \A c \in Connections : Closing(c)' BY <1>2 DEF Bookkeeping, Closing
<1>6. \A c \in Connections, r \in Sessions : Bound(c, r)' BY <1>2 DEF Bookkeeping, Bound
<1> QED BY <1>3, <1>4, <1>5, <1>6 DEF Bookkeeping

\* The steps of the session threads.
LEMMA ThreadsKeepBooks ==
  ASSUME Typed, Bookkeeping, NEW s \in Sessions, ThreadSteps(s)
  PROVE  Bookkeeping'
<1> DEFINE t == Head(threadQueue[s])
<1>0. cmdQueue \in Seq(CmdTasks) /\ Orderly(cmdQueue) BY DEF Typed, Bookkeeping
<1>a. threadQueue[s] \in Seq(ThreadTasks) /\ InitFirst(threadQueue[s])
  BY DEF Typed, Bookkeeping, Announced
<1>b. threadQueue[s] # <<>> =>
        /\ t \in ThreadTasks
        /\ t.op = "InitSession" => Inits(threadQueue[s])
        /\ t.op = "RemoveBidiConnection" => Removes(threadQueue[s], t.conn)
  BY <1>a, ThreadTail
<1>c. threadQueue[s] # <<>> /\ DoneTask(s) =>
        /\ \A r \in Sessions : /\ InitFirst(threadQueue[r]) => InitFirst(threadQueue'[r])
                               /\ Inits(threadQueue'[r]) => Inits(threadQueue[r])
                               /\ r # s => threadQueue'[r] = threadQueue[r]
        /\ ~Inits(threadQueue'[s])
        /\ \A r \in Sessions, c \in Connections :
             /\ Removes(threadQueue'[r], c) => Removes(threadQueue[r], c)
             /\ Adds(threadQueue[r], c) =>
                  \/ Adds(threadQueue'[r], c)
                  \/ r = s /\ t.op = "AddBidiConnection" /\ t.conn = c
  BY <1>a, PlainDone
<1>d. \A x \in Connections : \A r \in Sessions : Bound(x, r) BY DEF Bookkeeping
<1> HIDE DEF t
<1>1. CASE InitSession(s)
  <2>1. /\ threadQueue[s] # <<>> /\ t.op = "InitSession" /\ DoneTask(s) /\ s \notin quitting
        /\ UNCHANGED <<conn, connectionSession, bucket, known, threadMap, tls, bidiConnections>>
    BY <1>1 DEF InitSession, RunsTask, t, netVars, mapVars
  <2> DEFINE c == t.conn
  <2>2. PICK ok \in BOOLEAN :
          /\ cmdQueue' = Append(cmdQueue, Task(IF c = None THEN "OnNewSessionCreated"
                                               ELSE "OnNewBidiSession", c, s, ok))
          /\ quitting' = IF ok THEN quitting ELSE quitting \cup {s}
    BY <1>1 DEF InitSession, t
  <2> DEFINE e == Task(IF c = None THEN "OnNewSessionCreated" ELSE "OnNewBidiSession", c, s, ok)
  <2>3. c \in Connections \cup {None} BY <1>b, <2>1, ThreadShape
  <2>4. e \in CmdTasks BY <2>3, CmdMade, CmdMadeByThread
  <2>5. /\ Creating(e) /\ ~Ending(e) /\ e.session = s /\ e.op # "WebSocketRequest" /\ e.op # "OnClose"
    BY DEF Task, Creating, Ending
  <2>6. cmdQueue' = Append(cmdQueue, e) BY <2>2
  <2> HIDE DEF e, c
  <2>7. /\ tls[s] = "live" /\ ~Creates(cmdQueue, s) /\ s \notin known
        /\ \A x \in Connections : ~Removes(threadQueue[s], x)
    BY <1>b, <2>1 DEF Bookkeeping, Announced
  <2>8. s \in threadMap /\ ~Ends(cmdQueue, s) BY <2>7 DEF Bookkeeping, Lifecycle
  <2>9. /\ Orderly(cmdQueue')
        /\ \A r : Ends(cmdQueue', r) <=> Ends(cmdQueue, r)
        /\ \A r : Creates(cmdQueue', r) <=> Creates(cmdQueue, r) \/ r = s
        /\ \A x : Asks(cmdQueue', x) <=> Asks(cmdQueue, x)
        /\ \A x : Shuts(cmdQueue', x) <=> Shuts(cmdQueue, x)
    BY <1>0, <2>4, <2>5, <2>6, <2>7, <2>8, CmdAppend
  <2>10. \A r \in Sessions : r # s => (r \in quitting' <=> r \in quitting) BY <2>2
  <2>11. \A r \in Sessions : Lifecycle(r)'
    BY <1>c, <2>1, <2>7, <2>9, <2>10 DEF Bookkeeping, Lifecycle
  <2>12. \A r \in Sessions : Announced(r)'
    <3>1. Announced(s)' BY <1>a, <1>c, <2>1, <2>7, <2>8 DEF Announced
    <3>2. \A r \in Sessions : r # s => Announced(r)'
      BY <1>c, <2>1, <2>9, <2>10 DEF Bookkeeping, Announced
    <3> QED BY <3>1, <3>2
  <2>13. \A x \in Connections : Closing(x)' BY <1>c, <2>1, <2>9 DEF Bookkeeping, Closing
  <2>14. \A x \in Connections, r \in Sessions : Bound(x, r)'
    BY <1>c, <1>d, <2>1, <2>7, <2>8 DEF Bound
  <2> QED BY <2>9, <2>11, <2>12, <2>13, <2>14 DEF Bookkeeping
<1>2. CASE SessionCommand(s)
  <2>1. /\ threadQueue[s] # <<>> /\ t.op \in {"Quit", "BidiSessionEnd", "ForwardBidiCommand"}
        /\ DoneTask(s) /\ s \notin quitting
        /\ \/ tls[s] = "live" /\ quitting' = quitting \cup {s}
           \/ quitting' = quitting
        /\ UNCHANGED <<conn, cmdQueue, connectionSession, bucket, known, threadMap, tls,
                       bidiConnections>>
    BY <1>2 DEF SessionCommand, RunsTask, HasSession, t, netVars, mapVars
  <2>2. Head(threadQueue[s]).op # "AddBidiConnection" BY <2>1 DEF t
  <2> QED BY <2>1, <2>2, PlainTaskStep
<1>3. CASE Terminate(s)
  <2> DEFINE e == Task("terminate_on_cmd", None, s, TRUE)
             p == Closes(s)
             q == cmdQueue \o p
             n == Len(bidiConnections[s])
  <2>1. /\ s \in quitting /\ quitting' = quitting \ {s} /\ tls' = [tls EXCEPT ![s] = "null"]
        /\ cmdQueue' = q \o <<e>>
        /\ bidiConnections' = [bidiConnections EXCEPT ![s] = <<>>]
        /\ UNCHANGED <<conn, connectionSession, bucket, known, threadMap, threadQueue>>
    BY <1>3 DEF Terminate, netVars, mapVars
  <2>2. n \in Nat /\ \A i \in 1..n : bidiConnections[s][i] \in Connections
    BY DEF Typed
  <2>3. \A i \in 1..n : CloseTask(bidiConnections[s][i], s) \in CmdTasks
    BY <2>2, CmdMade
  <2>4. p \in Seq(CmdTasks) /\ Len(p) = n BY <2>2, <2>3, FunctionIsSeq DEF Closes
  <2>5. \A i \in 1..Len(p) : p[i].op = "CloseConnection"
    BY <2>4 DEF Closes, CloseTask, Task
  <2>6. e \in CmdTasks BY CmdMadeByThread
  <2>7. Ending(e) /\ e.session = s /\ ~Creating(e) /\ e.op # "WebSocketRequest" /\ e.op # "OnClose"
    BY DEF Task, Ending, Creating
  <2> HIDE DEF e, p
  <2>8. /\ q \in Seq(CmdTasks) /\ Orderly(q)
        /\ \A r : Ends(q, r) <=> Ends(cmdQueue, r)
        /\ \A r : Creates(q, r) <=> Creates(cmdQueue, r)
        /\ \A x : Asks(q, x) <=> Asks(cmdQueue, x)
        /\ \A x : Shuts(q, x) <=> Shuts(cmdQueue, x)
    BY <1>0, <2>4, <2>5, CmdConcat
  <2> HIDE DEF q
  <2>9. cmdQueue' = Append(q, e) BY <2>1, <2>6, <2>8
  <2>10. tls[s] = "live" /\ s \in threadMap /\ ~Ends(cmdQueue, s) /\ ~Inits(threadQueue[s])
    BY <2>1 DEF Bookkeeping, Lifecycle, Announced
  <2>11. /\ Orderly(cmdQueue')
         /\ \A r : Ends(cmdQueue', r) <=> Ends(cmdQueue, r) \/ r = s
         /\ \A r : Creates(cmdQueue', r) <=> Creates(cmdQueue, r)
         /\ \A x : Asks(cmdQueue', x) <=> Asks(cmdQueue, x)
         /\ \A x : Shuts(cmdQueue', x) <=> Shuts(cmdQueue, x)
    BY <2>6, <2>7, <2>8, <2>9, <2>10, CmdAppend
  <2>12. /\ tls'[s] = "null" /\ \A r \in Sessions : r # s => tls'[r] = tls[r]
         /\ \A r \in Sessions : r # s => bidiConnections'[r] = bidiConnections[r]
    BY <2>1 DEF Typed
  <2>13. \A r \in Sessions : Lifecycle(r)'
    BY <2>1, <2>10, <2>11, <2>12 DEF Bookkeeping, Lifecycle
  <2>14. \A r \in Sessions : Announced(r)'
    BY <2>1, <2>10, <2>11, <2>12 DEF Bookkeeping, Announced
  <2>15. \A x \in Connections : Closing(x)' BY <2>1, <2>11 DEF Bookkeeping, Closing
  <2>16. \A x \in Connections, r \in Sessions : Bound(x, r)'
    BY <1>d, <2>1, <2>12 DEF Bound
  <2> QED BY <2>11, <2>13, <2>14, <2>15, <2>16 DEF Bookkeeping
<1>4. CASE AddBidiConnection(s)
  <2> DEFINE c == t.conn
  <2>1. /\ threadQueue[s] # <<>> /\ t.op = "AddBidiConnection" /\ DoneTask(s)
        /\ \/ tls[s] = "live" /\ bidiConnections' = [bidiConnections EXCEPT ![s] = Append(@, c)]
           \/ tls[s] # "live" /\ UNCHANGED bidiConnections
        /\ UNCHANGED <<conn, cmdQueue, connectionSession, bucket, known, threadMap, quitting, tls>>
    BY <1>4 DEF AddBidiConnection, RunsTask, t, netVars, mapVars
  <2>2. c \in Connections BY <1>b, <2>1, ThreadShape
  <2> HIDE DEF c
  <2>3. bidiConnections[s] \in Seq(Connections) BY DEF Typed
  <2>4. tls[s] = "live" => bidiConnections'[s] = Append(bidiConnections[s], c)
    BY <2>1 DEF Typed
  <2>5. tls[s] = "live" => \A x : Lists(bidiConnections[s], x) \/ x = c => Lists(bidiConnections'[s], x)
    <3> SUFFICES ASSUME tls[s] = "live", NEW x, Lists(bidiConnections[s], x) \/ x = c
                 PROVE  Lists(Append(bidiConnections[s], c), x)
      BY <2>4
    <3>1. /\ Len(Append(bidiConnections[s], c)) = Len(bidiConnections[s]) + 1
          /\ \A i \in 1..Len(bidiConnections[s]) :
               Append(bidiConnections[s], c)[i] = bidiConnections[s][i]
          /\ Append(bidiConnections[s], c)[Len(bidiConnections[s]) + 1] = c
          /\ Len(bidiConnections[s]) \in Nat
      BY <2>2, <2>3, AppendFacts
    <3>2. /\ \A i \in 1..Len(bidiConnections[s]) : i \in 1..Len(Append(bidiConnections[s], c))
          /\ Len(bidiConnections[s]) + 1 \in 1..Len(Append(bidiConnections[s], c))
      BY <3>1
    <3> QED BY <3>1, <3>2 DEF Lists
  <2>6. \A r \in Sessions : r # s => bidiConnections'[r] = bidiConnections[r]
    BY <2>1 DEF Typed
  <2>7. \A r \in Sessions : Lifecycle(r)' BY <1>c, <2>1 DEF Bookkeeping, Lifecycle
  <2>8. \A r \in Sessions : Announced(r)' BY <1>c, <2>1 DEF Bookkeeping, Announced
  <2>9. \A x \in Connections : Closing(x)' BY <1>c, <2>1 DEF Bookkeeping, Closing
  <2>10. ASSUME NEW x \in Connections, NEW r \in Sessions PROVE Bound(x, r)'
    <3>1. tls[r] = "live" /\ (Lists(bidiConnections[r], x) \/ Adds(threadQueue[r], x)) =>
            Lists(bidiConnections'[r], x) \/ Adds(threadQueue'[r], x)
      BY <1>c, <2>1, <2>5, <2>6 DEF c
    <3> QED BY <1>c, <1>d, <2>1, <3>1 DEF Bound
  <2> QED BY <1>0, <2>1, <2>7, <2>8, <2>9, <2>10 DEF Bookkeeping
<1>5. CASE RemoveBidiConnection(s)
  <2> DEFINE c == t.conn
  <2>1. /\ threadQueue[s] # <<>> /\ t.op = "RemoveBidiConnection" /\ DoneTask(s)
        /\ bidiConnections' = [bidiConnections EXCEPT ![s] = WithoutFirst(@, c)]
        /\ UNCHANGED <<conn, cmdQueue, connectionSession, bucket, known, threadMap, quitting, tls>>
    BY <1>5 DEF RemoveBidiConnection, RunsTask, t, netVars, mapVars
  <2>2. Removes(threadQueue[s], c) BY <1>b, <2>1
  <2>3. bidiConnections[s] \in Seq(Connections) BY DEF Typed
  <2>4. bidiConnections'[s] = WithoutFirst(bidiConnections[s], c)
        /\ \A r \in Sessions : r # s => bidiConnections'[r] = bidiConnections[r]
    BY <2>1 DEF Typed
  <2> HIDE DEF c
  <2>5. \A x : x # c /\ Lists(bidiConnections[s], x) => Lists(bidiConnections'[s], x)
    BY <2>3, <2>4, ListRemove
  <2>6. \A r \in Sessions : Lifecycle(r)' BY <1>c, <2>1 DEF Bookkeeping, Lifecycle
  <2>7. \A r \in Sessions : Announced(r)' BY <1>c, <2>1 DEF Bookkeeping, Announced
  <2>8. \A x \in Connections : Closing(x)' BY <1>c, <2>1 DEF Bookkeeping, Closing
  <2>9. ASSUME NEW x \in Connections, NEW r \in Sessions PROVE Bound(x, r)'
    <3>1. Lists(bidiConnections[r], x) /\ ~Removes(threadQueue[r], x) => Lists(bidiConnections'[r], x)
      BY <2>2, <2>4, <2>5
    <3>2. Adds(threadQueue[r], x) => Adds(threadQueue'[r], x)
      BY <1>c, <2>1
    <3> QED BY <1>c, <1>d, <2>1, <3>1, <3>2 DEF Bound
  <2> QED BY <1>0, <2>1, <2>6, <2>7, <2>8, <2>9 DEF Bookkeeping
<1> QED BY <1>1, <1>2, <1>3, <1>4, <1>5 DEF ThreadSteps

\* The three kinds of threads agree on the sessions and on their connections.
LEMMA BookkeepingInvariant == Spec => []Bookkeeping
<1>1. Init => Bookkeeping
  <2> SUFFICES ASSUME Init PROVE Bookkeeping OBVIOUS
  <2>1. cmdQueue = <<>> /\ \A s \in Sessions : threadQueue[s] = <<>> BY DEF Init
  <2>2. /\ Orderly(cmdQueue) /\ \A s : ~Ends(cmdQueue, s) /\ ~Creates(cmdQueue, s)
        /\ \A c : ~Asks(cmdQueue, c) /\ ~Shuts(cmdQueue, c)
    BY <2>1 DEF Orderly, Ends, Creates, Asks, Shuts
  <2>3. \A s \in Sessions : /\ InitFirst(threadQueue[s]) /\ ~Inits(threadQueue[s])
                            /\ \A c : ~Removes(threadQueue[s], c)
    BY <2>1 DEF InitFirst, Inits, Removes
  <2>4. \A s \in Sessions : Lifecycle(s)
    BY <2>1, <2>2, UnboundAssumption DEF Init, Lifecycle
  <2>5. \A s \in Sessions : Announced(s) BY <2>2, <2>3 DEF Announced
  <2>6. \A c \in Connections : Closing(c) BY <2>2, <2>3 DEF Closing
  <2>7. \A c \in Connections, s \in Sessions : Bound(c, s)
    BY NoneAssumption DEF Init, Bound
  <2> QED BY <2>2, <2>4, <2>5, <2>6, <2>7 DEF Bookkeeping
<1>2. Typed /\ Bookkeeping /\ [Next]_vars => Bookkeeping'
  <2> SUFFICES ASSUME Typed, Bookkeeping, [Next]_vars PROVE Bookkeeping' OBVIOUS
  <2>1. CASE UNCHANGED vars
    <3>1. UNCHANGED <<conn, cmdQueue, connectionSession, bucket, known, threadMap, threadQueue,
                      quitting, tls, bidiConnections>>
      BY <2>1 DEF vars, netVars, mapVars, sessionVars
    <3>2. Orderly(cmdQueue) BY DEF Bookkeeping
    <3> QED BY <3>1, <3>2, PlainCmdStep
  <2> QED BY <2>1, ClientsKeepBooks, CmdKeepsBooks, ThreadsKeepBooks DEF Next
<1> QED BY <1>1, <1>2, TypedInvariant, PTL DEF Spec

-----------------------------------------------------------------------------
(* The properties.                                                         *)

\* However quit, session.end and the loss of the browser race, a session thread leaves
\* session_thread_map_ by exactly one task, and not before the CMD thread has heard of
\* the creation of the session.
THEOREM EndOnce == Spec => []SessionsEndOnce
<1>1. Typed /\ Bookkeeping => SessionsEndOnce
  <2> SUFFICES ASSUME Typed, Bookkeeping PROVE SessionsEndOnce OBVIOUS
  <2>1. ASSUME NEW s \in Sessions
        PROVE  Terminations(s) = IF s \in threadMap /\ tls[s] = "null" THEN 1 ELSE 0
    <3> DEFINE S == {i \in 1..Len(cmdQueue) :
                       /\ cmdQueue[i].op \in {"terminate_on_cmd", "OnSessionTerminated"}
                       /\ cmdQueue[i].session = s}
    <3>1. Terminations(s) = Cardinality(S) BY DEF Terminations
    <3>2. Ends(cmdQueue, s) <=> s \in threadMap /\ tls[s] = "null"
      BY DEF Bookkeeping, Lifecycle
    <3>3. CASE ~Ends(cmdQueue, s)
      <4>1. S = {} BY <3>3 DEF Ends, Ending
      <4> QED BY <3>1, <3>2, <3>3, <4>1, FS_EmptySet
    <3>4. CASE Ends(cmdQueue, s)
      <4>1. PICK i \in 1..Len(cmdQueue) : Ending(cmdQueue[i]) /\ cmdQueue[i].session = s
        BY <3>4 DEF Ends
      <4>2. \A j \in S : j = i
        BY <4>1 DEF Bookkeeping, Orderly, SameEvent, Ending
      <4>3. i \in S BY <4>1 DEF Ending
      <4>4. S = {i} BY <4>2, <4>3
      <4>5. Cardinality({i}) = 1 BY FS_Singleton
      <4> QED BY <3>1, <3>2, <3>4, <4>4, <4>5
    <3> QED BY <3>3, <3>4
  <2>2. TerminatedOnce BY <2>1 DEF TerminatedOnce
  <2>3. CreationReplyFindsThread
    <3> SUFFICES ASSUME NEW i \in 1..Len(cmdQueue),
                        cmdQueue[i].op \in {"OnNewSessionCreated", "OnNewBidiSession"}
                 PROVE  cmdQueue[i].session \in threadMap
      BY DEF CreationReplyFindsThread
    <3>1. cmdQueue[i] \in CmdTasks BY DEF Typed
    <3>2. cmdQueue[i].session \in Sessions BY <3>1, CmdShape
    <3>3. Creates(cmdQueue, cmdQueue[i].session) BY DEF Creates, Creating
    <3> QED BY <3>2, <3>3 DEF Bookkeeping, Announced
  <2> QED BY <2>2, <2>3 DEF SessionsEndOnce
<1> QED BY <1>1, TypedInvariant, BookkeepingInvariant, PTL

\* A connection that connection_session_map_ binds to a session is in the bucket where
\* OnClose looks for it, and the session forwards events to it or is about to.
THEOREM Served == Spec => []ConnectionsAreServed
<1>1. Typed /\ Bookkeeping => ConnectionsAreServed
  <2> SUFFICES ASSUME Typed, Bookkeeping PROVE ConnectionsAreServed OBVIOUS
  <2>1. BoundIsInBucket BY DEF BoundIsInBucket, Bookkeeping, Bound
  <2>2. ASSUME NEW c \in Connections, NEW s \in Sessions, connectionSession[c] = s, tls[s] = "live"
        PROVE  \/ \E i \in 1..Len(bidiConnections[s]) : bidiConnections[s][i] = c
               \/ Posted(s, "AddBidiConnection", c)
    <3>1. Lists(bidiConnections[s], c) \/ Adds(threadQueue[s], c)
      BY <2>2 DEF Bookkeeping, Bound
    <3>2. CASE Lists(bidiConnections[s], c) BY <3>2 DEF Lists
    <3>3. CASE Adds(threadQueue[s], c)
      <4>1. PICK i \in 1..Len(threadQueue[s]) :
              threadQueue[s][i].op = "AddBidiConnection" /\ threadQueue[s][i].conn = c
        BY <3>3 DEF Adds
      <4>2. threadQueue[s][i] \in ThreadTasks BY DEF Typed
      <4>3. threadQueue[s][i] = ThreadTask("AddBidiConnection", c)
        BY <4>1, <4>2 DEF ThreadTasks, ThreadTask
      <4> QED BY <4>3 DEF Posted
    <3> QED BY <3>1, <3>2, <3>3
  <2>3. BoundIsServed BY <2>2 DEF BoundIsServed
  <2> QED BY <2>1, <2>3 DEF ConnectionsAreServed
<1> QED BY <1>1, TypedInvariant, BookkeepingInvariant, PTL
=============================================================================
