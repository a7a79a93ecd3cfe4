----------------------- MODULE SessionDispatch_proofs -----------------------
(* Proofs about SessionDispatch, for any requests and any session ids.     *)
EXTENDS SessionDispatch, QueueLemmas, FiniteSetTheorems, TLAPS

\* TypeOK without the claim that a counter does not fall below zero, which takes
\* more than types.
LooseLoops == [req : Requests, remaining : Int, quit : BOOLEAN, timedOut : BOOLEAN,
               asked : SUBSET Sessions]
Typed ==
  /\ sent \in SUBSET Requests /\ shutdowns \in SUBSET sent
  /\ cmdQueue \in Seq(CmdTasks) /\ ioQueue \in Seq(Requests \cup {None})
  /\ loops \in Seq(LooseLoops)
  /\ threadMap \in SUBSET Sessions /\ IsFiniteSet(threadMap)
  /\ threadQueue \in [Sessions -> Seq(ThreadTasks)]
  /\ quitting \in SUBSET Sessions
  /\ tls \in [Sessions -> {"unset", "live", "null"}]
  /\ receivedShutdown \in BOOLEAN /\ quitFunc \in BOOLEAN /\ serverUp \in BOOLEAN
  /\ answered \in [Requests -> Nat] /\ delivered \in SUBSET Requests

\* The duty to answer request r is with a task in queue q of the CMD thread, with
\* one in queue q of a session thread, or with one of the nested loops in q.
Holds(q, r) == \E i \in 1..Len(q) : q[i].req = r /\ q[i].op # "Collect"
Runs(q, r) == \E i \in 1..Len(q) : q[i].req = r /\ q[i].callback = "PrepareResponse"
Nests(q, r) == \E i \in 1..Len(q) : q[i].req = r

\* No queue holds one duty, or one reply, twice.
SameDuty(a, b) ==
  /\ a.req = b.req /\ (a.op = "Collect" <=> b.op = "Collect")
  /\ a.op = "Collect" => a.session = b.session
CmdDistinct(q) ==
  \A i, j \in 1..Len(q) : q[i].req \in Requests /\ SameDuty(q[i], q[j]) => i = j
ThreadDistinct(q) ==
  \A i, j \in 1..Len(q) : q[i].req = q[j].req /\ q[i].callback = q[j].callback => i = j
LoopsDistinct(q) == \A i, j \in 1..Len(q) : q[i].req = q[j].req => i = j

\* The duty to answer a request is in one place at most, and in none once it is
\* answered; the commands and replies of its nested loop are there only when the
\* request is not a task any more.
Duty(r) ==
  /\ answered[r] <= 1
  /\ answered[r] = 1 \/ Holds(cmdQueue, r) \/ Nests(loops, r) => r \in sent
  /\ Holds(cmdQueue, r) => answered[r] = 0 /\ ~Nests(loops, r)
  /\ Nests(loops, r) => answered[r] = 0
RunningDuty(r, s) ==
  Runs(threadQueue[s], r) =>
    /\ r \in sent /\ answered[r] = 0 /\ ~Holds(cmdQueue, r) /\ ~Nests(loops, r)
    /\ \A t \in Sessions : Runs(threadQueue[t], r) => t = s
CollectedOnce(r, s) ==
  /\ Asks(threadQueue[s], r) \/ Replies(cmdQueue, r, s) =>
       r \in sent /\ ~Holds(cmdQueue, r) /\ \A t \in Sessions : ~Runs(threadQueue[t], r)
  /\ ~(Asks(threadQueue[s], r) /\ Replies(cmdQueue, r, s))
Ownership ==
  /\ CmdDistinct(cmdQueue) /\ LoopsDistinct(loops)
  /\ \A s \in Sessions : ThreadDistinct(threadQueue[s])
  /\ \A r \in Requests :
       Duty(r) /\ \A s \in Sessions : RunningDuty(r, s) /\ CollectedOnce(r, s)

\* The counters: what RemainingIsOutstanding says, and that there is something to count.
Counted ==
  \A i \in 1..Len(loops) :
    /\ IsFiniteSet(Outstanding(loops[i].req))
    /\ loops[i].remaining = Cardinality(Outstanding(loops[i].req))

\* A session has a thread while its Session is live, is live when it is about to
\* Terminate(), and has ended when the CMD thread hears of it.
Lifecycle ==
  /\ \A s \in Sessions : tls[s] = "live" => s \in threadMap
  /\ \A s \in threadMap : tls[s] # "unset"
  /\ \A s \in quitting : tls[s] = "live"
  /\ \A i \in 1..Len(cmdQueue) :
       cmdQueue[i].op \in {"terminate_on_cmd", "OnSessionTerminated"}
         => tls[cmdQueue[i].session] = "null"

\* The tasks of a shutdown request, and only those, ask sessions to quit.
QuitTasks ==
  /\ \A i \in 1..Len(cmdQueue) :
       cmdQueue[i].op \in Kinds => (cmdQueue[i].req \in shutdowns <=> cmdQueue[i].op = "QuitAll")
  /\ \A s \in Sessions : \A i \in 1..Len(threadQueue[s]) :
       threadQueue[s][i].callback = "Collect" /\ threadQueue[s][i].req \in shutdowns
         => threadQueue[s][i].op = "Quit"

\* The loop of a shutdown: each session it asked still has the command in its queue,
\* or does what it says.  A loop that no timeout ended has no reply to wait for.
QuitsCovered ==
  \A i \in 1..Len(loops) :
    /\ \A s \in loops[i].asked : tls[s] # "unset"
    /\ loops[i].req \in shutdowns =>
         \A s \in loops[i].asked :
           Asks(threadQueue[s], loops[i].req) \/ s \in quitting \/ tls[s] = "null"
    /\ loops[i].quit /\ ~loops[i].timedOut => loops[i].remaining = 0

\* The way of a response to the I/O thread, and the end of the servers.
Waits(q, r) == \E i \in 1..Len(q) : q[i] = r
Stopping ==
  /\ \A i \in 1..Len(ioQueue) :
       ioQueue[i] = None => i = Len(ioQueue) /\ quitFunc /\ loops = <<>>
  /\ ~serverUp => ioQueue = <<>> /\ quitFunc /\ loops = <<>>
  /\ quitFunc => \E r \in shutdowns : answered[r] > 0
  /\ \A r \in Requests :
       /\ answered[r] > 0 => r \in delivered \/ Waits(ioQueue, r)
       /\ r \in delivered \/ Waits(ioQueue, r) => answered[r] > 0
       /\ ~(r \in delivered /\ Waits(ioQueue, r))
  /\ \A i, j \in 1..Len(ioQueue) : ioQueue[i] = ioQueue[j] => i = j

-----------------------------------------------------------------------------
(* Queues.                                                                 *)

\* A reply counted, and a loop told to quit.
LEMMA CountedLoop ==
  ASSUME NEW l \in LooseLoops, NEW b \in BOOLEAN
  PROVE  /\ [l EXCEPT !.remaining = @ - 1, !.quit = b] \in LooseLoops
         /\ [l EXCEPT !.quit = TRUE, !.timedOut = TRUE] \in LooseLoops
<1>1. [l EXCEPT !.remaining = @ - 1] \in LooseLoops
  BY DEF LooseLoops
<1>2. [[l EXCEPT !.remaining = @ - 1] EXCEPT !.quit = b] \in LooseLoops
  BY <1>1 DEF LooseLoops
<1>3. [l EXCEPT !.remaining = @ - 1, !.quit = b]
        = [[l EXCEPT !.remaining = @ - 1] EXCEPT !.quit = b]
  OBVIOUS
<1>4. [l EXCEPT !.quit = TRUE, !.timedOut = TRUE] \in LooseLoops
  BY DEF LooseLoops
<1> QED BY <1>2, <1>3, <1>4

\* What the head of the queue of the CMD thread leaves behind.
LEMMA CmdTail ==
  ASSUME NEW q \in Seq(CmdTasks), q # <<>>, CmdDistinct(q)
  PROVE  /\ CmdDistinct(Tail(q))
         /\ \A r \in Requests :
              Holds(Tail(q), r) <=>
                Holds(q, r) /\ ~(Head(q).req = r /\ Head(q).op # "Collect")
         /\ \A r \in Requests, s \in Sessions :
              Replies(Tail(q), r, s) <=>
                /\ Replies(q, r, s)
                /\ ~(Head(q).req = r /\ Head(q).op = "Collect" /\ Head(q).session = s)
         /\ Head(q).op # "Collect" => Holds(q, Head(q).req)
         /\ Head(q).op = "Collect" => Replies(q, Head(q).req, Head(q).session)
<1>1. /\ Tail(q) \in Seq(CmdTasks) /\ Len(q) \in Nat \ {0} /\ Len(Tail(q)) = Len(q) - 1
      /\ \A i \in 1..Len(Tail(q)) : Tail(q)[i] = q[i + 1]
      /\ Head(q) = q[1]
  BY TailFacts
<1>2. CmdDistinct(Tail(q))
  BY <1>1 DEF CmdDistinct
<1>3. ASSUME NEW i \in 1..Len(q) PROVE i = 1 \/ (i - 1 \in 1..Len(Tail(q)) /\ Tail(q)[i - 1] = q[i])
  BY <1>1
<1>4. ASSUME NEW i \in 1..Len(Tail(q)) PROVE i + 1 \in 1..Len(q) /\ i + 1 # 1 /\ 1 \in 1..Len(q)
  BY <1>1
<1>5. ASSUME NEW r \in Requests
      PROVE  Holds(Tail(q), r) <=> Holds(q, r) /\ ~(Head(q).req = r /\ Head(q).op # "Collect")
  <2>1. Holds(Tail(q), r) => Holds(q, r) /\ ~(Head(q).req = r /\ Head(q).op # "Collect")
    BY <1>1, <1>4 DEF Holds, CmdDistinct, SameDuty
  <2>2. Holds(q, r) /\ ~(Head(q).req = r /\ Head(q).op # "Collect") => Holds(Tail(q), r)
    BY <1>1, <1>3 DEF Holds
  <2> QED BY <2>1, <2>2
<1>6. ASSUME NEW r \in Requests, NEW s \in Sessions
      PROVE  Replies(Tail(q), r, s) <=>
               /\ Replies(q, r, s)
               /\ ~(Head(q).req = r /\ Head(q).op = "Collect" /\ Head(q).session = s)
  <2>1. Replies(Tail(q), r, s) =>
          /\ Replies(q, r, s)
          /\ ~(Head(q).req = r /\ Head(q).op = "Collect" /\ Head(q).session = s)
    BY <1>1, <1>4 DEF Replies, CmdDistinct, SameDuty
  <2>2. /\ Replies(q, r, s)
        /\ ~(Head(q).req = r /\ Head(q).op = "Collect" /\ Head(q).session = s)
        => Replies(Tail(q), r, s)
    BY <1>1, <1>3 DEF Replies
  <2> QED BY <2>1, <2>2
<1>7. /\ Head(q).op # "Collect" => Holds(q, Head(q).req)
      /\ Head(q).op = "Collect" => Replies(q, Head(q).req, Head(q).session)
  BY <1>1 DEF Holds, Replies
<1> QED BY <1>2, <1>5, <1>6, <1>7

\* What the queue of the command thread holds when a task is posted.
LEMMA CmdAppend ==
  ASSUME NEW q \in Seq(CmdTasks), NEW e \in CmdTasks
  PROVE  /\ \A r \in Requests :
              Holds(Append(q, e), r) <=> Holds(q, r) \/ (e.req = r /\ e.op # "Collect")
         /\ \A r \in Requests, s \in Sessions :
              Replies(Append(q, e), r, s) <=>
                Replies(q, r, s) \/ (e.req = r /\ e.op = "Collect" /\ e.session = s)
         /\ /\ CmdDistinct(q)
            /\ e.req \in Requests /\ e.op # "Collect" => ~Holds(q, e.req)
            /\ e.op = "Collect" => ~Replies(q, e.req, e.session)
            => CmdDistinct(Append(q, e))
<1>1. /\ Append(q, e) \in Seq(CmdTasks) /\ Len(q) \in Nat /\ Len(Append(q, e)) = Len(q) + 1
      /\ \A i \in 1..Len(q) : Append(q, e)[i] = q[i]
      /\ Append(q, e)[Len(q) + 1] = e
  BY AppendFacts
<1>2. \A i \in 1..Len(Append(q, e)) : i \in 1..Len(q) \/ i = Len(q) + 1
  BY <1>1
<1>3. (\A i \in 1..Len(q) : i \in 1..Len(Append(q, e))) /\ Len(q) + 1 \in 1..Len(Append(q, e))
  BY <1>1
<1>4. \A r \in Requests :
        Holds(Append(q, e), r) <=> Holds(q, r) \/ (e.req = r /\ e.op # "Collect")
  BY <1>1, <1>2, <1>3 DEF Holds
<1>5. \A r \in Requests, s \in Sessions :
        Replies(Append(q, e), r, s) <=>
          Replies(q, r, s) \/ (e.req = r /\ e.op = "Collect" /\ e.session = s)
  BY <1>1, <1>2, <1>3 DEF Replies
<1>6. ASSUME CmdDistinct(q),
             e.req \in Requests /\ e.op # "Collect" => ~Holds(q, e.req),
             e.op = "Collect" => ~Replies(q, e.req, e.session)
      PROVE  CmdDistinct(Append(q, e))
  <2> SUFFICES ASSUME NEW i \in 1..Len(Append(q, e)), NEW j \in 1..Len(Append(q, e)),
                      Append(q, e)[i].req \in Requests,
                      SameDuty(Append(q, e)[i], Append(q, e)[j])
               PROVE  i = j
    BY DEF CmdDistinct
  <2>1. CASE i \in 1..Len(q) /\ j \in 1..Len(q)
    BY <1>1, <1>6, <2>1 DEF CmdDistinct
  <2>2. CASE i = Len(q) + 1 /\ j \in 1..Len(q)
    BY <1>1, <1>6, <2>2 DEF SameDuty, Holds, Replies
  <2>3. CASE i \in 1..Len(q) /\ j = Len(q) + 1
    BY <1>1, <1>6, <2>3 DEF SameDuty, Holds, Replies
  <2> QED BY <1>2, <2>1, <2>2, <2>3
<1> QED BY <1>4, <1>5, <1>6

\* The same for the queue of a session thread.
LEMMA ThreadTail ==
  ASSUME NEW q \in Seq(ThreadTasks), q # <<>>, ThreadDistinct(q)
  PROVE  /\ ThreadDistinct(Tail(q))
         /\ \A r \in Requests :
              /\ Runs(Tail(q), r) <=>
                   Runs(q, r) /\ ~(Head(q).req = r /\ Head(q).callback = "PrepareResponse")
              /\ Asks(Tail(q), r) <=>
                   Asks(q, r) /\ ~(Head(q).req = r /\ Head(q).callback = "Collect")
         /\ Head(q).callback = "PrepareResponse" => Runs(q, Head(q).req)
         /\ Head(q).callback = "Collect" => Asks(q, Head(q).req)
<1>1. /\ Tail(q) \in Seq(ThreadTasks) /\ Len(q) \in Nat \ {0} /\ Len(Tail(q)) = Len(q) - 1
      /\ \A i \in 1..Len(Tail(q)) : Tail(q)[i] = q[i + 1]
      /\ Head(q) = q[1]
  BY TailFacts
<1>2. ThreadDistinct(Tail(q))
  BY <1>1 DEF ThreadDistinct
<1>3. ASSUME NEW i \in 1..Len(q) PROVE i = 1 \/ (i - 1 \in 1..Len(Tail(q)) /\ Tail(q)[i - 1] = q[i])
  BY <1>1
<1>4. ASSUME NEW i \in 1..Len(Tail(q)) PROVE i + 1 \in 1..Len(q) /\ i + 1 # 1 /\ 1 \in 1..Len(q)
  BY <1>1
<1>5. \A r \in Requests :
        Runs(Tail(q), r) => Runs(q, r) /\ ~(Head(q).req = r /\ Head(q).callback = "PrepareResponse")
  BY <1>1, <1>4 DEF Runs, ThreadDistinct
<1>6. \A r \in Requests :
        Runs(q, r) /\ ~(Head(q).req = r /\ Head(q).callback = "PrepareResponse") => Runs(Tail(q), r)
  BY <1>1, <1>3 DEF Runs
<1>7. \A r \in Requests :
        Asks(Tail(q), r) => Asks(q, r) /\ ~(Head(q).req = r /\ Head(q).callback = "Collect")
  BY <1>1, <1>4 DEF Asks, ThreadDistinct
<1>8. \A r \in Requests :
        Asks(q, r) /\ ~(Head(q).req = r /\ Head(q).callback = "Collect") => Asks(Tail(q), r)
  BY <1>1, <1>3 DEF Asks
<1>9. /\ Head(q).callback = "PrepareResponse" => Runs(q, Head(q).req)
      /\ Head(q).callback = "Collect" => Asks(q, Head(q).req)
  BY <1>1 DEF Runs, Asks
<1> QED BY <1>2, <1>5, <1>6, <1>7, <1>8, <1>9

\* ... the queue of a session thread.
LEMMA ThreadAppend ==
  ASSUME NEW q \in Seq(ThreadTasks), NEW e \in ThreadTasks
  PROVE  /\ \A r \in Requests :
              /\ Runs(Append(q, e), r) <=>
                   Runs(q, r) \/ (e.req = r /\ e.callback = "PrepareResponse")
              /\ Asks(Append(q, e), r) <=>
                   Asks(q, r) \/ (e.req = r /\ e.callback = "Collect")
         /\ /\ ThreadDistinct(q)
            /\ e.callback = "PrepareResponse" => ~Runs(q, e.req)
            /\ e.callback = "Collect" => ~Asks(q, e.req)
            => ThreadDistinct(Append(q, e))
<1>1. /\ Append(q, e) \in Seq(ThreadTasks) /\ Len(q) \in Nat
      /\ Len(Append(q, e)) = Len(q) + 1
      /\ \A i \in 1..Len(q) : Append(q, e)[i] = q[i]
      /\ Append(q, e)[Len(q) + 1] = e
  BY AppendFacts
<1>2. \A i \in 1..Len(Append(q, e)) : i \in 1..Len(q) \/ i = Len(q) + 1
  BY <1>1
<1>3. (\A i \in 1..Len(q) : i \in 1..Len(Append(q, e))) /\ Len(q) + 1 \in 1..Len(Append(q, e))
  BY <1>1
<1>4. \A r \in Requests :
        Runs(Append(q, e), r) <=> Runs(q, r) \/ (e.req = r /\ e.callback = "PrepareResponse")
  BY <1>1, <1>2, <1>3 DEF Runs
<1>5. \A r \in Requests :
        Asks(Append(q, e), r) <=> Asks(q, r) \/ (e.req = r /\ e.callback = "Collect")
  BY <1>1, <1>2, <1>3 DEF Asks
<1>6. ASSUME ThreadDistinct(q),
             e.callback = "PrepareResponse" => ~Runs(q, e.req),
             e.callback = "Collect" => ~Asks(q, e.req)
      PROVE  ThreadDistinct(Append(q, e))
  <2> SUFFICES ASSUME NEW i \in 1..Len(Append(q, e)), NEW j \in 1..Len(Append(q, e)),
                      Append(q, e)[i].req = Append(q, e)[j].req,
                      Append(q, e)[i].callback = Append(q, e)[j].callback
               PROVE  i = j
    BY DEF ThreadDistinct
  <2>0. e.callback \in {"PrepareResponse", "Collect"} BY DEF ThreadTasks
  <2>1. CASE i \in 1..Len(q) /\ j \in 1..Len(q)
    BY <1>1, <1>6, <2>1 DEF ThreadDistinct
  <2>2. CASE i = Len(q) + 1 /\ j \in 1..Len(q)
    BY <1>1, <1>6, <2>0, <2>2 DEF Runs, Asks
  <2>3. CASE i \in 1..Len(q) /\ j = Len(q) + 1
    BY <1>1, <1>6, <2>0, <2>3 DEF Runs, Asks
  <2> QED BY <1>2, <2>1, <2>2, <2>3
<1> QED BY <1>4, <1>5, <1>6

\* The loops: one is entered, the innermost returns, a reply is counted, one times out.
LEMMA LoopsAppend ==
  ASSUME NEW q \in Seq(LooseLoops), NEW l \in LooseLoops
  PROVE  /\ \A r : Nests(Append(q, l), r) <=> Nests(q, r) \/ l.req = r
         /\ LoopsDistinct(q) /\ ~Nests(q, l.req) => LoopsDistinct(Append(q, l))
<1>1. /\ Len(q) \in Nat /\ Len(Append(q, l)) = Len(q) + 1
      /\ \A i \in 1..Len(q) : Append(q, l)[i] = q[i]
      /\ Append(q, l)[Len(q) + 1] = l
  BY AppendFacts
<1>2. \A i : i \in 1..Len(Append(q, l)) <=> i \in 1..Len(q) \/ i = Len(q) + 1
  BY <1>1
<1>3. \A r : Nests(Append(q, l), r) <=> Nests(q, r) \/ l.req = r
  BY <1>1, <1>2 DEF Nests
<1>4. LoopsDistinct(q) /\ ~Nests(q, l.req) => LoopsDistinct(Append(q, l))
  BY <1>1, <1>2 DEF Nests, LoopsDistinct
<1> QED BY <1>3, <1>4

\* The innermost run loop ends.
LEMMA LoopsFront ==
  ASSUME NEW q \in Seq(LooseLoops), q # <<>>, LoopsDistinct(q)
  PROVE  LET f == SubSeq(q, 1, Len(q) - 1)
             r == q[Len(q)].req
         IN  /\ r \in Requests /\ Nests(q, r) /\ LoopsDistinct(f)
             /\ \A x : Nests(f, x) <=> Nests(q, x) /\ x # r
             /\ Len(f) = Len(q) - 1 /\ \A i \in 1..Len(f) : i \in 1..Len(q) /\ f[i] = q[i]
<1> DEFINE f == SubSeq(q, 1, Len(q) - 1)
           r == q[Len(q)].req
<1>1. Len(q) \in Nat \ {0} /\ Len(q) \in 1..Len(q)
  OBVIOUS
<1>2. Len(f) = Len(q) - 1 /\ \A i \in 1..Len(f) : f[i] = q[i]
  BY <1>1
<1>3. q[Len(q)] \in LooseLoops
  BY <1>1
<1>4. r \in Requests
  BY <1>3 DEF LooseLoops
<1>5. \A i : i \in 1..Len(f) <=> i \in 1..Len(q) /\ i # Len(q)
  BY <1>1, <1>2
<1> HIDE DEF f
<1>6. Nests(q, r) /\ LoopsDistinct(f)
  BY <1>1, <1>2, <1>5 DEF Nests, LoopsDistinct
<1>7. \A x : Nests(f, x) <=> Nests(q, x) /\ x # r
  BY <1>1, <1>2, <1>5 DEF Nests, LoopsDistinct
<1>8. Len(f) = Len(q) - 1 /\ \A i \in 1..Len(f) : i \in 1..Len(q) /\ f[i] = q[i]
  BY <1>2, <1>5
<1> QED BY <1>4, <1>6, <1>7, <1>8 DEF f

\* The loops when a session has replied.
LEMMA RepliedLoops ==
  ASSUME loops \in Seq(LooseLoops), OnSessionReply
  PROVE  /\ Len(loops') = Len(loops)
         /\ \A i \in 1..Len(loops) :
              /\ loops'[i].req = loops[i].req /\ loops'[i].asked = loops[i].asked
              /\ loops'[i].timedOut = loops[i].timedOut
              /\ IF loops[i].req = Head(cmdQueue).req
                 THEN /\ loops'[i].remaining = loops[i].remaining - 1
                      /\ loops'[i].quit = (loops[i].quit \/ loops[i].remaining = 1)
                 ELSE loops'[i] = loops[i]
<1>1. /\ Len(loops') = Len(loops)
      /\ \A i \in 1..Len(loops) :
           loops'[i] = IF loops[i].req = Head(cmdQueue).req
                       THEN [loops[i] EXCEPT !.remaining = @ - 1, !.quit = @ \/ IsLastReply(i)]
                       ELSE loops[i]
  <2> DEFINE e(i) == IF loops[i].req = Head(cmdQueue).req
                     THEN [loops[i] EXCEPT !.remaining = @ - 1, !.quit = @ \/ IsLastReply(i)]
                     ELSE loops[i]
             n == Len(loops)
  <2>1. loops' = [i \in 1..n |-> e(i)] BY DEF OnSessionReply, CountsFor
  <2>2. n \in Nat OBVIOUS
  <2> HIDE DEF e, n
  <2>3. loops' \in [1..n -> {e(i) : i \in 1..n}] BY <2>1
  <2>4. Len(loops') = n BY <2>2, <2>3, FunctionIsSeq
  <2>5. \A i \in 1..n : loops'[i] = e(i) BY <2>1
  <2> QED BY <2>4, <2>5 DEF e, n
<1>2. ASSUME NEW i \in 1..Len(loops), loops[i].req = Head(cmdQueue).req
      PROVE  /\ loops'[i].req = loops[i].req /\ loops'[i].asked = loops[i].asked
             /\ loops'[i].timedOut = loops[i].timedOut
             /\ loops'[i].remaining = loops[i].remaining - 1
             /\ loops'[i].quit = (loops[i].quit \/ loops[i].remaining = 1)
  <2>1. loops[i] \in LooseLoops OBVIOUS
  <2>2. loops'[i] = [loops[i] EXCEPT !.remaining = loops[i].remaining - 1,
                                     !.quit = loops[i].quit \/ IsLastReply(i)]
    BY <1>1, <1>2
  <2>3. /\ loops'[i].req = loops[i].req /\ loops'[i].asked = loops[i].asked
        /\ loops'[i].timedOut = loops[i].timedOut
        /\ loops'[i].remaining = loops[i].remaining - 1
    BY <2>1, <2>2 DEF LooseLoops
  <2>4. loops'[i].quit = (loops[i].quit \/ IsLastReply(i))
    BY <2>1, <2>2 DEF LooseLoops
  <2> QED BY <2>3, <2>4 DEF IsLastReply
<1> QED BY <1>1, <1>2

\* The loops when one of them times out.
LEMMA TimedOutLoops ==
  ASSUME loops \in Seq(LooseLoops), NEW i \in 1..Len(loops), LoopTimesOut(i)
  PROVE  /\ Len(loops') = Len(loops)
         /\ \A j \in 1..Len(loops) :
              /\ loops'[j].req = loops[j].req /\ loops'[j].asked = loops[j].asked
              /\ loops'[j].remaining = loops[j].remaining
              /\ j # i => loops'[j] = loops[j]
         /\ loops'[i].timedOut
<1> DEFINE l == [loops[i] EXCEPT !.quit = TRUE, !.timedOut = TRUE]
<1>1. loops' = [loops EXCEPT ![i] = l]
  BY DEF LoopTimesOut
<1>2. loops[i] \in LooseLoops
  OBVIOUS
<1>a. l \in LooseLoops
  BY <1>2, CountedLoop
<1> HIDE DEF l
<1>3. /\ Len(loops') = Len(loops)
      /\ \A j \in 1..Len(loops) : j # i => loops'[j] = loops[j]
      /\ loops'[i] = l
  BY <1>1, <1>a, ReplacedElement
<1>4. loops'[i].timedOut
  BY <1>2, <1>3 DEF LooseLoops, l
<1>5. /\ loops'[i].req = loops[i].req /\ loops'[i].asked = loops[i].asked
      /\ loops'[i].remaining = loops[i].remaining
  BY <1>2, <1>3 DEF LooseLoops, l
<1> QED BY <1>3, <1>4, <1>5

\* Type correctness, but for the counters.
LEMMA TypedInvariant == Spec => []Typed
<1>1. Init => Typed
  <2> SUFFICES ASSUME Init PROVE Typed
    OBVIOUS
  <2>1. IsFiniteSet(threadMap) /\ threadMap \in SUBSET Sessions
    BY EarlierAssumption, FS_Subset DEF Init
  <2>2. /\ cmdQueue \in Seq(CmdTasks) /\ ioQueue \in Seq(Requests \cup {None})
        /\ loops \in Seq(LooseLoops) /\ threadQueue \in [Sessions -> Seq(ThreadTasks)]
    BY DEF Init
  <2>3. /\ tls \in [Sessions -> {"unset", "live", "null"}] /\ answered \in [Requests -> Nat]
        /\ sent \in SUBSET Requests /\ shutdowns \in SUBSET sent
        /\ quitting \in SUBSET Sessions /\ delivered \in SUBSET Requests
    BY DEF Init
  <2> QED BY <2>1, <2>2, <2>3 DEF Init, Typed
<1>2. Typed /\ [Next]_vars => Typed'
  <2> SUFFICES ASSUME Typed, [Next]_vars PROVE Typed'
    OBVIOUS
  <2> USE DEF Typed
  <2>1. ASSUME NEW r \in Requests, NEW k \in Kinds, NEW s \in Sessions \cup {None},
               HandleRequestOnIOThread(r, k, s)
        PROVE  Typed'
    <3>1. Task(k, r, s) \in CmdTasks BY DEF Task, CmdTasks
    <3>2. cmdQueue' \in Seq(CmdTasks)
      BY <2>1, <3>1, AppendFacts DEF HandleRequestOnIOThread
    <3> QED BY <2>1, <3>2 DEF HandleRequestOnIOThread, sessionVars, shutdownVars
  <2>2. CASE RunIoTask
    <3>1. ioQueue' \in Seq(Requests \cup {None}) /\ Head(ioQueue) \in Requests \cup {None}
      BY <2>2, TailFacts DEF RunIoTask
    <3> QED BY <2>2, <3>1 DEF RunIoTask, requestVars, sessionVars
  <2>a. ASSUME cmdQueue # <<>>, cmdQueue' = Tail(cmdQueue)
        PROVE  cmdQueue' \in Seq(CmdTasks) /\ Head(cmdQueue) \in CmdTasks
    BY <2>a, TailFacts
  <2>b. ASSUME NEW r \in Requests, PrepareResponse(r)
        PROVE  ioQueue' \in Seq(Requests \cup {None}) /\ answered' \in [Requests -> Nat]
    BY <2>b, AppendFacts DEF PrepareResponse
  <2>c. ASSUME NEW s \in Sessions, NEW t \in ThreadTasks, PostToThread(s, t)
        PROVE  threadQueue' \in [Sessions -> Seq(ThreadTasks)]
    BY <2>c, AppendFacts DEF PostToThread
  <2>3. CASE HandleAfterShutdown
    <3>1. cmdQueue' \in Seq(CmdTasks)
      BY <2>3, <2>a DEF HandleAfterShutdown, CmdTasksOf
    <3> QED BY <2>3, <3>1 DEF HandleAfterShutdown, requestVars, sessionVars, shutdownVars
  <2>4. ASSUME NEW r \in Requests, HandleOther(r) PROVE Typed'
    <3>1. cmdQueue' \in Seq(CmdTasks)
      BY <2>4, <2>a DEF HandleOther, Handles, CmdTask, CmdTasksOf
    <3> QED BY <2>4, <2>b, <3>1 DEF HandleOther, requestVars, sessionVars, shutdownVars
  <2>5. ASSUME NEW r \in Requests, ExecuteCreateSession(r) PROVE Typed'
    <3>1. cmdQueue' \in Seq(CmdTasks)
      BY <2>5, <2>a DEF ExecuteCreateSession, Handles, CmdTask, CmdTasksOf
    <3>2. ThreadTask("InitSession", r, "PrepareResponse") \in ThreadTasks
      BY DEF ThreadTask, ThreadTasks
    <3>3. CASE PrepareResponse(r) /\ UNCHANGED <<threadMap, tls, threadQueue>>
      BY <2>5, <2>b, <3>1, <3>3 DEF ExecuteCreateSession, requestVars, shutdownVars
    <3>4. ASSUME NEW s \in Sessions, threadMap' = threadMap \cup {s},
                 tls' = [tls EXCEPT ![s] = "live"],
                 PostToThread(s, ThreadTask("InitSession", r, "PrepareResponse")),
                 UNCHANGED <<ioQueue, answered>>
          PROVE  Typed'
      <4>1. threadQueue' \in [Sessions -> Seq(ThreadTasks)] BY <2>c, <3>2, <3>4
      <4>2. IsFiniteSet(threadMap') BY <3>4, FS_AddElement
      <4> QED BY <2>5, <3>1, <3>4, <4>1, <4>2 DEF ExecuteCreateSession, requestVars, shutdownVars
    <3> QED BY <2>5, <3>3, <3>4 DEF ExecuteCreateSession
  <2>6. ASSUME NEW r \in Requests, ExecuteSessionCommand(r) PROVE Typed'
    <3>1. cmdQueue' \in Seq(CmdTasks)
      BY <2>6, <2>a DEF ExecuteSessionCommand, Handles, CmdTask, CmdTasksOf
    <3>2. ThreadTask("Command", r, "PrepareResponse") \in ThreadTasks
      BY DEF ThreadTask, ThreadTasks
    <3>3. CASE PrepareResponse(r) /\ UNCHANGED threadQueue
      BY <2>6, <2>b, <3>1, <3>3 DEF ExecuteSessionCommand, requestVars, shutdownVars
    <3>4. ASSUME NEW s \in threadMap, UNCHANGED <<ioQueue, answered>>,
                 PostToThread(s, ThreadTask("Command", r, "PrepareResponse"))
          PROVE  Typed'
      <4>1. threadQueue' \in [Sessions -> Seq(ThreadTasks)] BY <2>c, <3>2, <3>4
      <4> QED BY <2>6, <3>1, <3>4, <4>1 DEF ExecuteSessionCommand, requestVars, shutdownVars
    <3> QED BY <2>6, <3>3, <3>4 DEF ExecuteSessionCommand
  <2>7. ASSUME NEW r \in Requests, NEW k, NEW op \in {"Command", "Quit"},
               CollectFromSessions(r, k, op)
        PROVE  Typed'
    <3>1. cmdQueue' \in Seq(CmdTasks)
      BY <2>7, <2>a DEF CollectFromSessions, Handles, CmdTask, CmdTasksOf
    <3>2. CASE Responded(r) /\ UNCHANGED <<loops, threadQueue>>
      BY <2>7, <2>b, <3>1, <3>2 DEF CollectFromSessions, Responded, requestVars
    <3>3. ASSUME threadQueue' = [s \in Sessions |->
                   IF s \in threadMap
                   THEN Append(threadQueue[s], ThreadTask(op, r, CountingCallback))
                   ELSE threadQueue[s]],
                 loops' = Append(loops, [req |-> r, remaining |-> ReplyCount,
                                         quit |-> FALSE, timedOut |-> FALSE,
                                         asked |-> threadMap]),
                 UNCHANGED <<answered, ioQueue, quitFunc, receivedShutdown>>
          PROVE  Typed'
      <4>1. ThreadTask(op, r, CountingCallback) \in ThreadTasks
        BY DEF ThreadTask, ThreadTasks, CountingCallback
      <4>2. threadQueue' \in [Sessions -> Seq(ThreadTasks)]
        BY <3>3, <4>1, AppendFacts
      <4>3. ReplyCount \in Int BY FS_CardinalityType DEF ReplyCount
      <4>4. loops' \in Seq(LooseLoops)
        BY <3>3, <4>3, AppendFacts DEF LooseLoops
      <4> QED BY <2>7, <3>1, <3>3, <4>2, <4>4 DEF CollectFromSessions, requestVars
    <3> QED BY <2>7, <3>2, <3>3 DEF CollectFromSessions
  <2>8. CASE OnSessionReply
    <3>1. cmdQueue' \in Seq(CmdTasks)
      BY <2>8, <2>a DEF OnSessionReply, CmdTask, CmdTasksOf
    <3>2. loops' \in Seq(LooseLoops)
      <4>1. \A i \in 1..Len(loops) : loops[i] \in LooseLoops OBVIOUS
      <4>2. \A i \in 1..Len(loops) :
              [loops[i] EXCEPT !.remaining = @ - 1, !.quit = @ \/ IsLastReply(i)] \in LooseLoops
        <5> TAKE i \in 1..Len(loops)
        <5>1. (loops[i].quit \/ IsLastReply(i)) \in BOOLEAN OBVIOUS
        <5> QED BY <4>1, <5>1, CountedLoop
      <4> DEFINE f == [i \in 1..Len(loops) |->
                        IF CountsFor(i, Head(cmdQueue).req)
                        THEN [loops[i] EXCEPT !.remaining = @ - 1, !.quit = @ \/ IsLastReply(i)]
                        ELSE loops[i]]
      <4>3. f \in [1..Len(loops) -> LooseLoops] BY <4>1, <4>2
      <4>4. loops' = f BY <2>8 DEF OnSessionReply
      <4>5. Len(loops) \in Nat OBVIOUS
      <4> QED BY <4>3, <4>4, <4>5, FunctionIsSeq
    <3> QED BY <2>8, <3>1, <3>2 DEF OnSessionReply, requestVars, sessionVars, shutdownVars
  <2>9. CASE LoopReturns
    <3>1. loops # <<>> /\ loops' = SubSeq(loops, 1, Len(loops) - 1)
      BY <2>9 DEF LoopReturns
    <3>2. loops' \in Seq(LooseLoops) BY <3>1
    <3>3. Len(loops) \in 1..Len(loops) BY <3>1
    <3>a. loops[Len(loops)] \in LooseLoops BY <3>3
    <3>4. loops[Len(loops)].req \in Requests BY <3>a DEF LooseLoops
    <3>5. ioQueue' \in Seq(Requests \cup {None}) /\ answered' \in [Requests -> Nat]
      BY <2>9, <2>b, <3>4 DEF LoopReturns, Responded
    <3> QED BY <2>9, <3>2, <3>5 DEF LoopReturns, Responded, requestVars, sessionVars
  <2>10. CASE ReplyOnCmdThread
    <3>1. cmdQueue' \in Seq(CmdTasks) /\ Head(cmdQueue) \in CmdTasks
      BY <2>10, <2>a DEF ReplyOnCmdThread, CmdTask, CmdTasksOf
    <3>2. Head(cmdQueue).op = "PrepareResponse"
      BY <2>10 DEF ReplyOnCmdThread, CmdTask, CmdTasksOf
    <3>3. Head(cmdQueue).req \in Requests BY <3>1, <3>2 DEF CmdTasks
    <3> QED BY <2>10, <2>b, <3>1, <3>3 DEF ReplyOnCmdThread, requestVars, sessionVars, shutdownVars
  <2>11. CASE TerminateOnCmd
    <3>1. cmdQueue # <<>> /\ Head(cmdQueue).op = "terminate_on_cmd"
      BY <2>11 DEF TerminateOnCmd, CmdTask, CmdTasksOf
    <3>2. Tail(cmdQueue) \in Seq(CmdTasks) /\ Head(cmdQueue) \in CmdTasks
      BY <3>1, TailFacts
    <3>3. Task("OnSessionTerminated", None, Head(cmdQueue).session) \in CmdTasks
      BY <3>1, <3>2 DEF CmdTasks, Kinds, Task
    <3>4. cmdQueue' \in Seq(CmdTasks)
      BY <2>11, <3>2, <3>3, AppendFacts DEF TerminateOnCmd
    <3> QED BY <2>11, <3>4 DEF TerminateOnCmd, requestVars, sessionVars, shutdownVars
  <2>12. CASE OnSessionTerminated
    <3>1. cmdQueue' \in Seq(CmdTasks)
      BY <2>12, <2>a DEF OnSessionTerminated, CmdTask, CmdTasksOf
    <3>2. threadMap' \in SUBSET threadMap BY <2>12 DEF OnSessionTerminated
    <3>3. IsFiniteSet(threadMap) BY DEF Typed
    <3>4. IsFiniteSet(threadMap') BY <3>2, <3>3, FS_Subset, SMTT(30)
    <3> QED BY <2>12, <3>1, <3>4 DEF OnSessionTerminated, requestVars, shutdownVars
  <2>13. CASE RunServerReturns
    <3>1. ioQueue' \in Seq(Requests \cup {None})
      BY <2>13, AppendFacts DEF RunServerReturns
    <3> QED BY <2>13, <3>1 DEF RunServerReturns, requestVars, sessionVars, shutdownVars
  <2>14. ASSUME NEW i \in 1..Len(loops), LoopTimesOut(i) PROVE Typed'
    <3>1. loops[i] \in LooseLoops OBVIOUS
    <3>2. loops' = [loops EXCEPT ![i] = [loops[i] EXCEPT !.quit = TRUE, !.timedOut = TRUE]]
      BY <2>14 DEF LoopTimesOut
    <3>3. loops' \in Seq(LooseLoops) BY <3>1, <3>2, CountedLoop, ReplacedElement
    <3> QED BY <2>14, <3>3 DEF LoopTimesOut, requestVars, sessionVars, shutdownVars
  <2>15. ASSUME NEW s \in Sessions, ExecuteSessionCommandOnSessionThread(s) PROVE Typed'
    <3>1. threadQueue[s] \in Seq(ThreadTasks) /\ threadQueue[s] # <<>>
      BY <2>15 DEF ExecuteSessionCommandOnSessionThread
    <3>2. Tail(threadQueue[s]) \in Seq(ThreadTasks) /\ Head(threadQueue[s]) \in ThreadTasks
      BY <3>1, TailFacts
    <3>3. Reply(Head(threadQueue[s]), s) \in CmdTasks
      BY <3>2 DEF Reply, Task, CmdTasks, ThreadTasks
    <3>4. cmdQueue' \in Seq(CmdTasks)
      BY <2>15, <3>3, AppendFacts DEF ExecuteSessionCommandOnSessionThread
    <3>5. threadQueue' \in [Sessions -> Seq(ThreadTasks)]
      BY <2>15, <3>2 DEF ExecuteSessionCommandOnSessionThread
    <3>6. quitting' \in SUBSET Sessions
      BY <2>15 DEF ExecuteSessionCommandOnSessionThread
    <3> QED
      BY <2>15, <3>4, <3>5, <3>6
      DEF ExecuteSessionCommandOnSessionThread, requestVars, shutdownVars
  <2>16. ASSUME NEW s \in Sessions, Terminate(s) PROVE Typed'
    <3>1. Task("terminate_on_cmd", None, s) \in CmdTasks BY DEF Task, CmdTasks
    <3>2. cmdQueue' \in Seq(CmdTasks) BY <2>16, <3>1, AppendFacts DEF Terminate
    <3> QED BY <2>16, <3>2 DEF Terminate, requestVars, shutdownVars
  <2>17. ASSUME NEW s \in Sessions, BrowserGone(s) PROVE Typed'
    BY <2>17 DEF BrowserGone, requestVars, shutdownVars
  <2>18. CASE UNCHANGED vars
    BY <2>18 DEF vars, requestVars, sessionVars, shutdownVars
  <2>19. "Command" \in Kinds /\ None \in Sessions \cup {None} BY DEF Kinds
  <2> HIDE DEF Typed
  <2>20. CASE Next
    <3>1. CASE CmdSteps
      BY <3>1, <2>3, <2>4, <2>5, <2>6, <2>7, <2>8, <2>9, <2>10, <2>11, <2>12, <2>13
      DEF CmdSteps, Handling, ExecuteGetSessions, ExecuteQuitAll
    <3> QED
      BY <3>1, <2>20, <2>1, <2>2, <2>14, <2>15, <2>16, <2>17, <2>19 DEF Next, ThreadSteps
  <2> QED BY <2>18, <2>20
<1> QED BY <1>1, <1>2, PTL DEF Spec

\* Every step keeps every duty in one place.
LEMMA OwnershipInvariant == Spec => []Ownership
<1>1. Init => Ownership
  BY DEF Init, Ownership, CmdDistinct, LoopsDistinct, ThreadDistinct, Duty, RunningDuty,
         CollectedOnce, Holds, Nests, Runs, Asks, Replies
<1>2. Typed /\ Typed' /\ Ownership /\ [Next]_vars => Ownership'
  <2> SUFFICES ASSUME Typed, Typed', Ownership, [Next]_vars PROVE Ownership'
    OBVIOUS
  <2>t. /\ cmdQueue \in Seq(CmdTasks) /\ loops \in Seq(LooseLoops)
        /\ threadQueue \in [Sessions -> Seq(ThreadTasks)] /\ answered \in [Requests -> Nat]
    BY DEF Typed
  <2>o. /\ CmdDistinct(cmdQueue) /\ LoopsDistinct(loops)
        /\ \A s \in Sessions : ThreadDistinct(threadQueue[s])
        /\ \A r \in Requests : Duty(r)
        /\ \A r \in Requests, s \in Sessions : RunningDuty(r, s) /\ CollectedOnce(r, s)
    BY DEF Ownership
  \* The head of the queue of the CMD thread is taken.
  <2> DEFINE hd == Head(cmdQueue)
             tl == Tail(cmdQueue)
  <2>h. ASSUME cmdQueue # <<>>
        PROVE  /\ CmdDistinct(tl)
               /\ \A r \in Requests :
                    Holds(tl, r) <=> Holds(cmdQueue, r) /\ ~(hd.req = r /\ hd.op # "Collect")
               /\ \A r \in Requests, s \in Sessions :
                    Replies(tl, r, s) <=>
                      /\ Replies(cmdQueue, r, s)
                      /\ ~(hd.req = r /\ hd.op = "Collect" /\ hd.session = s)
               /\ hd.op # "Collect" => Holds(cmdQueue, hd.req)
               /\ hd.op = "Collect" => Replies(cmdQueue, hd.req, hd.session)
    BY <2>h, <2>t, <2>o, CmdTail
  <2> HIDE DEF hd, tl
  \* Nothing changes that a duty depends on.
  <2>u. ASSUME UNCHANGED <<sent, cmdQueue, loops, threadQueue, answered>> PROVE Ownership'
    BY <2>u, <2>o DEF Ownership, Duty, RunningDuty, CollectedOnce
  \* The head was the task of request r, and r is answered.
  <2>a. ASSUME NEW r \in Requests, cmdQueue # <<>>, hd.req = r, hd.op # "Collect",
               cmdQueue' = tl, PrepareResponse(r), UNCHANGED <<sent, loops, threadQueue>>
        PROVE  Ownership'
    <3>1. \A x \in Requests : answered'[x] = IF x = r THEN answered[x] + 1 ELSE answered[x]
      BY <2>a, <2>t DEF PrepareResponse
    <3>2. ASSUME NEW x \in Requests PROVE Duty(x)'
      BY <3>1, <2>a, <2>h, <2>o, <2>t DEF Duty
    <3>3. ASSUME NEW x \in Requests, NEW s \in Sessions PROVE RunningDuty(x, s)'
      BY <3>1, <2>a, <2>h, <2>o DEF RunningDuty
    <3>4. ASSUME NEW x \in Requests, NEW s \in Sessions PROVE CollectedOnce(x, s)'
      BY <2>a, <2>h, <2>o DEF CollectedOnce
    <3> QED BY <3>2, <3>3, <3>4, <2>a, <2>h, <2>o DEF Ownership
  \* The head was the task of request r, which a session thread is given.
  <2>c. ASSUME NEW r \in Requests, NEW s0 \in Sessions, NEW op \in {"InitSession", "Command"},
               cmdQueue # <<>>, hd.req = r, hd.op # "Collect", cmdQueue' = tl,
               PostToThread(s0, ThreadTask(op, r, "PrepareResponse")),
               UNCHANGED <<sent, loops, answered>>
        PROVE  Ownership'
    <3> DEFINE e == ThreadTask(op, r, "PrepareResponse")
    <3>1. e \in ThreadTasks /\ e.req = r /\ e.callback = "PrepareResponse"
      BY DEF ThreadTask, ThreadTasks
    <3> HIDE DEF e
    <3>2. \A s \in Sessions :
            threadQueue'[s] = IF s = s0 THEN Append(threadQueue[s], e) ELSE threadQueue[s]
      BY <2>c, <2>t DEF PostToThread, e
    <3>3. \A s \in Sessions, x \in Requests :
            /\ Runs(threadQueue'[s], x) <=> Runs(threadQueue[s], x) \/ (x = r /\ s = s0)
            /\ Asks(threadQueue'[s], x) <=> Asks(threadQueue[s], x)
      BY <3>1, <3>2, <2>t, ThreadAppend
    <3>4. \A s \in Sessions : ThreadDistinct(threadQueue'[s])
      <4>1. ~Runs(threadQueue[s0], r) BY <2>c, <2>h, <2>o DEF RunningDuty
      <4> QED BY <3>1, <3>2, <4>1, <2>o, <2>t, ThreadAppend
    <3>5. ASSUME NEW x \in Requests PROVE Duty(x)'
      BY <2>c, <2>h, <2>o, <2>t DEF Duty
    <3>6. ASSUME NEW x \in Requests, NEW s \in Sessions PROVE RunningDuty(x, s)'
      BY <3>3, <2>c, <2>h, <2>o DEF RunningDuty, Duty
    <3>7. ASSUME NEW x \in Requests, NEW s \in Sessions PROVE CollectedOnce(x, s)'
      BY <3>3, <2>c, <2>h, <2>o DEF CollectedOnce
    <3> QED BY <3>4, <3>5, <3>6, <3>7, <2>c, <2>h, <2>o DEF Ownership
  \* The head is dropped.
  <2>d. ASSUME cmdQueue # <<>>, cmdQueue' = tl,
               UNCHANGED <<sent, loops, threadQueue, answered>>
        PROVE  Ownership'
    <3>1. ASSUME NEW x \in Requests PROVE Duty(x)'
      BY <2>d, <2>h, <2>o DEF Duty
    <3>2. ASSUME NEW x \in Requests, NEW s \in Sessions PROVE RunningDuty(x, s)'
      BY <2>d, <2>h, <2>o DEF RunningDuty
    <3>3. ASSUME NEW x \in Requests, NEW s \in Sessions PROVE CollectedOnce(x, s)'
      BY <2>d, <2>h, <2>o DEF CollectedOnce
    <3> QED BY <3>1, <3>2, <3>3, <2>d, <2>h, <2>o DEF Ownership
  <2>1. ASSUME NEW r \in Requests, NEW k \in Kinds, NEW s0 \in Sessions \cup {None},
               HandleRequestOnIOThread(r, k, s0)
        PROVE  Ownership'
    <3> DEFINE e == Task(k, r, s0)
    <3>1. e \in CmdTasks /\ e.req = r /\ e.op # "Collect"
      BY DEF Task, CmdTasks, Kinds
    <3>2. /\ r \notin sent /\ sent' = sent \cup {r} /\ cmdQueue' = Append(cmdQueue, e)
          /\ UNCHANGED <<loops, threadQueue, answered>>
      BY <2>1 DEF HandleRequestOnIOThread, sessionVars
    <3> HIDE DEF e
    <3>3. /\ \A x \in Requests : Holds(cmdQueue', x) <=> Holds(cmdQueue, x) \/ x = r
          /\ \A x \in Requests, s \in Sessions :
               Replies(cmdQueue', x, s) <=> Replies(cmdQueue, x, s)
      BY <3>1, <3>2, <2>t, CmdAppend
    <3>4. ~Holds(cmdQueue, r) /\ answered[r] = 0 /\ ~Nests(loops, r)
      BY <3>2, <2>o, <2>t DEF Duty
    <3>5. CmdDistinct(cmdQueue')
      BY <3>1, <3>2, <3>4, <2>t, <2>o, CmdAppend
    <3>6. ASSUME NEW x \in Requests PROVE Duty(x)'
      BY <3>2, <3>3, <3>4, <2>o DEF Duty
    <3>7. ASSUME NEW x \in Requests, NEW s \in Sessions PROVE RunningDuty(x, s)'
      BY <3>2, <3>3, <2>o DEF RunningDuty
    <3>8. ASSUME NEW x \in Requests, NEW s \in Sessions PROVE CollectedOnce(x, s)'
      BY <3>2, <3>3, <2>o DEF CollectedOnce, RunningDuty
    <3> QED BY <3>2, <3>5, <3>6, <3>7, <3>8, <2>o DEF Ownership
  <2>2. CASE RunIoTask
    BY <2>2, <2>u DEF RunIoTask, requestVars, sessionVars
  <2>3. CASE HandleAfterShutdown
    BY <2>3, <2>d DEF HandleAfterShutdown, CmdTasksOf, requestVars, sessionVars, tl
  <2>k. ASSUME NEW r \in Requests, NEW k \in Kinds, Handles(r, k)
        PROVE  cmdQueue # <<>> /\ hd.req = r /\ hd.op # "Collect"
    BY <2>k DEF Handles, CmdTask, CmdTasksOf, Kinds, hd
  <2>4. ASSUME NEW r \in Requests, HandleOther(r) PROVE Ownership'
    <3>1. Handles(r, "Other") /\ "Other" \in Kinds BY <2>4 DEF HandleOther, Kinds
    <3> QED BY <2>4, <3>1, <2>k, <2>a DEF HandleOther, requestVars, sessionVars, tl
  <2>5. ASSUME NEW r \in Requests, ExecuteCreateSession(r) PROVE Ownership'
    <3>1. Handles(r, "NewSession") /\ "NewSession" \in Kinds
      BY <2>5 DEF ExecuteCreateSession, Kinds
    <3>2. cmdQueue' = tl /\ UNCHANGED <<sent, loops>>
      BY <2>5 DEF ExecuteCreateSession, requestVars, tl
    <3> QED BY <2>5, <3>1, <3>2, <2>k, <2>a, <2>c DEF ExecuteCreateSession
  <2>6. ASSUME NEW r \in Requests, ExecuteSessionCommand(r) PROVE Ownership'
    <3>1. Handles(r, "Command") /\ "Command" \in Kinds
      BY <2>6 DEF ExecuteSessionCommand, Kinds
    <3>2. cmdQueue' = tl /\ UNCHANGED <<sent, loops>>
      BY <2>6 DEF ExecuteSessionCommand, requestVars, tl
    <3>3. threadMap \subseteq Sessions BY DEF Typed
    <3> QED BY <2>6, <3>1, <3>2, <3>3, <2>k, <2>a, <2>c DEF ExecuteSessionCommand
  <2>7. ASSUME NEW r \in Requests, NEW k \in Kinds, NEW op \in {"Command", "Quit"},
               CollectFromSessions(r, k, op)
        PROVE  Ownership'
    <3>1. /\ cmdQueue # <<>> /\ hd.req = r /\ hd.op # "Collect" /\ cmdQueue' = tl
          /\ UNCHANGED sent
      BY <2>7, <2>k DEF CollectFromSessions, requestVars, tl
    <3>2. CASE Responded(r) /\ UNCHANGED <<loops, threadQueue>>
      BY <3>1, <3>2, <2>a DEF Responded
    <3>3. CASE threadMap # {}
      <4> DEFINE e == ThreadTask(op, r, CountingCallback)
                 l == [req |-> r, remaining |-> ReplyCount, quit |-> FALSE,
                       timedOut |-> FALSE, asked |-> threadMap]
      <4>1. e \in ThreadTasks /\ e.req = r /\ e.callback = "Collect"
        BY DEF ThreadTask, ThreadTasks, CountingCallback
      <4>2. /\ \A s \in Sessions :
                 threadQueue'[s] = IF s \in threadMap THEN Append(threadQueue[s], e)
                                                     ELSE threadQueue[s]
            /\ loops' = Append(loops, l) /\ UNCHANGED answered
        BY <2>7, <3>3, <2>t DEF CollectFromSessions
      <4>3. l \in LooseLoops
        BY FS_CardinalityType DEF LooseLoops, ReplyCount, Typed
      <4>4. l.req = r OBVIOUS
      <4> HIDE DEF e, l
      <4>5. \A s \in Sessions, x \in Requests :
              /\ Runs(threadQueue'[s], x) <=> Runs(threadQueue[s], x)
              /\ Asks(threadQueue'[s], x) <=> Asks(threadQueue[s], x) \/ (x = r /\ s \in threadMap)
        BY <4>1, <4>2, <2>t, ThreadAppend
      <4>6. /\ ~Nests(loops, r) /\ answered[r] = 0 /\ r \in sent
            /\ \A s \in Sessions : /\ ~Runs(threadQueue[s], r) /\ ~Asks(threadQueue[s], r)
                                   /\ ~Replies(cmdQueue, r, s)
        BY <3>1, <2>h, <2>o DEF Duty, RunningDuty, CollectedOnce
      <4>7. ASSUME NEW s \in Sessions PROVE ThreadDistinct(threadQueue'[s])
        <5>1. threadQueue[s] \in Seq(ThreadTasks) BY <2>t
        <5>2. ThreadDistinct(Append(threadQueue[s], e))
          BY <4>1, <4>6, <5>1, <2>o, ThreadAppend
        <5> QED BY <5>2, <4>2, <2>o
      <4>8. /\ \A x \in Requests : Nests(loops', x) <=> Nests(loops, x) \/ x = r
            /\ LoopsDistinct(loops')
        BY <4>2, <4>3, <4>4, <4>6, <2>t, <2>o, LoopsAppend
      <4>9. ASSUME NEW x \in Requests PROVE Duty(x)'
        BY <3>1, <4>2, <4>6, <4>8, <2>h, <2>o DEF Duty
      <4>10. ASSUME NEW x \in Requests, NEW s \in Sessions PROVE RunningDuty(x, s)'
        BY <3>1, <4>2, <4>5, <4>6, <4>8, <2>h, <2>o DEF RunningDuty
      <4>11. ASSUME NEW x \in Requests, NEW s \in Sessions PROVE CollectedOnce(x, s)'
        BY <3>1, <4>5, <4>6, <2>h, <2>o DEF CollectedOnce
      <4> QED BY <3>1, <4>7, <4>8, <4>9, <4>10, <4>11, <2>h, <2>o DEF Ownership
    <3> QED BY <2>7, <3>2, <3>3 DEF CollectFromSessions
  \* The loops keep their requests.
  <2>l. ASSUME Len(loops') = Len(loops), \A i \in 1..Len(loops) : loops'[i].req = loops[i].req
        PROVE  LoopsDistinct(loops') /\ \A x : Nests(loops', x) <=> Nests(loops, x)
    BY <2>l, <2>o DEF LoopsDistinct, Nests
  <2>8. CASE OnSessionReply
    <3>1. /\ cmdQueue # <<>> /\ hd.op = "Collect" /\ cmdQueue' = tl
          /\ UNCHANGED <<sent, threadQueue, answered>>
      BY <2>8 DEF OnSessionReply, CmdTask, CmdTasksOf, requestVars, sessionVars, hd, tl
    <3>2. Len(loops') = Len(loops) /\ \A i \in 1..Len(loops) : loops'[i].req = loops[i].req
      BY <2>8, <2>t, RepliedLoops
    <3>3. ASSUME NEW x \in Requests PROVE Duty(x)'
      BY <3>1, <3>2, <2>l, <2>h, <2>o DEF Duty
    <3>4. ASSUME NEW x \in Requests, NEW s \in Sessions PROVE RunningDuty(x, s)'
      BY <3>1, <3>2, <2>l, <2>h, <2>o DEF RunningDuty
    <3>5. ASSUME NEW x \in Requests, NEW s \in Sessions PROVE CollectedOnce(x, s)'
      BY <3>1, <2>h, <2>o DEF CollectedOnce
    <3> QED BY <3>1, <3>2, <3>3, <3>4, <3>5, <2>l, <2>h, <2>o DEF Ownership
  <2>9. CASE LoopReturns
    <3> DEFINE r == loops[Len(loops)].req
    <3>1. /\ loops # <<>> /\ loops' = SubSeq(loops, 1, Len(loops) - 1)
          /\ PrepareResponse(r) /\ UNCHANGED <<sent, cmdQueue, threadQueue>>
      BY <2>9 DEF LoopReturns, Responded, requestVars, sessionVars
    <3>2. /\ r \in Requests /\ LoopsDistinct(loops') /\ Nests(loops, r)
          /\ \A x \in Requests : Nests(loops', x) <=> Nests(loops, x) /\ x # r
      BY <3>1, <2>t, <2>o, LoopsFront
    <3> HIDE DEF r
    <3>3. \A x \in Requests : answered'[x] = IF x = r THEN answered[x] + 1 ELSE answered[x]
      BY <3>1, <3>2, <2>t DEF PrepareResponse
    <3>4. ASSUME NEW x \in Requests PROVE Duty(x)'
      BY <3>1, <3>2, <3>3, <2>o, <2>t DEF Duty
    <3>5. ASSUME NEW x \in Requests, NEW s \in Sessions PROVE RunningDuty(x, s)'
      BY <3>1, <3>2, <3>3, <2>o DEF RunningDuty
    <3>6. ASSUME NEW x \in Requests, NEW s \in Sessions PROVE CollectedOnce(x, s)'
      BY <3>1, <2>o DEF CollectedOnce
    <3> QED BY <3>1, <3>2, <3>4, <3>5, <3>6, <2>o DEF Ownership
  <2>10. CASE ReplyOnCmdThread
    <3>1. cmdQueue # <<>> /\ hd.op = "PrepareResponse"
      BY <2>10 DEF ReplyOnCmdThread, CmdTask, CmdTasksOf, hd
    <3>2. hd \in CmdTasks BY <3>1, <2>t, TailFacts DEF hd
    <3>3. hd.req \in Requests BY <3>1, <3>2 DEF CmdTasks
    <3>4. PrepareResponse(hd.req) /\ cmdQueue' = tl /\ UNCHANGED <<sent, loops, threadQueue>>
      BY <2>10 DEF ReplyOnCmdThread, requestVars, sessionVars, hd, tl
    <3> QED BY <3>1, <3>3, <3>4, <2>a
  \* A task without a request comes to the queue q, which holds what the queue held or less.
  <2>e. ASSUME NEW q \in Seq(CmdTasks), CmdDistinct(q),
               \A x \in Requests : Holds(q, x) => Holds(cmdQueue, x),
               \A x \in Requests, s \in Sessions : Replies(q, x, s) => Replies(cmdQueue, x, s),
               NEW e \in CmdTasks, e.req = None, e.op # "Collect", cmdQueue' = Append(q, e),
               UNCHANGED <<sent, loops, threadQueue, answered>>
        PROVE  Ownership'
    <3>1. None \notin Requests BY NoneAssumption
    <3>2. /\ \A x \in Requests : Holds(cmdQueue', x) => Holds(cmdQueue, x)
          /\ \A x \in Requests, s \in Sessions : Replies(cmdQueue', x, s) => Replies(cmdQueue, x, s)
          /\ CmdDistinct(cmdQueue')
      BY <3>1, <2>e, CmdAppend
    <3>3. ASSUME NEW x \in Requests PROVE Duty(x)'
      BY <3>2, <2>e, <2>o DEF Duty
    <3>4. ASSUME NEW x \in Requests, NEW s \in Sessions PROVE RunningDuty(x, s)'
      BY <3>2, <2>e, <2>o DEF RunningDuty
    <3>5. ASSUME NEW x \in Requests, NEW s \in Sessions PROVE CollectedOnce(x, s)'
      BY <3>2, <2>e, <2>o DEF CollectedOnce
    <3> QED BY <3>2, <3>3, <3>4, <3>5, <2>e, <2>o DEF Ownership
  <2>11. CASE TerminateOnCmd
    <3> DEFINE e == Task("OnSessionTerminated", None, hd.session)
    <3>1. /\ cmdQueue # <<>> /\ hd.op = "terminate_on_cmd" /\ cmdQueue' = Append(tl, e)
          /\ UNCHANGED <<sent, loops, threadQueue, answered>>
      BY <2>11 DEF TerminateOnCmd, CmdTask, CmdTasksOf, requestVars, sessionVars, hd, tl
    <3>2. hd \in CmdTasks /\ tl \in Seq(CmdTasks) BY <3>1, <2>t, TailFacts DEF hd, tl
    <3>3. hd.session \in Sessions BY <3>1, <3>2 DEF CmdTasks, Kinds
    <3>4. e \in CmdTasks /\ e.req = None /\ e.op # "Collect" BY <3>3 DEF Task, CmdTasks
    <3> HIDE DEF e
    <3> QED BY <3>1, <3>2, <3>4, <2>h, <2>e
  <2>12. CASE OnSessionTerminated
    BY <2>12, <2>d DEF OnSessionTerminated, CmdTask, CmdTasksOf, requestVars, tl
  <2>13. CASE RunServerReturns
    BY <2>13, <2>u DEF RunServerReturns, requestVars, sessionVars
  <2>14. ASSUME NEW i \in 1..Len(loops), LoopTimesOut(i) PROVE Ownership'
    <3>1. Len(loops') = Len(loops) /\ \A j \in 1..Len(loops) : loops'[j].req = loops[j].req
      BY <2>14, <2>t, TimedOutLoops
    <3>2. UNCHANGED <<sent, cmdQueue, threadQueue, answered>>
      BY <2>14 DEF LoopTimesOut, requestVars, sessionVars
    <3>3. ASSUME NEW x \in Requests PROVE Duty(x)'
      BY <3>1, <3>2, <2>l, <2>o DEF Duty
    <3>4. ASSUME NEW x \in Requests, NEW s \in Sessions PROVE RunningDuty(x, s)'
      BY <3>1, <3>2, <2>l, <2>o DEF RunningDuty
    <3>5. ASSUME NEW x \in Requests, NEW s \in Sessions PROVE CollectedOnce(x, s)'
      BY <3>2, <2>o DEF CollectedOnce
    <3> QED BY <3>1, <3>2, <3>3, <3>4, <3>5, <2>l, <2>o DEF Ownership
  <2>15. ASSUME NEW s0 \in Sessions, ExecuteSessionCommandOnSessionThread(s0) PROVE Ownership'
    <3> DEFINE q == threadQueue[s0]
               t == Head(q)
               e == Reply(t, s0)
    <3>1. /\ q \in Seq(ThreadTasks) /\ q # <<>> /\ ThreadDistinct(q)
          /\ cmdQueue' = Append(cmdQueue, e) /\ UNCHANGED <<sent, loops, answered>>
      BY <2>15, <2>t, <2>o DEF ExecuteSessionCommandOnSessionThread, requestVars
    <3>2. \A s \in Sessions : threadQueue'[s] = IF s = s0 THEN Tail(q) ELSE threadQueue[s]
      BY <2>15, <2>t DEF ExecuteSessionCommandOnSessionThread
    <3>3. t \in ThreadTasks BY <3>1, TailFacts
    <3>4. /\ t.req \in Requests
          /\ t.callback = "Collect" \/ (t.callback = "PrepareResponse" /\ t.callback # "Collect")
      BY <3>3 DEF ThreadTasks
    <3>5. /\ e \in CmdTasks /\ e.req = t.req /\ e.op = t.callback
          /\ t.callback = "Collect" => e.session = s0
      BY <3>4 DEF Reply, Task, CmdTasks
    <3> HIDE DEF e, t
    <3>6. /\ \A s \in Sessions : ThreadDistinct(threadQueue'[s])
          /\ \A s \in Sessions, x \in Requests :
               /\ Runs(threadQueue'[s], x) <=>
                    /\ Runs(threadQueue[s], x)
                    /\ ~(s = s0 /\ x = t.req /\ t.callback = "PrepareResponse")
               /\ Asks(threadQueue'[s], x) <=>
                    /\ Asks(threadQueue[s], x)
                    /\ ~(s = s0 /\ x = t.req /\ t.callback = "Collect")
          /\ t.callback = "PrepareResponse" => Runs(threadQueue[s0], t.req)
          /\ t.callback = "Collect" => Asks(threadQueue[s0], t.req)
      BY <3>1, <3>2, <2>o, ThreadTail DEF t
    <3>7. /\ \A x \in Requests :
               Holds(cmdQueue', x) <=>
                 Holds(cmdQueue, x) \/ (x = t.req /\ t.callback = "PrepareResponse")
          /\ \A x \in Requests, s \in Sessions :
               Replies(cmdQueue', x, s) <=>
                 Replies(cmdQueue, x, s) \/ (x = t.req /\ s = s0 /\ t.callback = "Collect")
      BY <3>1, <3>4, <3>5, <2>t, CmdAppend
    <3>8. CmdDistinct(cmdQueue')
      <4>1. t.callback = "PrepareResponse" => ~Holds(cmdQueue, t.req)
        BY <3>4, <3>6, <2>o DEF RunningDuty
      <4>2. t.callback = "Collect" => ~Replies(cmdQueue, t.req, s0)
        BY <3>4, <3>6, <2>o DEF CollectedOnce
      <4> QED BY <4>1, <4>2, <3>1, <3>4, <3>5, <2>o, <2>t, CmdAppend
    <3>9. ASSUME NEW x \in Requests PROVE Duty(x)'
      <4>1. x = t.req /\ t.callback = "PrepareResponse" =>
              x \in sent /\ answered[x] = 0 /\ ~Nests(loops, x)
        BY <3>6, <2>o DEF RunningDuty
      <4> QED BY <4>1, <3>1, <3>7, <2>o DEF Duty
    <3>10. ASSUME NEW x \in Requests, NEW s \in Sessions PROVE RunningDuty(x, s)'
      BY <3>1, <3>4, <3>6, <3>7, <2>o DEF RunningDuty
    <3>11. ASSUME NEW x \in Requests, NEW s \in Sessions PROVE CollectedOnce(x, s)'
      <4>1. x = t.req /\ t.callback = "PrepareResponse" =>
              ~Asks(threadQueue[s], x) /\ ~Replies(cmdQueue, x, s)
        BY <3>6, <2>o DEF CollectedOnce
      <4> QED BY <4>1, <3>1, <3>4, <3>6, <3>7, <2>o DEF CollectedOnce
    <3> QED BY <3>1, <3>6, <3>8, <3>9, <3>10, <3>11, <2>o DEF Ownership
  <2>16. ASSUME NEW s \in Sessions, Terminate(s) PROVE Ownership'
    <3> DEFINE e == Task("terminate_on_cmd", None, s)
    <3>1. e \in CmdTasks /\ e.req = None /\ e.op # "Collect" BY DEF Task, CmdTasks
    <3>2. cmdQueue' = Append(cmdQueue, e) /\ UNCHANGED <<sent, loops, threadQueue, answered>>
      BY <2>16 DEF Terminate, requestVars
    <3> HIDE DEF e
    <3> QED BY <3>1, <3>2, <2>t, <2>o, <2>e
  <2>17. ASSUME NEW s \in Sessions, BrowserGone(s) PROVE Ownership'
    BY <2>17, <2>u DEF BrowserGone, requestVars
  <2>18. CASE UNCHANGED vars
    BY <2>18, <2>u DEF vars, requestVars, sessionVars
  <2>19. {"Command", "GetSessions", "QuitAll"} \subseteq Kinds /\ None \in Sessions \cup {None}
    BY DEF Kinds
  <2>20. CASE Next
    <3>1. CASE CmdSteps
      BY <3>1, <2>3, <2>4, <2>5, <2>6, <2>7, <2>8, <2>9, <2>10, <2>11, <2>12, <2>13, <2>19
      DEF CmdSteps, Handling, ExecuteGetSessions, ExecuteQuitAll
    <3> QED
      BY <3>1, <2>20, <2>1, <2>2, <2>14, <2>15, <2>16, <2>17, <2>19 DEF Next, ThreadSteps
  <2> QED BY <2>18, <2>20
<1> QED BY <1>1, <1>2, TypedInvariant, PTL DEF Spec

\* Every counter is the number of the replies under way.
LEMMA CountedInvariant == Spec => []Counted
<1>1. Init => Counted
  BY DEF Init, Counted
<1>2. Typed /\ Typed' /\ Ownership /\ Counted /\ [Next]_vars => Counted'
  <2> SUFFICES ASSUME Typed, Typed', Ownership, Counted, [Next]_vars PROVE Counted'
    OBVIOUS
  <2>t. /\ cmdQueue \in Seq(CmdTasks) /\ loops \in Seq(LooseLoops)
        /\ threadQueue \in [Sessions -> Seq(ThreadTasks)]
        /\ threadMap \in SUBSET Sessions /\ IsFiniteSet(threadMap)
    BY DEF Typed
  <2>o. /\ CmdDistinct(cmdQueue) /\ LoopsDistinct(loops)
        /\ \A s \in Sessions : ThreadDistinct(threadQueue[s])
        /\ \A r \in Requests : Duty(r)
        /\ \A r \in Requests, s \in Sessions : RunningDuty(r, s) /\ CollectedOnce(r, s)
    BY DEF Ownership
  <2>r. ASSUME NEW i \in 1..Len(loops) PROVE loops[i] \in LooseLoops /\ loops[i].req \in Requests
    <3>1. loops[i] \in LooseLoops BY <2>t
    <3> QED BY <3>1 DEF LooseLoops
  <2> DEFINE Due(s, x) == Asks(threadQueue[s], x) \/ Replies(cmdQueue, x, s)
             Same(x) == \A s \in Sessions : Due(s, x)' <=> Due(s, x)
             Kept == \A i \in 1..Len(loops') :
                       \E j \in 1..Len(loops) : /\ loops'[i].req = loops[j].req
                                                /\ loops'[i].remaining = loops[j].remaining
  \* A request of which no reply was added or counted.
  <2>s. ASSUME NEW x, Same(x) PROVE Outstanding(x)' = Outstanding(x)
    BY <2>s, SMTT(30) DEF Outstanding
  <2>k. ASSUME \A x \in Requests : Same(x), Kept PROVE Counted'
    BY <2>k, <2>s, <2>r DEF Counted
  <2>u. ASSUME UNCHANGED <<cmdQueue, threadQueue, loops>> PROVE Counted'
    BY <2>u DEF Counted, Outstanding
  \* A head that is no reply is taken, and at most a session command is posted.
  <2>h. ASSUME cmdQueue # <<>>, Head(cmdQueue).op # "Collect"
        PROVE  \A x \in Requests, s \in Sessions :
                 Replies(Tail(cmdQueue), x, s) <=> Replies(cmdQueue, x, s)
    BY <2>h, <2>t, <2>o, CmdTail
  <2>a. ASSUME cmdQueue # <<>>, Head(cmdQueue).op # "Collect", cmdQueue' = Tail(cmdQueue),
               UNCHANGED <<threadQueue, loops>>
        PROVE  Counted'
    BY <2>a, <2>h, <2>k
  <2>c. ASSUME NEW r \in Requests, NEW s0 \in Sessions, NEW op \in {"InitSession", "Command"},
               cmdQueue # <<>>, Head(cmdQueue).op # "Collect", cmdQueue' = Tail(cmdQueue),
               PostToThread(s0, ThreadTask(op, r, "PrepareResponse")), UNCHANGED loops
        PROVE  Counted'
    <3> DEFINE e == ThreadTask(op, r, "PrepareResponse")
    <3>1. e \in ThreadTasks /\ e.callback = "PrepareResponse"
      BY DEF ThreadTask, ThreadTasks
    <3>2. \A s \in Sessions :
            threadQueue'[s] = IF s = s0 THEN Append(threadQueue[s], e) ELSE threadQueue[s]
      BY <2>c, <2>t DEF PostToThread
    <3> HIDE DEF e
    <3>3. \A s \in Sessions, x \in Requests :
            Asks(threadQueue'[s], x) <=> Asks(threadQueue[s], x)
      BY <3>1, <3>2, <2>t, ThreadAppend
    <3> QED BY <3>3, <2>c, <2>h, <2>k
  \* A task that is no reply comes to the queue of the CMD thread.
  <2>e. ASSUME NEW q \in Seq(CmdTasks), NEW e \in CmdTasks, e.op # "Collect",
               \A x \in Requests, s \in Sessions : Replies(q, x, s) <=> Replies(cmdQueue, x, s),
               cmdQueue' = Append(q, e), UNCHANGED <<threadQueue, loops>>
        PROVE  Counted'
    <3>1. \A x \in Requests, s \in Sessions :
            Replies(cmdQueue', x, s) <=> Replies(cmdQueue, x, s)
      BY <2>e, CmdAppend
    <3> QED BY <3>1, <2>e, <2>k
  <2>1. ASSUME NEW r \in Requests, NEW k \in Kinds, NEW s0 \in Sessions \cup {None},
               HandleRequestOnIOThread(r, k, s0)
        PROVE  Counted'
    <3>1. Task(k, r, s0) \in CmdTasks /\ Task(k, r, s0).op # "Collect"
      BY DEF Task, CmdTasks, Kinds
    <3> QED BY <2>1, <3>1, <2>t, <2>e DEF HandleRequestOnIOThread, sessionVars
  <2>2. CASE RunIoTask
    BY <2>2, <2>u DEF RunIoTask, sessionVars
  <2>3. CASE HandleAfterShutdown
    BY <2>3, <2>a DEF HandleAfterShutdown, CmdTasksOf, Kinds, sessionVars
  <2>b. ASSUME NEW r, NEW k \in Kinds, Handles(r, k)
        PROVE  cmdQueue # <<>> /\ Head(cmdQueue).op # "Collect" /\ Head(cmdQueue).req = r
    BY <2>b DEF Handles, CmdTask, CmdTasksOf, Kinds
  <2>4. ASSUME NEW r \in Requests, HandleOther(r) PROVE Counted'
    <3>1. Handles(r, "Other") /\ "Other" \in Kinds BY <2>4 DEF HandleOther, Kinds
    <3> QED BY <2>4, <3>1, <2>b, <2>a DEF HandleOther, sessionVars
  <2>5. ASSUME NEW r \in Requests, ExecuteCreateSession(r) PROVE Counted'
    <3>1. Handles(r, "NewSession") /\ "NewSession" \in Kinds
      BY <2>5 DEF ExecuteCreateSession, Kinds
    <3> QED BY <2>5, <3>1, <2>b, <2>a, <2>c DEF ExecuteCreateSession
  <2>6. ASSUME NEW r \in Requests, ExecuteSessionCommand(r) PROVE Counted'
    <3>1. Handles(r, "Command") /\ "Command" \in Kinds
      BY <2>6 DEF ExecuteSessionCommand, Kinds
    <3> QED BY <2>6, <3>1, <2>b, <2>a, <2>c, <2>t DEF ExecuteSessionCommand
  <2>7. ASSUME NEW r \in Requests, NEW k \in Kinds, NEW op \in {"Command", "Quit"},
               CollectFromSessions(r, k, op)
        PROVE  Counted'
    <3>1. /\ cmdQueue # <<>> /\ Head(cmdQueue).op # "Collect" /\ Head(cmdQueue).req = r
          /\ cmdQueue' = Tail(cmdQueue)
      BY <2>7, <2>b DEF CollectFromSessions
    <3>2. CASE UNCHANGED <<loops, threadQueue>>
      BY <3>1, <3>2, <2>a
    <3>3. CASE threadMap # {}
      <4> DEFINE e == ThreadTask(op, r, CountingCallback)
                 l == [req |-> r, remaining |-> ReplyCount, quit |-> FALSE,
                       timedOut |-> FALSE, asked |-> threadMap]
      <4>1. e \in ThreadTasks /\ e.req = r /\ e.callback = "Collect"
        BY DEF ThreadTask, ThreadTasks, CountingCallback
      <4>2. /\ \A s \in Sessions :
                 threadQueue'[s] = IF s \in threadMap THEN Append(threadQueue[s], e)
                                                     ELSE threadQueue[s]
            /\ loops' = Append(loops, l)
        BY <2>7, <3>3, <2>t DEF CollectFromSessions
      <4>3. l \in LooseLoops /\ l.req = r /\ l.remaining = Cardinality(threadMap)
        BY FS_CardinalityType, <2>t DEF LooseLoops, ReplyCount
      <4> HIDE DEF e, l
      <4>4. \A s \in Sessions, x \in Requests :
              Asks(threadQueue'[s], x) <=> Asks(threadQueue[s], x) \/ (x = r /\ s \in threadMap)
        BY <4>1, <4>2, <2>t, ThreadAppend
      <4>5. /\ ~Nests(loops, r)
            /\ \A s \in Sessions : ~Asks(threadQueue[s], r) /\ ~Replies(cmdQueue, r, s)
        BY <3>1, <2>t, <2>o, CmdTail DEF Duty, CollectedOnce
      <4>6. Outstanding(r)' = threadMap
        BY <3>1, <4>4, <4>5, <2>t, <2>h DEF Outstanding
      <4>7. \A x \in Requests : x # r => Outstanding(x)' = Outstanding(x)
        BY <4>4, <3>1, <2>h DEF Outstanding
      <4>8. \A i \in 1..Len(loops) : loops[i].req \in Requests /\ loops[i].req # r
        BY <2>r, <4>5 DEF Nests
      <4>9. /\ \A i \in 1..Len(loops') : i \in 1..Len(loops) \/ i = Len(loops) + 1
            /\ \A i \in 1..Len(loops) : loops'[i] = loops[i]
            /\ loops'[Len(loops) + 1] = l
        BY <4>2, <4>3, <2>t, AppendFacts
      <4> QED BY <4>3, <4>6, <4>7, <4>8, <4>9, <2>t DEF Counted
    <3> QED BY <2>7, <3>2, <3>3 DEF CollectFromSessions
  <2>8. CASE OnSessionReply
    <3>1. /\ cmdQueue # <<>> /\ Head(cmdQueue).op = "Collect" /\ cmdQueue' = Tail(cmdQueue)
          /\ UNCHANGED threadQueue
      BY <2>8 DEF OnSessionReply, CmdTask, CmdTasksOf, sessionVars
    <3>2. Head(cmdQueue) \in CmdTasks BY <3>1, <2>t, TailFacts
    <3>a. Head(cmdQueue).req \in Requests /\ Head(cmdQueue).session \in Sessions
      BY <3>1, <3>2 DEF CmdTasks, Kinds
    <3>3. PICK r \in Requests, s0 \in Sessions :
            r = Head(cmdQueue).req /\ s0 = Head(cmdQueue).session
      BY <3>a
    <3>4. /\ \A x \in Requests, s \in Sessions :
               Replies(cmdQueue', x, s) <=> Replies(cmdQueue, x, s) /\ ~(x = r /\ s = s0)
          /\ Replies(cmdQueue, r, s0)
      BY <3>1, <3>3, <2>t, <2>o, CmdTail
    <3>5. ~Asks(threadQueue[s0], r) BY <3>3, <3>4, <2>o DEF CollectedOnce
    <3>6. s0 \in Outstanding(r) /\ Outstanding(r)' = Outstanding(r) \ {s0}
      BY <3>1, <3>3, <3>4, <3>5 DEF Outstanding
    <3>7. \A x \in Requests : x # r => Outstanding(x)' = Outstanding(x)
      BY <3>1, <3>4 DEF Outstanding
    <3>8. /\ Len(loops') = Len(loops)
          /\ \A i \in 1..Len(loops) :
               /\ loops'[i].req = loops[i].req
               /\ IF loops[i].req = r THEN loops'[i].remaining = loops[i].remaining - 1
                                      ELSE loops'[i] = loops[i]
      BY <2>8, <3>3, <2>t, RepliedLoops
    <3>9. ASSUME NEW i \in 1..Len(loops), NEW x \in Requests, x = loops[i].req
          PROVE  IsFiniteSet(Outstanding(x)') /\ loops'[i].remaining = Cardinality(Outstanding(x)')
      <4>1. IsFiniteSet(Outstanding(x)) /\ loops[i].remaining = Cardinality(Outstanding(x))
        BY <3>9 DEF Counted
      <4>2. CASE x = r
        <5>1. /\ IsFiniteSet(Outstanding(r)')
              /\ Cardinality(Outstanding(r)') = Cardinality(Outstanding(r)) - 1
          BY <3>6, <4>1, <4>2, FS_RemoveElement, SMTT(30)
        <5> QED BY <3>8, <3>9, <4>1, <4>2, <5>1
      <4>3. CASE x # r
        BY <3>7, <3>8, <3>9, <4>1, <4>3
      <4> QED BY <4>2, <4>3
    <3> QED BY <3>8, <3>9, <2>r, SMTT(30) DEF Counted
  <2>9. CASE LoopReturns
    <3>1. /\ loops # <<>> /\ loops' = SubSeq(loops, 1, Len(loops) - 1)
          /\ UNCHANGED <<cmdQueue, threadQueue>>
      BY <2>9 DEF LoopReturns, sessionVars
    <3>2. Kept BY <3>1, <2>t, <2>o, LoopsFront, ZenonT(60)
    <3> QED BY <3>1, <3>2, <2>k
  <2>10. CASE ReplyOnCmdThread
    BY <2>10, <2>a DEF ReplyOnCmdThread, CmdTask, CmdTasksOf, sessionVars
  <2>11. CASE TerminateOnCmd
    <3> DEFINE e == Task("OnSessionTerminated", None, Head(cmdQueue).session)
    <3>1. /\ cmdQueue # <<>> /\ Head(cmdQueue).op = "terminate_on_cmd"
          /\ cmdQueue' = Append(Tail(cmdQueue), e) /\ UNCHANGED <<threadQueue, loops>>
      BY <2>11 DEF TerminateOnCmd, CmdTask, CmdTasksOf, sessionVars
    <3>2. Head(cmdQueue) \in CmdTasks /\ Tail(cmdQueue) \in Seq(CmdTasks)
      BY <3>1, <2>t, TailFacts
    <3>3. Head(cmdQueue).session \in Sessions BY <3>1, <3>2 DEF CmdTasks, Kinds
    <3>4. e \in CmdTasks /\ e.op # "Collect" BY <3>3 DEF Task, CmdTasks
    <3> HIDE DEF e
    <3> QED BY <3>1, <3>2, <3>4, <2>h, <2>e
  <2>12. CASE OnSessionTerminated
    BY <2>12, <2>a DEF OnSessionTerminated, CmdTask, CmdTasksOf
  <2>13. CASE RunServerReturns
    BY <2>13, <2>u DEF RunServerReturns, sessionVars
  <2>14. ASSUME NEW i \in 1..Len(loops), LoopTimesOut(i) PROVE Counted'
    <3>1. UNCHANGED <<cmdQueue, threadQueue>> BY <2>14 DEF LoopTimesOut, sessionVars
    <3>2. Kept BY <2>14, <2>t, TimedOutLoops
    <3> QED BY <3>1, <3>2, <2>k
  <2>15. ASSUME NEW s0 \in Sessions, ExecuteSessionCommandOnSessionThread(s0) PROVE Counted'
    <3> DEFINE q == threadQueue[s0]
               t == Head(q)
               e == Reply(t, s0)
    <3>1. /\ q \in Seq(ThreadTasks) /\ q # <<>> /\ ThreadDistinct(q)
          /\ cmdQueue' = Append(cmdQueue, e) /\ UNCHANGED loops
      BY <2>15, <2>t, <2>o DEF ExecuteSessionCommandOnSessionThread
    <3>2. \A s \in Sessions : threadQueue'[s] = IF s = s0 THEN Tail(q) ELSE threadQueue[s]
      BY <2>15, <2>t DEF ExecuteSessionCommandOnSessionThread
    <3>3. t \in ThreadTasks BY <3>1, TailFacts
    <3>4. t.req \in Requests /\ t.callback \in {"PrepareResponse", "Collect"}
      BY <3>3 DEF ThreadTasks
    <3>5. /\ e \in CmdTasks /\ e.req = t.req /\ e.op = t.callback
          /\ t.callback = "Collect" => e.session = s0
      BY <3>4 DEF Reply, Task, CmdTasks
    <3> HIDE DEF e, t
    <3>6. /\ \A s \in Sessions, x \in Requests :
               Asks(threadQueue'[s], x) <=>
                 /\ Asks(threadQueue[s], x)
                 /\ ~(s = s0 /\ x = t.req /\ t.callback = "Collect")
          /\ t.callback = "Collect" => Asks(threadQueue[s0], t.req)
      BY <3>1, <3>2, <2>o, ThreadTail DEF t
    <3>7. \A x \in Requests, s \in Sessions :
            Replies(cmdQueue', x, s) <=>
              Replies(cmdQueue, x, s) \/ (x = t.req /\ s = s0 /\ t.callback = "Collect")
      BY <3>4, <3>1, <3>5, <2>t, CmdAppend
    <3> QED BY <3>1, <3>6, <3>7, <2>k
  <2>16. ASSUME NEW s \in Sessions, Terminate(s) PROVE Counted'
    <3>1. Task("terminate_on_cmd", None, s) \in CmdTasks /\ Task("terminate_on_cmd", None, s).op # "Collect"
      BY DEF Task, CmdTasks
    <3> QED BY <2>16, <3>1, <2>t, <2>e DEF Terminate
  <2>17. ASSUME NEW s \in Sessions, BrowserGone(s) PROVE Counted'
    BY <2>17, <2>u DEF BrowserGone
  <2>18. CASE UNCHANGED vars
    BY <2>18, <2>u DEF vars, sessionVars
  <2>19. {"Command", "GetSessions", "QuitAll"} \subseteq Kinds /\ None \in Sessions \cup {None}
    BY DEF Kinds
  <2>20. CASE Next
    <3>1. CASE CmdSteps
      BY <3>1, <2>3, <2>4, <2>5, <2>6, <2>7, <2>8, <2>9, <2>10, <2>11, <2>12, <2>13, <2>19
      DEF CmdSteps, Handling, ExecuteGetSessions, ExecuteQuitAll
    <3> QED
      BY <3>1, <2>20, <2>1, <2>2, <2>14, <2>15, <2>16, <2>17, <2>19 DEF Next, ThreadSteps
  <2> QED BY <2>18, <2>20
<1> QED BY <1>1, <1>2, TypedInvariant, OwnershipInvariant, PTL DEF Spec

\* The head of the queue of the CMD thread when one of its steps takes it.
LEMMA TakenHead ==
  ASSUME Typed, NEW ops, CmdTasksOf(ops)
  PROVE  /\ LoopRuns /\ cmdQueue # <<>> /\ Head(cmdQueue).op \in ops
         /\ Head(cmdQueue) \in CmdTasks /\ Head(cmdQueue) = cmdQueue[1] /\ 1 \in 1..Len(cmdQueue)
         /\ Tail(cmdQueue) \in Seq(CmdTasks)
         /\ \A i \in 1..Len(Tail(cmdQueue)) : \E j \in 1..Len(cmdQueue) : Tail(cmdQueue)[i] = cmdQueue[j]
<1>1. LoopRuns /\ cmdQueue # <<>> /\ Head(cmdQueue).op \in ops
  BY DEF CmdTasksOf
<1>2. cmdQueue \in Seq(CmdTasks)
  BY DEF Typed
<1>3. /\ Head(cmdQueue) \in CmdTasks /\ Head(cmdQueue) = cmdQueue[1] /\ 1 \in 1..Len(cmdQueue)
      /\ Tail(cmdQueue) \in Seq(CmdTasks)
  BY <1>1, <1>2, TailFacts
<1> QED BY <1>1, <1>2, <1>3, TailElements

\* A session is created, ends and is erased in that order.
LEMMA LifecycleInvariant == Spec => []Lifecycle
<1>1. Init => Lifecycle
  BY EarlierAssumption DEF Init, Lifecycle
<1>2. Typed /\ Lifecycle /\ [Next]_vars => Lifecycle'
  <2> SUFFICES ASSUME Typed, Lifecycle, [Next]_vars PROVE Lifecycle'
    OBVIOUS
  <2>t. /\ cmdQueue \in Seq(CmdTasks) /\ threadMap \in SUBSET Sessions
        /\ quitting \in SUBSET Sessions /\ tls \in [Sessions -> {"unset", "live", "null"}]
    BY DEF Typed
  <2> DEFINE Terminating == {"terminate_on_cmd", "OnSessionTerminated"}
             Told(q) == \A i \in 1..Len(q) : q[i].op \in Terminating => tls[q[i].session] = "null"
  <2>s. ASSUME NEW i \in 1..Len(cmdQueue), cmdQueue[i].op \in Terminating
        PROVE  cmdQueue[i].session \in Sessions
    <3>1. cmdQueue[i] \in CmdTasks BY <2>t
    <3> QED BY <2>s, <3>1 DEF CmdTasks, Kinds
  <2>o. Told(cmdQueue) BY DEF Lifecycle
  <2>h. ASSUME NEW ops, CmdTasksOf(ops) PROVE Told(Tail(cmdQueue))
    BY <2>h, <2>o, TakenHead
  <2>e. ASSUME NEW q \in Seq(CmdTasks), Told(q), NEW e \in CmdTasks,
               e.op \in Terminating => tls[e.session] = "null"
        PROVE  Told(Append(q, e))
    BY <2>e, AppendElements
  <2>u. ASSUME Told(cmdQueue'), UNCHANGED <<threadMap, quitting, tls>> PROVE Lifecycle'
    BY <2>u DEF Lifecycle
  <2>d. ASSUME NEW ops, CmdTasksOf(ops), cmdQueue' = Tail(cmdQueue), UNCHANGED <<threadMap, quitting, tls>>
        PROVE  Lifecycle'
    BY <2>d, <2>h, <2>u
  <2>1. ASSUME NEW r \in Requests, NEW k \in Kinds, NEW s \in Sessions \cup {None},
               HandleRequestOnIOThread(r, k, s)
        PROVE  Lifecycle'
    <3>1. Task(k, r, s) \in CmdTasks /\ Task(k, r, s).op \notin Terminating
      BY DEF Task, CmdTasks, Kinds
    <3>2. cmdQueue' = Append(cmdQueue, Task(k, r, s)) /\ UNCHANGED <<threadMap, quitting, tls>>
      BY <2>1 DEF HandleRequestOnIOThread, sessionVars
    <3> QED BY <3>1, <3>2, <2>t, <2>o, <2>e, <2>u
  <2>2. CASE RunIoTask
    BY <2>2, <2>o, <2>u DEF RunIoTask, sessionVars
  <2>3. CASE HandleAfterShutdown
    BY <2>3, <2>d DEF HandleAfterShutdown, sessionVars
  <2>4. ASSUME NEW r \in Requests, HandleOther(r) PROVE Lifecycle'
    BY <2>4, <2>d DEF HandleOther, Handles, CmdTask, sessionVars
  <2>5. ASSUME NEW r \in Requests, ExecuteCreateSession(r) PROVE Lifecycle'
    <3>1. CmdTasksOf({"NewSession"}) /\ cmdQueue' = Tail(cmdQueue) /\ UNCHANGED quitting
      BY <2>5 DEF ExecuteCreateSession, Handles, CmdTask
    <3>2. CASE UNCHANGED <<threadMap, tls, threadQueue>>
      BY <3>1, <3>2, <2>d
    <3>3. ASSUME NEW s \in Sessions, s \notin threadMap, tls[s] = "unset",
                 threadMap' = threadMap \cup {s}, tls' = [tls EXCEPT ![s] = "live"]
          PROVE  Lifecycle'
      <4>1. \A i \in 1..Len(cmdQueue) :
              cmdQueue[i].op \in Terminating => tls'[cmdQueue[i].session] = "null"
        BY <3>3, <2>o, <2>t, <2>s
      <4>2. \A i \in 1..Len(cmdQueue') : \E j \in 1..Len(cmdQueue) : cmdQueue'[i] = cmdQueue[j]
        BY <3>1, TakenHead
      <4>3. \A x \in Sessions : tls'[x] = IF x = s THEN "live" ELSE tls[x]
        BY <3>3, <2>t
      <4> QED BY <3>1, <3>3, <4>1, <4>2, <4>3, <2>t DEF Lifecycle
    <3> QED BY <2>5, <3>2, <3>3 DEF ExecuteCreateSession
  <2>6. ASSUME NEW r \in Requests, ExecuteSessionCommand(r) PROVE Lifecycle'
    BY <2>6, <2>d DEF ExecuteSessionCommand, Handles, CmdTask
  <2>7. ASSUME NEW r \in Requests, NEW k, NEW op, CollectFromSessions(r, k, op) PROVE Lifecycle'
    BY <2>7, <2>d DEF CollectFromSessions, Handles, CmdTask
  <2>8. CASE OnSessionReply
    BY <2>8, <2>d DEF OnSessionReply, CmdTask, sessionVars
  <2>9. CASE LoopReturns
    BY <2>9, <2>o, <2>u DEF LoopReturns, sessionVars
  <2>10. CASE ReplyOnCmdThread
    BY <2>10, <2>d DEF ReplyOnCmdThread, CmdTask, sessionVars
  <2>11. CASE TerminateOnCmd
    <3> DEFINE e == Task("OnSessionTerminated", None, Head(cmdQueue).session)
    <3>1. /\ CmdTasksOf({"terminate_on_cmd"}) /\ cmdQueue' = Append(Tail(cmdQueue), e)
          /\ UNCHANGED <<threadMap, quitting, tls>>
      BY <2>11 DEF TerminateOnCmd, CmdTask, sessionVars
    <3>2. /\ Tail(cmdQueue) \in Seq(CmdTasks) /\ 1 \in 1..Len(cmdQueue)
          /\ Head(cmdQueue) = cmdQueue[1] /\ Head(cmdQueue).op = "terminate_on_cmd"
      BY <3>1, TakenHead
    <3>3. Head(cmdQueue).session \in Sessions /\ tls[Head(cmdQueue).session] = "null"
      BY <3>2, <2>o, <2>s
    <3>4. e \in CmdTasks /\ tls[e.session] = "null" BY <3>3 DEF Task, CmdTasks
    <3> HIDE DEF e
    <3> QED BY <3>1, <3>2, <3>4, <2>h, <2>e, <2>u
  <2>12. CASE OnSessionTerminated
    <3>1. /\ CmdTasksOf({"OnSessionTerminated"}) /\ cmdQueue' = Tail(cmdQueue)
          /\ threadMap' = threadMap \ {Head(cmdQueue).session} /\ UNCHANGED <<quitting, tls>>
      BY <2>12 DEF OnSessionTerminated, CmdTask
    <3>2. tls[Head(cmdQueue).session] = "null" BY <3>1, <2>o, TakenHead
    <3>3. Told(cmdQueue') BY <3>1, <2>h
    <3> QED BY <3>1, <3>2, <3>3 DEF Lifecycle
  <2>13. CASE RunServerReturns
    BY <2>13, <2>o, <2>u DEF RunServerReturns, sessionVars
  <2>14. ASSUME NEW i, LoopTimesOut(i) PROVE Lifecycle'
    BY <2>14, <2>o, <2>u DEF LoopTimesOut, sessionVars
  <2>15. ASSUME NEW s \in Sessions, ExecuteSessionCommandOnSessionThread(s) PROVE Lifecycle'
    <3>1. threadQueue[s] \in Seq(ThreadTasks) /\ threadQueue[s] # <<>>
      BY <2>15 DEF ExecuteSessionCommandOnSessionThread, Typed
    <3>2. Head(threadQueue[s]) \in ThreadTasks BY <3>1, TailFacts
    <3>3. /\ Reply(Head(threadQueue[s]), s) \in CmdTasks
          /\ Reply(Head(threadQueue[s]), s).op \notin Terminating
      BY <3>2 DEF Reply, Task, CmdTasks, ThreadTasks
    <3>4. Told(cmdQueue')
      BY <2>15, <3>3, <2>t, <2>o, <2>e DEF ExecuteSessionCommandOnSessionThread
    <3> QED BY <2>15, <3>4 DEF ExecuteSessionCommandOnSessionThread, Lifecycle
  <2>16. ASSUME NEW s \in Sessions, Terminate(s) PROVE Lifecycle'
    <3> DEFINE e == Task("terminate_on_cmd", None, s)
    <3>1. e \in CmdTasks /\ e.session = s BY DEF Task, CmdTasks
    <3>2. /\ cmdQueue' = Append(cmdQueue, e) /\ quitting' = quitting \ {s}
          /\ UNCHANGED threadMap
      BY <2>16 DEF Terminate
    <3>3. \A x \in Sessions : tls'[x] = IF x = s THEN "null" ELSE tls[x]
      BY <2>16, <2>t DEF Terminate
    <3> HIDE DEF e
    <3>4. \A i \in 1..Len(cmdQueue) :
            cmdQueue[i].op \in Terminating => tls'[cmdQueue[i].session] = "null"
      BY <3>3, <2>o, <2>s
    <3>5. \A i \in 1..Len(cmdQueue') :
            cmdQueue'[i] = e \/ \E j \in 1..Len(cmdQueue) : cmdQueue'[i] = cmdQueue[j]
      BY <3>1, <3>2, <2>t, AppendElements
    <3>6. \A i \in 1..Len(cmdQueue') :
            cmdQueue'[i].op \in Terminating => tls'[cmdQueue'[i].session] = "null"
      BY <3>1, <3>3, <3>4, <3>5
    <3> QED BY <3>2, <3>3, <3>6, <2>t DEF Lifecycle
  <2>17. ASSUME NEW s \in Sessions, BrowserGone(s) PROVE Lifecycle'
    BY <2>17 DEF BrowserGone, Lifecycle
  <2>18. CASE UNCHANGED vars
    BY <2>18, <2>o, <2>u DEF vars, sessionVars
  <2>19. "Command" \in Kinds /\ None \in Sessions \cup {None} BY DEF Kinds
  <2>20. CASE Next
    <3>1. CASE CmdSteps
      BY <3>1, <2>3, <2>4, <2>5, <2>6, <2>7, <2>8, <2>9, <2>10, <2>11, <2>12, <2>13
      DEF CmdSteps, Handling, ExecuteGetSessions, ExecuteQuitAll
    <3> QED
      BY <3>1, <2>20, <2>1, <2>2, <2>14, <2>15, <2>16, <2>17, <2>19 DEF Next, ThreadSteps
  <2> QED BY <2>18, <2>20
<1> QED BY <1>1, <1>2, TypedInvariant, PTL DEF Spec

\* The sessions a shutdown asked to quit still have the command, or obey it.
LEMMA QuitInvariant == Spec => [](QuitTasks /\ QuitsCovered)
<1>1. Init => QuitTasks /\ QuitsCovered
  BY DEF Init, QuitTasks, QuitsCovered
<1>2. /\ Typed /\ Ownership /\ Counted /\ Lifecycle
      /\ QuitTasks /\ QuitsCovered /\ [Next]_vars
      => (QuitTasks /\ QuitsCovered)'
  <2> SUFFICES ASSUME Typed, Ownership, Counted, Lifecycle, QuitTasks, QuitsCovered, [Next]_vars
               PROVE  QuitTasks' /\ QuitsCovered'
    OBVIOUS
  <2>t. /\ cmdQueue \in Seq(CmdTasks) /\ loops \in Seq(LooseLoops)
        /\ threadQueue \in [Sessions -> Seq(ThreadTasks)]
        /\ threadMap \in SUBSET Sessions /\ shutdowns \in SUBSET sent
        /\ quitting \in SUBSET Sessions /\ tls \in [Sessions -> {"unset", "live", "null"}]
    BY DEF Typed
  <2>o. /\ CmdDistinct(cmdQueue) /\ \A s \in Sessions : ThreadDistinct(threadQueue[s])
        /\ \A r \in Requests : Duty(r)
        /\ \A r \in Requests, s \in Sessions : RunningDuty(r, s) /\ CollectedOnce(r, s)
    BY DEF Ownership
  <2>r. ASSUME NEW i \in 1..Len(loops)
        PROVE  /\ loops[i] \in LooseLoops /\ loops[i].req \in Requests
               /\ loops[i].asked \in SUBSET Sessions
    <3>1. loops[i] \in LooseLoops BY <2>t
    <3> QED BY <3>1 DEF LooseLoops
  \* The parts of the two invariants, for given queues.
  <2> DEFINE Marked(q) == \A i \in 1..Len(q) :
                            q[i].op \in Kinds => (q[i].req \in shutdowns <=> q[i].op = "QuitAll")
             Ordered(q) == \A i \in 1..Len(q) :
                             q[i].callback = "Collect" /\ q[i].req \in shutdowns => q[i].op = "Quit"
             Covers(l) == /\ \A s \in l.asked : tls[s] # "unset"
                          /\ l.req \in shutdowns =>
                               \A s \in l.asked :
                                 Asks(threadQueue[s], l.req) \/ s \in quitting \/ tls[s] = "null"
             Done(l) == l.quit /\ ~l.timedOut => l.remaining = 0
  <2>p. /\ Marked(cmdQueue) /\ \A s \in Sessions : Ordered(threadQueue[s])
        /\ \A i \in 1..Len(loops) : Covers(loops[i]) /\ Done(loops[i])
    BY DEF QuitTasks, QuitsCovered
  <2>q. ASSUME \A i \in 1..Len(cmdQueue') :
                 \/ \E j \in 1..Len(cmdQueue) : cmdQueue'[i] = cmdQueue[j]
                 \/ cmdQueue'[i].op \notin Kinds,
               \A s \in Sessions : Ordered(threadQueue'[s]), UNCHANGED shutdowns
        PROVE  QuitTasks'
    BY <2>q, <2>p DEF QuitTasks
  \* The loops keep what matters, and so do the sessions they asked.
  <2>c. ASSUME \A i \in 1..Len(loops') :
                 \E j \in 1..Len(loops) :
                   /\ loops'[i].req = loops[j].req /\ loops'[i].asked = loops[j].asked
                   /\ loops'[i] = loops[j] \/ Done(loops'[i]),
               \A s \in Sessions : tls[s] # "unset" => tls'[s] # "unset",
               \A s \in Sessions, x \in Requests :
                 /\ tls[s] # "unset" /\ x \in shutdowns
                 /\ Asks(threadQueue[s], x) \/ s \in quitting \/ tls[s] = "null"
                 => Asks(threadQueue'[s], x) \/ s \in quitting' \/ tls'[s] = "null",
               UNCHANGED shutdowns
        PROVE  QuitsCovered'
    <3> SUFFICES ASSUME NEW i \in 1..Len(loops')
                 PROVE  Covers(loops[i])' /\ Done(loops'[i])
      BY DEF QuitsCovered
    <3>1. PICK j \in 1..Len(loops) :
            /\ loops'[i].req = loops[j].req /\ loops'[i].asked = loops[j].asked
            /\ loops'[i] = loops[j] \/ Done(loops'[i])
      BY <2>c
    <3>2. Done(loops'[i]) BY <3>1, <2>p
    <3> HIDE DEF Done
    <3>3. \A s \in loops[j].asked : s \in Sessions /\ tls[s] # "unset" BY <2>r, <2>p
    <3>4. \A s \in loops'[i].asked : tls'[s] # "unset" BY <3>1, <3>3, <2>c
    <3>5. ASSUME NEW s \in loops'[i].asked, loops'[i].req \in shutdowns
          PROVE  Asks(threadQueue'[s], loops'[i].req) \/ s \in quitting' \/ tls'[s] = "null"
      <4>1. loops[j].req \in Requests BY <2>r
      <4> QED BY <3>1, <3>3, <3>5, <4>1, <2>c, <2>p
    <3> QED BY <3>2, <3>4, <3>5, <2>c
  <2>k. \A i \in 1..Len(loops) : \E j \in 1..Len(loops) : loops[i] = loops[j] OBVIOUS
  <2>u. ASSUME UNCHANGED <<loops, threadQueue, quitting, tls, shutdowns>> PROVE QuitsCovered'
    BY <2>u, <2>p DEF QuitsCovered
  \* A head is taken and the sessions do not move.
  <2>d. ASSUME NEW ops, CmdTasksOf(ops), cmdQueue' = Tail(cmdQueue), UNCHANGED <<shutdowns, threadQueue>>
        PROVE  QuitTasks'
    BY <2>d, <2>p, <2>q, TakenHead
  \* A session command comes to the queue of a session.
  <2>e. ASSUME NEW r \in Requests, NEW s0 \in Sessions, NEW op \in {"InitSession", "Command"},
               PostToThread(s0, ThreadTask(op, r, "PrepareResponse")), UNCHANGED shutdowns
        PROVE  /\ \A s \in Sessions : Ordered(threadQueue'[s])
               /\ \A s \in Sessions, x \in Requests : Asks(threadQueue'[s], x) <=> Asks(threadQueue[s], x)
    <3> DEFINE e == ThreadTask(op, r, "PrepareResponse")
    <3>1. e \in ThreadTasks /\ e.callback # "Collect" BY DEF ThreadTask, ThreadTasks
    <3>2. \A s \in Sessions :
            threadQueue'[s] = IF s = s0 THEN Append(threadQueue[s], e) ELSE threadQueue[s]
      BY <2>e, <2>t DEF PostToThread
    <3> HIDE DEF e
    <3>3. \A s \in Sessions, x \in Requests : Asks(threadQueue'[s], x) <=> Asks(threadQueue[s], x)
      BY <3>1, <3>2, <2>t, ThreadAppend
    <3>4. Ordered(Append(threadQueue[s0], e))
      BY <3>1, <2>t, <2>p, AppendElements
    <3> HIDE DEF Ordered
    <3> QED BY <3>2, <3>3, <3>4, <2>p
  <2>1. ASSUME NEW r \in Requests, NEW k \in Kinds, NEW s0 \in Sessions \cup {None},
               HandleRequestOnIOThread(r, k, s0)
        PROVE  QuitTasks' /\ QuitsCovered'
    <3> DEFINE e == Task(k, r, s0)
    <3>1. e \in CmdTasks /\ e.req = r /\ e.op = k BY DEF Task, CmdTasks
    <3>2. /\ r \notin sent /\ cmdQueue' = Append(cmdQueue, e)
          /\ \A x : x # r => (x \in shutdowns' <=> x \in shutdowns)
          /\ r \in shutdowns' <=> k = "QuitAll"
          /\ UNCHANGED <<loops, threadQueue, quitting, tls>>
      BY <2>1, <2>t DEF HandleRequestOnIOThread, sessionVars
    <3> HIDE DEF e
    <3>3. /\ ~Holds(cmdQueue, r) /\ ~Nests(loops, r)
          /\ \A s \in Sessions : ~Asks(threadQueue[s], r)
      BY <3>2, <2>o DEF Duty, CollectedOnce
    <3>4. \A i \in 1..Len(cmdQueue) : cmdQueue[i].op \in Kinds => cmdQueue[i].req # r
      BY <3>3 DEF Holds, Kinds
    <3>5. \A i \in 1..Len(cmdQueue') :
            cmdQueue'[i] = e \/ \E j \in 1..Len(cmdQueue) : cmdQueue'[i] = cmdQueue[j]
      BY <3>1, <3>2, <2>t, AppendElements
    <3>6. \A i \in 1..Len(cmdQueue') :
            cmdQueue'[i].op \in Kinds =>
              (cmdQueue'[i].req \in shutdowns' <=> cmdQueue'[i].op = "QuitAll")
      BY <3>1, <3>2, <3>4, <3>5, <2>p
    <3>7. \A s \in Sessions : \A i \in 1..Len(threadQueue[s]) :
            threadQueue[s][i].callback = "Collect" => threadQueue[s][i].req # r
      BY <3>3 DEF Asks
    <3>8. QuitTasks' BY <3>2, <3>6, <3>7, <2>p DEF QuitTasks
    <3>9. \A i \in 1..Len(loops) : loops[i].req # r BY <3>3 DEF Nests
    <3>10. QuitsCovered' BY <3>2, <3>9, <2>p DEF QuitsCovered
    <3> QED BY <3>8, <3>10
  <2>n. ASSUME UNCHANGED <<cmdQueue, threadQueue, shutdowns>> PROVE QuitTasks'
    BY <2>n, <2>p DEF QuitTasks
  <2>2. CASE RunIoTask
    BY <2>2, <2>n, <2>u DEF RunIoTask, sessionVars, requestVars
  <2>3. CASE HandleAfterShutdown
    BY <2>3, <2>d, <2>u DEF HandleAfterShutdown, sessionVars, requestVars
  <2>4. ASSUME NEW r \in Requests, HandleOther(r) PROVE QuitTasks' /\ QuitsCovered'
    BY <2>4, <2>d, <2>u DEF HandleOther, Handles, CmdTask, sessionVars, requestVars
  <2>5. ASSUME NEW r \in Requests, ExecuteCreateSession(r) PROVE QuitTasks' /\ QuitsCovered'
    <3>1. /\ CmdTasksOf({"NewSession"}) /\ cmdQueue' = Tail(cmdQueue)
          /\ UNCHANGED <<quitting, loops, shutdowns>>
      BY <2>5 DEF ExecuteCreateSession, Handles, CmdTask, requestVars
    <3>2. CASE UNCHANGED <<threadMap, tls, threadQueue>>
      BY <3>1, <3>2, <2>d, <2>u
    <3>3. ASSUME NEW s \in Sessions, tls[s] = "unset", tls' = [tls EXCEPT ![s] = "live"],
                 PostToThread(s, ThreadTask("InitSession", r, "PrepareResponse"))
          PROVE  QuitTasks' /\ QuitsCovered'
      <4>1. \A x \in Sessions : tls'[x] = IF x = s THEN "live" ELSE tls[x]
        BY <3>3, <2>t
      <4>2. /\ \A x \in Sessions : Ordered(threadQueue'[x])
            /\ \A x \in Sessions, y \in Requests : Asks(threadQueue'[x], y) <=> Asks(threadQueue[x], y)
        BY <3>1, <3>3, <2>e
      <4>3. QuitTasks'
        <5> HIDE DEF Ordered
        <5> QED BY <3>1, <4>2, <2>q, TakenHead
      <4>4. QuitsCovered'
        BY <3>1, <3>3, <4>1, <4>2, <2>c
      <4> QED BY <4>3, <4>4
    <3> QED BY <2>5, <3>2, <3>3 DEF ExecuteCreateSession
  <2>6. ASSUME NEW r \in Requests, ExecuteSessionCommand(r) PROVE QuitTasks' /\ QuitsCovered'
    <3>1. /\ CmdTasksOf({"Command"}) /\ cmdQueue' = Tail(cmdQueue)
          /\ UNCHANGED <<quitting, loops, shutdowns, tls>>
      BY <2>6 DEF ExecuteSessionCommand, Handles, CmdTask, requestVars
    <3>2. CASE UNCHANGED threadQueue
      BY <3>1, <3>2, <2>d, <2>u
    <3>3. ASSUME NEW s \in threadMap,
                 PostToThread(s, ThreadTask("Command", r, "PrepareResponse"))
          PROVE  QuitTasks' /\ QuitsCovered'
      <4>1. s \in Sessions BY <2>t
      <4>2. /\ \A x \in Sessions : Ordered(threadQueue'[x])
            /\ \A x \in Sessions, y \in Requests : Asks(threadQueue'[x], y) <=> Asks(threadQueue[x], y)
        BY <3>1, <3>3, <4>1, <2>e
      <4>3. QuitTasks'
        <5> HIDE DEF Ordered
        <5> QED BY <3>1, <4>2, <2>q, TakenHead
      <4>4. QuitsCovered'
        BY <3>1, <4>2, <2>c
      <4> QED BY <4>3, <4>4
    <3> QED BY <2>6, <3>2, <3>3 DEF ExecuteSessionCommand
  <2>7. ASSUME NEW r \in Requests, NEW k \in {"GetSessions", "QuitAll"}, NEW op \in {"Command", "Quit"},
               k = "QuitAll" => op = "Quit", CollectFromSessions(r, k, op)
        PROVE  QuitTasks' /\ QuitsCovered'
    <3>1. /\ CmdTasksOf({k}) /\ cmdQueue' = Tail(cmdQueue) /\ Head(cmdQueue).req = r
          /\ UNCHANGED <<quitting, tls, shutdowns>>
      BY <2>7 DEF CollectFromSessions, Handles, CmdTask, requestVars
    <3>2. CASE UNCHANGED <<loops, threadQueue>>
      BY <3>1, <3>2, <2>d, <2>u
    <3>3. CASE threadMap # {}
      <4> DEFINE e == ThreadTask(op, r, CountingCallback)
                 l == [req |-> r, remaining |-> ReplyCount, quit |-> FALSE,
                       timedOut |-> FALSE, asked |-> threadMap]
      <4>1. e \in ThreadTasks /\ e.req = r /\ e.callback = "Collect" /\ e.op = op
        BY DEF ThreadTask, ThreadTasks, CountingCallback
      <4>2. /\ \A s \in Sessions :
                 threadQueue'[s] = IF s \in threadMap THEN Append(threadQueue[s], e)
                                                     ELSE threadQueue[s]
            /\ loops' = Append(loops, l)
        BY <2>7, <3>3, <2>t DEF CollectFromSessions
      <4>3. /\ l \in LooseLoops /\ l.req = r /\ l.asked = threadMap
            /\ l.quit = FALSE
        BY FS_CardinalityType DEF LooseLoops, ReplyCount, Typed
      <4> HIDE DEF e, l
      <4>4. r \in shutdowns => op = "Quit"
        <5>1. 1 \in 1..Len(cmdQueue) /\ cmdQueue[1].op = k /\ cmdQueue[1].req = r
          BY <3>1, TakenHead
        <5>2. k \in Kinds BY DEF Kinds
        <5> QED BY <5>1, <5>2, <2>7, <2>p
      <4>5. \A s \in Sessions, x \in Requests :
              Asks(threadQueue'[s], x) <=> Asks(threadQueue[s], x) \/ (x = r /\ s \in threadMap)
        BY <4>1, <4>2, <2>t, ThreadAppend
      <4>6. ASSUME NEW s \in Sessions PROVE Ordered(threadQueue'[s])
        <5>1. Ordered(Append(threadQueue[s], e))
          BY <4>1, <4>4, <2>t, <2>p, AppendElements
        <5> HIDE DEF Ordered
        <5> QED BY <5>1, <4>2, <2>p
      <4>7. QuitTasks'
        <5> HIDE DEF Ordered
        <5> QED BY <3>1, <4>6, <2>q, TakenHead
      <4>8. \A i \in 1..Len(loops') :
              loops'[i] = l \/ \E j \in 1..Len(loops) : loops'[i] = loops[j]
        BY <4>2, <4>3, <2>t, AppendElements
      <4>9. /\ \A s \in l.asked : tls'[s] # "unset"
            /\ \A s \in l.asked : Asks(threadQueue'[s], l.req)
        BY <3>1, <4>3, <4>5, <2>t DEF Lifecycle
      <4>10. \A j \in 1..Len(loops) :
              /\ \A s \in loops[j].asked : tls'[s] # "unset"
              /\ loops[j].req \in shutdowns =>
                   \A s \in loops[j].asked :
                     Asks(threadQueue'[s], loops[j].req) \/ s \in quitting' \/ tls'[s] = "null"
        BY <3>1, <4>5, <2>p, <2>r
      <4>11. QuitsCovered' BY <3>1, <4>3, <4>8, <4>9, <4>10, <2>p DEF QuitsCovered
      <4> QED BY <4>7, <4>11
    <3> QED BY <2>7, <3>2, <3>3 DEF CollectFromSessions
  <2>8. CASE OnSessionReply
    <3>1. /\ CmdTasksOf({"Collect"}) /\ cmdQueue' = Tail(cmdQueue)
          /\ UNCHANGED <<threadQueue, quitting, tls, shutdowns>>
      BY <2>8 DEF OnSessionReply, CmdTask, sessionVars, requestVars
    <3>2. QuitTasks' BY <3>1, <2>d
    <3>3. /\ Head(cmdQueue) \in CmdTasks /\ Head(cmdQueue).op = "Collect"
          /\ Head(cmdQueue) = cmdQueue[1] /\ 1 \in 1..Len(cmdQueue)
      BY <3>1, TakenHead
    <3>4. Head(cmdQueue).session \in Sessions BY <3>3 DEF CmdTasks, Kinds
    <3>5. ASSUME NEW i \in 1..Len(loops), loops[i].req = Head(cmdQueue).req
          PROVE  loops[i].remaining \in Nat \ {0}
      <4>1. Head(cmdQueue).session \in Outstanding(loops[i].req)
        BY <3>3, <3>4, <3>5 DEF Outstanding, Replies
      <4>2. /\ IsFiniteSet(Outstanding(loops[i].req))
            /\ loops[i].remaining = Cardinality(Outstanding(loops[i].req))
        BY DEF Counted
      <4> QED BY <4>1, <4>2, FS_CardinalityType, FS_EmptySet
    <3>6. /\ Len(loops') = Len(loops)
          /\ \A i \in 1..Len(loops) :
               /\ loops'[i].req = loops[i].req /\ loops'[i].asked = loops[i].asked
               /\ loops'[i].timedOut = loops[i].timedOut
               /\ IF loops[i].req = Head(cmdQueue).req
                  THEN /\ loops'[i].remaining = loops[i].remaining - 1
                       /\ loops'[i].quit = (loops[i].quit \/ loops[i].remaining = 1)
                  ELSE loops'[i] = loops[i]
      BY <2>8, <2>t, RepliedLoops
    <3>7. ASSUME NEW i \in 1..Len(loops), loops[i].req = Head(cmdQueue).req PROVE Done(loops'[i])
      <4>1. loops'[i].quit => loops[i].quit \/ loops[i].remaining = 1 BY <3>6, <3>7
      <4>2. loops[i].remaining = 1 => loops'[i].remaining = 0 BY <3>6, <3>7
      <4>3. loops[i].quit => loops[i].timedOut BY <3>5, <3>7, <2>p
      <4>4. loops'[i].timedOut = loops[i].timedOut BY <3>6
      <4> QED BY <4>1, <4>2, <4>3, <4>4
    <3>8. QuitsCovered'
      <4> HIDE DEF Done
      <4> QED BY <3>1, <3>6, <3>7, <2>c
    <3> QED BY <3>2, <3>8
  <2>9. CASE LoopReturns
    <3>1. /\ loops # <<>> /\ loops' = SubSeq(loops, 1, Len(loops) - 1)
          /\ UNCHANGED <<cmdQueue, threadQueue, quitting, tls, shutdowns>>
      BY <2>9 DEF LoopReturns, sessionVars, requestVars
    <3>2. LoopsDistinct(loops) BY DEF Ownership
    <3>3. \A i \in 1..Len(loops') : i \in 1..Len(loops) /\ loops'[i] = loops[i]
      BY <3>1, <3>2, <2>t, LoopsFront
    <3> QED BY <3>1, <3>3, <2>n, <2>c
  <2>10. CASE ReplyOnCmdThread
    BY <2>10, <2>d, <2>u DEF ReplyOnCmdThread, CmdTask, sessionVars, requestVars
  <2>11. CASE TerminateOnCmd
    <3> DEFINE e == Task("OnSessionTerminated", None, Head(cmdQueue).session)
    <3>1. /\ CmdTasksOf({"terminate_on_cmd"}) /\ cmdQueue' = Append(Tail(cmdQueue), e)
          /\ UNCHANGED <<loops, threadQueue, quitting, tls, shutdowns>>
      BY <2>11 DEF TerminateOnCmd, CmdTask, sessionVars, requestVars
    <3>2. /\ Tail(cmdQueue) \in Seq(CmdTasks) /\ Head(cmdQueue) \in CmdTasks
          /\ Head(cmdQueue).op = "terminate_on_cmd"
      BY <3>1, TakenHead
    <3>3. e \in CmdTasks /\ e.op \notin Kinds BY <3>2 DEF Task, CmdTasks, Kinds
    <3> HIDE DEF e
    <3>a. \A i \in 1..Len(Tail(cmdQueue)) : \E j \in 1..Len(cmdQueue) : Tail(cmdQueue)[i] = cmdQueue[j]
      BY <3>1, TakenHead
    <3>b. \A i \in 1..Len(cmdQueue') :
            cmdQueue'[i] = e \/ \E j \in 1..Len(Tail(cmdQueue)) : cmdQueue'[i] = Tail(cmdQueue)[j]
      BY <3>1, <3>2, <3>3, AppendElements
    <3>4. QuitTasks' BY <3>1, <3>3, <3>a, <3>b, <2>p, <2>q
    <3> QED BY <3>1, <3>4, <2>u
  <2>12. CASE OnSessionTerminated
    BY <2>12, <2>d, <2>u DEF OnSessionTerminated, CmdTask, requestVars
  <2>13. CASE RunServerReturns
    BY <2>13, <2>n, <2>u DEF RunServerReturns, sessionVars, requestVars
  <2>14. ASSUME NEW i \in 1..Len(loops), LoopTimesOut(i) PROVE QuitTasks' /\ QuitsCovered'
    <3>1. UNCHANGED <<cmdQueue, threadQueue, quitting, tls, shutdowns>>
      BY <2>14 DEF LoopTimesOut, sessionVars, requestVars
    <3>2. /\ Len(loops') = Len(loops)
          /\ \A j \in 1..Len(loops) :
               /\ loops'[j].req = loops[j].req /\ loops'[j].asked = loops[j].asked
               /\ loops'[j] = loops[j] \/ Done(loops'[j])
      BY <2>14, <2>t, TimedOutLoops
    <3>3. QuitsCovered'
      <4> HIDE DEF Done
      <4> QED BY <3>1, <3>2, <2>c
    <3> QED BY <3>1, <3>3, <2>n
  <2>15. ASSUME NEW s0 \in Sessions, ExecuteSessionCommandOnSessionThread(s0)
         PROVE  QuitTasks' /\ QuitsCovered'
    <3> DEFINE q == threadQueue[s0]
               t == Head(q)
               e == Reply(t, s0)
    <3>1. /\ q \in Seq(ThreadTasks) /\ q # <<>> /\ ThreadDistinct(q)
          /\ cmdQueue' = Append(cmdQueue, e) /\ UNCHANGED <<loops, tls, shutdowns>>
          /\ \/ tls[s0] = "live" /\ quitting' = quitting \cup {s0}
             \/ ~(tls[s0] = "live" /\ t.op = "Quit") /\ UNCHANGED quitting
      BY <2>15, <2>t, <2>o DEF ExecuteSessionCommandOnSessionThread, requestVars
    <3>2. \A s \in Sessions : threadQueue'[s] = IF s = s0 THEN Tail(q) ELSE threadQueue[s]
      BY <2>15, <2>t DEF ExecuteSessionCommandOnSessionThread
    <3>3. t \in ThreadTasks /\ t = q[1] /\ 1 \in 1..Len(q) BY <3>1, TailFacts
    <3>4. t.req \in Requests /\ t.callback \in {"PrepareResponse", "Collect"}
      BY <3>3 DEF ThreadTasks
    <3>5. e \in CmdTasks /\ e.op \notin Kinds
      BY <3>4 DEF Reply, Task, CmdTasks, Kinds
    <3> HIDE DEF e
    <3>6. ASSUME NEW s \in Sessions PROVE Ordered(threadQueue'[s])
      <4>1. Ordered(Tail(q)) BY <3>1, <2>p, TailElements
      <4> HIDE DEF Ordered
      <4> QED BY <4>1, <3>2, <2>p
    <3>7. QuitTasks'
      <4>1. \A i \in 1..Len(cmdQueue') :
              cmdQueue'[i] = e \/ \E j \in 1..Len(cmdQueue) : cmdQueue'[i] = cmdQueue[j]
        BY <3>1, <3>5, <2>t, AppendElements
      <4> HIDE DEF Ordered
      <4> QED BY <4>1, <3>1, <3>5, <3>6, <2>q
    <3>8. \A s \in Sessions, x \in Requests :
            Asks(threadQueue'[s], x) <=>
              Asks(threadQueue[s], x) /\ ~(s = s0 /\ x = t.req /\ t.callback = "Collect")
      BY <3>1, <3>2, ThreadTail
    <3>9. t.callback = "Collect" /\ t.req \in shutdowns => t.op = "Quit"
      BY <3>3, <2>p
    <3> HIDE DEF t
    <3>10. ASSUME NEW s \in Sessions, NEW x \in Requests, tls[s] # "unset", x \in shutdowns,
                  Asks(threadQueue[s], x) \/ s \in quitting \/ tls[s] = "null"
           PROVE  Asks(threadQueue'[s], x) \/ s \in quitting' \/ tls'[s] = "null"
      <4>1. tls[s] \in {"unset", "live", "null"} BY <2>t
      <4> QED BY <4>1, <3>1, <3>8, <3>9, <3>10
    <3>11. QuitsCovered' BY <3>1, <3>10, <2>c
    <3> QED BY <3>7, <3>11
  <2>16. ASSUME NEW s0 \in Sessions, Terminate(s0) PROVE QuitTasks' /\ QuitsCovered'
    <3> DEFINE e == Task("terminate_on_cmd", None, s0)
    <3>1. e \in CmdTasks /\ e.op \notin Kinds BY DEF Task, CmdTasks, Kinds
    <3>2. /\ cmdQueue' = Append(cmdQueue, e) /\ quitting' = quitting \ {s0}
          /\ UNCHANGED <<loops, threadQueue, shutdowns>>
      BY <2>16 DEF Terminate, requestVars
    <3>3. \A x \in Sessions : tls'[x] = IF x = s0 THEN "null" ELSE tls[x]
      BY <2>16, <2>t DEF Terminate
    <3> HIDE DEF e
    <3>4. QuitTasks' BY <3>1, <3>2, <2>t, <2>p, <2>q, AppendElements
    <3>5. QuitsCovered' BY <3>2, <3>3, <2>c
    <3> QED BY <3>4, <3>5
  <2>17. ASSUME NEW s \in Sessions, BrowserGone(s) PROVE QuitTasks' /\ QuitsCovered'
    <3>1. /\ UNCHANGED <<cmdQueue, loops, threadQueue, tls, shutdowns>>
          /\ quitting' = quitting \cup {s}
      BY <2>17 DEF BrowserGone, requestVars
    <3> QED BY <3>1, <2>n, <2>c
  <2>18. CASE UNCHANGED vars
    BY <2>18, <2>n, <2>u DEF vars, sessionVars, requestVars
  <2>19. "Command" \in Kinds /\ None \in Sessions \cup {None} BY DEF Kinds
  <2>20. CASE Next
    <3>1. CASE CmdSteps
      BY <3>1, <2>3, <2>4, <2>5, <2>6, <2>7, <2>8, <2>9, <2>10, <2>11, <2>12, <2>13
      DEF CmdSteps, Handling, ExecuteGetSessions, ExecuteQuitAll
    <3> QED
      BY <3>1, <2>20, <2>1, <2>2, <2>14, <2>15, <2>16, <2>17, <2>19 DEF Next, ThreadSteps
  <2> QED BY <2>18, <2>20
<1> QED
  BY <1>1, <1>2, TypedInvariant, OwnershipInvariant, CountedInvariant, LifecycleInvariant, PTL
  DEF Spec

\* The queue of the I/O thread: a response is sent, and a task is posted.
LEMMA WaitsTail ==
  ASSUME NEW S, NEW q \in Seq(S), q # <<>>, \A i, j \in 1..Len(q) : q[i] = q[j] => i = j
  PROVE  /\ \A r : Waits(Tail(q), r) <=> Waits(q, r) /\ r # Head(q)
         /\ Waits(q, Head(q))
         /\ \A i, j \in 1..Len(Tail(q)) : Tail(q)[i] = Tail(q)[j] => i = j
<1>1. /\ Len(q) \in Nat \ {0} /\ Len(Tail(q)) = Len(q) - 1 /\ Head(q) = q[1]
      /\ \A i \in 1..Len(Tail(q)) : Tail(q)[i] = q[i + 1]
  BY TailFacts
<1>2. \A i \in 1..Len(Tail(q)) : i + 1 \in 1..Len(q) /\ i + 1 # 1 /\ 1 \in 1..Len(q)
  BY <1>1
<1>3. \A i \in 1..Len(q) : i = 1 \/ (i - 1 \in 1..Len(Tail(q)) /\ Tail(q)[i - 1] = q[i])
  BY <1>1
<1>4. \A r : Waits(Tail(q), r) => Waits(q, r) /\ r # Head(q)
  BY <1>1, <1>2 DEF Waits
<1>5. \A r : Waits(q, r) /\ r # Head(q) => Waits(Tail(q), r)
  BY <1>1, <1>3 DEF Waits
<1>6. Waits(q, Head(q))
  BY <1>1 DEF Waits
<1>7. \A i, j \in 1..Len(Tail(q)) : Tail(q)[i] = Tail(q)[j] => i = j
  BY <1>1, <1>2
<1> QED BY <1>4, <1>5, <1>6, <1>7

\* A queue without duplicates gets another element.
LEMMA WaitsAppend ==
  ASSUME NEW S, NEW q \in Seq(S), NEW e \in S, ~Waits(q, e),
         \A i, j \in 1..Len(q) : q[i] = q[j] => i = j
  PROVE  /\ \A r : Waits(Append(q, e), r) <=> Waits(q, r) \/ r = e
         /\ \A i, j \in 1..Len(Append(q, e)) : Append(q, e)[i] = Append(q, e)[j] => i = j
<1>1. /\ Len(q) \in Nat /\ Len(Append(q, e)) = Len(q) + 1
      /\ \A i \in 1..Len(q) : Append(q, e)[i] = q[i]
      /\ Append(q, e)[Len(q) + 1] = e
  BY AppendFacts
<1>2. \A i : i \in 1..Len(Append(q, e)) <=> i \in 1..Len(q) \/ i = Len(q) + 1
  BY <1>1
<1> QED BY <1>1, <1>2 DEF Waits

\* Every response reaches the I/O thread before the servers stop.
LEMMA StoppingInvariant == Spec => []Stopping
<1>1. Init => Stopping
  BY DEF Init, Stopping, Waits
<1>2. Typed /\ Typed' /\ Ownership /\ Stopping /\ [Next]_vars => Stopping'
  <2> SUFFICES ASSUME Typed, Typed', Ownership, Stopping, [Next]_vars PROVE Stopping'
    OBVIOUS
  <2>t. /\ ioQueue \in Seq(Requests \cup {None}) /\ loops \in Seq(LooseLoops)
        /\ shutdowns \in SUBSET sent /\ sent \in SUBSET Requests
        /\ quitFunc \in BOOLEAN /\ serverUp \in BOOLEAN
        /\ answered \in [Requests -> Nat] /\ None \notin Requests
    BY NoneAssumption DEF Typed
  \* The parts of the invariant.
  <2> DEFINE Last == \A i \in 1..Len(ioQueue) :
                       ioQueue[i] = None => i = Len(ioQueue) /\ quitFunc /\ loops = <<>>
             Down == ~serverUp => ioQueue = <<>> /\ quitFunc /\ loops = <<>>
             Told == quitFunc => \E r \in shutdowns : answered[r] > 0
             Sent(r) == /\ answered[r] > 0 <=> r \in delivered \/ Waits(ioQueue, r)
                        /\ ~(r \in delivered /\ Waits(ioQueue, r))
             Once == \A i, j \in 1..Len(ioQueue) : ioQueue[i] = ioQueue[j] => i = j
  <2>p. Last /\ Down /\ Told /\ Once /\ \A r \in Requests : Sent(r) BY DEF Stopping
  <2>q. Last' /\ Down' /\ Told' /\ Once' /\ (\A r \in Requests : Sent(r)') => Stopping'
    BY DEF Stopping
  \* While the CMD thread runs tasks or loops the servers are up and stay so.
  <2>l. LoopRuns \/ loops # <<>> => serverUp /\ ~Waits(ioQueue, None)
    <3>1. CASE loops # <<>> BY <3>1, <2>p DEF Waits
    <3>2. CASE LoopRuns /\ loops = <<>> BY <3>2, <2>p DEF Waits, LoopRuns
    <3> QED BY <3>1, <3>2
  <2>u. ASSUME UNCHANGED <<ioQueue, serverUp, quitFunc, answered, delivered>>,
               loops = <<>> => loops' = <<>>, shutdowns \subseteq shutdowns'
        PROVE  Stopping'
    BY <2>u, <2>p, <2>q
  \* The CMD thread answers request r.
  <2>a. ASSUME NEW r \in Requests, LoopRuns \/ loops # <<>>, answered[r] = 0, PrepareResponse(r),
               quitFunc' = (quitFunc \/ r \in shutdowns) \/ UNCHANGED quitFunc,
               UNCHANGED <<shutdowns, serverUp, delivered>>
        PROVE  Stopping'
    <3>1. \A x \in Requests : answered'[x] = IF x = r THEN 1 ELSE answered[x]
      BY <2>a, <2>t DEF PrepareResponse
    <3>2. ~Waits(ioQueue, r) /\ r \notin delivered BY <2>a, <2>p, <2>t
    <3>3. ioQueue' = Append(ioQueue, r) BY <2>a DEF PrepareResponse
    <3>4. (\A x : Waits(ioQueue', x) <=> Waits(ioQueue, x) \/ x = r) /\ Once'
      BY <3>2, <3>3, <2>p, <2>t, WaitsAppend
    <3>5. serverUp /\ ~Waits(ioQueue, None) BY <2>a, <2>l
    <3>6. Last' BY <3>4, <3>5, <2>t DEF Waits
    <3>7. Down' BY <3>5, <2>a
    <3>8. Told'
      <4>1. SUFFICES ASSUME quitFunc' PROVE \E x \in shutdowns : answered'[x] > 0
        BY <2>a
      <4>2. CASE quitFunc
        <5>1. PICK x \in shutdowns : answered[x] > 0 BY <4>2, <2>p
        <5>2. answered'[x] > 0 BY <5>1, <3>1, <2>t
        <5> QED BY <5>2
      <4>3. CASE r \in shutdowns BY <4>3, <3>1
      <4> QED BY <4>1, <4>2, <4>3, <2>a
    <3>9. ASSUME NEW x \in Requests PROVE Sent(x)'
      <4>1. (answered'[x] > 0 <=> x = r \/ answered[x] > 0) BY <3>1
      <4> QED BY <4>1, <3>2, <3>4, <2>a, <2>p
    <3> QED BY <3>4, <3>6, <3>7, <3>8, <3>9, <2>q
  \* The task that is taken has the duty to answer its request.
  <2>h. ASSUME NEW ops, "Collect" \notin ops, CmdTasksOf(ops), Head(cmdQueue).req \in Requests
        PROVE  answered[Head(cmdQueue).req] = 0
    <3>1. cmdQueue # <<>> /\ Head(cmdQueue).op # "Collect" BY <2>h DEF CmdTasksOf
    <3>2. cmdQueue \in Seq(CmdTasks) /\ CmdDistinct(cmdQueue) BY DEF Typed, Ownership
    <3>3. Holds(cmdQueue, Head(cmdQueue).req) BY <3>1, <3>2, CmdTail
    <3> QED BY <2>h, <3>3 DEF Ownership, Duty
  <2>k. ASSUME NEW r \in Requests, NEW k \in Kinds, Handles(r, k)
        PROVE  LoopRuns /\ answered[r] = 0
    <3>1. CmdTasksOf({k}) /\ Head(cmdQueue).req = r BY <2>k DEF Handles, CmdTask
    <3>2. "Collect" \notin {k} BY DEF Kinds
    <3> QED BY <3>1, <3>2, <2>h DEF CmdTasksOf
  <2>1. ASSUME NEW r \in Requests, NEW k, NEW s, HandleRequestOnIOThread(r, k, s)
        PROVE  Stopping'
    BY <2>1, <2>u DEF HandleRequestOnIOThread, shutdownVars
  <2>2. CASE RunIoTask
    <3> DEFINE e == Head(ioQueue)
    <3>1. /\ ioQueue # <<>> /\ ioQueue' = Tail(ioQueue)
          /\ UNCHANGED <<loops, quitFunc, shutdowns, answered>>
          /\ \/ e # None /\ delivered' = delivered \cup {e} /\ UNCHANGED serverUp
             \/ e = None /\ serverUp' = FALSE /\ UNCHANGED delivered
      BY <2>2 DEF RunIoTask, requestVars
    <3>2. (\A r : Waits(ioQueue', r) <=> Waits(ioQueue, r) /\ r # e) /\ Once' /\ Waits(ioQueue, e)
      BY <3>1, <2>p, <2>t, WaitsTail
    <3>3. /\ Len(ioQueue) \in Nat \ {0} /\ Len(ioQueue') = Len(ioQueue) - 1 /\ e = ioQueue[1]
          /\ \A i \in 1..Len(ioQueue') : ioQueue'[i] = ioQueue[i + 1]
          /\ ioQueue' \in Seq(Requests \cup {None})
      BY <3>1, <2>t, TailFacts
    <3> HIDE DEF e
    <3>4. \A i \in 1..Len(ioQueue') : i + 1 \in 1..Len(ioQueue) BY <3>3
    <3>a. Last BY <2>p
    <3>5. Last'
      <4> SUFFICES ASSUME NEW i \in 1..Len(ioQueue'), ioQueue'[i] = None
                   PROVE  i = Len(ioQueue') /\ quitFunc' /\ loops' = <<>>
        OBVIOUS
      <4>1. i + 1 \in 1..Len(ioQueue) /\ ioQueue[i + 1] = None BY <3>3, <3>4
      <4>2. i + 1 = Len(ioQueue) /\ quitFunc /\ loops = <<>> BY <4>1, <3>a
      <4> QED BY <4>2, <3>1, <3>3
    <3>6. Down'
      <4>1. e = None => Len(ioQueue) = 1 /\ quitFunc /\ loops = <<>>
        <5>1. 1 \in 1..Len(ioQueue) BY <3>3
        <5> QED BY <5>1, <3>3, <3>a
      <4>2. Len(ioQueue) = 1 => ioQueue' = <<>> BY <3>3
      <4>3. serverUp BY <3>1, <2>p, <2>t
      <4> QED BY <4>1, <4>2, <4>3, <3>1
    <3>7. Told' BY <3>1, <2>p
    <3>8. ASSUME NEW r \in Requests PROVE Sent(r)'
      BY <3>1, <3>2, <2>p, <2>t
    <3> QED BY <3>2, <3>5, <3>6, <3>7, <3>8, <2>q
  <2>3. CASE HandleAfterShutdown
    BY <2>3, <2>u DEF HandleAfterShutdown, requestVars, shutdownVars
  <2>4. ASSUME NEW r \in Requests, HandleOther(r) PROVE Stopping'
    <3>1. Handles(r, "Other") /\ "Other" \in Kinds BY <2>4 DEF HandleOther, Kinds
    <3> QED BY <2>4, <3>1, <2>k, <2>a DEF HandleOther, requestVars, shutdownVars
  <2>5. ASSUME NEW r \in Requests, ExecuteCreateSession(r) PROVE Stopping'
    <3>1. Handles(r, "NewSession") /\ "NewSession" \in Kinds
      BY <2>5 DEF ExecuteCreateSession, Kinds
    <3> QED BY <2>5, <3>1, <2>k, <2>a, <2>u DEF ExecuteCreateSession, requestVars, shutdownVars
  <2>6. ASSUME NEW r \in Requests, ExecuteSessionCommand(r) PROVE Stopping'
    <3>1. Handles(r, "Command") /\ "Command" \in Kinds
      BY <2>6 DEF ExecuteSessionCommand, Kinds
    <3> QED BY <2>6, <3>1, <2>k, <2>a, <2>u DEF ExecuteSessionCommand, requestVars, shutdownVars
  <2>7. ASSUME NEW r \in Requests, NEW k \in Kinds, NEW op, CollectFromSessions(r, k, op)
        PROVE  Stopping'
    <3>1. Handles(r, k) /\ UNCHANGED <<shutdowns, serverUp, delivered>>
      BY <2>7 DEF CollectFromSessions, requestVars
    <3>2. CASE Responded(r)
      BY <3>1, <3>2, <2>k, <2>a DEF Responded
    <3>3. CASE UNCHANGED <<answered, ioQueue, quitFunc, receivedShutdown>>
      <4>1. LoopRuns BY <3>1, <2>k
      <4>2. serverUp /\ ~Waits(ioQueue, None) BY <4>1, <2>l
      <4> QED BY <3>1, <3>3, <4>2, <2>p, <2>q DEF Waits
    <3> QED BY <2>7, <3>2, <3>3 DEF CollectFromSessions
  <2>8. CASE OnSessionReply
    <3>1. loops = <<>> => loops' = <<>> BY <2>8, <2>t, RepliedLoops DEF Typed
    <3> QED BY <2>8, <3>1, <2>u DEF OnSessionReply, requestVars, shutdownVars
  <2>9. CASE LoopReturns
    <3> DEFINE r == loops[Len(loops)].req
    <3>1. loops # <<>> /\ Responded(r) /\ UNCHANGED <<shutdowns, serverUp, delivered>>
      BY <2>9 DEF LoopReturns, requestVars
    <3>2. r \in Requests /\ Nests(loops, r)
      BY <3>1, <2>t, LoopsFront DEF Ownership
    <3> HIDE DEF r
    <3>3. PICK x \in Requests : x = r BY <3>2
    <3>4. answered[x] = 0 BY <3>2, <3>3 DEF Ownership, Duty
    <3> QED BY <3>1, <3>3, <3>4, <2>a DEF Responded
  <2>10. CASE ReplyOnCmdThread
    <3>1. CmdTasksOf({"PrepareResponse"}) BY <2>10 DEF ReplyOnCmdThread, CmdTask
    <3>2. Head(cmdQueue).op = "PrepareResponse" /\ Head(cmdQueue) \in CmdTasks /\ LoopRuns
      BY <3>1, TakenHead
    <3>3. Head(cmdQueue).req \in Requests BY <3>2 DEF CmdTasks
    <3>4. answered[Head(cmdQueue).req] = 0 BY <3>1, <3>3, <2>h
    <3>5. PICK x \in Requests : x = Head(cmdQueue).req BY <3>3
    <3> QED
      BY <2>10, <3>2, <3>4, <3>5, <2>a DEF ReplyOnCmdThread, requestVars, shutdownVars
  <2>11. CASE TerminateOnCmd
    BY <2>11, <2>u DEF TerminateOnCmd, requestVars, shutdownVars
  <2>12. CASE OnSessionTerminated
    BY <2>12, <2>u DEF OnSessionTerminated, requestVars, shutdownVars
  <2>13. CASE RunServerReturns
    <3>1. /\ loops = <<>> /\ quitFunc /\ serverUp /\ ~Waits(ioQueue, None)
          /\ ioQueue' = Append(ioQueue, None)
          /\ UNCHANGED <<loops, shutdowns, quitFunc, serverUp, answered, delivered>>
      BY <2>13 DEF RunServerReturns, requestVars, shutdownVars, Waits
    <3>2. (\A x : Waits(ioQueue', x) <=> Waits(ioQueue, x) \/ x = None) /\ Once'
      BY <3>1, <2>p, <2>t, WaitsAppend
    <3>3. Last' BY <3>1, <2>t, AppendFacts DEF Waits
    <3>4. Down' /\ Told' BY <3>1, <2>p
    <3>5. ASSUME NEW x \in Requests PROVE Sent(x)'
      BY <3>1, <3>2, <2>p, <2>t
    <3> QED BY <3>2, <3>3, <3>4, <3>5, <2>q
  <2>14. ASSUME NEW i \in 1..Len(loops), LoopTimesOut(i) PROVE Stopping'
    <3>1. loops # <<>> BY <2>t
    <3> QED BY <2>14, <3>1, <2>u DEF LoopTimesOut, requestVars, shutdownVars
  <2>15. ASSUME NEW s \in Sessions, ExecuteSessionCommandOnSessionThread(s) PROVE Stopping'
    BY <2>15, <2>u DEF ExecuteSessionCommandOnSessionThread, requestVars, shutdownVars
  <2>16. ASSUME NEW s \in Sessions, Terminate(s) PROVE Stopping'
    BY <2>16, <2>u DEF Terminate, requestVars, shutdownVars
  <2>17. ASSUME NEW s \in Sessions, BrowserGone(s) PROVE Stopping'
    BY <2>17, <2>u DEF BrowserGone, requestVars, shutdownVars
  <2>18. CASE UNCHANGED vars
    BY <2>18, <2>u DEF vars, requestVars, shutdownVars
  <2>19. {"Command", "GetSessions", "QuitAll"} \subseteq Kinds BY DEF Kinds
  <2>20. CASE Next
    <3>1. CASE CmdSteps
      BY <3>1, <2>3, <2>4, <2>5, <2>6, <2>7, <2>8, <2>9, <2>10, <2>11, <2>12, <2>13, <2>19
      DEF CmdSteps, Handling, ExecuteGetSessions, ExecuteQuitAll
    <3> QED
      BY <3>1, <2>20, <2>1, <2>2, <2>14, <2>15, <2>16, <2>17, <2>19 DEF Next, ThreadSteps
  <2> QED BY <2>18, <2>20
<1> QED BY <1>1, <1>2, TypedInvariant, OwnershipInvariant, PTL DEF Spec

\* Type correctness, for any requests and sessions.  The counter of a nested loop
\* never falls below zero, so that the code's int never wraps.
THEOREM TypeCorrect == Spec => []TypeOK
<1>1. Typed /\ Counted => TypeOK
  <2> SUFFICES ASSUME Typed, Counted PROVE TypeOK
    OBVIOUS
  <2>1. ASSUME NEW i \in 1..Len(loops) PROVE loops[i] \in Loops
    <3>1. loops[i] \in LooseLoops BY DEF Typed
    <3>2. loops[i].remaining \in Nat BY FS_CardinalityType DEF Counted
    <3> QED BY <3>1, <3>2 DEF LooseLoops, Loops
  <2>2. loops \in Seq(Loops)
    <3>1. Len(loops) \in Nat /\ loops = [i \in 1..Len(loops) |-> loops[i]] BY DEF Typed
    <3>2. loops \in [1..Len(loops) -> Loops] BY <2>1, <3>1
    <3> QED BY <3>1, <3>2, FunctionIsSeq
  <2> QED BY <2>2 DEF Typed, TypeOK
<1> QED BY <1>1, TypedInvariant, CountedInvariant, PTL

\* The counter of every nested loop is the number of replies under way, and a
\* shutdown that no timeout cut short is answered only when every session it asked
\* is ending or has ended: for any number of nested loops, sessions that start or
\* end meanwhile, and timeouts.
THEOREM RepliesExact == Spec => []RepliesAreExact
<1>1. Typed /\ Counted /\ QuitsCovered => RepliesAreExact
  <2> SUFFICES ASSUME Typed, Counted, QuitsCovered PROVE QuitAllIsComplete
    BY DEF RepliesAreExact, RemainingIsOutstanding, Counted
  <2> SUFFICES ASSUME NEW i \in 1..Len(loops), loops[i].quit, ~loops[i].timedOut,
                      loops[i].req \in shutdowns, NEW s \in loops[i].asked
               PROVE  s \in quitting \/ tls[s] = "null"
    BY DEF QuitAllIsComplete
  <2>1. loops[i] \in LooseLoops BY DEF Typed
  <2>2. s \in Sessions BY <2>1 DEF LooseLoops
  <2>3. /\ IsFiniteSet(Outstanding(loops[i].req))
        /\ Cardinality(Outstanding(loops[i].req)) = 0
    BY DEF Counted, QuitsCovered
  <2>4. Outstanding(loops[i].req) = {} BY <2>3, FS_EmptySet
  <2>5. ~Asks(threadQueue[s], loops[i].req) BY <2>2, <2>4 DEF Outstanding
  <2> QED BY <2>5 DEF QuitsCovered
<1> QED BY <1>1, TypedInvariant, CountedInvariant, QuitInvariant, PTL

\* Every request is answered at most once, whether a session command, a nested loop
\* or the CMD thread answers it, and the servers stop only when the response to the
\* shutdown and every response posted before it are out.
THEOREM AnswersExact == Spec => []AnswersAreExact
<1>1. Typed /\ Ownership /\ Stopping => AnswersAreExact
  <2> SUFFICES ASSUME Typed, Ownership, Stopping PROVE AnswersAreExact
    OBVIOUS
  <2>1. AnsweredOnce BY DEF Ownership, Duty, AnsweredOnce
  <2>2. StopsAfterResponses
    <3> SUFFICES ASSUME ~serverUp
                 PROVE  /\ delivered \cap shutdowns # {}
                        /\ \A r \in Requests : answered[r] > 0 => r \in delivered
      BY DEF StopsAfterResponses
    <3>1. ioQueue = <<>> /\ quitFunc BY DEF Stopping
    <3>2. \A r \in Requests : answered[r] > 0 => r \in delivered
      BY <3>1 DEF Stopping, Waits
    <3>3. PICK r \in shutdowns : answered[r] > 0 BY <3>1 DEF Stopping
    <3>4. r \in Requests BY DEF Typed
    <3> QED BY <3>2, <3>3, <3>4
  <2> QED BY <2>1, <2>2 DEF AnswersAreExact
<1> QED BY <1>1, TypedInvariant, OwnershipInvariant, StoppingInvariant, PTL

\* The queues, the threads and the nested loops implement the service that
\* SessionService specifies: each step is one of its steps or changes nothing a
\* client sees.
THEOREM Implements == Spec => ImplementsService
<1> DEFINE R == [r \in Requests |-> IF r \notin sent THEN "unsent"
                                    ELSE IF r \in delivered THEN "answered" ELSE "sent"]
           S == [s \in Sessions |-> SessionState(s)]
<1>1. Init => Service!Init
  <2> SUFFICES ASSUME Init PROVE Service!Init
    OBVIOUS
  <2>1. R = [r \in Requests |-> "unsent"] /\ serverUp = TRUE BY DEF Init
  <2>2. \A s \in Sessions : SessionState(s) \in {"none", "live"}
    BY EarlierAssumption DEF Init, SessionState
  <2>3. S \in [Sessions -> {"none", "live"}] BY <2>2
  <2> QED BY <2>1, <2>3 DEF Service!Init
<1>2. /\ Typed /\ Typed' /\ Ownership /\ Lifecycle /\ Stopping /\ [Next]_vars
      => [Service!Next]_(Service!vars)
  <2> SUFFICES ASSUME Typed, Typed', Ownership, Lifecycle, Stopping, [Next]_vars
               PROVE  Service!Next \/ UNCHANGED <<R, S, serverUp>>
    BY DEF Service!vars
  <2>t. /\ sent \in SUBSET Requests /\ delivered \in SUBSET Requests /\ None \notin Requests
        /\ ioQueue \in Seq(Requests \cup {None}) /\ threadMap \in SUBSET Sessions
        /\ tls \in [Sessions -> {"unset", "live", "null"}] /\ answered \in [Requests -> Nat]
        /\ shutdowns \in SUBSET sent /\ serverUp \in BOOLEAN
    BY NoneAssumption DEF Typed
  <2>s. \A s \in Sessions :
          /\ tls[s] = "unset" => SessionState(s) = "none"
          /\ tls[s] = "live" /\ s \in threadMap => SessionState(s) = "live"
          /\ tls[s] = "null" /\ s \in threadMap => SessionState(s) = "ended"
          /\ tls[s] # "unset" /\ s \notin threadMap => SessionState(s) = "removed"
    BY DEF SessionState
  <2>z. \A s \in Sessions :
          /\ tls'[s] = "unset" => SessionState(s)' = "none"
          /\ tls'[s] = "live" /\ s \in threadMap' => SessionState(s)' = "live"
          /\ tls'[s] = "null" /\ s \in threadMap' => SessionState(s)' = "ended"
          /\ tls'[s] # "unset" /\ s \notin threadMap' => SessionState(s)' = "removed"
    BY DEF SessionState
  <2>d. \A r \in Requests : r \in delivered \/ Waits(ioQueue, r) => r \in sent
    <3> TAKE r \in Requests
    <3>1. answered[r] <= 1 /\ (answered[r] = 1 => r \in sent) BY DEF Ownership, Duty
    <3>2. r \in delivered \/ Waits(ioQueue, r) => answered[r] > 0 BY DEF Stopping
    <3> QED BY <3>1, <3>2, <2>t
  \* What a client sees changes only with these variables.
  <2>i. UNCHANGED <<sent, delivered>> => UNCHANGED R OBVIOUS
  <2>j. UNCHANGED <<threadMap, tls>> => UNCHANGED S BY DEF SessionState
  <2>l. LoopRuns => serverUp BY DEF Stopping, LoopRuns
  <2>u. ASSUME UNCHANGED <<sent, delivered, threadMap, tls, serverUp>>
        PROVE  UNCHANGED <<R, S, serverUp>>
    BY <2>u, <2>i, <2>j
  \* A session advances.
  <2>a. ASSUME NEW s \in Sessions, NEW from, NEW to, SessionState(s) = from, SessionState(s)' = to,
               \A x \in Sessions : x # s => SessionState(x)' = SessionState(x),
               UNCHANGED <<sent, delivered, serverUp>>
        PROVE  Service!Advance(s, from, to)
    <3>1. S[s] = from BY <2>a
    <3>2. S' = [S EXCEPT ![s] = to] BY <2>a
    <3> QED BY <3>1, <3>2, <2>a, <2>i DEF Service!Advance
  <2>1. ASSUME NEW r \in Requests, NEW k, NEW s, HandleRequestOnIOThread(r, k, s)
        PROVE  Service!Send(r)
    <3>1. /\ serverUp /\ r \notin sent /\ sent' = sent \cup {r}
          /\ UNCHANGED <<delivered, threadMap, tls, serverUp>>
      BY <2>1 DEF HandleRequestOnIOThread, sessionVars, shutdownVars
    <3>2. r \notin delivered BY <3>1, <2>d
    <3>3. R[r] = "unsent" BY <3>1
    <3>4. R' = [R EXCEPT ![r] = "sent"] BY <3>1, <3>2
    <3> QED BY <3>1, <3>3, <3>4, <2>j DEF Service!Send
  <2>2. CASE RunIoTask
    <3> DEFINE e == Head(ioQueue)
    <3>1. /\ ioQueue # <<>> /\ UNCHANGED <<sent, threadMap, tls>>
          /\ \/ e # None /\ delivered' = delivered \cup {e} /\ UNCHANGED serverUp
             \/ e = None /\ serverUp' = FALSE /\ UNCHANGED delivered
      BY <2>2 DEF RunIoTask, requestVars, sessionVars
    <3>2. serverUp BY <3>1, <2>t DEF Stopping
    <3>3. e \in Requests \cup {None} /\ e = ioQueue[1] /\ Len(ioQueue) \in Nat \ {0}
      BY <3>1, <2>t, TailFacts
    <3>4. 1 \in 1..Len(ioQueue) BY <3>3
    <3> HIDE DEF e
    <3>5. CASE e # None
      <4>1. PICK r \in Requests : r = e BY <3>3, <3>5
      <4>2. Waits(ioQueue, r) BY <3>3, <3>4, <4>1 DEF Waits
      <4>3. r \in sent /\ r \notin delivered BY <4>2, <2>d DEF Stopping
      <4>4. R[r] = "sent" BY <4>3
      <4>5. delivered' = delivered \cup {r} /\ UNCHANGED serverUp BY <3>1, <3>5, <4>1
      <4>6. R' = [R EXCEPT ![r] = "answered"] BY <3>1, <4>3, <4>5
      <4>7. Service!Answer(r) BY <3>1, <3>2, <4>4, <4>5, <4>6, <2>j DEF Service!Answer
      <4> QED BY <4>7 DEF Service!Next
    <3>6. CASE e = None
      <4>1. Len(ioQueue) = 1 /\ quitFunc BY <3>3, <3>4, <3>6 DEF Stopping
      <4>2. PICK r \in shutdowns : answered[r] > 0 BY <4>1 DEF Stopping
      <4>3. r \in Requests /\ r \in sent BY <2>t
      <4>a. \A i \in 1..Len(ioQueue) : i = 1 BY <4>1
      <4>b. ioQueue[1] # r BY <3>3, <3>6, <4>3, <2>t
      <4>4. ~Waits(ioQueue, r) BY <4>a, <4>b DEF Waits
      <4>5. r \in delivered BY <4>2, <4>3, <4>4 DEF Stopping
      <4>6. R[r] = "answered" BY <4>3, <4>5
      <4>7. Service!Stop BY <3>1, <3>2, <3>6, <4>3, <4>6, <2>i, <2>j DEF Service!Stop
      <4> QED BY <4>7 DEF Service!Next
    <3> QED BY <3>5, <3>6
  <2>3. CASE HandleAfterShutdown
    BY <2>3, <2>u DEF HandleAfterShutdown, requestVars, sessionVars, shutdownVars
  <2>4. ASSUME NEW r \in Requests, HandleOther(r) PROVE UNCHANGED <<R, S, serverUp>>
    BY <2>4, <2>u DEF HandleOther, requestVars, sessionVars, shutdownVars
  <2>5. ASSUME NEW r \in Requests, ExecuteCreateSession(r)
        PROVE  Service!Next \/ UNCHANGED <<R, S, serverUp>>
    <3>1. UNCHANGED <<sent, delivered, serverUp>> /\ LoopRuns
      BY <2>5 DEF ExecuteCreateSession, requestVars, shutdownVars, Handles, CmdTask, CmdTasksOf
    <3>2. CASE UNCHANGED <<threadMap, tls, threadQueue>>
      BY <3>1, <3>2, <2>u
    <3>3. ASSUME NEW s \in Sessions, s \notin threadMap, tls[s] = "unset",
                 threadMap' = threadMap \cup {s}, tls' = [tls EXCEPT ![s] = "live"]
          PROVE  Service!Next
      <4>1. SessionState(s) = "none" BY <3>3, <2>s
      <4>2. tls'[s] = "live" BY <3>3, <2>t
      <4>3. SessionState(s)' = "live" BY <3>3, <4>2, <2>z
      <4>4. \A x \in Sessions : x # s => SessionState(x)' = SessionState(x)
        BY <3>3, <2>t DEF SessionState
      <4>5. Service!Create(s) BY <3>1, <4>1, <4>3, <4>4, <2>a, <2>l DEF Service!Create
      <4> QED BY <4>5 DEF Service!Next
    <3> QED BY <2>5, <3>2, <3>3 DEF ExecuteCreateSession
  <2>6. ASSUME NEW r \in Requests, ExecuteSessionCommand(r) PROVE UNCHANGED <<R, S, serverUp>>
    BY <2>6, <2>u DEF ExecuteSessionCommand, requestVars, shutdownVars
  <2>7. ASSUME NEW r \in Requests, NEW k, NEW op, CollectFromSessions(r, k, op)
        PROVE  UNCHANGED <<R, S, serverUp>>
    BY <2>7, <2>u DEF CollectFromSessions, requestVars
  <2>8. CASE OnSessionReply
    BY <2>8, <2>u DEF OnSessionReply, requestVars, sessionVars, shutdownVars
  <2>9. CASE LoopReturns
    BY <2>9, <2>u DEF LoopReturns, requestVars, sessionVars
  <2>10. CASE ReplyOnCmdThread
    BY <2>10, <2>u DEF ReplyOnCmdThread, requestVars, sessionVars, shutdownVars
  <2>11. CASE TerminateOnCmd
    BY <2>11, <2>u DEF TerminateOnCmd, requestVars, sessionVars, shutdownVars
  <2>12. CASE OnSessionTerminated
    <3>1. /\ CmdTasksOf({"OnSessionTerminated"})
          /\ threadMap' = threadMap \ {Head(cmdQueue).session}
          /\ UNCHANGED <<sent, delivered, serverUp, tls>>
      BY <2>12 DEF OnSessionTerminated, CmdTask, requestVars, shutdownVars
    <3>2. /\ LoopRuns /\ Head(cmdQueue) \in CmdTasks /\ Head(cmdQueue).op = "OnSessionTerminated"
          /\ Head(cmdQueue) = cmdQueue[1] /\ 1 \in 1..Len(cmdQueue)
      BY <3>1, TakenHead
    <3>3. Head(cmdQueue).session \in Sessions BY <3>2 DEF CmdTasks, Kinds
    <3>4. tls[Head(cmdQueue).session] = "null" BY <3>2 DEF Lifecycle
    <3>5. PICK s \in Sessions : s = Head(cmdQueue).session BY <3>3
    <3>6. CASE s \in threadMap
      <4>1. SessionState(s) = "ended" BY <3>4, <3>5, <3>6, <2>s
      <4>2. SessionState(s)' = "removed" BY <3>1, <3>4, <3>5, <2>z
      <4>3. \A x \in Sessions : x # s => SessionState(x)' = SessionState(x)
        BY <3>1, <3>5 DEF SessionState
      <4>4. Service!Remove(s) BY <3>1, <3>2, <4>1, <4>2, <4>3, <2>a, <2>l DEF Service!Remove
      <4> QED BY <4>4 DEF Service!Next
    <3>7. CASE s \notin threadMap
      <4>1. threadMap' = threadMap BY <3>1, <3>5, <3>7
      <4> QED BY <3>1, <4>1, <2>u
    <3> QED BY <3>6, <3>7
  <2>13. CASE RunServerReturns
    BY <2>13, <2>u DEF RunServerReturns, requestVars, sessionVars, shutdownVars
  <2>14. ASSUME NEW i, LoopTimesOut(i) PROVE UNCHANGED <<R, S, serverUp>>
    BY <2>14, <2>u DEF LoopTimesOut, requestVars, sessionVars, shutdownVars
  <2>15. ASSUME NEW s \in Sessions, ExecuteSessionCommandOnSessionThread(s)
         PROVE  UNCHANGED <<R, S, serverUp>>
    BY <2>15, <2>u DEF ExecuteSessionCommandOnSessionThread, requestVars, shutdownVars
  <2>16. ASSUME NEW s \in Sessions, Terminate(s) PROVE Service!Next
    <3>1. /\ s \in quitting /\ tls' = [tls EXCEPT ![s] = "null"]
          /\ UNCHANGED <<sent, delivered, serverUp, threadMap>>
      BY <2>16 DEF Terminate, requestVars, shutdownVars
    <3>2. tls[s] = "live" /\ s \in threadMap BY <3>1 DEF Lifecycle
    <3>3. SessionState(s) = "live" BY <3>2, <2>s
    <3>4. tls'[s] = "null" BY <3>1, <2>t
    <3>5. SessionState(s)' = "ended" BY <3>1, <3>2, <3>4, <2>z
    <3>6. \A x \in Sessions : x # s => SessionState(x)' = SessionState(x)
      BY <3>1, <2>t DEF SessionState
    <3>7. Service!End(s) BY <3>1, <3>3, <3>5, <3>6, <2>a DEF Service!End
    <3> QED BY <3>7 DEF Service!Next
  <2>17. ASSUME NEW s \in Sessions, BrowserGone(s) PROVE UNCHANGED <<R, S, serverUp>>
    BY <2>17, <2>u DEF BrowserGone, requestVars, shutdownVars
  <2>18. CASE UNCHANGED vars
    BY <2>18, <2>u DEF vars, requestVars, sessionVars, shutdownVars
  <2> HIDE DEF R, S
  <2>20. CASE Next
    <3>1. CASE CmdSteps
      BY <3>1, <2>3, <2>4, <2>5, <2>6, <2>7, <2>8, <2>9, <2>10, <2>11, <2>12, <2>13
      DEF CmdSteps, Handling, ExecuteGetSessions, ExecuteQuitAll
    <3>2. ASSUME NEW r \in Requests, Service!Send(r) PROVE Service!Next
      BY <3>2 DEF Service!Next
    <3> QED
      BY <3>1, <3>2, <2>20, <2>1, <2>2, <2>14, <2>15, <2>16, <2>17 DEF Next, ThreadSteps
  <2> QED BY <2>18, <2>20
<1> QED
  BY <1>1, <1>2, TypedInvariant, OwnershipInvariant, LifecycleInvariant, StoppingInvariant, PTL
  DEF Spec, ImplementsService, Service!Spec
=============================================================================
