--------------------------- MODULE PipeConnection ---------------------------
(***************************************************************************)
(* net/pipe_connection_posix.cc, net/pipe_connection_win.cc and the        *)
(* non-blocking ends of net/pipe_reader_posix.cc and pipe_writer_posix.cc: *)
(* the socket of a session whose browser is driven over a pair of pipes.   *)
(*                                                                         *)
(* Three threads take steps: the session thread, a reader thread that cuts *)
(* the bytes of the browser into messages, and a writer thread that turns  *)
(* messages into bytes.  A message is one byte, its number, followed by    *)
(* the terminator 0; reads and writes may stop anywhere.  A byte Foreign   *)
(* is a message with the id of another client, which is not queued.        *)
(*                                                                         *)
(* Joining a thread in Shutdown is not a step of its own: both threads are *)
(* made to end, and what they still do touches only what is being deleted. *)
(***************************************************************************)
EXTENDS Naturals, Sequences, SequencesExt

CONSTANTS
  MaxMessages,   \* bound: messages the browser sends
  MaxSends,      \* bound: calls of Send
  Capacity       \* bytes the operating system buffers in the pipe to the browser

VARIABLES
  platform,       \* "posix" or "win"
  webSocketUrl,   \* the session handles notifications (WebDriver BiDi)
  pc,             \* where the session thread is
  task,           \* the task it runs
  success,        \* what WriteIntoPipeOnIOThread reported to Write
  posted,         \* tasks of the reader and the writer for the session thread
  shuttingDown,   \* shutting_down_; both ends are then null
  reader,         \* the read loop: none, reading or stopped
  readerUp,       \* is_connected_ of the reader
  partial,        \* next_message_, the read_buffer_ on Windows
  received,       \* received_queue_
  writerUp,       \* is_connected_ of the writer
  writeTask,      \* messages posted to the writer thread
  writeBuffer,    \* write_buffer_, the argument of WriteFile on Windows
  queued,         \* queued_
  browser,        \* the browser keeps its ends open
  inPipe,         \* bytes from the browser in the pipe
  outPipe,        \* bytes to the browser in the pipe
  nextMessage,    \* number of the next message of the browser
  accepted,       \* history: messages the writer accepted
  gotten,         \* history: bytes the browser read
  delivered,      \* history: messages ReceiveNextMessage returned
  gaveUp          \* history: the Windows reader met its largest buffer

sessionVars == <<platform, webSocketUrl, pc, task, success>>
readerVars == <<reader, readerUp, partial, received>>
writerVars == <<writerUp, writeTask, writeBuffer, queued>>
browserVars == <<browser, inPipe, outPipe, nextMessage, gotten>>
vars == <<sessionVars, posted, shuttingDown, readerVars, writerVars, browserVars,
          accepted, delivered, gaveUp>>

Foreign == MaxMessages + 1
Bytes == 0..Foreign

Init ==
  /\ platform \in {"posix", "win"} /\ webSocketUrl \in BOOLEAN
  /\ pc = "connect" /\ task = "command" /\ success = FALSE
  /\ posted = <<>> /\ shuttingDown = FALSE
  /\ reader = "none" /\ readerUp = FALSE /\ partial = <<>> /\ received = <<>>
  /\ writerUp = FALSE /\ writeTask = <<>> /\ writeBuffer = <<>> /\ queued = <<>>
  /\ browser = TRUE /\ inPipe = <<>> /\ outPipe = <<>> /\ nextMessage = 1
  /\ accepted = <<>> /\ gotten = <<>> /\ delivered = <<>> /\ gaveUp = FALSE

-----------------------------------------------------------------------------
(* The session thread.                                                     *)

\* notify_ of a BiDi session finds the connection gone and ends the session.
\* Otherwise the call goes on at place |next|.
NotifiedOfShutdown(next) == IF webSocketUrl THEN "gone" ELSE next

\* Shutdown, called at most once: both threads end, both ends are deleted.
Shutdown(next) ==
  /\ shuttingDown' = TRUE
  /\ reader' = "stopped" /\ readerUp' = FALSE /\ partial' = <<>> /\ received' = <<>>
  /\ writerUp' = FALSE /\ writeTask' = <<>> /\ writeBuffer' = <<>> /\ queued' = <<>>
  /\ pc' = next

\* Connect starts the threads; one of them may not start.
Connect ==
  /\ pc = "connect"
  /\ \/ /\ pc' = "idle" /\ reader' = "reading" /\ readerUp' = TRUE /\ writerUp' = TRUE
        /\ UNCHANGED <<shuttingDown, partial, received, writeTask, writeBuffer, queued>>
     \/ Shutdown("gone")
  /\ UNCHANGED <<platform, webSocketUrl, task, success, posted, browserVars,
                 accepted, delivered, gaveUp>>

BeginCommand ==
  /\ pc = "idle" /\ pc' = "running" /\ task' = "command" /\ success' = TRUE
  /\ UNCHANGED <<platform, webSocketUrl, posted, shuttingDown, readerVars, writerVars,
                 browserVars, accepted, delivered, gaveUp>>

\* SendNotification and Shutdown, posted by the reader and the writer.
RunPosted ==
  /\ pc = "idle" /\ posted # <<>>
  /\ posted' = Tail(posted)
  /\ \/ /\ Head(posted) = "Shutdown" /\ ~shuttingDown
        /\ Shutdown(NotifiedOfShutdown("idle"))
        /\ UNCHANGED <<task, success>>
     \/ /\ Head(posted) = "Shutdown" /\ shuttingDown
        /\ UNCHANGED <<shuttingDown, pc, task, success, readerVars, writerVars>>
     \/ /\ Head(posted) = "notify"
        /\ IF webSocketUrl /\ ~shuttingDown
           THEN pc' = "running" /\ task' = "notification" /\ success' = TRUE
           ELSE UNCHANGED <<pc, task, success>>
        /\ UNCHANGED <<shuttingDown, readerVars, writerVars>>
  /\ UNCHANGED <<platform, webSocketUrl, browserVars, accepted, delivered, gaveUp>>

\* A command that met a lost connection ends the session; so does a notification
\* that finds one end gone.  A notification goes on until the queue is empty.
EndTask ==
  /\ pc = "running"
  /\ task = "notification" => received = <<>> \/ ~success
  /\ pc' = IF ~success \/ (task = "notification" /\ ~(readerUp /\ writerUp))
           THEN "gone" ELSE "idle"
  /\ UNCHANGED <<platform, webSocketUrl, task, success, posted, shuttingDown,
                 readerVars, writerVars, browserVars, accepted, delivered, gaveUp>>

\* Send on a connection of which an end is gone.  Shutdown runs notify_ inside
\* the call, which deletes a BiDi session while its command is running.
SendFails ==
  /\ pc = "running" /\ Len(accepted) < MaxSends
  /\ \/ /\ shuttingDown \/ (platform = "win" /\ ~writerUp)
        /\ UNCHANGED <<shuttingDown, pc, readerVars, writerVars>>
     \/ /\ ~shuttingDown /\ ~readerUp /\ (platform = "win" => writerUp)
        /\ Shutdown(NotifiedOfShutdown("running"))
  /\ success' = FALSE
  /\ UNCHANGED <<platform, webSocketUrl, task, posted, browserVars, accepted,
                 delivered, gaveUp>>

\* Send: the message is posted and Write waits for its event.
Send ==
  /\ pc = "running" /\ success /\ Len(accepted) < MaxSends
  /\ ~shuttingDown /\ readerUp /\ (platform = "win" => writerUp)
  /\ writeTask' = <<Len(accepted) + 1>>
  /\ pc' = "sendWait"
  /\ UNCHANGED <<platform, webSocketUrl, task, success, posted, shuttingDown, readerVars,
                 writerUp, writeBuffer, queued, browserVars, accepted, delivered, gaveUp>>

\* ReceiveNextMessage, its first test and the one after a wake-up: a queued
\* message is preferred to the loss of the connection.
Receive ==
  /\ pc \in {"running", "receiveWoken"} /\ success
  /\ \/ /\ received # <<>>
        /\ received' = Tail(received) /\ delivered' = Append(delivered, Head(received))
        /\ pc' = "running" /\ UNCHANGED success
     \/ /\ received = <<>> /\ ~readerUp
        /\ pc' = "running" /\ success' = FALSE /\ UNCHANGED <<received, delivered>>
     \/ /\ received = <<>> /\ readerUp /\ task = "command"
        /\ pc' = "receiveWait" /\ UNCHANGED <<received, delivered, success>>
  /\ UNCHANGED <<platform, webSocketUrl, task, posted, shuttingDown, reader, readerUp,
                 partial, writerVars, browserVars, accepted, gaveUp>>

ReceiveTimeout ==
  /\ pc = "receiveWait"
  /\ pc' = "running"
  /\ UNCHANGED <<platform, webSocketUrl, task, success, posted, shuttingDown,
                 readerVars, writerVars, browserVars, accepted, delivered, gaveUp>>

-----------------------------------------------------------------------------
(* The reader thread.                                                      *)

\* Mutant: the read loop ends without a signal.
NoSignal == pc' = pc

\* on_update_event_.Signal().
Signal == pc' = IF pc = "receiveWait" THEN "receiveWoken" ELSE pc

\* The positions of the terminators in a sequence of bytes, in order.
Terminators(bytes) ==
  SetToSortSeq({i \in 1..Len(bytes) : bytes[i] = 0}, <)

\* Mutant: the bytes before the first terminator of a read are a message, without
\* those of the read before.
MessagesOfRead(bytes, kept) == 
  LET chunk == SubSeq(bytes, kept + 1, Len(bytes))
      ends == Terminators(chunk)
  IN  [j \in 1..Len(ends) |-> SubSeq(chunk, IF j = 1 THEN 1 ELSE ends[j - 1] + 1, ends[j] - 1)]

\* The messages of a sequence of bytes, of which |kept| were read earlier.
MessagesIn(bytes, kept) ==
  LET ends == Terminators(bytes)
  IN  [j \in 1..Len(ends) |-> SubSeq(bytes, IF j = 1 THEN 1 ELSE ends[j - 1] + 1, ends[j] - 1)]

\* Mutant: the terminator is kept.
RestWithTerminator(bytes) ==
  LET ends == Terminators(bytes)
  IN  IF ends = <<>> THEN bytes ELSE SubSeq(bytes, Last(ends), Len(bytes))

\* What follows the last terminator.
Rest(bytes) ==
  LET ends == Terminators(bytes)
  IN  IF ends = <<>> THEN bytes ELSE SubSeq(bytes, Last(ends) + 1, Len(bytes))

\* DetermineRecipient.
ForChromeDriver(message) == message # <<Foreign>>

\* Only a message that finds the queue empty is announced.
Announced(messages) ==
  IF received = <<>> /\ messages # <<>> THEN Append(posted, "notify") ELSE posted

\* A read of some bytes: OnRead and OnMessageReceivedOnIOThread for each message.
OnRead ==
  /\ reader = "reading" /\ inPipe # <<>>
  /\ \E n \in 1..Len(inPipe) :
       LET bytes == partial \o SubSeq(inPipe, 1, n)
           messages == SelectSeq(MessagesIn(bytes, Len(partial)), ForChromeDriver) IN
         /\ inPipe' = SubSeq(inPipe, n + 1, Len(inPipe))
         /\ partial' = Rest(bytes)
         /\ received' = received \o messages
         /\ posted' = Announced(messages)
         /\ IF Terminators(bytes) # <<>> THEN Signal ELSE pc' = pc
  /\ UNCHANGED <<platform, webSocketUrl, task, success, shuttingDown, reader, readerUp,
                 writerVars, browser, outPipe, nextMessage, gotten, accepted, delivered,
                 gaveUp>>

\* Mutant: the end of the loop is reported to nobody.
LoopEndedSilently == posted

\* The task the reader posts when its loop ends.
LoopEnded == Append(posted, "Shutdown")

\* The browser has closed its end: the loop ends.
ReadFails ==
  /\ reader = "reading" /\ inPipe = <<>> /\ ~browser
  /\ reader' = "stopped" /\ readerUp' = FALSE
  /\ Signal
  /\ posted' = LoopEnded
  /\ UNCHANGED <<platform, webSocketUrl, task, success, shuttingDown, partial, received,
                 writerVars, browserVars, accepted, delivered, gaveUp>>

\* ReadLoopOnIOThread on Windows: a message outgrows the largest buffer.  The loop
\* ends, but is_connected_ stays and nobody is signalled.
ReadBufferFull ==
  /\ platform = "win" /\ reader = "reading" /\ partial # <<>>
  /\ reader' = "stopped" /\ gaveUp' = TRUE
  /\ posted' = LoopEnded
  /\ UNCHANGED <<platform, webSocketUrl, pc, task, success, shuttingDown, readerUp,
                 partial, received, writerVars, browserVars, accepted, delivered>>

-----------------------------------------------------------------------------
(* The writer thread.                                                      *)

Space == Capacity - Len(outPipe)

\* WriteFromBuffer: what of a buffer fits into the pipe, and what stays.
Fits(buffer) == SubSeq(buffer, 1, IF Len(buffer) < Space THEN Len(buffer) ELSE Space)
Stays(buffer) == SubSeq(buffer, Len(Fits(buffer)) + 1, Len(buffer))

WriteOk(buffer) ==
  /\ outPipe' = outPipe \o Fits(buffer) /\ writeBuffer' = Stays(buffer)
  /\ UNCHANGED <<writerUp, posted>>

\* OnError: the pipe is closed.  Windows leaves the bytes behind; on POSIX they
\* stay in the buffer, which is not written to any more.
WriteError(buffer) ==
  /\ writerUp' = FALSE
  /\ writeBuffer' = IF platform = "win" THEN <<>> ELSE buffer
  /\ posted' = Append(posted, "Shutdown")
  /\ UNCHANGED outPipe

Write(buffer) == IF browser \/ buffer = <<>> THEN WriteOk(buffer) ELSE WriteError(buffer)

\* A write to the pipe is incomplete: on POSIX later messages go to queued_.
MustQueue == platform = "posix" /\ writerUp /\ writeBuffer # <<>>

\* WriteIntoPipeOnIOThread: the event is signalled first.  A buffer that is still
\* being written makes the message wait in queued_; on Windows WriteFile blocks, so
\* the task itself waits.
WriteIntoPipe ==
  /\ writeTask # <<>> /\ (platform = "win" => writeBuffer = <<>>)
  /\ writeTask' = <<>> /\ pc' = "running" /\ success' = writerUp
  /\ LET bytes == <<Head(writeTask), 0>> IN
       \/ /\ platform = "posix" /\ ~writerUp
          /\ UNCHANGED <<writerUp, writeBuffer, queued, outPipe, posted, accepted>>
       \/ /\ MustQueue
          /\ queued' = queued \o bytes /\ accepted' = Append(accepted, Head(writeTask))
          /\ UNCHANGED <<writerUp, writeBuffer, outPipe, posted>>
       \/ /\ platform = "win" \/ (writerUp /\ ~MustQueue)
          /\ accepted' = IF writerUp THEN Append(accepted, Head(writeTask)) ELSE accepted
          /\ Write(bytes) /\ UNCHANGED queued
  /\ UNCHANGED <<platform, webSocketUrl, task, shuttingDown, readerVars, browser, inPipe,
                 nextMessage, gotten, delivered, gaveUp>>

\* The buffer when |rest| of it could not be written: the one that follows it.
NextBuffer(rest) == IF rest = <<>> THEN queued ELSE rest

\* OnWrite: the pipe has space again, or is closed.  The rest of the buffer is
\* written, and when nothing of it is left, so is queued_.
OnWrite ==
  /\ writeBuffer # <<>> /\ writerUp /\ ~shuttingDown
  /\ \/ /\ browser /\ Space > 0
        /\ LET rest == Stays(writeBuffer)
               free == Space - Len(Fits(writeBuffer))
               next == NextBuffer(rest)
               more == IF rest # <<>> THEN <<>>
                       ELSE SubSeq(next, 1, IF Len(next) < free THEN Len(next) ELSE free) IN
             /\ outPipe' = outPipe \o Fits(writeBuffer) \o more
             /\ writeBuffer' = SubSeq(next, Len(more) + 1, Len(next))
             /\ queued' = IF rest = <<>> /\ next = queued THEN <<>> ELSE queued
        /\ UNCHANGED <<writerUp, posted>>
     \/ ~browser /\ WriteError(writeBuffer) /\ UNCHANGED queued
  /\ UNCHANGED <<sessionVars, shuttingDown, readerVars, writeTask, browser, inPipe,
                 nextMessage, gotten, accepted, delivered, gaveUp>>

-----------------------------------------------------------------------------
(* The browser.                                                            *)

BrowserWrites ==
  /\ browser /\ nextMessage <= MaxMessages
  /\ \E b \in {nextMessage, Foreign} :
       /\ inPipe' = inPipe \o <<b, 0>>
       /\ nextMessage' = nextMessage + 1
  /\ UNCHANGED <<sessionVars, posted, shuttingDown, readerVars, writerVars, browser,
                 outPipe, gotten, accepted, delivered, gaveUp>>

BrowserReads ==
  /\ browser /\ outPipe # <<>>
  /\ gotten' = Append(gotten, Head(outPipe)) /\ outPipe' = Tail(outPipe)
  /\ UNCHANGED <<sessionVars, posted, shuttingDown, readerVars, writerVars, browser,
                 inPipe, nextMessage, accepted, delivered, gaveUp>>

BrowserExits ==
  /\ browser /\ browser' = FALSE /\ outPipe' = <<>>
  /\ UNCHANGED <<sessionVars, posted, shuttingDown, readerVars, writerVars, inPipe,
                 nextMessage, gotten, accepted, delivered, gaveUp>>

-----------------------------------------------------------------------------
SessionThread == \/ Connect \/ RunPosted \/ EndTask \/ Receive \/ ReceiveTimeout
ReaderThread == OnRead \/ ReadFails
WriterThread == WriteIntoPipe \/ OnWrite
Next == \/ SessionThread \/ BeginCommand \/ Send \/ SendFails \/ ReaderThread
        \/ ReadBufferFull \/ WriterThread \/ BrowserWrites \/ BrowserReads \/ BrowserExits

\* The threads run and waits expire.  An idle thread takes what was posted to it,
\* though commands compete, and tasks end.
Fairness ==
  /\ WF_vars(Connect) /\ SF_vars(RunPosted) /\ SF_vars(EndTask) /\ WF_vars(ReceiveTimeout)
  /\ WF_vars(Receive) /\ WF_vars(ReaderThread) /\ WF_vars(WriterThread)
  /\ WF_vars(BrowserReads)

Spec == Init /\ [][Next]_vars
FairSpec == Spec /\ Fairness

-----------------------------------------------------------------------------
TypeOK ==
  /\ platform \in {"posix", "win"} /\ webSocketUrl \in BOOLEAN
  /\ pc \in {"connect", "idle", "running", "sendWait", "receiveWait", "receiveWoken", "gone"}
  /\ task \in {"command", "notification"} /\ success \in BOOLEAN
  /\ posted \in Seq({"notify", "Shutdown"}) /\ shuttingDown \in BOOLEAN
  /\ reader \in {"none", "reading", "stopped"} /\ readerUp \in BOOLEAN
  /\ partial \in Seq(Bytes \ {0}) /\ received \in Seq(Seq(Bytes \ {0}))
  /\ writerUp \in BOOLEAN /\ writeTask \in Seq(1..MaxSends)
  /\ writeBuffer \in Seq(Nat) /\ queued \in Seq(Nat)
  /\ browser \in BOOLEAN /\ inPipe \in Seq(Bytes) /\ outPipe \in Seq(Nat)
  /\ Len(outPipe) <= Capacity
  /\ gotten \in Seq(Nat) /\ accepted \in Seq(Nat) /\ delivered \in Seq(Seq(Bytes \ {0}))
  /\ gaveUp \in BOOLEAN

\* A thread asleep in ReceiveNextMessage has a reader that will wake it, and
\* nothing to read yet.  (A Windows reader that met its largest buffer is the
\* exception.)
SleeperHasReader ==
  pc = "receiveWait" /\ ~gaveUp => reader = "reading" /\ readerUp /\ received = <<>>

\* Messages are cut at the terminators wherever the reads stopped: what is
\* returned are whole messages, in the order of the browser.
MessagesAreWhole ==
  LET all == delivered \o received
  IN  \A i \in 1..Len(all) : /\ Len(all[i]) = 1
                             /\ \A j \in 1..(i - 1) : all[j][1] < all[i][1]

\* The bytes the browser reads are those of the messages that Send accepted, each
\* whole and in order, however the writes were split and queued.
SentBytesInOrder ==
  LET all == gotten \o outPipe \o writeBuffer \o queued
      sent == FlattenSeq([i \in 1..Len(accepted) |-> <<accepted[i], 0>>])
  IN  writerUp /\ browser => all = sent

\* Both streams, whatever the sizes of the reads and writes.
StreamsAreExact == MessagesAreWhole /\ SentBytesInOrder

\* All of these: what is written to a pipe is read, once, whole and in order.
PipesDeliver == SleeperHasReader /\ StreamsAreExact

\* When the browser is gone the BiDi session ends without the help of a client,
\* whichever thread notices first.
BrowserExitEndsSession ==
  webSocketUrl /\ ~browser /\ readerUp ~> pc = "gone"
=============================================================================
