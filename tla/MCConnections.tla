---------------------------- MODULE MCConnections ---------------------------
(***************************************************************************)
(* The two ways a session's thread waits for the browser, with fairness:   *)
(* PipeConnection, below the protocol, and DevToolsClient, above it.  The  *)
(* initial state chooses which of them takes the steps.                    *)
(***************************************************************************)
EXTENDS Naturals, Sequences

CONSTANTS
  MaxMessages, MaxPipeSends, Capacity,
  Root, Page, Frame, AutoAccept, MaxClientSends, MaxClientEvents

VARIABLES
  part,   \* the module that takes the steps
  platform, webSocketUrl, pc, task, success, posted, shuttingDown, reader, readerUp,
  partial, received, writerUp, writeTask, writeBuffer, queued, browser, inPipe, outPipe,
  nextMessage, accepted, gotten, delivered, gaveUp,
  stack, ret, nextId, commands, connected, attached, detached, crashed, listeners, fedcm,
  unConnect, unEvent, event, unResponse, response, dialogs, sends, events, lastSeen,
  opened, failed, died, navigations

Pipe == INSTANCE PipeConnection WITH MaxSends <- MaxPipeSends
Client == INSTANCE DevToolsClient WITH MaxSends <- MaxClientSends,
                                       MaxEvents <- MaxClientEvents,
                                       MaxTotal <- MaxClientSends + MaxClientEvents

pipeVars == <<platform, webSocketUrl, pc, task, success, posted, shuttingDown, reader,
             readerUp, partial, received, writerUp, writeTask, writeBuffer, queued,
             browser, inPipe, outPipe, nextMessage, accepted, gotten, delivered, gaveUp>>
clientVars == <<stack, ret, nextId, commands, connected, attached, detached, crashed,
               listeners, fedcm, unConnect, unEvent, event, unResponse, response, dialogs,
               sends, events, lastSeen, opened, failed, died, navigations>>
vars == <<part, pipeVars, clientVars>>

PipeOnly == part = "pipe" /\ UNCHANGED <<part, clientVars>>
ClientOnly == part = "client" /\ UNCHANGED <<part, pipeVars>>

Init ==
  /\ Pipe!Init /\ Client!Init
  /\ \/ part = "pipe"
     \/ part = "client" /\ platform = "posix" /\ ~webSocketUrl

PipeStep == PipeOnly /\ Pipe!Next
ClientStep == ClientOnly /\ Client!Next
Next == PipeStep \/ ClientStep

\* The fairness that the two modules assume, each for its own part.
PipeFairness ==
  /\ WF_vars(PipeOnly /\ Pipe!Connect) /\ WF_vars(PipeOnly /\ Pipe!ReceiveTimeout)
  /\ WF_vars(PipeOnly /\ Pipe!Receive) /\ WF_vars(PipeOnly /\ Pipe!ReaderThread)
  /\ WF_vars(PipeOnly /\ Pipe!WriterThread) /\ WF_vars(PipeOnly /\ Pipe!BrowserReads)
  /\ SF_vars(PipeOnly /\ Pipe!RunPosted) /\ SF_vars(PipeOnly /\ Pipe!EndTask)
ClientFairness ==
  WF_vars(ClientOnly /\ Client!Step) /\ SF_vars(ClientOnly /\ Client!HandleEventsEnds)

FairSpec == Init /\ [][Next]_vars /\ PipeFairness /\ ClientFairness

-----------------------------------------------------------------------------
\* The variables keep the types the modules give them.
TypeOK == Pipe!TypeOK /\ Client!TypeOK

\* Messages and bytes pass the pipes whole and in order, and a session thread asleep in
\* ReceiveNextMessage has a reader thread that will wake it (PipeConnection).
PipesDeliver == Pipe!PipesDeliver

\* The exit of the browser ends a BiDi session (PipeConnection).
BrowserExitEndsSession == Pipe!BrowserExitEndsSession

\* Every operation on a client returns (DevToolsClient).
OperationsReturn == Client!OperationsReturn
=============================================================================
