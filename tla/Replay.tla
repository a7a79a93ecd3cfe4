------------------------------- MODULE Replay -------------------------------
(***************************************************************************)
(* Log replay: a session is recorded in the driver's log, and replayed     *)
(* from it.  Client side (log_replay/client_replay.py): the commands are   *)
(* sent again, with the ids that the replayed session has given instead of *)
(* the recorded ones.  Browser side (log_replay/*.cc): LogReplaySocket     *)
(* answers the driver's DevTools commands from the log.                    *)
(***************************************************************************)
EXTENDS Naturals, Sequences, SequencesExt

CONSTANTS
  MaxRecordedCommands, \* bound: client commands of the recorded session
  MaxRecordedSends,    \* bound: its DevTools commands
  MaxRecordedEvents,   \* bound: its DevTools events
  MaxRecordedEntries   \* bound: the entries of its log

VARIABLES
  record,        \* the log
  recording,     \* the recorded driver: [step, sent, events, open]
  replayer,      \* the replayed client: [step, next, command, staged, stagedSession, idMap]
  socket,        \* LogReplaySocket: [next, maxId], of the entries of the log
  actor,         \* the replayed driver: [step, next, waiting]
  latest         \* history: recorded id -> the id that the replayed session gave in its place

vars == <<record, recording, replayer, socket, actor, latest>>

\* The entries: COMMAND and RESPONSE of the client, Command, Response and Event of DevTools.
Client(kind, name, ids) == [kind |-> kind, name |-> name, ids |-> ids]
DevTools(kind, id, awaited) == [kind |-> kind, id |-> id, awaited |-> awaited]
Event(dialog) == [kind |-> "Event", dialog |-> dialog]
Ids == {"session", "e1", "e2"}

Init ==
  /\ record = <<>> /\ recording = [step |-> "idle", sent |-> 0, events |-> 0, open |-> {}]
  /\ replayer = [step |-> "off", next |-> 1, command |-> 0, staged |-> <<>>,
                 stagedSession |-> FALSE, idMap |-> [i \in Ids |-> i]]
  /\ socket = [next |-> 1, maxId |-> 0] /\ actor = [step |-> "idle", next |-> 1, waiting |-> 0]
  /\ latest = [i \in Ids |-> i]
-----------------------------------------------------------------------------
(* The recorded session *)
Log(entry) == record' = Append(record, entry)
NotReplayed == UNCHANGED <<replayer, socket, actor, latest>>
Commands == Len(SelectSeq(record, LAMBDA e : e.kind = "COMMAND"))

\* There is room in the log for an entry, and for the answer to the command.
RoomForTwo == Len(record) < MaxRecordedEntries - 1

\* A client's program: it finds elements before it clicks one.
RecordCommand ==
  /\ recording.step = "idle" /\ Commands < MaxRecordedCommands /\ RoomForTwo
  /\ \/ Commands = 0 /\ Log(Client("COMMAND", "InitSession", <<>>))
     \/ Commands > 0 /\ Log(Client("COMMAND", "FindElements", <<"session">>))
     \/ /\ \E i \in DOMAIN record : record[i].kind = "RESPONSE" /\ Contains(record[i].ids, "e1")
        /\ Log(Client("COMMAND", "ClickElement", <<"session", "e1">>))
     \/ Commands > 0 /\ Log(Client("COMMAND", "GetSessions", <<>>))
  /\ recording' = [recording EXCEPT !.step = "busy"]
  /\ NotReplayed

\* Bound: of the DevTools traffic, that after InitSession.
Traffic == Commands > 1 /\ RoomForTwo

\* A DevTools command whose answer is awaited, or not (SendAsyncCommand).
RecordSend ==
  /\ recording.step = "busy" /\ recording.sent < MaxRecordedSends /\ Traffic
  /\ \E awaited \in BOOLEAN :
       /\ Log(DevTools("Command", recording.sent + 1, awaited))
       /\ recording' = [recording EXCEPT !.sent = @ + 1, !.open = @ \cup {recording.sent + 1},
                          !.step = IF awaited THEN "waiting" ELSE "busy"]
  /\ NotReplayed

\* The driver takes messages while it waits, and while a command looks for them.  A dialog that
\* opens ends the wait.
RecordMessage ==
  /\ recording.step \in {"busy", "waiting"} /\ Traffic
  /\ \/ /\ recording.events < MaxRecordedEvents
        /\ \E dialog \in BOOLEAN :
             /\ Log(Event(dialog))
             /\ recording' = [recording EXCEPT !.events = @ + 1,
                                !.step = IF dialog THEN "busy" ELSE @]
     \/ \E id \in recording.open :
          /\ Log(DevTools("Response", id, FALSE))
          /\ recording' = [recording EXCEPT !.open = @ \ {id},
                             !.step = IF id = recording.sent THEN "busy" ELSE @]
  /\ NotReplayed

\* The answer did not arrive in time; it may be logged later, or never.
RecordTimeout ==
  /\ recording.step = "waiting" /\ recording' = [recording EXCEPT !.step = "busy"]
  /\ UNCHANGED record /\ NotReplayed

RecordResponse ==
  /\ recording.step = "busy"
  /\ LET name == SelectLastInSeq(record, LAMBDA e : e.kind = "COMMAND")
         found == IF record[name].name = "FindElements"
                  THEN {<<"e1">>, <<"e2", "e1">>} ELSE {<<>>}
     IN \E ids \in found : Log(Client("RESPONSE", record[name].name, ids))
  /\ recording' = [recording EXCEPT !.step = "idle"]
  /\ NotReplayed

StartReplay ==
  /\ recording.step = "idle" /\ Commands > 0
  /\ recording' = [recording EXCEPT !.step = "done"]
  /\ replayer' = [replayer EXCEPT !.step = "next"]
  /\ UNCHANGED <<record, socket, actor, latest>>
-----------------------------------------------------------------------------
(* The client: CommandSequence *)
ClientEntries == {"COMMAND", "RESPONSE"}

\* _Parser.GetNext: the place of the next entry of these kinds from i on, or 0.
NextEntry(i, kinds) == SelectInSubSeq(record, i, Len(record), LAMBDA e : e.kind \in kinds)

\* _IngestLoggedResponse; it is not called for GetSessions, which keeps what is staged.
Staged(command, response) ==
  IF command.name = "GetSessions" THEN replayer.staged ELSE response.ids

\* _HandleGetSessions takes the answers of all the sessions, of which there is one here, up to
\* the next command.
HandleGetSessions(c) ==
  LET n == NextEntry(c + 1, {"COMMAND"}) IN IF n = 0 THEN Len(record) + 1 ELSE n

\* NextCommand: the command, with the ids that are mapped, and what the log says of its answer.
NextCommand ==
  /\ replayer.step = "next"
  /\ LET c == NextEntry(replayer.next, ClientEntries)
         r == NextEntry(c + 1, ClientEntries)
     IN IF c = 0 THEN replayer' = [replayer EXCEPT !.step = "ended"]
        ELSE replayer' =
               [replayer EXCEPT !.step = "execute", !.command = c,
                  !.next = IF record[c].name = "GetSessions" THEN HandleGetSessions(c) ELSE r + 1,
                  !.staged = Staged(record[c], record[r]),
                  !.stagedSession = @ \/ record[c].name = "InitSession"]
  /\ actor' = [actor EXCEPT !.next = NextEntry(replayer.next, ClientEntries) + 1, !.step = "busy"]
  /\ UNCHANGED <<record, recording, socket, latest>>

\* _ReplaceWindowAndElementIds, _ReplaceSessionId
Sent == [p \in DOMAIN record[replayer.command].ids |->
           replayer.idMap[record[replayer.command].ids[p]]]

MappedLater(map, staged, real) ==
  [i \in Ids |-> LET p == SelectInSeq(staged, LAMBDA x : x = i)
                 IN IF p # 0 /\ p + 1 \in DOMAIN real THEN real[p + 1] ELSE map[i]]

\* zip(self._staged_logged_ids, real_ids): the ids of the two answers, place by place.
Mapped(map, staged, real) ==
  [i \in Ids |-> LET p == SelectLastInSeq(staged, LAMBDA x : x = i)
                 IN IF p \in DOMAIN real THEN real[p] ELSE map[i]]

SessionMapped(map, session) == [map EXCEPT !["session"] = session]

\* The replayed driver has answered: an error, or ids of its own, in the same order but perhaps
\* fewer.  _IngestRealResponse is called with the answer before the next command is read.
IngestRealResponse ==
  /\ replayer.step = "execute" /\ actor.step = "answered"
  /\ LET logged == record[NextEntry(replayer.command + 1, ClientEntries)].ids
         name == record[replayer.command].name
     IN \/ /\ replayer' = [replayer EXCEPT !.step = "next"] /\ UNCHANGED latest
        \/ /\ name = "InitSession" /\ latest' = SessionMapped(latest, "new session")
           /\ replayer' = [replayer EXCEPT !.step = "next", !.stagedSession = FALSE,
                             !.idMap = SessionMapped(@, "new session")]
        \/ /\ name = "FindElements"
           /\ \E n \in 1..Len(logged) :
                LET real == SubSeq(<<"n1", "n2">>, 1, n)
                IN /\ latest' = [i \in Ids |-> IF \E p \in 1..n : logged[p] = i
                                               THEN real[CHOOSE p \in 1..n : logged[p] = i]
                                               ELSE latest[i]]
                   /\ replayer' = [replayer EXCEPT !.step = "next", !.staged = <<>>,
                                     !.idMap = Mapped(@, replayer.staged, real)]
  /\ actor' = [actor EXCEPT !.step = "idle"]
  /\ UNCHANGED <<record, recording, socket>>
-----------------------------------------------------------------------------
(* The browser: LogReplaySocket *)
SocketEntries == {"Command", "Response", "Event"}
Messages == {"Response", "Event"}

\* HasNextMessage: the next entry is an event, or an answer or a command that is not ahead.
HasNextMessage ==
  LET n == NextEntry(socket.next, SocketEntries) IN
  n # 0 /\ (record[n].kind = "Event" \/ (record[n].kind # "Event" /\ record[n].id <= socket.maxId))

\* ReceiveNextMessage: the next answer or event, or 0 at the end of the log; commands are skipped.
Received == NextEntry(socket.next, Messages)

\* The driver runs the recorded program: what it sends for a command is what the log has next.
Upcoming == NextEntry(actor.next, {"Command", "RESPONSE"})

ReplaySend ==
  /\ replayer.step = "execute" /\ actor.step = "busy" /\ record[Upcoming].kind = "Command"
  /\ socket' = [socket EXCEPT !.maxId = record[Upcoming].id]
  /\ actor' = [step |-> IF record[Upcoming].awaited THEN "waiting" ELSE "busy",
               next |-> Upcoming + 1, waiting |-> record[Upcoming].id]
  /\ UNCHANGED <<record, recording, replayer, latest>>

Take(message) ==
  /\ socket' = [socket EXCEPT !.next = message + 1]
  /\ actor' = [actor EXCEPT !.step =
                  IF \/ record[message].kind = "Response" /\ record[message].id = actor.waiting
                     \/ record[message].kind = "Event" /\ record[message].dialog
                  THEN "busy" ELSE @]
  /\ UNCHANGED <<record, recording, replayer, latest>>

\* ReceiveNextMessage uses the entry without a test, which at the end of the log is a null pointer.
ReceiveNextMessage ==
  IF Received # 0 THEN Take(Received)
  ELSE /\ actor' = [actor EXCEPT !.step = "crashed"]
       /\ UNCHANGED <<record, recording, replayer, socket, latest>>

\* HandleReceivedEvents
ReplayPoll ==
  replayer.step = "execute" /\ actor.step = "busy" /\ HasNextMessage /\ ReceiveNextMessage

\* Waiting for an answer, the driver does not ask whether there is a message, and the socket
\* does not look at the timeout.
ReplayWait == actor.step = "waiting" /\ ReceiveNextMessage

ReplayAnswer ==
  /\ replayer.step = "execute" /\ actor.step = "busy" /\ record[Upcoming].kind = "RESPONSE"
  /\ actor' = [actor EXCEPT !.step = "answered"]
  /\ UNCHANGED <<record, recording, replayer, socket, latest>>

Next ==
  \/ RecordCommand \/ RecordSend \/ RecordMessage \/ RecordTimeout
  \/ RecordResponse \/ StartReplay
  \/ NextCommand \/ IngestRealResponse \/ ReplaySend \/ ReplayPoll \/ ReplayWait \/ ReplayAnswer

Spec == Init /\ [][Next]_vars
-----------------------------------------------------------------------------
TypeOK ==
  /\ \A i \in DOMAIN record : record[i].kind \in
       {"COMMAND", "RESPONSE", "Command", "Response", "Event"}
  /\ socket.next \in 1..(Len(record) + 1) /\ replayer.command \in 0..Len(record)

\* The answer to a command is in the log, from its place up to another.
AnsweredBefore(j, i) ==
  \E k \in j..i : record[k].kind = "Response" /\ record[k].id = record[j].id

\* A replayed command names what the recorded one did: the session and the elements that the
\* replayed session gave in the place of the recorded ids, or the recorded id if it gave none
\* (CommandSequence).  The driver never gets an answer, or an event, ahead of the command that it
\* follows in the log, unless in the log an earlier command was still unanswered then: it was not
\* waited for, it timed out, or a dialog opened (LogReplaySocket::HasNextMessage).  And the socket
\* is not read beyond the end of the log, unless a command in it was overtaken by another or never
\* answered.
ReplayIsFaithful ==
  /\ replayer.step = "execute" =>
       Sent = [p \in DOMAIN record[replayer.command].ids |->
                 latest[record[replayer.command].ids[p]]]
  /\ \A i \in 1..(socket.next - 1) :
       record[i].kind = "Command" /\ record[i].id > socket.maxId =>
         \E j \in 1..(i - 1) : record[j].kind = "Command" /\ ~AnsweredBefore(j, i)
  /\ actor.step = "crashed" =>
       \E j \in DOMAIN record : \E i \in j..Len(record) :
         /\ record[j].kind = "Command" /\ ~AnsweredBefore(j, i)
         /\ i = Len(record) \/ (i > j /\ record[i].kind = "Command")
=============================================================================
