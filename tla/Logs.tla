-------------------------------- MODULE Logs --------------------------------
(***************************************************************************)
(* The logs of a session: the console of the pages ("browser"), the        *)
(* network and trace events ("performance"), chosen DevTools events        *)
(* ("devtools") and the driver's own messages ("driver").  Events of the   *)
(* browser are written by listeners while commands wait for answers; GetLog*)
(* hands out the entries in batches; the trace stays in a buffer of the    *)
(* browser until a command stops tracing, collects it and starts again.    *)
(***************************************************************************)
EXTENDS Naturals, Sequences, SequencesExt

CONSTANTS
  MaxReturnedEntries,  \* kMaxReturnedEntries
  MaxLogEvents,        \* bound: events and messages
  MaxLogCommands       \* bound: commands

VARIABLES
  driver,          \* the process: "starting", "started" or "exited"
  logPrefs,        \* the session's logging preferences
  logs,            \* its logs: type -> [minLevel, batches, emptied]
  traceBuffering,  \* trace_buffering_
  chromeTrace,     \* the browser: "off", "on" or "ending"
  traceBuffer,     \* the trace events that it holds
  logInbox,        \* its messages: events, chunks of the trace, the answer of a script
  logCall,         \* the command under way
  happened,        \* history: what there was to log
  readEntries         \* history: what GetLog has returned, per log type

vars == <<driver, logPrefs, logs, traceBuffering, chromeTrace, traceBuffer, logInbox,
          logCall, happened, readEntries>>

kAll == 0
kDebug == 1
kInfo == 2
kWarning == 3
kError == 4
kOff == 5

LogTypes == {"performance", "devtools", "browser", "driver"}
NoPrefs == [performance |-> "absent", tracing |-> FALSE, devtools |-> FALSE,
            browser |-> kWarning, driver |-> kWarning]
NoLogCall == [name |-> "none", type |-> "none", step |-> "idle", mark |-> 0, collected |-> 0,
              flushed |-> FALSE, empty |-> FALSE, count |-> 0]

Init ==
  /\ driver = "starting" /\ logPrefs = NoPrefs /\ logs = [t \in {} |-> {}]
  /\ traceBuffering = FALSE /\ chromeTrace = "off" /\ traceBuffer = <<>> /\ logInbox = <<>>
  /\ logCall = [NoLogCall EXCEPT !.step = "none"] /\ happened = <<>>
  /\ readEntries = [t \in LogTypes |-> <<>>]
-----------------------------------------------------------------------------
\* InitLogging: of the switches that set the level of the server's own log one is allowed.
SwitchesAreValid(silent, verbose, logLevel) ==
  /\ logLevel # "invalid" /\ ~(silent /\ verbose)
  /\ logLevel # "absent" => ~silent /\ ~verbose

InitLogging ==
  /\ driver = "starting"
  /\ \E silent, verbose \in BOOLEAN, logLevel \in {"absent", "invalid", "INFO"} :
       driver' = IF SwitchesAreValid(silent, verbose, logLevel) THEN "started" ELSE "exited"
  /\ UNCHANGED <<logPrefs, logs, traceBuffering, chromeTrace, traceBuffer, logInbox, logCall,
                 happened, readEntries>>

NewLog(level) == [minLevel |-> level, batches |-> <<>>, emptied |-> TRUE]

\* CreateLogs.  The performance log takes everything unless it is off; the browser log always
\* exists, and is not listened for when off.
TypesOf(prefs) ==
  {"browser", "driver"} \cup (IF prefs.performance = "on" THEN {"performance"} ELSE {})
  \cup (IF prefs.devtools THEN {"devtools"} ELSE {})
CreateLogs(prefs) ==
  [t \in TypesOf(prefs) |->
     NewLog(CASE t = "browser" -> prefs.browser [] t = "driver" -> prefs.driver [] OTHER -> kAll)]

\* PerformanceLogger::OnConnected for the browser's client: StartTrace, if categories are given.
NewSession ==
  /\ driver = "started" /\ logCall.step = "none"
  /\ \E performance \in {"off", "on"}, tracing, devtools \in BOOLEAN, browser \in {kWarning, kOff} :
       /\ tracing => performance = "on"
       /\ devtools = tracing   \* bound: of the combinations, those that differ most
       /\ logPrefs' = [NoPrefs EXCEPT !.performance = performance, !.tracing = tracing,
                         !.devtools = devtools, !.browser = browser]
       /\ logs' = CreateLogs(logPrefs')
       /\ traceBuffering' = tracing /\ chromeTrace' = IF tracing THEN "on" ELSE "off"
  /\ logCall' = NoLogCall
  /\ UNCHANGED <<driver, traceBuffer, logInbox, happened, readEntries>>
-----------------------------------------------------------------------------
\* What happens in the browser and in the driver; the console's events only reach a driver that
\* has enabled them (ConsoleLogger::OnConnected, EnableInspectorDomains).
Event(kind, level) == [kind |-> kind, level |-> level, id |-> Len(happened) + 1]
Live == logCall.step \notin {"none", "ended"}

Happens(kind, level) ==
  /\ Live /\ Len(happened) < MaxLogEvents
  /\ happened' = Append(happened, Event(kind, level))

ConsoleLevelToLogLevel ==
  [verbose |-> kDebug, debug |-> kDebug, timeEnd |-> kDebug, log |-> kInfo, info |-> kInfo,
   warning |-> kWarning, error |-> kError, assert |-> kError]

\* Log.entryAdded and Runtime.consoleAPICalled have a type; kAll stands for one without a level.
\* Runtime.exceptionThrown is an error.
LevelOf(type) ==
  CASE type = "exception" -> kError
    [] type \in DOMAIN ConsoleLevelToLogLevel -> ConsoleLevelToLogLevel[type]
    [] OTHER -> kAll

ConsoleEvent(type) ==
  /\ logPrefs.browser # kOff /\ Happens("console", LevelOf(type))
  /\ logInbox' = Append(logInbox, Event("console", LevelOf(type)))
  /\ UNCHANGED <<driver, logPrefs, logs, traceBuffering, chromeTrace, traceBuffer, logCall,
                 readEntries>>

\* An event of the Network or Page domain; without it "other", one that no log is about.
InspectorEvent(kind) ==
  /\ logPrefs.performance = "on" /\ Happens(kind, kInfo)
  /\ logInbox' = Append(logInbox, Event(kind, kInfo))
  /\ UNCHANGED <<driver, logPrefs, logs, traceBuffering, chromeTrace, traceBuffer, logCall,
                 readEntries>>

TraceEvent ==
  /\ chromeTrace = "on" /\ Happens("trace", kInfo)
  /\ traceBuffer' = Append(traceBuffer, Event("trace", kInfo))
  /\ UNCHANGED <<driver, logPrefs, logs, traceBuffering, chromeTrace, logInbox, logCall,
                 readEntries>>

\* After Tracing.end the browser sends the trace in chunks, then Tracing.tracingComplete.
SendTrace ==
  /\ chromeTrace = "ending"
  /\ \/ /\ traceBuffer # <<>>
        /\ \E n \in 1..Len(traceBuffer) :
             /\ logInbox' = Append(logInbox, [kind |-> "chunk",
                                              entries |-> SubSeq(traceBuffer, 1, n)])
             /\ traceBuffer' = SubSeq(traceBuffer, n + 1, Len(traceBuffer))
        /\ UNCHANGED chromeTrace
     \/ /\ traceBuffer = <<>> /\ chromeTrace' = "off" /\ UNCHANGED traceBuffer
        /\ logInbox' = Append(logInbox, [kind |-> "complete"])
  /\ UNCHANGED <<driver, logPrefs, logs, traceBuffering, logCall, happened, readEntries>>
-----------------------------------------------------------------------------
\* WebDriverLog::AddEntryTimestamped
AddEntry(log, e) ==
  IF e.level < log.minLevel THEN log
  ELSE IF log.batches = <<>> \/ Len(Last(log.batches)) >= MaxReturnedEntries
       THEN [log EXCEPT !.batches = Append(@, <<e>>)]
       ELSE [log EXCEPT !.batches = Append(Front(@), Append(Last(@), e))]

\* The types that a listener writes an event to.  ShouldLogEvent: the Network and Page domains;
\* DevToolsEventsLogger: the chosen events; ConsoleLogger: the types that have a level.
WrittenTo(e) ==
  CASE e.kind = "console" -> IF e.level = kAll THEN {} ELSE {"browser"}
    [] e.kind = "inspector" -> {"performance", "devtools"} \cap DOMAIN logs
    [] e.kind = "trace" -> {"performance"}
    [] OTHER -> {}

Write(current, e) ==
  [t \in DOMAIN current |-> IF t \in WrittenTo(e) THEN AddEntry(current[t], e) ELSE current[t]]

\* The entries of one event: HandleTraceEvents writes every trace event of a chunk.
EntriesOf(m) == IF m.kind = "chunk" THEN m.entries ELSE <<m>>

\* A command that waits for an answer or for the end of the trace handles the next message.
OnEvent ==
  /\ logCall.step \in {"collecting", "flushing"} /\ logInbox # <<>>
  /\ logInbox' = Tail(logInbox)
  /\ LET m == Head(logInbox) IN
     /\ logs' = IF m.kind \in {"complete", "answer"} THEN logs
                ELSE FoldLeft(Write, logs, EntriesOf(m))
     /\ traceBuffering' = (traceBuffering /\ m.kind # "complete")
     /\ logCall' = CASE m.kind = "answer" -> [logCall EXCEPT !.step = "read", !.flushed = TRUE]
                     [] m.kind = "complete" -> [logCall EXCEPT !.step = "restart"]
                     [] OTHER -> logCall
  /\ UNCHANGED <<driver, logPrefs, chromeTrace, traceBuffer, happened, readEntries>>

\* HandleLogMessage on a session's thread: to stderr by the server's level, to the session's log
\* by that log's level.
DriverMessage(level) ==
  /\ Happens("driver", level) /\ logCall.step # "idle"
  /\ logs' = [logs EXCEPT !["driver"] = AddEntry(@, Event("driver", level))]
  /\ UNCHANGED <<driver, logPrefs, traceBuffering, chromeTrace, traceBuffer, logInbox,
                 logCall, readEntries>>
-----------------------------------------------------------------------------
StartCommand(name, type) ==
  /\ logCall.step = "idle" /\ logCall.count < MaxLogCommands
  /\ logCall' = [logCall EXCEPT !.name = name, !.type = type, !.step = "before",
                   !.mark = Len(happened), !.flushed = FALSE, !.empty = FALSE, !.count = @ + 1]
  /\ UNCHANGED <<driver, logPrefs, logs, traceBuffering, chromeTrace, traceBuffer, logInbox,
                 happened, readEntries>>

ShouldRequestTraceEvents(command, emptied) ==
  \/ command = "GetLog" /\ emptied
  \/ command = "Navigate"

AfterBefore == IF logCall.name = "GetLog" THEN "flush" ELSE "idle"

\* NotifyCommandListenersBeforeCommand: an error ends the session, and the browser.
EndSession == logCall' = [logCall EXCEPT !.step = "ended"]

\* PerformanceLogger::BeforeCommand and CollectTraceEvents.
BeforeCommand ==
  /\ logCall.step = "before"
  /\ IF traceBuffering /\ ShouldRequestTraceEvents(logCall.name, logs["performance"].emptied)
     THEN \/ /\ chromeTrace' = "ending"
             /\ logCall' = [logCall EXCEPT !.step = "collecting", !.collected = logCall.mark]
          \/ EndSession /\ UNCHANGED chromeTrace
     ELSE logCall' = [logCall EXCEPT !.step = AfterBefore] /\ UNCHANGED chromeTrace
  /\ UNCHANGED <<driver, logPrefs, logs, traceBuffering, traceBuffer, logInbox, happened,
                 readEntries>>

\* The 30 seconds of CollectTraceEvents have passed.
CollectTimeout ==
  /\ logCall.step = "collecting" /\ EndSession
  /\ UNCHANGED <<driver, logPrefs, logs, traceBuffering, chromeTrace, traceBuffer, logInbox,
                 happened, readEntries>>

StartTrace ==
  /\ logCall.step = "restart"
  /\ \/ /\ traceBuffering' = TRUE /\ chromeTrace' = "on"
        /\ logCall' = [logCall EXCEPT !.step = AfterBefore]
     \/ EndSession /\ UNCHANGED <<traceBuffering, chromeTrace>>
  /\ UNCHANGED <<driver, logPrefs, logs, traceBuffer, logInbox, happened, readEntries>>

\* ExecuteGetLog evaluates a script, so that what the page has logged is handled first; a script
\* that fails is no reason to fail.
Flush ==
  /\ logCall.step = "flush"
  /\ \/ /\ logInbox' = Append(logInbox, [kind |-> "answer"])
        /\ logCall' = [logCall EXCEPT !.step = "flushing"]
     \/ logCall' = [logCall EXCEPT !.step = "read"] /\ UNCHANGED logInbox
  /\ UNCHANGED <<driver, logPrefs, logs, traceBuffering, chromeTrace, traceBuffer, happened,
                 readEntries>>

FirstBatch(log) == IF log.batches = <<>> THEN <<>> ELSE Head(log.batches)
RestOfBatches(log) == IF log.batches = <<>> THEN <<>> ELSE Tail(log.batches)

FirstOfAll(log) ==
  [returned |-> FirstBatch(log),
   log |-> [log EXCEPT !.batches = <<>>, !.emptied = (log.batches = <<>>)]]

\* WebDriverLog::GetAndClearEntries: the first batch.
GetAndClearEntries(log) ==
  [returned |-> FirstBatch(log),
   log |-> [log EXCEPT !.batches = RestOfBatches(log), !.emptied = (log.batches = <<>>)]]

ReadLog ==
  /\ logCall.step = "read"
  /\ IF logCall.type \in DOMAIN logs
     THEN LET taken == GetAndClearEntries(logs[logCall.type]) IN
          /\ logs' = [logs EXCEPT ![logCall.type] = taken.log]
          /\ readEntries' = [readEntries EXCEPT ![logCall.type] = @ \o taken.returned]
          /\ logCall' = [logCall EXCEPT !.step = "answered", !.empty = (taken.returned = <<>>)]
     ELSE /\ logCall' = [logCall EXCEPT !.step = "idle"] /\ UNCHANGED <<logs, readEntries>>
  /\ UNCHANGED <<driver, logPrefs, traceBuffering, chromeTrace, traceBuffer, logInbox,
                 happened>>

EndCommand ==
  /\ logCall.step = "answered" /\ logCall' = [logCall EXCEPT !.step = "idle"]
  /\ UNCHANGED <<driver, logPrefs, logs, traceBuffering, chromeTrace, traceBuffer, logInbox,
                 happened, readEntries>>

Next ==
  \/ InitLogging \/ NewSession \/ (\E t \in {"dir", "log", "exception"} : ConsoleEvent(t))
  \/ InspectorEvent("inspector") \/ InspectorEvent("other") \/ TraceEvent \/ SendTrace \/ OnEvent
  \/ (\E l \in {kDebug, kWarning} : DriverMessage(l))
  \/ (\E t \in LogTypes : StartCommand("GetLog", t)) \/ StartCommand("Navigate", "none")
  \/ BeforeCommand \/ CollectTimeout \/ StartTrace \/ Flush \/ ReadLog \/ EndCommand

Spec == Init /\ [][Next]_vars
-----------------------------------------------------------------------------
TypeOK ==
  /\ driver \in {"starting", "started", "exited"} /\ DOMAIN logs \subseteq LogTypes
  /\ traceBuffering \in BOOLEAN /\ chromeTrace \in {"off", "on", "ending"}
  /\ \A t \in DOMAIN logs : \A i \in DOMAIN logs[t].batches :
       Len(logs[t].batches[i]) \in 1..MaxReturnedEntries

\* What a log is to hold: the events of its kind from the level that the client asked for.
BelongsTo(t, e) ==
  CASE t = "browser" -> e.kind = "console" /\ e.level # kAll /\ e.level >= logPrefs.browser
    [] t = "driver" -> e.kind = "driver" /\ e.level >= logPrefs.driver
    [] t = "devtools" -> e.kind = "inspector"
    [] t = "performance" -> e.kind \in {"inspector", "trace"}

\* What is still under way to a log, of one kind.
UnderWay(kind) ==
  FlattenSeq([i \in DOMAIN logInbox |-> IF logInbox[i].kind \in {"complete", "answer"} THEN <<>>
                                        ELSE EntriesOf(logInbox[i])])
  \o (IF kind = "trace" THEN traceBuffer ELSE <<>>)

OfKind(s, t, kind) == SelectSeq(s, LAMBDA e : e.kind = kind /\ BelongsTo(t, e))

\* No entry is lost, doubled or moved: of every kind, what GetLog has returned, what the batches
\* hold, and what is still under way is what happened, in that order, through any number of full
\* batches and of collections of the trace (WebDriverLog, PerformanceLogger).  And a client that
\* reads until it gets an empty answer has read everything that its log was to hold when that
\* command began, the trace as far as it was collected (ExecuteGetLog).  The browser's trace buffer
\* is taken to be large enough: what a full one loses, of which HandleTraceEvents only adds a
\* warning (Tracing.bufferUsage), has not happened here.
LogsAreExact ==
  /\ \A t \in DOMAIN logs, kind \in {"console", "inspector", "trace", "driver"} :
       OfKind(readEntries[t] \o FlattenSeq(logs[t].batches) \o UnderWay(kind), t, kind)
         = OfKind(happened, t, kind)
  /\ logCall.step = "answered" /\ logCall.empty /\ logCall.flushed =>
       \A i \in 1..logCall.mark :
         \/ ~BelongsTo(logCall.type, happened[i])
         \/ happened[i].kind = "trace" /\ i > logCall.collected
         \/ happened[i] \in ToSet(readEntries[logCall.type])
=============================================================================
