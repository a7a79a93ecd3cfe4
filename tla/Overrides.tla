------------------------------ MODULE Overrides ------------------------------
(***************************************************************************)
(* What a session overrides in its pages: the position, the network        *)
(* conditions, the download directory and the metrics of the device, and   *)
(* the settings that are sent once (sensors, pressure sources, posture,    *)
(* permissions, the time zone, virtual authenticators).                    *)
(*                                                                         *)
(* The session keeps the overrides (session.h) for the windows it switches *)
(* to; in every page a manager of its own keeps what it was given and      *)
(* applies it again after a navigation of the main frame, when the page    *)
(* has lost it.  The manager of the network conditions keeps a reference   *)
(* to them, not a copy.                                                    *)
(***************************************************************************)
EXTENDS Naturals, FiniteSets

CONSTANTS
  MaxOverrides,    \* bound: commands
  MaxLosses,       \* bound: navigations
  MaxRefusals      \* bound: DevTools commands that fail

VARIABLES
  emulation,       \* page -> what the browser emulates in it
  lostOverrides,            \* pages whose main frame has navigated, the event not handled yet
  geoManager,      \* page -> overridden_geoposition_
  netManager,      \* page -> overridden_network_conditions_: a reference or 0
  alive,           \* the NetworkConditions that exist
  session,         \* [window, geo, net, download, timeouts]
  mobile,          \* mobile emulation is on
  overrideCall,    \* the command under way
  refused,         \* some command has answered an error
  overrides, losses, refusals,
  neglected        \* page -> what it lost and its managers failed to apply again

vars == <<emulation, lostOverrides, geoManager, netManager, alive, session, mobile, overrideCall, refused,
          overrides, losses, refusals, neglected>>

Pages == {1, 2}
Positions == {"here", "there"}
\* The conditions of every reference: the n-th command that makes some gets reference n.
Conditions(ref) == IF ref % 2 = 1 THEN "slow" ELSE "offline"
NoCall == [name |-> "none", step |-> "idle", page |-> 0, value |-> "none", ref |-> 0, retry |-> 0,
           broken |-> FALSE]

Init ==
  /\ emulation = [p \in Pages |-> [geo |-> "none", net |-> "none", metrics |-> "own",
                                   download |-> "none", direct |-> "none"]]
  /\ lostOverrides = {} /\ geoManager = [p \in Pages |-> "none"] /\ netManager = [p \in Pages |-> 0]
  /\ alive = {} /\ mobile = "unset" /\ overrideCall = NoCall /\ refused = FALSE
  /\ session = [window |-> 1, geo |-> "none", net |-> 0, download |-> FALSE,
                timeouts |-> [implicit |-> "given", pageLoad |-> "given", script |-> "given"]]
  /\ overrides = 0 /\ losses = 0 /\ refusals = 0 /\ neglected = [p \in Pages |-> {}]
-----------------------------------------------------------------------------
\* MobileEmulationOverrideManager applies the device's metrics when a page is connected.
DeviceMetrics == IF mobile = "yes" THEN "device" ELSE "own"

\* ConfigureHeadlessSession: the directory is given to the view of the first tab, not to that of
\* its page, and a tab has no DownloadDirectoryOverrideManager.
StartSession ==
  /\ mobile = "unset" /\ mobile' \in {"yes", "no"}
  /\ \E d \in BOOLEAN :
       /\ session' = [session EXCEPT !.download = d]
       /\ emulation' = [p \in Pages |->
            [emulation[p] EXCEPT !.metrics = IF mobile' = "yes" THEN "device" ELSE "own"]]
  /\ UNCHANGED <<lostOverrides, geoManager, netManager, alive, overrideCall, refused, overrides, losses,
                 refusals, neglected>>

\* The main frame navigates and the new document has none of what the manager applied.
LoseOverrides(p) ==
  /\ mobile # "unset" /\ losses < MaxLosses /\ losses' = losses + 1
  /\ emulation' = [emulation EXCEPT ![p].geo = "none", ![p].net = "none", ![p].metrics = "own"]
  /\ lostOverrides' = lostOverrides \cup {p}
  /\ UNCHANGED <<geoManager, netManager, alive, session, mobile, overrideCall, refused, overrides,
                 refusals, neglected>>

\* What a reference yields; that of conditions that were deleted is anything.
Dereference(ref) == IF ref \in alive THEN Conditions(ref) ELSE "undefined"

ApplyWithoutGeo(p, e, n) ==
  [e EXCEPT !.metrics = IF n >= 1 /\ mobile = "yes" THEN DeviceMetrics ELSE @,
            !.net = IF n >= 3 /\ netManager[p] # 0 THEN Dereference(netManager[p]) ELSE @]

\* ApplyOverrideIfNeeded of the first n of the three managers, in the order they were added.
ApplyOverrides(p, e, n) ==
  [e EXCEPT !.metrics = IF n >= 1 /\ mobile = "yes" THEN DeviceMetrics ELSE @,
            !.geo = IF n >= 2 /\ geoManager[p] # "none" THEN geoManager[p] ELSE @,
            !.net = IF n >= 3 /\ netManager[p] # 0 THEN Dereference(netManager[p]) ELSE @]
NotApplied(n) == CASE n = 0 -> {"metrics", "geo"} [] n = 1 -> {"geo"} [] OTHER -> {}

\* A command is under way in the browser, and the driver handles messages until its answer.
Sending ==
  /\ overrideCall.step \in {"sendGeo", "sendNet", "switchDownload", "activate", "setMetrics",
                            "capture", "restoreMetrics", "sendDirect"}
  /\ overrideCall.step = "switchDownload" => session.download
  /\ ~overrideCall.broken

\* OnEvent of Page.frameNavigated: the events of every page are handled while a command is sent
\* to any of them.  A listener's error keeps the event from the listeners after it.  It ends the
\* send when the page is the one it is for; HandleMessage swallows the errors of other pages, and
\* those of this one too inside a command of another's listener.
Navigated(p) ==
  /\ Sending /\ p \in lostOverrides /\ lostOverrides' = lostOverrides \ {p}
  /\ \E n \in 0..3 :
       /\ emulation' = [emulation EXCEPT ![p] = ApplyOverrides(p, @, n)]
       /\ neglected' = [neglected EXCEPT ![p] = NotApplied(n)]
       /\ \/ n = 3 /\ UNCHANGED <<overrideCall, refusals>>
          \/ /\ refusals < MaxRefusals /\ refusals' = refusals + 1
             /\ \/ UNCHANGED overrideCall
                \/ /\ p = overrideCall.page /\ overrideCall.step # "activate"
                   /\ overrideCall' = [overrideCall EXCEPT !.broken = TRUE]
  /\ UNCHANGED <<geoManager, netManager, alive, session, mobile, refused, overrides, losses>>
-----------------------------------------------------------------------------
(***************************************************************************)
(* The commands: every send is a step, and may fail.                       *)
(***************************************************************************)
Start(call) ==
  /\ mobile # "unset" /\ overrideCall.step = "idle"
  /\ overrides < MaxOverrides /\ overrides' = overrides + 1
  /\ overrideCall' = [call EXCEPT !.page = IF @ = 0 THEN session.window ELSE @]
  /\ UNCHANGED <<emulation, lostOverrides, mobile, refused, losses, refusals, neglected>>

Answer(error) ==
  /\ overrideCall' = [overrideCall EXCEPT !.step = "answered"] /\ refused' = (refused \/ error)
\* A send fails in the browser, in the connection, or for a listener's error.
Fails ==
  IF overrideCall.broken THEN UNCHANGED refusals
  ELSE refusals < MaxRefusals /\ refusals' = refusals + 1
Succeeds == ~overrideCall.broken /\ UNCHANGED refusals
GoTo(step) == overrideCall' = [overrideCall EXCEPT !.step = step] /\ UNCHANGED refused
Set(kind, v) ==
  emulation' = [emulation EXCEPT ![overrideCall.page] = [@ EXCEPT ![kind] = v]]
\* What a send that failed was for may have happened all the same.
MaySet(kind, v) == UNCHANGED emulation \/ Set(kind, v)
Restored(kind) ==
  neglected' = [neglected EXCEPT ![overrideCall.page] = @ \ {kind}]
KeepRest == UNCHANGED <<lostOverrides, mobile, overrides, losses>>

EndCall ==
  /\ overrideCall.step = "answered" /\ overrideCall' = NoCall
  /\ UNCHANGED <<emulation, lostOverrides, geoManager, netManager, alive, session, mobile, refused,
                 overrides, losses, refusals, neglected>>

\* ExecuteSetLocation: the manager keeps the position before it is sent, the session after.
SetLocation(v) ==
  /\ Start([NoCall EXCEPT !.name = "setLocation", !.step = "sendGeo", !.value = v])
  /\ geoManager' = [geoManager EXCEPT ![session.window] = v]
  /\ UNCHANGED <<netManager, alive, session>>

SendGeo ==
  /\ overrideCall.step = "sendGeo"
  /\ \/ /\ Fails /\ Answer(TRUE) /\ MaySet("geo", overrideCall.value)
        /\ UNCHANGED <<session, neglected>>
     \/ /\ Succeeds /\ Set("geo", overrideCall.value) /\ Restored("geo")
        /\ IF overrideCall.name = "switch" THEN GoTo("switchNet") /\ UNCHANGED session
           ELSE Answer(FALSE) /\ session' = [session EXCEPT !.geo = overrideCall.value]
  /\ KeepRest /\ UNCHANGED <<geoManager, netManager, alive>>

\* ExecuteSetNetworkConditions and ExecuteSetNetworkConnection: the session's conditions are
\* replaced, and the old ones deleted, before the new ones are sent to the page or to all pages.
SetConditions(name, first) ==
  LET ref == overrides + 1
  IN /\ Start([NoCall EXCEPT !.name = name, !.step = "sendNet", !.ref = ref, !.page = first])
     /\ session' = [session EXCEPT !.net = ref] /\ alive' = (alive \ {session.net}) \cup {ref}
     /\ UNCHANGED <<geoManager, netManager>>

\* ExecuteDeleteNetworkConditions: "No throttling" is a local variable of the command.
DeleteConditions ==
  LET ref == overrides + 1
  IN /\ Start([NoCall EXCEPT !.name = "delete", !.step = "sendNet", !.ref = ref])
     /\ alive' = alive \cup {ref}
     /\ UNCHANGED <<session, geoManager, netManager>>

SentConditions == IF overrideCall.name = "delete" THEN "none" ELSE Dereference(overrideCall.ref)

\* NetworkConditionsOverrideManager::OverrideNetworkConditions: enable, ask, emulate; the
\* reference is kept once that has succeeded.
SendNet ==
  /\ overrideCall.step = "sendNet"
  /\ \/ /\ Fails /\ MaySet("net", SentConditions) /\ UNCHANGED <<netManager, session>>
        /\ alive' = IF overrideCall.name = "delete" THEN alive \ {overrideCall.ref} ELSE alive
        /\ IF overrideCall.name = "connection" THEN GoTo("nextPage") ELSE Answer(TRUE)
     \/ /\ Succeeds /\ netManager' = [netManager EXCEPT ![overrideCall.page] = overrideCall.ref]
        /\ Set("net", SentConditions)
        /\ IF overrideCall.name = "delete"
           THEN /\ session' = [session EXCEPT !.net = 0]
                /\ alive' = alive \ {overrideCall.ref, session.net}
           ELSE UNCHANGED <<session, alive>>
        /\ CASE overrideCall.name = "connection" -> GoTo("nextPage")
             [] overrideCall.name = "switch" -> GoTo("switchDownload")
             [] OTHER -> Answer(FALSE)
  /\ KeepRest /\ UNCHANGED <<geoManager, neglected>>

\* ExecuteSetNetworkConnection goes on with the next window, whatever became of the last one.
NextPage ==
  /\ overrideCall.step = "nextPage" /\ UNCHANGED refused
  /\ overrideCall' = IF overrideCall.page = 1
                     THEN [overrideCall EXCEPT !.page = 2, !.step = "sendNet", !.broken = FALSE]
                     ELSE [overrideCall EXCEPT !.step = "answered"]
  /\ KeepRest /\ UNCHANGED <<emulation, geoManager, netManager, alive, session, refusals, neglected>>

\* ExecuteSwitchToWindow: the session's overrides go to the page before it becomes the current one.
SwitchToWindow(p) ==
  /\ Start([NoCall EXCEPT !.name = "switch", !.value = session.geo, !.ref = session.net, !.page = p,
              !.step = IF session.geo # "none" THEN "sendGeo" ELSE "switchNet"])
  /\ geoManager' = IF session.geo = "none" THEN geoManager
                   ELSE [geoManager EXCEPT ![p] = session.geo]
  /\ UNCHANGED <<netManager, alive, session>>

SwitchNet ==
  /\ overrideCall.step = "switchNet"
  /\ GoTo(IF session.net # 0 THEN "sendNet" ELSE "switchDownload")
  /\ KeepRest /\ UNCHANGED <<emulation, geoManager, netManager, alive, session, refusals, neglected>>

\* OverrideDownloadDirectoryIfNeeded, when there is one.
SwitchDownload ==
  /\ overrideCall.step = "switchDownload"
  /\ IF session.download
     THEN \/ Fails /\ Answer(TRUE) /\ MaySet("download", "directory")
          \/ Succeeds /\ Set("download", "directory") /\ GoTo("activate")
     ELSE GoTo("activate") /\ UNCHANGED <<emulation, refusals>>
  /\ KeepRest /\ UNCHANGED <<geoManager, netManager, alive, session, neglected>>

Activate ==
  /\ overrideCall.step = "activate"
  /\ \/ Fails /\ Answer(TRUE) /\ UNCHANGED session
     \/ Succeeds /\ Answer(FALSE) /\ session' = [session EXCEPT !.window = overrideCall.page]
  /\ KeepRest /\ UNCHANGED <<emulation, geoManager, netManager, alive, neglected>>
-----------------------------------------------------------------------------
(***************************************************************************)
(* ExecuteFullPageScreenshot: the page gets the metrics of its content,    *)
(* and afterwards those of the device again.                               *)
(***************************************************************************)
FullPageScreenshot ==
  /\ Start([NoCall EXCEPT !.name = "fullPage", !.step = "setMetrics"])
  /\ UNCHANGED <<geoManager, netManager, alive, session>>

SetMetrics ==
  /\ overrideCall.step = "setMetrics"
  /\ \/ Fails /\ Answer(TRUE) /\ MaySet("metrics", "content")
     \/ Succeeds /\ Set("metrics", "content") /\ GoTo("capture")
  /\ KeepRest /\ UNCHANGED <<geoManager, netManager, alive, session, neglected>>

\* ExecuteScreenshot and the capture of the full page: a failure, but for a dialog, is retried.
CaptureScreenshot ==
  /\ overrideCall.step = "capture"
  /\ \/ Succeeds /\ GoTo("restoreMetrics")
     \/ Fails /\ Answer(TRUE)
     \/ /\ Fails /\ overrideCall.retry = 0 /\ UNCHANGED refused
        /\ overrideCall' = [overrideCall EXCEPT !.retry = 1, !.broken = FALSE]
  /\ KeepRest /\ UNCHANGED <<emulation, geoManager, netManager, alive, session, neglected>>

\* RestoreOverrideMetrics, or clearDeviceMetricsOverride without mobile emulation.
MetricsAfterwards == DeviceMetrics

RestoreMetrics ==
  /\ overrideCall.step = "restoreMetrics"
  /\ \/ Fails /\ Answer(TRUE) /\ MaySet("metrics", MetricsAfterwards) /\ UNCHANGED neglected
     \/ Succeeds /\ Answer(FALSE) /\ Set("metrics", MetricsAfterwards) /\ Restored("metrics")
  /\ KeepRest /\ UNCHANGED <<geoManager, netManager, alive, session>>
-----------------------------------------------------------------------------
(***************************************************************************)
(* Settings that are sent to the page once, and those of the session.      *)
(***************************************************************************)
\* ParseSensorUpdateParams: the fields that a reading of each type of sensor must have.
SensorFields(type) ==
  CASE type = "ambient-light" -> {"illuminance"}
    [] type \in {"accelerometer", "gravity", "gyroscope", "linear-acceleration", "magnetometer"} ->
         {"x", "y", "z"}
    [] type \in {"absolute-orientation", "relative-orientation"} -> {"alpha", "beta", "gamma"}
    [] OTHER -> {"no such type"}

Readings ==
  {[type |-> "ambient-light", fields |-> {"illuminance"}],
   [type |-> "gravity", fields |-> {"x", "y"}],
   [type |-> "relative-orientation", fields |-> {"alpha", "beta", "gamma"}],
   [type |-> "uncalibrated", fields |-> {"x", "y", "z"}]}

ReadingIsValid(r) == SensorFields(r.type) \subseteq r.fields

\* Create/Update/RemoveVirtualSensor: checked, and sent to the current page.
SensorCommands ==
  {[send |-> ReadingIsValid(r), checked |-> TRUE] : r \in Readings}
  \cup {[send |-> type, checked |-> TRUE] : type \in BOOLEAN}

\* Pressure sources: a type, and a sample or a flag, are required.
PressureCommands ==
  {[send |-> type /\ sample, checked |-> TRUE] : type \in BOOLEAN, sample \in BOOLEAN}

\* The time zone and test reports: what became of the command is not looked at.
UncheckedCommands == {[send |-> given, checked |-> FALSE] : given \in BOOLEAN}

\* Posture, permissions, protocol handlers, cast and payment modes.
ModeCommands == {[send |-> given, checked |-> TRUE] : given \in BOOLEAN}

\* WebAuthn: enabled first; then an authenticator (whose protocol and extensions are known) or a
\* credential (whose fields are base64url) is added, changed or removed.
AuthenticatorCommands ==
  {[send |-> protocol \in {"u2f", "ctap2", "ctap2_1"} /\ extensions \subseteq {"largeBlob", "prf"},
    checked |-> TRUE] :
     protocol \in {"u2f", "ctap2_1", "ctap3"}, extensions \in {{}, {"prf"}, {"unheard of"}}}
CredentialCommands ==
  {[send |-> credential /\ encoded, checked |-> TRUE] :
     credential \in BOOLEAN, encoded \in BOOLEAN}

DirectCommands ==
  SensorCommands \cup PressureCommands \cup UncheckedCommands \cup ModeCommands
  \cup AuthenticatorCommands \cup CredentialCommands

DirectCommand ==
  \E c \in DirectCommands :
    /\ Start([NoCall EXCEPT !.name = IF c.checked THEN "direct" ELSE "unchecked",
                            !.step = IF c.send THEN "sendDirect" ELSE "refuse"])
    /\ UNCHANGED <<geoManager, netManager, alive, session>>

SendDirect ==
  /\ overrideCall.step \in {"sendDirect", "refuse"}
  /\ IF overrideCall.step = "refuse" THEN Answer(TRUE) /\ UNCHANGED <<emulation, refusals>>
     ELSE \/ Fails /\ Answer(overrideCall.name = "direct") /\ MaySet("direct", "set")
          \/ Succeeds /\ Answer(FALSE) /\ Set("direct", "set")
  /\ KeepRest /\ UNCHANGED <<geoManager, netManager, alive, session, neglected>>

\* ExecuteSetTimeoutsW3C: one setting after the other in the order of their names, up to one that
\* is not valid; "null" is for scripts alone.
TimeoutTypes == <<"implicit", "pageLoad", "script">>
ValidTimeout(type, v) == v \in {"absent", "given"} \/ (v = "null" /\ type = "script")
FirstInvalid(params) ==
  CHOOSE n \in 1..4 :
    /\ n <= 3 => ~ValidTimeout(TimeoutTypes[n], params[TimeoutTypes[n]])
    /\ \A i \in 1..(n - 1) : ValidTimeout(TimeoutTypes[i], params[TimeoutTypes[i]])
AfterSetTimeouts(t, params) ==
  [type \in {TimeoutTypes[i] : i \in 1..3} |->
     IF params[type] # "absent" /\ \E i \in 1..(FirstInvalid(params) - 1) : TimeoutTypes[i] = type
     THEN params[type] ELSE t[type]]

\* The legacy ExecuteSetTimeout, ExecuteSetScriptTimeout and ExecuteImplicitlyWait take one each.
TimeoutParams ==
  {[implicit |-> "given", pageLoad |-> "absent", script |-> "null"],
   [implicit |-> "given", pageLoad |-> "null", script |-> "given"]}

SetTimeouts ==
  \E params \in TimeoutParams :
    /\ mobile # "unset" /\ overrideCall.step = "idle"
    /\ overrides < MaxOverrides /\ overrides' = overrides + 1
    /\ session' = [session EXCEPT !.timeouts = AfterSetTimeouts(@, params)]
    /\ refused' = (refused \/ FirstInvalid(params) <= 3)
    /\ UNCHANGED <<emulation, lostOverrides, geoManager, netManager, alive, mobile, overrideCall, losses,
                   refusals, neglected>>
-----------------------------------------------------------------------------
Next ==
  \/ StartSession \/ EndCall
  \/ \E p \in Pages : LoseOverrides(p) \/ Navigated(p) \/ SwitchToWindow(p)
  \/ \E v \in Positions : SetLocation(v)
  \/ SetConditions("conditions", 0) \/ SetConditions("connection", 1) \/ DeleteConditions
  \/ SendGeo \/ SendNet \/ NextPage \/ SwitchNet \/ SwitchDownload \/ Activate
  \/ FullPageScreenshot \/ SetMetrics \/ CaptureScreenshot \/ RestoreMetrics
  \/ DirectCommand \/ SendDirect \/ SetTimeouts

Spec == Init /\ [][Next]_vars
-----------------------------------------------------------------------------
TypeOK ==
  /\ lostOverrides \subseteq Pages /\ alive \subseteq 1..MaxOverrides /\ session.window \in Pages
  /\ \A p \in Pages :
       /\ emulation[p].geo \in Positions \cup {"none"} /\ geoManager[p] \in Positions \cup {"none"}
       /\ emulation[p].metrics \in {"own", "device", "content"} /\ netManager[p] \in 0..MaxOverrides
       /\ neglected[p] \subseteq {"metrics", "geo"}
  /\ Cardinality(alive) <= 2

\* As long as no command has answered an error, the current page has the position that the
\* session asked for, the metrics of its device and, unless it is still the first one, the
\* directory for downloads, whichever windows the session went through, whenever the page
\* navigated and whatever screenshots were taken.  The one exception are a position and metrics
\* whose manager failed to apply them again after a navigation: such an error is swallowed when it
\* met the send of another page's command, and ignored when it met one whose status is not looked
\* at or that is tried again; the next command that sends them restores them
\* (ExecuteSetLocation, ExecuteSwitchToWindow, ExecuteFullPageScreenshot, HandleMessage and the
\* managers).
OverridesHold ==
  LET e == emulation[session.window]
      missed == neglected[session.window]
  IN ~refused /\ overrideCall.step \in {"idle", "answered"} /\ session.window \notin lostOverrides =>
       /\ session.geo # "none" /\ "geo" \notin missed => e.geo = session.geo
       /\ session.download /\ session.window # 1 => e.download = "directory"
       /\ "metrics" \notin missed => e.metrics = DeviceMetrics

\* "Overrides the network conditions, if requested, for the duration of the given
\* DevToolsClient's lifetime" (network_conditions_override_manager.h): what a page is given are
\* conditions that a command asked for.
NetworkConditionsAreRequested == \A p \in Pages : emulation[p].net # "undefined"
=============================================================================
