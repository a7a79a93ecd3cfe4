----------------------------- MODULE MCServices -----------------------------
(***************************************************************************)
(* The components that run inside one thread, or inside one call, and do   *)
(* not share state with each other, checked together: the behaviours of    *)
(* this module are those of each of them in turn.  The initial state       *)
(* chooses the component, whose variables s1, s2 ... then stand for.       *)
(*                                                                         *)
(* The browser of WebViews has two tabs; the first has two pages, one of   *)
(* which has a frame in a frame, both out of process.                      *)
(***************************************************************************)
EXTENDS Naturals, Sequences, TLC, HttpCommandMap

CONSTANTS
  t1, t2, p1, p2, f1, f2, PathValues, SessionId, NoHttpRequest, Ports, ViewTabs,
  ViewPages, ViewFrames, ParentOf, None, Root, MaxSessions, MaxEvents, MaxDepth,
  MaxInputCommands, Viewport,
  MaxDisturbances, MaxWindowCommands, MaxInbox, MaxCalls, MaxPageChanges,
  MaxElementCommands, MaxAdbFaults, MaxWindowCalls, MaxWindowChanges, MaxOverrides,
  MaxLosses, MaxRefusals, MaxCookieCommands, MaxPageActions, MaxFedCmCommands,
  MaxFedCmDialogs, MaxReturnedEntries, MaxLogEvents, MaxLogCommands, MaxRecordedCommands,
  MaxRecordedSends, MaxRecordedEvents, MaxRecordedEntries

\* Port 0 asks for any port and is none.
ASSUME PortsArePositive == 0 \notin Ports

\* part names the module that takes the steps, the others are its variables, in the
\* order of its declarations.
VARIABLES
  part, s1, s2, s3, s4, s5, s6, s7, s8, s9, s10, s11, s12, s13, s14, s15, s16, s17

Routing == INSTANCE HttpRouting WITH
    NoRequest <- NoHttpRequest,
    mode <- s1, receivedShutdown <- s2, request <- s3, running <- s4, answer <- s5,
    quit <- s6
Server == INSTANCE ServerStart WITH
    phase <- s1, machine <- s2, families <- s3, taken <- s4, bindv6only <- s5, dual <- s6,
    port <- s7, flags <- s8, server <- s9, ipv6Status <- s10, announced <- s11,
    served <- s12
Views == INSTANCE WebViews WITH
    Tabs <- ViewTabs, Pages <- ViewPages, Frames <- ViewFrames,
    open <- s1, session <- s2, ready <- s3, lastSession <- s4, shown <- s5, closed <- s6,
    events <- s7, view <- s8, active <- s9, locked <- s10, detached <- s11, stack <- s12,
    ignored <- s13
\* The targets of WebViews are trees: tabs, pages, frames in pages and frames in those.
ASSUME TargetsAreTrees ==
  /\ Root \notin Views!Targets /\ None \notin ViewPages
  /\ ViewTabs \cap (ViewPages \cup ViewFrames) = {}
  /\ \A p \in ViewPages : ParentOf[p] \in ViewTabs
  /\ \A f \in ViewFrames : ParentOf[f] \in ViewPages \cup ViewFrames
  /\ \A f \in ViewFrames : ParentOf[f] \in ViewPages \/ ParentOf[ParentOf[f]] \in ViewPages
Input == INSTANCE InputActions WITH
    sources <- s1, inputStates <- s2, cancelList <- s3, stickyModifiers <- s4,
    mousePosition <- s5, clickCount <- s6, pressedMouseButton <- s7, performing <- s8,
    down <- s9, lost <- s10, shifted <- s11, justReleased <- s12, oldCommand <- s13,
    inputCommands <- s14
Nav == INSTANCE Navigation WITH
    pageLoadStrategy <- s1, autoAccept <- s2, promptHandler <- s3, sessionFrame <- s4,
    promptText <- s5, document <- s6, shownDialog <- s7, disturbances <- s8, inbox <- s9,
    frameStates <- s10, currentFrame <- s11, timedOut <- s12, dialogTypes <- s13,
    trackerCalls <- s14, returned <- s15, windowCommand <- s16, windowCommands <- s17
Elements == INSTANCE Elements WITH
    loaderOf <- s1, nodeIs <- s2, pageChanges <- s3, elementFrame <- s4, reference <- s5,
    elementCommand <- s6, elementCommands <- s7, scriptCall <- s8, effects <- s9
Caps == INSTANCE Capabilities WITH
    capabilityRequest <- s1, configured <- s2
Launch == INSTANCE NewSession WITH
    wanted <- s1, launchPoint <- s2, launched <- s3, other <- s4, portFile <- s5,
    endpoint <- s6, attached <- s7, tempDirs <- s8, chrome <- s9, sessionQuit <- s10,
    excuses <- s11
Devices == INSTANCE Devices WITH
    deviceStep <- s1, deviceWish <- s2, onlineList <- s3, heldDevice <- s4,
    activeDevices <- s5, activePackage <- s6, forwardedPort <- s7, apps <- s8,
    forwards <- s9, lateCommands <- s10, adbFaults <- s11
Windows == INSTANCE Windows WITH
    tabs <- s1, webViews <- s2, sessionWindow <- s3, bidiMapper <- s4, sessionEnded <- s5,
    windowState <- s6, animation <- s7, windowCall <- s8, passed <- s9, windowCalls <- s10,
    windowChanges <- s11
Overrides == INSTANCE Overrides WITH
    emulation <- s1, lostOverrides <- s2, geoManager <- s3, netManager <- s4, alive <- s5,
    session <- s6, mobile <- s7, overrideCall <- s8, refused <- s9, overrides <- s10,
    losses <- s11, refusals <- s12, neglected <- s13
Cookies == INSTANCE Cookies WITH
    jar <- s1, frameUrl <- s2, cookieCall <- s3, reach <- s4, cookieCommands <- s5,
    pageActions <- s6
FedCm == INSTANCE FedCm WITH
    shown <- s1, fedCmEvents <- s2, tracker <- s3, lastDialog <- s4, listening <- s5,
    fedCmCall <- s6, opened <- s7, fedCmCommands <- s8
Logs == INSTANCE Logs WITH
    driver <- s1, logPrefs <- s2, logs <- s3, traceBuffering <- s4, chromeTrace <- s5,
    traceBuffer <- s6, logInbox <- s7, logCall <- s8, happened <- s9, readEntries <- s10
Replay == INSTANCE Replay WITH
    record <- s1, recording <- s2, replayer <- s3, socket <- s4, actor <- s5, latest <- s6

\* The variables from the nth on, which a module with fewer does not have.
Unused == "unused"
From15 == <<s15, s16, s17>>
From14 == <<s14, From15>>
From13 == <<s13, From14>>
From12 == <<s12, From13>>
From11 == <<s11, From12>>
From10 == <<s10, From11>>
From9 == <<s9, From10>>
From7 == <<s7, s8, From9>>
From3 == <<s3, s4, s5, s6, From7>>
Blank15 == s15 = Unused /\ s16 = Unused /\ s17 = Unused
Blank14 == s14 = Unused /\ Blank15
Blank13 == s13 = Unused /\ Blank14
Blank12 == s12 = Unused /\ Blank13
Blank11 == s11 = Unused /\ Blank12
Blank10 == s10 = Unused /\ Blank11
Blank9 == s9 = Unused /\ Blank10
Blank7 == s7 = Unused /\ s8 = Unused /\ Blank9
Blank3 == s3 = Unused /\ s4 = Unused /\ s5 = Unused /\ s6 = Unused /\ Blank7

vars == <<part, s1, s2, s3, s4, s5, s6, s7, s8, s9, s10, s11, s12, s13, s14, s15, s16, s17>>

Init ==
  \/ part = "routing" /\ Routing!Init /\ Blank7
  \/ part = "server" /\ Server!Init /\ Blank13
  \/ part = "views" /\ Views!Init /\ Blank14
  \/ part = "input" /\ Input!Init /\ Blank15
  \/ part = "navigation" /\ Nav!Init
  \/ part = "elements" /\ Elements!Init /\ Blank10
  \/ part = "capabilities" /\ Caps!Init /\ Blank3
  \/ part = "launch" /\ Launch!Init /\ Blank12
  \/ part = "devices" /\ Devices!Init /\ Blank12
  \/ part = "windows" /\ Windows!Init /\ Blank12
  \/ part = "overrides" /\ Overrides!Init /\ Blank14
  \/ part = "cookies" /\ Cookies!Init /\ Blank7
  \/ part = "fedcm" /\ FedCm!Init /\ Blank9
  \/ part = "logs" /\ Logs!Init /\ Blank11
  \/ part = "replay" /\ Replay!Init /\ Blank7

RoutingStep == part = "routing" /\ Routing!Next /\ UNCHANGED <<part, From7>>
ServerStep == part = "server" /\ Server!Next /\ UNCHANGED <<part, From13>>
ViewsStep == part = "views" /\ Views!Next /\ UNCHANGED <<part, From14>>
InputStep == part = "input" /\ Input!Next /\ UNCHANGED <<part, From15>>
NavStep == part = "navigation" /\ Nav!Next /\ UNCHANGED part
ElementsStep == part = "elements" /\ Elements!Next /\ UNCHANGED <<part, From10>>
CapsStep == part = "capabilities" /\ Caps!Next /\ UNCHANGED <<part, From3>>
LaunchStep == part = "launch" /\ Launch!Next /\ UNCHANGED <<part, From12>>
DevicesStep == part = "devices" /\ Devices!Next /\ UNCHANGED <<part, From12>>
WindowsStep == part = "windows" /\ Windows!Next /\ UNCHANGED <<part, From12>>
OverridesStep == part = "overrides" /\ Overrides!Next /\ UNCHANGED <<part, From14>>
CookiesStep == part = "cookies" /\ Cookies!Next /\ UNCHANGED <<part, From7>>
FedCmStep == part = "fedcm" /\ FedCm!Next /\ UNCHANGED <<part, From9>>
LogsStep == part = "logs" /\ Logs!Next /\ UNCHANGED <<part, From11>>
ReplayStep == part = "replay" /\ Replay!Next /\ UNCHANGED <<part, From7>>

Next ==
  \/ RoutingStep \/ ServerStep \/ ViewsStep \/ InputStep \/ NavStep \/ ElementsStep
  \/ CapsStep \/ LaunchStep \/ DevicesStep \/ WindowsStep \/ OverridesStep \/ CookiesStep
  \/ FedCmStep \/ LogsStep \/ ReplayStep

Spec == Init /\ [][Next]_vars

-----------------------------------------------------------------------------
MCParentOf == (p1 :> t1) @@ (p2 :> t1) @@ (f1 :> p1) @@ (f2 :> f1)

\* Each module's variables keep the types that module gives them.
TypeOK ==
  CASE part = "routing" -> Routing!TypeOK
    [] part = "server" -> Server!TypeOK
    [] part = "views" -> Views!TypeOK
    [] part = "input" -> Input!TypeOK
    [] part = "navigation" -> Nav!TypeOK
    [] part = "elements" -> Elements!TypeOK
    [] part = "capabilities" -> Caps!TypeOK
    [] part = "launch" -> Launch!TypeOK
    [] part = "devices" -> Devices!TypeOK
    [] part = "windows" -> Windows!TypeOK
    [] part = "overrides" -> Overrides!TypeOK
    [] part = "cookies" -> Cookies!TypeOK
    [] part = "fedcm" -> FedCm!TypeOK
    [] part = "logs" -> Logs!TypeOK
    [] part = "replay" -> Replay!TypeOK

\* Requests reach the command they name, answers keep to the W3C tables (HttpRouting).
RoutingIsStandard == part = "routing" => Routing!RoutingIsStandard

\* The server is reached over both protocols at one port, from the machine itself
\* whatever the flags are (ServerStart).
ClientsReachTheServer == part = "server" => Server!ClientsReachTheServer

\* A holder keeps its views, and no view is kept without a holder (WebViews).
HoldersKeepViews == part = "views" => Views!HoldersKeepViews

\* The views are those of the targets, the active page is the one that is shown (WebViews).
ViewsFollowTargets == part = "views" => Views!ViewsFollowTargets

\* ReleaseActions releases what the actions have pressed, and the modifiers the driver
\* sends are those that are down (InputActions).
InputMatchesBrowser == part = "input" => Input!InputMatchesBrowser

\* A command that ran after the wait for a navigation ran on a loaded page (Navigation).
LoadingIsLoading == part = "navigation" => Nav!LoadingIsLoading

\* An element command acts at most once, but for a retry after a timeout or after an error of the
\* command itself, and an element is reported stale only when it is (Elements).
ElementCommandsAreExact == part = "elements" => Elements!ElementCommandsAreExact

\* What the W3C validation accepts, the parser and the pages do too (Capabilities).
AcceptedIsApplicable == part = "capabilities" => Caps!AcceptedIsApplicable

\* The driver attaches to the browser it has launched, and a session that has ended
\* leaves no process and no directory (NewSession).
BrowserIsOwned == part = "launch" => Launch!BrowserIsOwned

\* A device serves one session at a time and is given back as it was (Devices).
DevicesAreExclusive == part = "devices" => Devices!DevicesAreExclusive

\* A window state that is answered was reached, unless the browser does not implement the change
\* or a maximized window is only simulated, and only closing the last window ends the session
\* (Windows).
WindowAnswersAreTrue == part = "windows" => Windows!WindowAnswersAreTrue

\* The overrides of the session hold on the current page, but for those that a manager failed to
\* apply again with nobody told (Overrides).
OverridesHold == part = "overrides" => Overrides!OverridesHold

\* Cookie commands touch the cookies of the URLs of their frame alone, and leave out none that
\* was there all the time (Cookies).
CookiesInReach == part = "cookies" => Cookies!CookiesInReach

\* The dialog that commands are sent for is the one that is shown (FedCm).
NoGhostDialog == part = "fedcm" => FedCm!NoGhostDialog

\* Entries are neither lost nor doubled, and reading to the end reads all (Logs).
LogsAreExact == part = "logs" => Logs!LogsAreExact

\* A replay names the same things, and runs ahead or out of the log only where the recorded driver
\* did not get its answers in time (Replay).
ReplayIsFaithful == part = "replay" => Replay!ReplayIsFaithful
=============================================================================
