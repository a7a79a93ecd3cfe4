------------------------------- MODULE Devices -------------------------------
(***************************************************************************)
(* Android devices: how sessions share them (chrome/device_manager.cc),    *)
(* what a session sets up on its device and takes down again, and the adb  *)
(* commands it does that with (chrome/adb_impl.cc, net/adb_client_socket.cc).*)
(*                                                                         *)
(* Every session runs on its own thread.  The adb server answers, refuses, *)
(* executes a command and loses the answer, or executes it after the 30    *)
(* seconds that the session waits.                                         *)
(***************************************************************************)
EXTENDS Naturals, Sequences, FiniteSets

CONSTANT
  MaxAdbFaults    \* bound: commands that are not executed and answered as they should

VARIABLES
  deviceStep,     \* session -> where its thread is
  deviceWish,     \* session -> the capabilities about the device
  onlineList,     \* session -> the devices that were online when it asked
  heldDevice,     \* session -> the device that it has, or "none"
  activeDevices,  \* active_devices_: the devices that are locked
  activePackage,  \* session -> active_package_ is set
  forwardedPort,  \* session -> devtools_port_ is set
  apps,           \* device -> the sessions whose app was started and not stopped
  forwards,       \* the forwarded ports: <<port, session>>
  lateCommands,   \* commands that will be executed after they timed out
  adbFaults       \* session -> what went wrong: "refused", "lost", "late", "stuck" (TearDown)

vars == <<deviceStep, deviceWish, onlineList, heldDevice, activeDevices, activePackage,
          forwardedPort, apps, forwards, lateCommands, adbFaults>>

DeviceSessions == {1, 2}
Serials == {"d1", "d2"}
Wishes == [serial : {"any", "d1"}, webview : BOOLEAN, useRunning : BOOLEAN]

Init ==
  /\ deviceStep = [s \in DeviceSessions |-> "idle"]
  /\ deviceWish = [s \in DeviceSessions |->
                     [serial |-> "any", webview |-> FALSE, useRunning |-> FALSE]]
  /\ onlineList = [s \in DeviceSessions |-> <<>>]
  /\ heldDevice = [s \in DeviceSessions |-> "none"] /\ activeDevices = {}
  /\ activePackage = [s \in DeviceSessions |-> FALSE]
  /\ forwardedPort = [s \in DeviceSessions |-> FALSE]
  /\ apps = [d \in Serials |-> {}] /\ forwards = {} /\ lateCommands = {}
  /\ adbFaults = [s \in DeviceSessions |-> {}]
-----------------------------------------------------------------------------
\* AdbClientSocket::ParseOutput, on the words that the server's answer begins with.
ParseOutput(words) ==
  LET okay == words # <<>> /\ Head(words) = "OKAY"
      rest == IF okay THEN Tail(words) ELSE words
  IN okay /\ ~(rest # <<>> /\ Head(rest) = "FAIL")

\* The answers to the last query: ReadUntilEOF may also end with an error.
Answers == {<<>>, <<"OKAY">>, <<"OKAY", "OKAY">>, <<"FAIL">>, <<"OKAY", "FAIL">>, <<"io error">>}

\* AdbQuerySocket: "host:transport" and then the command.  Whether the first is refused is not
\* looked at (the server closes the connection then): the result is that of the last one.
AdbQuery(transport, words) == IF transport = "OKAY" THEN ParseOutput(words) ELSE FALSE

\* The fates of a command: is it executed, and does the caller see success?
Fates ==
  {[executed |-> ParseOutput(w), ok |-> AdbQuery(t, w), fault |-> {}] :
     t \in {"OKAY"}, w \in {a \in Answers : ParseOutput(a)}}
  \cup {[executed |-> FALSE, ok |-> AdbQuery(t, w), fault |-> {"refused"}] :
          t \in {"OKAY", "FAIL"}, w \in {a \in Answers : ~ParseOutput(a)}}
  \cup {[executed |-> TRUE, ok |-> FALSE, fault |-> {"lost"}],
        [executed |-> FALSE, ok |-> FALSE, fault |-> {"late"}]}

Execute(c) ==
  CASE c.what = "launch" ->
         apps' = [apps EXCEPT ![c.dev] = @ \cup {c.session}] /\ UNCHANGED forwards
    [] c.what \in {"debugApp", "clearData"} ->      \* both end the app
         apps' = [apps EXCEPT ![c.dev] = {}] /\ UNCHANGED forwards
    [] c.what = "forceStop" -> apps' = [apps EXCEPT ![c.dev] = {}] /\ UNCHANGED forwards
    [] c.what = "forward" -> forwards' = forwards \cup {c.session} /\ UNCHANGED apps
    [] c.what = "killForward" -> forwards' = forwards \ {c.session} /\ UNCHANGED apps
    [] OTHER -> UNCHANGED <<apps, forwards>>

NumberOfFaults ==
  Cardinality({p \in DeviceSessions \X {"refused", "lost", "late", "stuck"} :
                 p[2] \in adbFaults[p[1]]})

\* ExecuteCommand: the command is posted to the IO thread and its answer awaited.  A ResponseBuffer
\* outlives the wait, so an answer that comes late is dropped.
Command(s, what, fate) ==
  LET c == [what |-> what, dev |-> heldDevice[s], session |-> s]
  IN /\ fate.fault # {} => NumberOfFaults < MaxAdbFaults
     /\ IF fate.executed THEN Execute(c) ELSE UNCHANGED <<apps, forwards>>
     /\ lateCommands' = IF "late" \in fate.fault THEN lateCommands \cup {c} ELSE lateCommands
     /\ adbFaults' = [adbFaults EXCEPT ![s] = @ \cup
          IF deviceStep[s] = "tearDown" /\ fate.fault # {} THEN {"stuck"} ELSE fate.fault]

LateCommand ==
  \E c \in lateCommands :
    /\ Execute(c) /\ lateCommands' = lateCommands \ {c}
    /\ UNCHANGED <<deviceStep, deviceWish, onlineList, heldDevice, activeDevices, activePackage,
                   forwardedPort, adbFaults>>
-----------------------------------------------------------------------------
NoCommand == UNCHANGED <<apps, forwards, lateCommands, adbFaults>>
GoTo(s, step) == deviceStep' = [deviceStep EXCEPT ![s] = step]
KeepDevice == UNCHANGED <<deviceWish, onlineList, heldDevice, activeDevices>>

\* GetDevices: asked before the lock is taken; ANDROID_SERIAL moves a device to the front.
GetDevices(s) ==
  /\ deviceStep[s] = "idle"
  /\ deviceWish' \in {[deviceWish EXCEPT ![s] = w] : w \in Wishes}
  /\ onlineList' \in {[onlineList EXCEPT ![s] = l] : l \in {<<>>, <<"d1">>, <<"d2", "d1">>}}
  /\ GoTo(s, IF onlineList'[s] = <<>> THEN "released" ELSE "acquire")
  /\ UNCHANGED <<heldDevice, activeDevices, activePackage, forwardedPort>> /\ NoCommand

AnyOnline(s) ==
  {d \in Serials :
     /\ \E i \in 1..Len(onlineList[s]) : onlineList[s][i] = d
     /\ deviceWish[s].serial \in {"any", d}}

\* AcquireDevice and AcquireSpecificDevice: what they choose among, under the lock.
Unlocked(s) ==
  {d \in Serials \ activeDevices :
     /\ \E i \in 1..Len(onlineList[s]) : onlineList[s][i] = d
     /\ deviceWish[s].serial \in {"any", d}}

LockDevice(s) ==
  /\ deviceStep[s] = "acquire"
  /\ \/ /\ Unlocked(s) # {}
        /\ LET d == onlineList[s][CHOOSE i \in 1..Len(onlineList[s]) :
                                    /\ onlineList[s][i] \in Unlocked(s)
                                    /\ \A j \in 1..i-1 : onlineList[s][j] \notin Unlocked(s)]
           IN heldDevice' = [heldDevice EXCEPT ![s] = d] /\ activeDevices' = activeDevices \cup {d}
        /\ GoTo(s, "checkApp")
     \/ /\ Unlocked(s) = {} /\ GoTo(s, "released") /\ UNCHANGED <<heldDevice, activeDevices>>
  /\ UNCHANGED <<deviceWish, onlineList, activePackage, forwardedPort>> /\ NoCommand

\* ~Device: when the session, or the failed launch, lets go of it.
ReleaseDevice(s) ==
  /\ activeDevices' = activeDevices \ {heldDevice[s]}
  /\ heldDevice' = [heldDevice EXCEPT ![s] = "none"]
  /\ GoTo(s, "released")
-----------------------------------------------------------------------------
\* Device::SetUp, one adb command per step.  When one fails LaunchAndroidChrome calls TearDown.
AfterCheckApp(s) == IF deviceWish[s].useRunning THEN "socket"
                    ELSE IF deviceWish[s].webview THEN "clearData" ELSE "debugApp"
SetUpSteps(s) ==
  [checkApp |-> AfterCheckApp(s), debugApp |-> "clearData", clearData |-> "commandLine",
   commandLine |-> "launch", launch |-> "socket", socket |-> "forward"]

\* Where the thread goes when SetUp fails.
SetUpFails == "tearDown"

SetUp(s) ==
  /\ deviceStep[s] \in {"checkApp", "debugApp", "clearData", "commandLine", "launch"}
  /\ \E fate \in Fates :
       /\ Command(s, deviceStep[s], fate)
       /\ GoTo(s, IF fate.ok THEN SetUpSteps(s)[deviceStep[s]] ELSE SetUpFails)
       /\ activePackage' = [activePackage EXCEPT ![s] = @ \/ (fate.ok /\ deviceStep[s] = "launch")]
  /\ UNCHANGED forwardedPort /\ KeepDevice

\* ForwardDevtoolsPort: the socket of a WebView is looked for first.
FindSocket(s) ==
  /\ deviceStep[s] = "socket"
  /\ \/ ~deviceWish[s].webview /\ GoTo(s, "forward") /\ NoCommand
     \/ /\ deviceWish[s].webview
        /\ \E fate \in Fates : Command(s, "socket", fate)
                               /\ GoTo(s, IF fate.ok THEN "forward" ELSE SetUpFails)
  /\ UNCHANGED <<activePackage, forwardedPort>> /\ KeepDevice

ForwardPort(s) ==
  /\ deviceStep[s] = "forward"
  /\ \E fate \in Fates :
       /\ Command(s, "forward", fate)
       /\ GoTo(s, IF fate.ok THEN "devtools" ELSE SetUpFails)
       /\ forwardedPort' = [forwardedPort EXCEPT ![s] = fate.ok]
  /\ UNCHANGED activePackage /\ KeepDevice

\* The browser is waited for through the forwarded port; the rest of New Session may fail too.
WaitForDevTools(s) ==
  /\ deviceStep[s] = "devtools"
  /\ GoTo(s, "ready") \/ GoTo(s, "tearDown")
  /\ UNCHANGED <<activePackage, forwardedPort>> /\ KeepDevice /\ NoCommand

\* ChromeAndroidImpl::QuitImpl, when the session ends for any reason.
QuitDevice(s) ==
  /\ deviceStep[s] = "ready" /\ GoTo(s, "tearDown")
  /\ UNCHANGED <<activePackage, forwardedPort>> /\ KeepDevice /\ NoCommand

\* Device::TearDown: the app is stopped, then the port is closed; the first failure ends it.
\* Then the device is released.
ForceStop(s) ==
  /\ deviceStep[s] = "tearDown" /\ activePackage[s]
  /\ \E fate \in Fates :
       /\ Command(s, "forceStop", fate)
       /\ activePackage' = [activePackage EXCEPT ![s] = ~fate.ok]
       /\ IF fate.ok THEN GoTo(s, "tearDown") /\ UNCHANGED <<heldDevice, activeDevices>>
          ELSE ReleaseDevice(s)
  /\ UNCHANGED <<deviceWish, onlineList, forwardedPort>>

KillForwardPort(s) ==
  /\ deviceStep[s] = "tearDown" /\ ~activePackage[s] /\ forwardedPort[s]
  /\ \E fate \in Fates :
       /\ Command(s, "killForward", fate)
       /\ forwardedPort' = [forwardedPort EXCEPT ![s] = ~fate.ok]
       /\ ReleaseDevice(s)
  /\ UNCHANGED <<deviceWish, onlineList, activePackage>>

TornDown(s) ==
  /\ deviceStep[s] = "tearDown" /\ ~activePackage[s] /\ ~forwardedPort[s]
  /\ ReleaseDevice(s)
  /\ UNCHANGED <<deviceWish, onlineList, activePackage, forwardedPort>> /\ NoCommand

Next ==
  \/ LateCommand
  \/ \E s \in DeviceSessions :
       \/ GetDevices(s) \/ LockDevice(s) \/ SetUp(s) \/ FindSocket(s) \/ ForwardPort(s)
       \/ WaitForDevTools(s) \/ QuitDevice(s) \/ ForceStop(s) \/ KillForwardPort(s) \/ TornDown(s)

Spec == Init /\ [][Next]_vars
-----------------------------------------------------------------------------
\* Types.
TypeOK ==
  /\ heldDevice \in [DeviceSessions -> Serials \cup {"none"}] /\ activeDevices \subseteq Serials
  /\ activePackage \in [DeviceSessions -> BOOLEAN] /\ forwardedPort \in [DeviceSessions -> BOOLEAN]
  /\ apps \in [Serials -> SUBSET DeviceSessions] /\ forwards \subseteq DeviceSessions

\* Two sessions never use one device: the list of devices is read without the lock, and what it
\* says is checked against the locked ones again when a device is taken.
OneSessionPerDevice ==
  \A s, t \in DeviceSessions :
    s # t /\ heldDevice[s] = heldDevice[t] => heldDevice[s] = "none"

\* A device that is given back is clean: the app that was started on it is stopped and the port
\* closed, also when a step of the set-up was refused.  What may stay is the effect of a command
\* that timed out or whose answer was lost, and what a refused ForceStop or KillForwardPort was
\* to undo.
GivenBackClean(s) ==
  deviceStep[s] = "released" /\ adbFaults[s] \subseteq {"refused"}
    => s \notin forwards /\ \A d \in Serials : s \notin apps[d]
ReleasedIsClean == \A s \in DeviceSessions : GivenBackClean(s)

\* Both: a session has its device for itself and the next one finds it clean.
DevicesAreExclusive == OneSessionPerDevice /\ ReleasedIsClean

\* Why a session has its device for itself: a device that is held is locked.
HeldIsLocked ==
  \A s \in DeviceSessions : heldDevice[s] # "none" => heldDevice[s] \in activeDevices

\* Why a device is clean: a late command is known to be a fault, what SetUp has done stands in the
\* members that TearDown reads, and these are set from the respective step on.
LateIsFault == \A c \in lateCommands : adbFaults[c.session] \cap {"late", "stuck"} # {}
Noted(s) ==
  /\ activePackage[s] => deviceStep[s] \in
       {"socket", "forward", "devtools", "ready", "tearDown", "released"}
  /\ forwardedPort[s] => deviceStep[s] \in {"devtools", "ready", "tearDown", "released"}
  /\ adbFaults[s] \subseteq {"refused"} =>
       /\ \A d \in Serials : s \in apps[d] => activePackage[s] /\ d = heldDevice[s]
       /\ s \in forwards => forwardedPort[s]
SetUpIsNoted == \A s \in DeviceSessions : Noted(s)
=============================================================================
