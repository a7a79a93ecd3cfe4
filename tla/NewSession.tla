----------------------------- MODULE NewSession -----------------------------
(***************************************************************************)
(* New Session, from the launch of the browser to its end                  *)
(* (chrome_launcher.cc, session_commands.cc, chrome/chrome_desktop_impl.cc):*)
(* which browser the driver ends up talking to, and what it leaves behind. *)
(*                                                                         *)
(* The launched browser runs by itself: it comes up, writes the port it    *)
(* listens at into its profile, finds the profile in use, or dies.         *)
(* Another browser may use the same profile or the same port.              *)
(***************************************************************************)
EXTENDS Naturals

VARIABLES
  wanted,       \* the capabilities that steer the launch
  launchPoint,  \* where New Session is
  launched,      \* the process that was launched: "none", "starting", "up", "gone"
  other,        \* another browser: "none", "fixed" (on the port asked for), "profile"
  portFile,     \* whose port the file in the profile holds: "none", "stale", "own", "other"
  endpoint,     \* devtools_port: "unknown", or whose port it is
  attached,     \* whom the DevTools client is connected to: "none", "own", "other", "log"
  tempDirs,     \* the temporary directories on the disk
  chrome,       \* session->chrome: "none", "open", or "quit" (quit_)
  sessionQuit,  \* session->quit
  excuses       \* ghost: what went wrong that a browser may be left behind for

vars == <<wanted, launchPoint, launched, other, portFile, endpoint, attached, tempDirs, chrome,
          sessionQuit, excuses>>

Capabilities ==
  [kind : {"desktop", "remote", "replay"}, port : {"none", "zero", "fixed", "bad"},
   pipe : BOOLEAN, ownProfile : BOOLEAN, extension : {"none", "plain", "page", "bad"},
   detach : BOOLEAN, webSocketUrl : BOOLEAN]

NothingWanted == [kind |-> "remote", port |-> "none", pipe |-> FALSE, ownProfile |-> FALSE,
                  extension |-> "none", detach |-> FALSE, webSocketUrl |-> FALSE]

Init ==
  /\ wanted = NothingWanted /\ launchPoint = "idle" /\ launched = "none" /\ other = "none"
  /\ portFile = "none" /\ endpoint = "unknown" /\ attached = "none" /\ tempDirs = {}
  /\ chrome = "none" /\ sessionQuit = FALSE /\ excuses = {}

\* A pipe is used when it is asked for and no port is.
UsesPort == wanted.port # "none" \/ ~wanted.pipe

\* A launch that fails before a ChromeDesktopImpl owns the temporary directories deletes them;
\* ExecuteInitSession has no chrome to quit.
Fails == launchPoint' = "over" /\ sessionQuit' = TRUE /\ tempDirs' = {}
-----------------------------------------------------------------------------
\* Browsers: what runs outside of the driver.
BrowserUp ==
  /\ launched = "starting"
  /\ IF wanted.ownProfile /\ other = "profile"
     THEN launched' = "gone" /\ UNCHANGED portFile      \* the other one is notified
     ELSE launched' = "up" /\ portFile' = IF UsesPort THEN "own" ELSE portFile
  /\ UNCHANGED <<wanted, launchPoint, other, endpoint, attached, tempDirs, chrome, sessionQuit,
                 excuses>>

BrowserDies ==
  /\ launched \in {"starting", "up"} /\ launched' = "gone"
  /\ UNCHANGED <<wanted, launchPoint, other, portFile, endpoint, attached, tempDirs, chrome,
                 sessionQuit, excuses>>

\* Another session, or the user, starts a browser with the same profile.
OtherBrowserUp ==
  /\ launchPoint \notin {"idle", "over"} /\ wanted.ownProfile /\ other = "none" /\ launched # "up"
  /\ other' = "profile" /\ portFile' = "other" /\ excuses' = excuses \cup {"late"}
  /\ UNCHANGED <<wanted, launchPoint, launched, endpoint, attached, tempDirs, chrome, sessionQuit>>

\* Who answers at the endpoint.
Answering(e) ==
  CASE e = "own" -> IF launched = "up" THEN "own" ELSE "none"
    [] e = "other" -> IF other # "none" THEN "other" ELSE "none"
    [] e = "fixed" -> IF other = "fixed" THEN "other" ELSE IF launched = "up" THEN "own" ELSE "none"
    [] OTHER -> "none"
-----------------------------------------------------------------------------
KeepOldDevToolsActivePortFile == UNCHANGED portFile

\* The file of an earlier browser is deleted, when the profile is given and the port is not.
RemoveOldDevToolsActivePortFile ==
  portFile' = IF wanted.ownProfile /\ wanted.port # "fixed" THEN "none" ELSE portFile

\* InitSessionHelper up to LaunchChrome.  The request comes into a world in which another
\* browser may run and the profile may hold the file of a browser that is gone.
LaunchChrome ==
  /\ launchPoint = "idle"
  /\ wanted' \in Capabilities
  /\ other' \in {"none", "fixed"} \cup (IF wanted'.ownProfile THEN {"profile"} ELSE {})
  /\ portFile' = IF other' = "profile" THEN "other"
                 ELSE IF wanted'.ownProfile THEN "stale" ELSE "none"
  /\ launchPoint' = CASE wanted'.kind = "remote" -> "remote"
                      [] wanted'.kind = "replay" -> "replay"
                      [] OTHER -> "desktop"
  /\ UNCHANGED <<launched, endpoint, attached, tempDirs, chrome, sessionQuit, excuses>>

\* LaunchDesktopChrome: the port and the file.
CheckPort ==
  /\ launchPoint = "desktop"
  /\ \/ wanted.port = "bad" /\ Fails /\ UNCHANGED <<portFile, endpoint>>
     \/ /\ wanted.port # "bad"
        /\ RemoveOldDevToolsActivePortFile
        /\ endpoint' = IF wanted.port = "fixed" THEN "fixed" ELSE "unknown"
        /\ launchPoint' = "prepare" /\ UNCHANGED <<tempDirs, sessionQuit>>
     \/ \* the file cannot be deleted
        wanted.ownProfile /\ wanted.port \in {"none", "zero"} /\ Fails
        /\ UNCHANGED <<portFile, endpoint>>
  /\ UNCHANGED <<wanted, launched, other, attached, chrome, excuses>>

\* PrepareDesktopCommandLine: the binary and the directory of the profile.
PrepareDesktopCommandLine ==
  /\ launchPoint = "prepare"
  /\ \/ Fails
     \/ /\ launchPoint' = "profile" /\ UNCHANGED sessionQuit
        /\ tempDirs' = IF wanted.ownProfile THEN {} ELSE {"profile"}
  /\ UNCHANGED <<wanted, launched, other, portFile, endpoint, attached, chrome, excuses>>

\* The preferences are written, over those of a profile that is in use too.
PrepareUserDataDir ==
  /\ launchPoint = "profile"
  /\ Fails \/ (launchPoint' = "extensions" /\ UNCHANGED <<tempDirs, sessionQuit>>)
  /\ UNCHANGED <<wanted, launched, other, portFile, endpoint, attached, chrome, excuses>>

\* Every extension is unpacked; one that cannot be read or verified ends the launch.
ProcessExtensions ==
  /\ launchPoint = "extensions"
  /\ IF wanted.extension = "bad" THEN Fails
     ELSE /\ launchPoint' = "launch" /\ tempDirs' = tempDirs \cup {"extensions"}
          /\ UNCHANGED sessionQuit
  /\ UNCHANGED <<wanted, launched, other, portFile, endpoint, attached, chrome, excuses>>

\* SetUpPipes, the redirection of the output and LaunchProcess.
LaunchProcess ==
  /\ launchPoint = "launch"
  /\ \/ Fails /\ UNCHANGED launched
     \/ launched' = "starting" /\ launchPoint' = (IF UsesPort THEN "poll" ELSE "pipe")
        /\ UNCHANGED <<tempDirs, sessionQuit>>
  /\ UNCHANGED <<wanted, other, portFile, endpoint, attached, chrome, excuses>>

\* ParseDevToolsActivePortFile: the port is kept once it was read.
PortNow ==
  IF endpoint # "unknown" THEN endpoint ELSE IF portFile = "none" THEN "unknown" ELSE portFile

\* The answers of a browser: pages are there, or CheckVersion refuses it.
WaitForDevToolsAndCheckVersion(e) ==
  IF Answering(e) # "none" THEN {"connect", "wrongVersion"} ELSE {}

\* One turn of the loop.  The browser that answers at the port is asked for its version and
\* its pages; a wrong version ends the loop, every other failure is tried again until the time
\* is up or the process is gone.
PollBrowser ==
  /\ launchPoint = "poll"
  /\ endpoint' = PortNow
  /\ launchPoint' \in WaitForDevToolsAndCheckVersion(PortNow)
                      \cup {IF launched = "gone" THEN "crashed" ELSE "poll", "timeout"}
  /\ UNCHANGED <<wanted, launched, other, portFile, attached, tempDirs, chrome, sessionQuit, excuses>>

\* CreateBrowserwideDevToolsClientAndConnect.
CreateBrowserwideDevToolsClientAndConnect ==
  /\ launchPoint = "connect"
  /\ \/ Answering(endpoint) # "none" /\ attached' = Answering(endpoint) /\ launchPoint' = "created"
     \/ UNCHANGED attached /\ launchPoint' = "notConnected"
  /\ UNCHANGED <<wanted, launched, other, portFile, endpoint, tempDirs, chrome, sessionQuit, excuses>>

\* The pipe is connected to the process that was launched; Browser.getVersion, CheckVersion and
\* WaitForTab may fail.
ConnectPipe ==
  /\ launchPoint = "pipe"
  /\ \/ launched = "up" /\ attached' = "own" /\ launchPoint' = "created"
     \/ UNCHANGED attached /\ launchPoint' \in {"timeout", "wrongVersion"}
  /\ UNCHANGED <<wanted, launched, other, portFile, endpoint, tempDirs, chrome, sessionQuit, excuses>>

\* What becomes of a process that cannot be used: it is killed, unless it is gone by now.  The
\* kill may fail.
KillLaunched ==
  \/ Fails /\ launched' = "gone" /\ UNCHANGED excuses
  \/ launched # "gone" /\ Fails /\ UNCHANGED launched /\ excuses' = excuses \cup {"kill"}

LaunchFails ==
  /\ launchPoint \in {"wrongVersion", "timeout", "crashed", "notConnected"}
  /\ KillLaunched
  /\ UNCHANGED <<wanted, other, portFile, endpoint, attached, chrome>>

\* The ChromeDesktopImpl, which owns the directories, waits for the pages of the extensions.
\* When that fails it is deleted: it was not quit, the process runs and the directories stay.
WaitForExtensionPageToLoad ==
  /\ launchPoint = "created"
  /\ \/ chrome' = "open" /\ launchPoint' = "setUp" /\ UNCHANGED <<sessionQuit, excuses>>
     \/ /\ wanted.extension = "page" /\ launchPoint' = "over" /\ sessionQuit' = TRUE
        /\ excuses' = excuses \cup {"extension"} /\ UNCHANGED chrome
  /\ UNCHANGED <<wanted, launched, other, portFile, endpoint, attached, tempDirs>>

\* The browser at a given address: it is not the driver's, and is never killed.
LaunchRemoteChromeSession ==
  /\ launchPoint = "remote"
  /\ \/ Fails /\ UNCHANGED <<attached, chrome>>
     \/ attached' = "other" /\ chrome' = "open" /\ launchPoint' = "setUp"
        /\ UNCHANGED <<tempDirs, sessionQuit>>
  /\ UNCHANGED <<wanted, launched, other, portFile, endpoint, excuses>>

\* The recorded log takes the place of the browser; there is no process.
LaunchReplayChrome ==
  /\ launchPoint = "replay"
  /\ \/ Fails /\ UNCHANGED <<attached, chrome, portFile>>
     \/ /\ portFile' = IF wanted.ownProfile THEN "none" ELSE portFile
        /\ attached' = "log" /\ chrome' = "open" /\ launchPoint' = "setUp"
        /\ UNCHANGED <<tempDirs, sessionQuit>>
  /\ UNCHANGED <<wanted, launched, other, endpoint, excuses>>
-----------------------------------------------------------------------------
Hang == UNCHANGED <<launched, other, tempDirs, chrome, excuses>>

\* ChromeImpl::Quit.  With a profile of the user Browser.close is tried first, through the
\* DevTools connection; then the process is killed.  A remote browser and a log are let go.
Quit ==
  IF wanted.kind # "desktop"
  THEN chrome' = "quit" /\ UNCHANGED <<launched, other, tempDirs, excuses>>
  ELSE \/ /\ launched' = "gone" /\ chrome' = "quit" /\ tempDirs' = {} /\ UNCHANGED excuses
          /\ other' \in {other} \cup (IF wanted.ownProfile /\ attached = "other" THEN {"none"} ELSE {})
       \/ /\ launched # "gone" /\ excuses' = excuses \cup {"kill"}
          /\ UNCHANGED <<launched, other, tempDirs, chrome>>

EndSession == launchPoint' = "over" /\ sessionQuit' = TRUE
EndUnchanged == UNCHANGED <<wanted, portFile, endpoint, attached>>

\* The steps of InitSessionHelper after the launch: certificates, the first tab, the headless
\* shell, and the BiDi mapper with its own tab.  ExecuteInitSession quits when one fails.
SetUpStep(from) ==
  /\ launchPoint = from
  /\ \/ /\ launchPoint' = CASE from = "setUp" -> "firstTab"
                            [] from = "firstTab" -> "headless"
                            [] from = "headless" -> IF wanted.webSocketUrl THEN "mapper" ELSE "ready"
                            [] OTHER -> "ready"
        /\ UNCHANGED <<launched, other, tempDirs, chrome, sessionQuit, excuses>>
     \/ EndSession /\ Quit
  /\ EndUnchanged

SetAcceptInsecureCerts == SetUpStep("setUp")
GetWebViewIdForFirstTab == SetUpStep("firstTab")
ConfigureHeadlessSession == SetUpStep("headless")
StartBidiMapper == SetUpStep("mapper")

\* ExecuteQuit lets a detached browser run; QuitAll does not.
ExecuteQuit(allowDetach) ==
  /\ launchPoint = "ready" /\ EndSession
  /\ IF allowDetach /\ wanted.detach THEN Hang ELSE Quit
  /\ EndUnchanged

ExecuteBidiSessionEnd ==
  launchPoint = "ready" /\ wanted.webSocketUrl /\ EndSession /\ Quit /\ EndUnchanged

\* The connection is lost or a page has crashed while a command runs, or between two.
SessionLost ==
  /\ launchPoint = "ready" /\ EndSession
  /\ IF wanted.detach THEN Hang ELSE Quit
  /\ EndUnchanged

Next ==
  \/ BrowserUp \/ BrowserDies \/ OtherBrowserUp
  \/ LaunchChrome \/ CheckPort \/ PrepareDesktopCommandLine \/ PrepareUserDataDir
  \/ ProcessExtensions \/ LaunchProcess \/ PollBrowser
  \/ CreateBrowserwideDevToolsClientAndConnect \/ ConnectPipe \/ LaunchFails
  \/ WaitForExtensionPageToLoad \/ LaunchRemoteChromeSession \/ LaunchReplayChrome
  \/ SetAcceptInsecureCerts \/ GetWebViewIdForFirstTab \/ ConfigureHeadlessSession
  \/ StartBidiMapper \/ (\E a \in BOOLEAN : ExecuteQuit(a)) \/ ExecuteBidiSessionEnd \/ SessionLost

Spec == Init /\ [][Next]_vars
-----------------------------------------------------------------------------
\* Types.
TypeOK ==
  /\ wanted \in Capabilities /\ launched \in {"none", "starting", "up", "gone"}
  /\ other \in {"none", "fixed", "profile"} /\ portFile \in {"none", "stale", "own", "other"}
  /\ endpoint \in {"unknown", "fixed", "own", "other", "stale"}
  /\ attached \in {"none", "own", "other", "log"} /\ tempDirs \subseteq {"profile", "extensions"}
  /\ chrome \in {"none", "open", "quit"} /\ sessionQuit \in BOOLEAN
  /\ excuses \subseteq {"late", "kill", "extension"}

\* A session that launches a browser talks to that browser.  It talks to another one only when
\* that one listens at the port that was asked for, or took the profile while New Session was
\* under way, after its old port file had been deleted.
AttachesToOwnBrowser ==
  wanted.kind = "desktop" /\ attached = "other" => endpoint = "fixed" \/ "late" \in excuses

\* When the session is over its browser and its temporary directories are gone, unless the
\* browser was to be detached, could not be killed, or its extension page did not load.
NothingIsLeftBehind ==
  (launchPoint = "over" /\ ~(wanted.detach /\ chrome = "open")
     /\ excuses \cap {"kill", "extension"} = {})
    => launched \in {"none", "gone"} /\ tempDirs = {}

\* Both: a session uses the browser it launched, and no other, and takes it down.
BrowserIsOwned == AttachesToOwnBrowser /\ NothingIsLeftBehind
=============================================================================
