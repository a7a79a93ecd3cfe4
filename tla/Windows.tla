------------------------------- MODULE Windows -------------------------------
(***************************************************************************)
(* The windows of a session: their handles, closing and switching          *)
(* (session_commands.cc), and the state and the bounds of the current one  *)
(* (chrome/chrome_impl.cc, window_commands.cc).                            *)
(*                                                                         *)
(* A command sends DevTools commands one after the other.  In between the  *)
(* window manager animates the window, changes its state on its own        *)
(* account or does nothing at all, and pages open and close windows.       *)
(***************************************************************************)
EXTENDS Naturals, FiniteSets

CONSTANTS
  MaxWindowCalls,    \* bound: commands on windows
  MaxWindowChanges   \* bound: changes that no command asked for

VARIABLES
  tabs,            \* tab -> "none", "open", "swapping" (without an active page) or "closed"
  webViews,        \* web_views_: the tabs that are attached
  sessionWindow,   \* session->window
  bidiMapper,    \* session->web_socket_url; "unset" until the session starts
  sessionEnded,    \* session->quit
  windowState,     \* the state of the current window: [state, rect]
  animation,       \* the state and the bounds that the window is on its way to, or NoAnimation
  windowCall,      \* the command under way
  passed,          \* the states the window was in since the command began
  windowCalls, windowChanges

vars == <<tabs, webViews, sessionWindow, bidiMapper, sessionEnded, windowState, animation,
          windowCall, passed, windowCalls, windowChanges>>

MapperTab == 0     \* the tab of the BiDi mapper, the first one of a session with webSocketUrl
Tabs == 0..2
States == {"normal", "maximized", "minimized", "fullscreen"}
Rects == {"initial", "wanted", "screen"}
NoAnimation == [state |-> "none", rect |-> "none"]

\* What a command asks for: a state (MaximizeWindow...), or bounds, where "none" stands for a
\* position without both coordinates and a size without both lengths (SetWindowRect).  how tells
\* two ways to answer OK from the others: Browser.setWindowBounds is "unimplemented", or the
\* maximized state was "simulated".
NoWindowCall ==
  [name |-> "none", step |-> "idle", state |-> "none", rect |-> "none", window |-> "none",
   matched |-> "none", answer |-> "none", how |-> "none", isLast |-> FALSE, counted |-> {},
   listed |-> {}, target |-> 1]

Init ==
  /\ tabs = [t \in Tabs |-> IF t = 1 THEN "open" ELSE "none"] /\ webViews = {1}
  /\ sessionWindow = 1 /\ bidiMapper = "unset" /\ sessionEnded = FALSE
  /\ windowState = [state |-> "normal", rect |-> "initial"] /\ animation = NoAnimation
  /\ windowCall = NoWindowCall /\ passed = {} /\ windowCalls = 0 /\ windowChanges = 0

OpenTabs == {t \in Tabs : tabs[t] \in {"open", "swapping"}}

\* With webSocketUrl the mapper occupies the first tab and the session gets a new one.
StartSession ==
  /\ bidiMapper = "unset"
  /\ \/ bidiMapper' = "no" /\ UNCHANGED <<tabs, webViews>>
     \/ /\ bidiMapper' = "yes" /\ tabs' = [tabs EXCEPT ![MapperTab] = "open"]
        /\ webViews' = webViews \cup {MapperTab}
  /\ UNCHANGED <<sessionWindow, sessionEnded, windowState, animation, windowCall, passed,
                 windowCalls, windowChanges>>
-----------------------------------------------------------------------------
(***************************************************************************)
(* The browser and its user.                                               *)
(***************************************************************************)
Disturbs ==
  /\ windowChanges < MaxWindowChanges /\ windowChanges' = windowChanges + 1
  /\ bidiMapper # "unset" /\ ~sessionEnded
KeepSession == UNCHANGED <<sessionWindow, bidiMapper, sessionEnded, windowCall, windowCalls>>
KeepWindow == UNCHANGED <<windowState, animation, passed>>

\* The animation is over.
WindowArrives ==
  /\ animation # NoAnimation
  /\ windowState' = animation /\ animation' = NoAnimation
  /\ passed' = passed \cup {windowState'.state}
  /\ KeepSession /\ UNCHANGED <<tabs, webViews, windowChanges>>

\* The user, the page or the window manager changes the state.
WindowChanges ==
  /\ Disturbs /\ windowCall.step # "idle"
  /\ \E s \in States \ {windowState.state} : windowState' = [windowState EXCEPT !.state = s]
  /\ passed' = passed \cup {windowState'.state}
  /\ KeepSession /\ UNCHANGED <<tabs, webViews, animation>>

\* A page opens or closes a window, or another page takes its place in a tab.
TabChanges ==
  /\ Disturbs
  /\ \E t \in Tabs \ {MapperTab} :
       \/ tabs[t] = "none" /\ tabs' = [tabs EXCEPT ![t] = "open"]
       \/ tabs[t] = "open" /\ \E s \in {"swapping", "closed"} : tabs' = [tabs EXCEPT ![t] = s]
  /\ KeepSession /\ KeepWindow /\ UNCHANGED webViews

SwapEnds ==
  /\ \E t \in Tabs : tabs[t] = "swapping" /\ tabs' = [tabs EXCEPT ![t] = "open"]
  /\ KeepSession /\ KeepWindow /\ UNCHANGED <<webViews, windowChanges>>
-----------------------------------------------------------------------------
(***************************************************************************)
(* Finding the window of a command.                                        *)
(***************************************************************************)
\* GetTopLevelWebViewIds: UpdateWebViews drops the closed tabs and attaches to the new ones.
UpdateWebViews == webViews' = OpenTabs

\* GetActivePageByWebViewId: the tab is known, and its page is there at once or, when the caller
\* waits (WaitForPendingActivePage), as soon as the swap is over.
GetActivePage(t) == t \in webViews /\ tabs[t] = "open"
PageIsPending(t) == t \in webViews /\ tabs[t] = "swapping"

\* Execute{Maximize,Minimize,FullScreen}Window and ExecuteGetWindowRect.
StateCommands ==
  {[NoWindowCall EXCEPT !.name = "state", !.step = "getWindow", !.state = s] :
     s \in States \ {"normal"}}
  \cup {[NoWindowCall EXCEPT !.name = "getRect", !.step = "getWindow"]}

\* ExecuteSetWindowRect: numbers out of range are refused before anything is sent; a position and
\* a size need both of their numbers.
RectCommands ==
  {[NoWindowCall EXCEPT !.name = "rect", !.step = "getWindow", !.rect = r] :
     r \in {"none", "wanted"}}

\* The legacy ExecuteSetWindowPosition and ExecuteSetWindowSize: both numbers are required.
LegacyRectCommands ==
  {[NoWindowCall EXCEPT !.name = "rect", !.step = "getWindow", !.rect = "wanted"]}

\* ExecuteNewWindow, ExecuteClose, ExecuteGetWindowHandles and ExecuteSwitchToWindow.
TabCommands ==
  {[NoWindowCall EXCEPT !.name = n, !.step = n] : n \in {"close", "handles", "newWindow"}}
  \cup {[NoWindowCall EXCEPT !.name = "switch", !.step = "switch", !.target = t] :
          t \in Tabs \ {MapperTab}}

StartCall ==
  /\ bidiMapper # "unset" /\ ~sessionEnded /\ windowCall.step = "idle"
  /\ windowCalls < MaxWindowCalls /\ windowCalls' = windowCalls + 1
  /\ windowCall' \in StateCommands \cup RectCommands \cup LegacyRectCommands \cup TabCommands
  /\ passed' = {windowState.state}
  /\ UNCHANGED <<tabs, webViews, sessionWindow, bidiMapper, sessionEnded, windowState, animation,
                 windowChanges>>

Answer(a) == windowCall' = [windowCall EXCEPT !.step = "answered", !.answer = a]
EndCall ==
  /\ windowCall.step = "answered" /\ windowCall' = NoWindowCall /\ passed' = {}
  /\ UNCHANGED <<tabs, webViews, sessionWindow, bidiMapper, sessionEnded, windowState, animation,
                 windowCalls, windowChanges>>

KeepTabs == UNCHANGED <<tabs, webViews, sessionWindow, bidiMapper, sessionEnded>>
KeepAll == KeepTabs /\ UNCHANGED <<windowState, animation, passed, windowCalls, windowChanges>>
GoOn(step, window) == windowCall' = [windowCall EXCEPT !.step = step, !.window = window]

\* ParseWindowBounds: what Browser.getWindowBounds reports (windowState leaves the rest unread).
ReadWindow == windowState.state
ReadRequested == IF windowCall.state # "none" THEN windowCall.state ELSE windowState.state

Read == ReadWindow

\* GetWindow, and the early returns of GetWindowRect and of the commands that ask for a state.
GetWindow ==
  /\ windowCall.step = "getWindow" /\ ~PageIsPending(sessionWindow)
  /\ IF ~GetActivePage(sessionWindow) THEN Answer("error")
     ELSE IF windowCall.name = "getRect" \/ Read = windowCall.state THEN Answer("ok")
          ELSE GoOn(IF Read = "normal" THEN "set" ELSE "normalize", Read)
  /\ KeepAll
-----------------------------------------------------------------------------
(***************************************************************************)
(* SetWindowBounds.                                                        *)
(***************************************************************************)
\* What Browser.setWindowBounds does: it fails, or it takes effect at once, at the end of an
\* animation or, without a window manager, never.
SendBounds(target, next) ==
  \/ Answer("error") /\ UNCHANGED <<windowState, animation, passed>>
  \/ /\ next /\ windowState' = target /\ animation' = NoAnimation
     /\ passed' = passed \cup {target.state}
  \/ next /\ animation' = target /\ UNCHANGED <<windowState, passed>>
  \/ next /\ UNCHANGED <<windowState, animation, passed>>

\* An answer OK of the given kind.
Agree(how) ==
  windowCall' = [windowCall EXCEPT !.step = "answered", !.answer = "ok", !.how = how]

\* A browser without Browser.setWindowBounds answers kUnknownCommand, which is no error.
NotImplemented == Agree("unimplemented") /\ UNCHANGED <<windowState, animation, passed>>

KeepCounts == UNCHANGED <<windowCalls, windowChanges>>

Normalize ==
  /\ windowCall.step = "normalize"
  /\ \/ SendBounds([windowState EXCEPT !.state = "normal"],
                   GoOn("awaitNormal", windowCall.window))
     \/ NotImplemented
  /\ KeepTabs /\ KeepCounts

\* The window is read until it is normal, at least once and for 300 ms.
AwaitNormal ==
  /\ windowCall.step = "awaitNormal"
  /\ IF Read = "normal" THEN GoOn("set", Read)
     ELSE \/ GoOn("awaitNormal", Read)
          \/ Answer("error")
  /\ KeepAll

\* The bounds that the window gets: ToDict.
ToDict ==
  [state |-> IF windowCall.state = "none" THEN windowState.state ELSE windowCall.state,
   rect |-> IF windowCall.rect = "none" THEN windowState.rect ELSE windowCall.rect]

\* Matches, on the window as it was last read.
Matches ==
  /\ windowCall.state # "none" => windowCall.window = windowCall.state
  /\ windowCall.rect # "none" => windowCall.matched = windowCall.rect

\* "fullscreen" goes through requestFullscreen in the page, but for headless browsers.
RequestFullscreen ==
  /\ windowCall.step = "set" /\ windowCall.state = "fullscreen"
  /\ IF ~GetActivePage(sessionWindow)
     THEN Answer("error") /\ UNCHANGED <<windowState, animation, passed>>
     ELSE \/ Answer("error") /\ UNCHANGED <<windowState, animation, passed>>
          \/ /\ GoOn("checkFullscreen", windowCall.window)
             /\ \E done \in BOOLEAN :
                  IF done
                  THEN /\ windowState' = [windowState EXCEPT !.state = "fullscreen"]
                       /\ animation' = NoAnimation /\ passed' = passed \cup {windowState'.state}
                  ELSE UNCHANGED <<windowState, animation, passed>>
  /\ KeepTabs /\ KeepCounts

CheckFullscreen ==
  /\ windowCall.step = "checkFullscreen"
  /\ Answer(IF Read = "fullscreen" THEN "ok" ELSE "error")
  /\ KeepAll

SetBounds ==
  /\ windowCall.step = "set"
  /\ SendBounds(ToDict, GoOn("awaitMatch", windowCall.window)) \/ NotImplemented
  /\ KeepTabs /\ KeepCounts

\* The window is read until it matches what was asked for, or for 300 ms.
AwaitMatch ==
  /\ windowCall.step = "awaitMatch"
  /\ IF Matches
     THEN IF windowCall.state = "none" THEN Answer("ok") ELSE GoOn("check", windowCall.window)
     ELSE \/ windowCall' = [windowCall EXCEPT !.window = Read, !.matched = windowState.rect]
          \/ IF windowCall.state = "none" THEN Answer("ok") ELSE GoOn("check", windowCall.window)
  /\ KeepAll

CheckState ==
  /\ windowCall.step = "check"
  /\ IF Read = windowCall.state THEN Answer("ok")
     ELSE IF windowCall.state = "maximized" /\ Read = "normal" THEN GoOn("simulate", Read)
          ELSE GoOn("retry", Read)
  /\ KeepAll

\* A window that stays normal gets the size of the screen instead of being maximized; the command
\* answers OK as soon as these bounds are sent.
SimulateMaximize ==
  /\ windowCall.step = "simulate"
  /\ SendBounds([windowState EXCEPT !.rect = "screen"], Agree("simulated"))
  /\ KeepTabs /\ KeepCounts

\* Ten times: the bounds are sent again (a failure is not looked at), and read.
RetryBounds ==
  /\ windowCall.step = "retry" /\ GoOn("checkRetry", windowCall.window)
  /\ \/ windowState' = ToDict /\ animation' = NoAnimation /\ passed' = passed \cup {ToDict.state}
     \/ animation' = ToDict /\ UNCHANGED <<windowState, passed>>
     \/ UNCHANGED <<windowState, animation, passed>>
  /\ KeepTabs /\ KeepCounts

CheckRetry ==
  /\ windowCall.step = "checkRetry"
  /\ IF Read = windowCall.state THEN Answer("ok")
     ELSE GoOn("retry", Read) \/ Answer("error")
  /\ KeepAll
-----------------------------------------------------------------------------
(***************************************************************************)
(* Handles, closing, switching.                                            *)
(***************************************************************************)
Keep == UNCHANGED <<bidiMapper, windowState, animation, passed, windowCalls, windowChanges>>

\* ExecuteGetWindowHandles: the tabs that have an active page, but the mapper's.
WindowHandles(views) == {t \in views : tabs[t] = "open"} \ {MapperTab}

\* The end of ExecuteClose, and ExecuteGetWindowHandles.
GetWindowHandles ==
  /\ windowCall.step = "handles" /\ UpdateWebViews
  /\ windowCall' = [windowCall EXCEPT !.step = "answered", !.answer = "ok",
                                      !.listed = WindowHandles(OpenTabs)]
  /\ Keep /\ UNCHANGED <<tabs, sessionWindow, sessionEnded>>

\* ExecuteClose: the windows are counted before the current one is looked for and its dialogs are
\* handled.
IsLastWebView(n) == IF bidiMapper = "yes" THEN n <= 2 ELSE n = 1

CountWebViews ==
  /\ windowCall.step = "close" /\ UpdateWebViews
  /\ windowCall' = [windowCall EXCEPT !.step = "closeTarget", !.counted = OpenTabs,
                                      !.isLast = IsLastWebView(Cardinality(OpenTabs))]
  /\ Keep /\ UNCHANGED <<tabs, sessionWindow, sessionEnded>>

\* CloseWebView waits until the browser does not list the tab.
CloseWebView ==
  /\ windowCall.step = "closeTarget" /\ ~PageIsPending(sessionWindow)
  /\ IF ~GetActivePage(sessionWindow) THEN Answer("error") /\ UNCHANGED <<tabs, webViews>>
     ELSE \/ Answer("error") /\ UNCHANGED <<tabs, webViews>>    \* a dialog, or the window stays
          \/ /\ tabs' = [tabs EXCEPT ![sessionWindow] = "closed"]
             /\ webViews' = webViews \ {sessionWindow}
             /\ windowCall' =
                  [windowCall EXCEPT !.step = IF windowCall.isLast THEN "quit" ELSE "handles"]
  /\ Keep /\ UNCHANGED <<sessionWindow, sessionEnded>>

\* Without another window the session ends, whether Chrome::Quit succeeds or not.
QuitAfterClose ==
  /\ windowCall.step = "quit" /\ sessionEnded' = TRUE /\ \E a \in {"ok", "error"} : Answer(a)
  /\ Keep /\ UNCHANGED <<tabs, webViews, sessionWindow>>

\* ExecuteSwitchToWindow, with a handle or a name; the window becomes the session's once its
\* overrides are applied (see Overrides) and it was activated.
SwitchToWindow ==
  /\ windowCall.step = "switch" /\ UpdateWebViews
  /\ IF windowCall.target \in WindowHandles(OpenTabs)
     THEN \/ Answer("error") /\ UNCHANGED <<sessionWindow, windowState, animation>>
          \/ /\ Answer("ok") /\ sessionWindow' = windowCall.target
             /\ IF sessionWindow' = sessionWindow THEN UNCHANGED <<windowState, animation>>
                ELSE /\ windowState' = [state |-> "normal", rect |-> "initial"]
                     /\ animation' = NoAnimation
     ELSE Answer("error") /\ UNCHANGED <<sessionWindow, windowState, animation>>
  /\ UNCHANGED <<tabs, bidiMapper, sessionEnded, passed, windowCalls, windowChanges>>

\* NewWindow: the current window must be there; the handle is the id of the new tab's page.
NewWindow ==
  /\ windowCall.step = "newWindow"
  /\ IF sessionWindow \notin webViews THEN Answer("error") /\ UNCHANGED <<tabs, webViews>>
     ELSE \/ Answer("error") /\ UNCHANGED <<tabs, webViews>>
          \/ \E t \in Tabs \ {MapperTab} :
               /\ tabs[t] = "none" /\ tabs' = [tabs EXCEPT ![t] = "open"]
               /\ webViews' = OpenTabs \cup {t} /\ Answer("ok")
  /\ Keep /\ UNCHANGED <<sessionWindow, sessionEnded>>
-----------------------------------------------------------------------------
Next ==
  \/ StartSession \/ WindowArrives \/ WindowChanges \/ TabChanges \/ SwapEnds
  \/ StartCall \/ EndCall \/ GetWindow \/ Normalize \/ AwaitNormal
  \/ RequestFullscreen \/ CheckFullscreen \/ SetBounds \/ AwaitMatch \/ CheckState
  \/ SimulateMaximize \/ RetryBounds \/ CheckRetry
  \/ GetWindowHandles \/ CountWebViews \/ CloseWebView \/ QuitAfterClose \/ SwitchToWindow
  \/ NewWindow

Spec == Init /\ [][Next]_vars
-----------------------------------------------------------------------------
TypeOK ==
  /\ tabs \in [Tabs -> {"none", "open", "swapping", "closed"}] /\ webViews \subseteq Tabs
  /\ sessionWindow \in Tabs /\ windowState \in [state : States, rect : Rects]
  /\ windowCall.window \in States \cup {"none"} /\ bidiMapper \in {"unset", "no", "yes"}

\* A command that asks for a state and answers OK has had the window in that state, and one that
\* asks for bounds has had it out of every other state than "normal", with two exceptions that
\* SetWindowBounds makes: a browser that does not implement Browser.setWindowBounds lets the
\* command answer OK with nothing done, and a window that was normal after it was to be maximized
\* is only sent the size of the screen, which counts as maximized.  A window manager that
\* animates, ignores or reverts the requests makes no other.
StateIsReached ==
  /\ windowCall.step = "answered" /\ windowCall.answer = "ok"
  /\ windowCall.how # "unimplemented"
  => /\ windowCall.name = "state" =>
          \/ windowCall.state \in passed
          \/ /\ windowCall.how = "simulated"
             /\ windowCall.state = "maximized" /\ "normal" \in passed
     /\ windowCall.name = "rect" => "normal" \in passed

\* Closing a window ends the session only if no other window of the user was open when the
\* windows were counted, and the windows it lists otherwise are never the mapper's
\* (ExecuteClose, ExecuteGetWindowHandles).
LastCloseEnds ==
  windowCall.name = "close" /\ windowCall.step = "answered" =>
    IF sessionEnded THEN windowCall.counted \subseteq {MapperTab, sessionWindow}
    ELSE windowCall.answer = "error" \/ MapperTab \notin windowCall.listed

\* Both: what window commands answer is what has happened to the windows.
WindowAnswersAreTrue == StateIsReached /\ LastCloseEnds
=============================================================================
