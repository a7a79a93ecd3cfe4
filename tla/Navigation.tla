----------------------------- MODULE Navigation -----------------------------
(***************************************************************************)
(* Loading of pages: NavigationTracker (chrome/navigation_tracker.cc) with *)
(* its page load strategies, WaitForPendingNavigations                     *)
(* (chrome/web_view_impl.cc), the loop of ExecuteWindowCommand             *)
(* (window_commands.cc), the alert commands (alert_commands.cc) and the    *)
(* handling of unexpected prompts (prompt_behavior.cc).                    *)
(*                                                                         *)
(* The tracker keeps a loading state per frame, fed by DevTools events and *)
(* by scripts it runs in the page.  A script is a DevTools command: while  *)
(* its response is awaited events are handled, and the tracker may call    *)
(* itself.  trackerCalls is that stack of calls.  The browser has a top    *)
(* frame and one child frame that comes and goes.                          *)
(***************************************************************************)
EXTENDS Naturals, Sequences

CONSTANTS
  MaxDisturbances,    \* loads, frames, dialogs, crashes and failures that happen
  MaxWindowCommands,  \* commands of the client
  MaxInbox,           \* messages of the browser not yet read
  MaxCalls            \* calls of the tracker inside each other

VARIABLES
  \* The session: strategy, acceptance of beforeunload dialogs, handlers.
  pageLoadStrategy, autoAccept, promptHandler, sessionFrame, promptText,
  \* The browser: how far the document of each frame is, and its dialog.
  document, shownDialog, disturbances,
  inbox,              \* events and responses of the browser, in order
  \* NavigationTracker and the queue of dialogs of its client.
  frameStates, currentFrame, timedOut, dialogTypes,
  trackerCalls, returned,
  windowCommand, windowCommands

browserVars == <<document, shownDialog, disturbances>>
sessionVars == <<pageLoadStrategy, autoAccept, promptHandler>>
vars == <<sessionVars, sessionFrame, promptText, browserVars, inbox, frameStates, currentFrame,
          timedOut, dialogTypes, trackerCalls, returned, windowCommand, windowCommands>>

Frames == {"top", "child"}
Hints == {"kNoSuchExecutionContext", "kAbortedByNavigation"}
DialogTypes == {"alert", "prompt", "beforeunload"}
Failures == {"kTimeout", "kUnknownError", "kDisconnected", "kTargetDetached"}
NotReturned == [of |-> "none", status |-> "kOk", pending |-> FALSE]
Idle == [kind |-> "none", at |-> "idle", attempt |-> 0, status |-> "kOk"]

Init ==
  /\ pageLoadStrategy = "unset" /\ autoAccept = TRUE /\ promptHandler = <<>>
  /\ sessionFrame = "top" /\ promptText = "default"
  /\ document = [f \in Frames |-> IF f = "top" THEN "blank" ELSE "gone"]
  /\ shownDialog = "none" /\ disturbances = 0 /\ inbox = <<>>
  /\ frameStates = [f \in {"top"} |-> "unknown"] /\ currentFrame = "top"
  /\ timedOut = FALSE /\ dialogTypes = <<>>
  /\ trackerCalls = <<>> /\ returned = NotReturned
  /\ windowCommand = Idle /\ windowCommands = 0
-----------------------------------------------------------------------------
\* What a word of the capability unhandledPromptBehavior means.
Handler(word) ==
  CASE word = "dismiss" -> [type |-> "dismiss", notify |-> FALSE]
    [] word = "dismiss and notify" -> [type |-> "dismiss", notify |-> TRUE]
    [] word = "accept" -> [type |-> "accept", notify |-> FALSE]
    [] word = "accept and notify" -> [type |-> "accept", notify |-> TRUE]
    [] word = "ignore" -> [type |-> "ignore", notify |-> TRUE]

\* PromptBehavior::Create: given maps "all" (a string), or "default" and the types (a
\* dictionary), to words.  Only W3C sessions can do without a notification.
PromptBehavior(w3c, given) ==
  LET word(type) ==
        CASE type \in DOMAIN given -> given[type]
          [] type \notin DOMAIN given /\ "default" \in DOMAIN given -> given["default"]
          [] type = "beforeUnload" /\ "default" \notin DOMAIN given -> "special"
          [] OTHER -> IF "all" \in DOMAIN given THEN given["all"]
                      ELSE IF w3c THEN "dismiss and notify" ELSE "ignore"
  IN [type \in {"alert", "beforeUnload", "prompt"} |->
        IF word(type) = "special" THEN Handler("accept")
        ELSE [Handler(word(type)) EXCEPT !.notify = @ \/ ~w3c]]

\* A session begins; with webSocketUrl beforeunload dialogs are not accepted at once.  Three
\* combinations stand for all, as the settings do not depend on each other.
NewSession ==
  /\ pageLoadStrategy = "unset"
  /\ \/ /\ pageLoadStrategy' = "normal" /\ autoAccept' = FALSE
        /\ promptHandler' = PromptBehavior(TRUE, [type \in {"all"} |-> "accept"])
     \/ /\ pageLoadStrategy' = "eager" /\ autoAccept' = TRUE
        /\ promptHandler' = PromptBehavior(TRUE, [type \in {"default"} |-> "ignore"])
     \/ /\ pageLoadStrategy' = "none" /\ autoAccept' = FALSE
        /\ promptHandler' = PromptBehavior(FALSE, [type \in {"beforeUnload"} |-> "dismiss"])
  /\ UNCHANGED <<sessionFrame, promptText, browserVars, inbox, frameStates, currentFrame,
                 timedOut, dialogTypes, trackerCalls, returned, windowCommand, windowCommands>>
-----------------------------------------------------------------------------
\* The browser.  A document is "blank" while the page of a new window has not come, "started"
\* when a load has begun and the old document is still there, and then "loading",
\* "interactive" and "complete".
Event(kind, f) == [kind |-> kind, frame |-> f, to |-> 0, value |-> ""]
Response(i, value) == [kind |-> "response", frame |-> "", to |-> i, value |-> value]
Disturbs == disturbances < MaxDisturbances /\ disturbances' = disturbances + 1
Emit(new) == Len(inbox) + Len(new) <= MaxInbox /\ inbox' = inbox \o new

BrowserStep ==
  /\ pageLoadStrategy # "unset"
  /\ windowCommand.at # "idle" \/ windowCommands < MaxWindowCommands
  /\ UNCHANGED <<sessionVars, sessionFrame, promptText, frameStates, currentFrame, timedOut,
                 dialogTypes, trackerCalls, returned, windowCommand, windowCommands>>

To(f, stage) == document' = [document EXCEPT ![f] = stage]

BrowserStarts(f) ==
  /\ BrowserStep /\ shownDialog = "none" /\ document[f] = "complete"
  /\ Disturbs
  /\ To(f, "started") /\ Emit(<<Event("frameStartedLoading", f)>>)
  /\ UNCHANGED shownDialog

BrowserCommits(f) ==
  /\ BrowserStep /\ shownDialog = "none" /\ document[f] \in {"blank", "started"}
  /\ LET detaches == f = "top" /\ document["child"] # "gone" IN
       /\ document' = [document EXCEPT ![f] = "loading",
                                       !["child"] = IF detaches THEN "gone" ELSE @]
       /\ Emit(IF detaches THEN <<Event("frameDetached", "child")>> ELSE <<>>)
  /\ UNCHANGED <<shownDialog, disturbances>>

BrowserParses(f) ==
  /\ BrowserStep /\ shownDialog = "none" /\ document[f] = "loading" /\ To(f, "interactive")
  /\ Emit(IF f = "top" THEN <<Event("domContentEventFired", f)>> ELSE <<>>)
  /\ UNCHANGED <<shownDialog, disturbances>>

BrowserLoads(f) ==
  /\ BrowserStep /\ shownDialog = "none" /\ document[f] = "interactive" /\ To(f, "complete")
  /\ Emit((IF f = "top" THEN <<Event("loadEventFired", f)>> ELSE <<>>)
          \o <<Event("frameStoppedLoading", f)>>)
  /\ UNCHANGED <<shownDialog, disturbances>>

\* A load is given up, by Page.stopLoading or otherwise: no load event.
BrowserStops(f) ==
  /\ BrowserStep /\ shownDialog = "none" /\ document[f] \in {"started", "loading", "interactive"}
  /\ To(f, "complete") /\ Emit(<<Event("frameStoppedLoading", f)>>)
  /\ UNCHANGED <<shownDialog, disturbances>>

BrowserAttachesFrame ==
  /\ BrowserStep /\ shownDialog = "none" /\ document["child"] = "gone"
  /\ document["top"] \in {"interactive", "complete"} /\ Disturbs
  /\ To("child", "complete") /\ Emit(<<Event("frameAttached", "child")>>)
  /\ UNCHANGED shownDialog

BrowserDetachesFrame ==
  /\ BrowserStep /\ shownDialog = "none" /\ document["child"] # "gone"
  /\ To("child", "gone") /\ Emit(<<Event("frameDetached", "child")>>)
  /\ UNCHANGED <<shownDialog, disturbances>>

BrowserShowsDialog(type) ==
  /\ BrowserStep /\ shownDialog = "none" /\ Disturbs
  /\ document["top"] = (IF type = "beforeunload" THEN "started" ELSE "complete")
  /\ shownDialog' = type /\ Emit(<<Event("javascriptDialogOpening", type)>>)
  /\ UNCHANGED document

UserClosesDialog ==
  /\ BrowserStep /\ shownDialog # "none" /\ shownDialog' = "none"
  /\ Emit(<<Event("javascriptDialogClosed", "top")>>) /\ UNCHANGED <<document, disturbances>>

BrowserCrashes ==
  /\ BrowserStep /\ document["top"] # "crashed" /\ Disturbs
  /\ document' = [f \in Frames |-> IF f = "top" THEN "crashed" ELSE "gone"]
  /\ shownDialog' = "none" /\ Emit(<<Event("targetCrashed", "top")>>)

\* What a script or command of the tracker, run now, yields.
Yields(call) ==
  LET stage == document[call.frame]
      hints == IF stage = "loading" THEN {"kAbortedByNavigation"} ELSE {}
  IN CASE call.fn = "isPending" /\ call.at = "one" ->
            {"kOk"} \cup (IF stage = "loading" THEN {"kNoSuchExecutionContext"} ELSE {})
       [] call.fn = "isPending" /\ call.at = "document" ->
            IF stage = "blank" THEN {"blank"}
            ELSE {"page"} \cup hints \cup (IF stage = "complete" THEN {"aboutBlank"} ELSE {})
       [] call.fn = "onSuccess" -> {IF stage = "blank" THEN "noUrl" ELSE "url"} \cup hints
       [] OTHER -> IF stage = "gone" THEN {"kNoSuchExecutionContext"}
                   ELSE IF stage = "loading" THEN {stage} \cup Hints
                   ELSE IF stage = "interactive" THEN {stage} ELSE {"complete"}

InInbox(i) == \E k \in DOMAIN inbox : inbox[k].kind = "response" /\ inbox[k].to = i
Awaits(i) == trackerCalls[i].answer = "" /\ trackerCalls[i].at # "update" /\ ~InInbox(i)

AwaitsNavigate == /\ windowCommand.at = "navigate" /\ ~InInbox(0) /\ returned = NotReturned
                  /\ \A i \in DOMAIN trackerCalls : trackerCalls[i].fn # "onSuccess"

\* Commands are answered in the order they were sent in.
BrowserAnswers ==
  /\ BrowserStep /\ shownDialog = "none" /\ document["top"] # "crashed"
  /\ \E i \in DOMAIN trackerCalls :
       /\ Awaits(i) /\ \A j \in 1..i - 1 : ~Awaits(j)
       /\ \E v \in Yields(trackerCalls[i]) : Emit(<<Response(i, v)>>)
  /\ UNCHANGED browserVars

\* Page.navigate is answered: the load has begun, is a jump within the page, or failed.
BrowserNavigates ==
  /\ BrowserStep /\ shownDialog = "none" /\ document["top"] # "crashed"
  /\ AwaitsNavigate
  /\ \/ /\ document["top"] = "complete" /\ To("top", "started")
        /\ Emit(<<Event("frameStartedLoading", "top"), Response(0, "kOk")>>)
     \/ /\ UNCHANGED document
        /\ \E v \in {"kOk", "netError"} : Emit(<<Response(0, v)>>)
  /\ UNCHANGED <<shownDialog, disturbances>>
-----------------------------------------------------------------------------
\* NavigationTracker.
HasCurrentFrame == currentFrame # ""

GetLoadingState ==
  IF ~HasCurrentFrame \/ timedOut THEN "notLoading" ELSE frameStates[currentFrame]

\* The assignment to *loading_state_; without a current frame it goes to dummy_state_.
SetLoadingState(s) ==
  frameStates' = IF HasCurrentFrame THEN [frameStates EXCEPT ![currentFrame] = s]
                 ELSE frameStates

Put(f, s) == [g \in DOMAIN frameStates \cup {f} |-> IF g = f THEN s ELSE frameStates[g]]

\* SetFrame; the strategy "none" has no frames.
SetFrame(f) ==
  currentFrame' = IF pageLoadStrategy = "none" THEN currentFrame
                  ELSE IF f \in DOMAIN frameStates THEN f ELSE ""

CheckFailed(status) ==
  IF status \in Hints \cup {"kUnexpectedAlertOpen", "kTimeout", "kDisconnected", "kTabCrashed"}
  THEN status ELSE "kUnknownError"

IsError(answer) == answer \in Hints \cup Failures \cup {"kUnexpectedAlertOpen", "kTabCrashed"}

Call(fn, at, f) == [fn |-> fn, at |-> at, frame |-> f, answer |-> ""]
Depth == Len(trackerCalls)
Top == trackerCalls[Depth]
Front == SubSeq(trackerCalls, 1, Depth - 1)
Push(call) == trackerCalls' = Append(trackerCalls, call)

\* A response to a call that has ended is ignored.
Forget(i) == SelectSeq(inbox, LAMBDA m : m.kind # "response" \/ m.to # i)

\* A handler of an event failed: so does the command or the wait that read the event.
FailReader(calls, status) ==
  IF calls = <<>>
  THEN /\ trackerCalls' = calls
       /\ returned' = [of |-> "event", status |-> status, pending |-> FALSE]
  ELSE trackerCalls' = [calls EXCEPT ![Len(calls)].answer = status] /\ UNCHANGED returned

Reads == /\ returned = NotReturned
         /\ windowCommand.at \in {"start", "navigate", "wait", "stop"}
         /\ trackerCalls # <<>> => Top.answer = "" /\ Top.at # "update"

LoadEvents == {"loadEventFired"}
              \cup (IF pageLoadStrategy = "eager" THEN {"domContentEventFired"} ELSE {})

\* OnEvent; a load event makes the tracker look at the state of the current frame.
OnEvent(m) ==
  /\ m.kind \notin {"response", "javascriptDialogOpening", "javascriptDialogClosed", "targetCrashed"}
  /\ IF pageLoadStrategy = "none" THEN UNCHANGED <<frameStates, currentFrame>>
     ELSE CASE m.kind \in LoadEvents ->
                 frameStates' = Put("top", "notLoading") /\ UNCHANGED currentFrame
            [] m.kind = "frameAttached" ->
                 frameStates' = Put(m.frame, "unknown") /\ UNCHANGED currentFrame
            [] m.kind = "frameDetached" ->
                 /\ frameStates' = [f \in DOMAIN frameStates \ {m.frame} |-> frameStates[f]]
                 /\ currentFrame' = IF currentFrame = m.frame THEN "" ELSE currentFrame
            [] m.kind = "frameStartedLoading" ->
                 frameStates' = Put(m.frame, "loading") /\ UNCHANGED currentFrame
            [] m.kind = "frameStoppedLoading" ->
                 frameStates' = Put(m.frame, "notLoading") /\ UNCHANGED currentFrame
            [] OTHER -> UNCHANGED <<frameStates, currentFrame>>
  /\ inbox' = Tail(inbox)
  /\ IF pageLoadStrategy # "none" /\ m.kind \in LoadEvents /\ HasCurrentFrame
     THEN Depth < MaxCalls /\ Push(Call("onEvent", "ready", currentFrame))
     ELSE UNCHANGED trackerCalls
  /\ UNCHANGED <<returned, dialogTypes, shownDialog>>

OnCrash(m) ==
  /\ m.kind = "targetCrashed"
  /\ frameStates' = [f \in {"top"} |-> "notLoading"] /\ currentFrame' = "top"
  /\ inbox' = Tail(inbox) /\ FailReader(trackerCalls, "kTabCrashed")
  /\ UNCHANGED <<dialogTypes, shownDialog>>

\* A dialog blocks the commands the browser has not answered, unless it is accepted at once.
OnDialog(m) ==
  /\ m.kind = "javascriptDialogOpening"
  /\ IF m.frame = "beforeunload" /\ autoAccept
     THEN /\ shownDialog' = "none" /\ inbox' = Tail(inbox)
          /\ UNCHANGED <<dialogTypes, trackerCalls, returned>>
     ELSE /\ dialogTypes' = Append(dialogTypes, m.frame) /\ UNCHANGED shownDialog
          /\ inbox' = Tail(inbox) \o (IF AwaitsNavigate
                                       THEN <<Response(0, "kUnexpectedAlertOpen")>> ELSE <<>>)
          /\ trackerCalls' = [i \in DOMAIN trackerCalls |->
                                IF Awaits(i)
                                THEN [trackerCalls[i] EXCEPT !.answer = "kUnexpectedAlertOpen"]
                                ELSE trackerCalls[i]]
          /\ UNCHANGED returned
  /\ UNCHANGED <<frameStates, currentFrame>>

OnDialogClosed(m) ==
  /\ m.kind = "javascriptDialogClosed" /\ dialogTypes' = <<>> /\ inbox' = Tail(inbox)
  /\ UNCHANGED <<frameStates, currentFrame, trackerCalls, returned, shownDialog>>

OnResponse(m) ==
  /\ m.kind = "response" /\ m.to > 0
  /\ inbox' = Tail(inbox)
  /\ trackerCalls' = [trackerCalls EXCEPT ![m.to].answer = m.value]
  /\ UNCHANGED <<frameStates, currentFrame, dialogTypes, returned, shownDialog>>

\* OnCommandSuccess of Page.navigate; the command may have timed out meanwhile.
OnCommandSuccess(m) ==
  /\ m.kind = "response" /\ m.to = 0 /\ inbox' = Tail(inbox)
  /\ UNCHANGED <<currentFrame, dialogTypes, shownDialog>>
  /\ LET returns(status) ==
           /\ returned' = [of |-> "navigate", status |-> status, pending |-> FALSE]
           /\ UNCHANGED <<frameStates, trackerCalls>>
     IN IF m.value # "kOk"
        THEN returns(IF m.value = "netError" THEN "kUnknownError" ELSE m.value)
        ELSE \/ /\ HasCurrentFrame /\ GetLoadingState # "loading"
                /\ SetLoadingState("unknown") /\ UNCHANGED returned
                /\ Push(Call("onSuccess", "url", "top"))
             \/ GetLoadingState = "loading" /\ returns("kOk")
             \/ returns("kOk")

ProcessNextMessage ==
  /\ Reads /\ inbox # <<>>
  /\ \/ OnEvent(Head(inbox)) \/ OnCrash(Head(inbox)) \/ OnDialog(Head(inbox))
     \/ OnDialogClosed(Head(inbox)) \/ OnResponse(Head(inbox)) \/ OnCommandSuccess(Head(inbox))
  /\ UNCHANGED <<sessionVars, sessionFrame, promptText, document, disturbances, timedOut,
                 windowCommand, windowCommands>>

TrackerStep ==
  UNCHANGED <<sessionVars, sessionFrame, promptText, document, shownDialog, currentFrame,
              timedOut, dialogTypes, windowCommand, windowCommands>>

\* A command of the tracker times out or fails.
CommandFails ==
  /\ Reads /\ trackerCalls # <<>> /\ Disturbs
  /\ \E s \in Failures : trackerCalls' = [trackerCalls EXCEPT ![Depth].answer = s]
  /\ inbox' = Forget(Depth) /\ TrackerStep /\ UNCHANGED <<returned, frameStates>>

Answered(fn, at) == /\ returned = NotReturned /\ trackerCalls # <<>>
                    /\ Top.fn = fn /\ Top.at = at /\ Top.answer # ""
Return(of, status, pending) ==
  /\ trackerCalls' = Front /\ inbox' = Forget(Depth)
  /\ returned' = [of |-> of, status |-> status, pending |-> pending]

\* IsPendingNavigation after its round trip to the renderer.  The error
\* "Inspected target navigated or closed", which stands for a navigation that is pending, is not
\* among the answers here.
AfterRoundTrip ==
  /\ Answered("isPending", "one") /\ TrackerStep /\ UNCHANGED disturbances /\ UNCHANGED frameStates
  /\ CASE Top.answer \in {"kDisconnected", "kTargetDetached"} ->
            Return("pending", Top.answer, FALSE)
       [] Top.answer = "kUnexpectedAlertOpen" -> Return("pending", "kOk", FALSE)
       [] /\ IsError(Top.answer)
          /\ Top.answer \notin {"kDisconnected", "kTargetDetached", "kUnexpectedAlertOpen"} ->
            Return("pending", CheckFailed(Top.answer), FALSE)
       [] ~IsError(Top.answer) /\ HasCurrentFrame /\ GetLoadingState = "unknown" ->
            /\ trackerCalls' = Append(Front, Call("isPending", "document", "top"))
            /\ UNCHANGED <<returned, inbox>>
       [] OTHER -> Return("pending", "kOk", GetLoadingState = "loading")

\* The tracker does not know the state: the document of a window that waits for its page is
\* a dummy.
AfterDocument ==
  /\ Answered("isPending", "document") /\ TrackerStep /\ UNCHANGED disturbances
  /\ CASE IsError(Top.answer) ->
            Return("pending", CheckFailed(Top.answer), FALSE) /\ UNCHANGED frameStates
       [] ~IsError(Top.answer) /\ ~HasCurrentFrame ->
            Return("pending", "kOk", FALSE) /\ UNCHANGED frameStates
       [] HasCurrentFrame /\ Top.answer = "aboutBlank" ->
            Return("pending", "kOk", FALSE) /\ SetLoadingState("notLoading")
       [] HasCurrentFrame /\ Top.answer = "blank" ->
            Return("pending", "kOk", TRUE) /\ SetLoadingState("loading")
       [] HasCurrentFrame /\ Top.answer = "page" ->
            /\ trackerCalls' = Append(Append(Front, [Top EXCEPT !.at = "update"]),
                                      Call("update", "ready", currentFrame))
            /\ UNCHANGED <<returned, inbox, frameStates>>

AfterUpdate ==
  /\ returned.of = "update" /\ TrackerStep /\ UNCHANGED disturbances
  /\ inbox' = Forget(Depth) /\ trackerCalls' = Front
  /\ LET hint == returned.status \in Hints
         reply(status, pending) ==
           returned' = [of |-> "pending", status |-> status, pending |-> pending]
     IN IF returned.status # "kOk" /\ ~hint
        THEN reply(CheckFailed(returned.status), FALSE) /\ UNCHANGED frameStates
        ELSE /\ IF hint THEN SetLoadingState("loading") ELSE UNCHANGED frameStates
             /\ reply("kOk", (IF hint /\ HasCurrentFrame /\ ~timedOut THEN "loading"
                              ELSE GetLoadingState) = "loading")

\* What the ready state that a script returned says, once it is still of interest.
Learn(answer) ==
  SetLoadingState(IF answer = "complete" \/ (pageLoadStrategy = "eager" /\ answer = "interactive")
                  THEN "notLoading" ELSE "loading")
LearnsAlways(answer) == TRUE
\* UpdateCurrentLoadingState: while the script ran events may have told that the page is loaded.
Learns(answer) == GetLoadingState # "notLoading"

UpdateCurrentLoadingState ==
  \E fn \in {"update", "onEvent"} :
    /\ Answered(fn, "ready") /\ TrackerStep /\ UNCHANGED disturbances
    /\ LET failed == IsError(Top.answer) /\ Top.answer # "kNoSuchExecutionContext"
       IN /\ IF Learns(Top.answer) /\ ~failed THEN Learn(Top.answer) ELSE UNCHANGED frameStates
          /\ LET status == IF Learns(Top.answer) /\ failed THEN CheckFailed(Top.answer) ELSE "kOk"
             IN IF fn = "update" THEN Return("update", status, FALSE)
                ELSE /\ inbox' = Forget(Depth)
                     /\ IF status = "kOk" THEN trackerCalls' = Front /\ UNCHANGED returned
                        ELSE FailReader(Front, status)

AfterUrl ==
  /\ Answered("onSuccess", "url") /\ TrackerStep /\ UNCHANGED disturbances
  /\ IF IsError(Top.answer) THEN UNCHANGED frameStates
     ELSE IF GetLoadingState = "unknown" /\ Top.answer = "noUrl" THEN SetLoadingState("loading")
     ELSE UNCHANGED frameStates
  /\ Return("navigate", IF IsError(Top.answer) THEN CheckFailed(Top.answer) ELSE "kOk", FALSE)
-----------------------------------------------------------------------------
\* WaitForPendingNavigations and the commands.
CommandStep == UNCHANGED <<sessionVars, document, inbox, frameStates, trackerCalls,
                           windowCommands>>

At(at) == windowCommand' = [windowCommand EXCEPT !.at = at]
Finish(status) == windowCommand' = [windowCommand EXCEPT !.at = "idle", !.status = status]

\* What ExecuteWindowCommand returns after its last wait.
FinalStatus(status, waited) ==
  CASE status = "kOk" /\ waited \notin {"kOk", "kUnexpectedAlertOpen"} -> waited
    [] status = "kUnexpectedAlertOpen" -> "kOk"
    [] status = "kUnexpectedAlertOpen_Keep" -> "kUnexpectedAlertOpen"
    [] status \in Hints -> "kTimeout"
    [] OTHER -> status

\* The loop goes on to another attempt, the last one in the top frame, or to the last wait.
Retry(status) ==
  IF windowCommand.attempt < 2
  THEN /\ windowCommand' = [windowCommand EXCEPT !.at = "wait", !.attempt = @ + 1]
       /\ IF windowCommand.attempt = 1 THEN sessionFrame' = "top" /\ SetFrame("top")
          ELSE UNCHANGED <<sessionFrame, currentFrame>>
  ELSE /\ windowCommand' = [windowCommand EXCEPT !.at = "wait", !.attempt = 3, !.status = status]
       /\ UNCHANGED <<sessionFrame, currentFrame>>

LastWait(status) ==
  /\ windowCommand' = [windowCommand EXCEPT !.at = "wait", !.attempt = 3, !.status = status]
  /\ UNCHANGED <<sessionFrame, currentFrame>>

\* command.Run has returned.
RunReturns(status) ==
  CASE status \in Hints \cup {"kTimeout"} -> Retry(status)
    [] status \in {"kDisconnected", "kTargetDetached"} ->
         Finish(status) /\ UNCHANGED <<sessionFrame, currentFrame>>
    [] status = "kOk" -> LastWait(status)
    [] OTHER -> /\ windowCommand' = [windowCommand EXCEPT !.at = "check", !.status = status]
                /\ UNCHANGED <<sessionFrame, currentFrame>>

WaitReturns(status) ==
  /\ timedOut' = FALSE
  /\ IF windowCommand.kind = "alert"
     THEN IF status \in {"kOk", "kUnexpectedAlertOpen"} THEN At("run") ELSE Finish(status)
     ELSE IF windowCommand.attempt = 3 THEN Finish(FinalStatus(windowCommand.status, status))
     ELSE IF status = "kOk" THEN At("run") ELSE Finish(status)

NewWindowCommand ==
  /\ pageLoadStrategy # "unset" /\ windowCommand.at = "idle" /\ windowCommands < MaxWindowCommands
  /\ windowCommands' = windowCommands + 1
  /\ \E kind \in {"navigate", "other", "alert"} :
       windowCommand' = [kind |-> kind, at |-> "start", attempt |-> 0, status |-> "kOk"]
  /\ UNCHANGED <<sessionVars, sessionFrame, promptText, browserVars, inbox, frameStates,
                 currentFrame, timedOut, dialogTypes, trackerCalls, returned>>

Quiet == inbox = <<>> /\ trackerCalls = <<>> /\ returned = NotReturned

\* HandleDialog.
CloseDialog == shownDialog' = "none" /\ dialogTypes' = Tail(dialogTypes)

\* ExecuteWindowCommand has handled the events received so far and looks for a dialog.  The
\* type DevTools gives a beforeunload dialog is not the one GetConfiguration knows.
LooksForDialog ==
  /\ windowCommand.at = "start" /\ Quiet /\ CommandStep /\ UNCHANGED disturbances
  /\ UNCHANGED <<sessionFrame, promptText, currentFrame, timedOut, returned>>
  /\ IF dialogTypes = <<>> \/ windowCommand.kind = "alert"
     THEN At("wait") /\ UNCHANGED <<shownDialog, dialogTypes>>
     ELSE IF Head(dialogTypes) \notin DOMAIN promptHandler
     THEN Finish("kInvalidArgument") /\ UNCHANGED <<shownDialog, dialogTypes>>
     ELSE LET handler == promptHandler[Head(dialogTypes)] IN
       /\ IF handler.type \in {"accept", "dismiss"} THEN CloseDialog
          ELSE UNCHANGED <<shownDialog, dialogTypes>>
       /\ IF handler.notify THEN Finish("kUnexpectedAlertOpen") ELSE At("wait")

\* HandleReceivedEvents failed.
EventsFail ==
  /\ windowCommand.at = "start" /\ returned.of = "event" /\ CommandStep /\ UNCHANGED disturbances
  /\ returned' = NotReturned /\ Finish(returned.status)
  /\ UNCHANGED <<sessionFrame, promptText, currentFrame, timedOut, shownDialog, dialogTypes>>

\* HandleEventsUntil has handled all messages and asks IsNotPendingNavigation, which does
\* not ask about a frame that is gone.  "check" is the question of ExecuteWindowCommand.
AsksIfPending ==
  /\ windowCommand.at \in {"wait", "stop", "check"}
  /\ windowCommand.at = "check" \/ inbox = <<>>
  /\ trackerCalls = <<>> /\ returned = NotReturned
  /\ UNCHANGED <<sessionVars, sessionFrame, promptText, browserVars, inbox, frameStates, currentFrame,
                 timedOut, dialogTypes, windowCommand, windowCommands>>
  /\ IF windowCommand.at # "check" /\ document[sessionFrame] = "gone"
     THEN /\ returned' = [of |-> "gone", status |-> "kOk", pending |-> FALSE]
          /\ UNCHANGED trackerCalls
     ELSE IF pageLoadStrategy = "none" \/ dialogTypes # <<>>
     THEN /\ returned' = [of |-> "pending", status |-> "kOk", pending |-> FALSE]
          /\ UNCHANGED trackerCalls
     ELSE Push(Call("isPending", "one", "top")) /\ UNCHANGED returned

StartStopping == timedOut' = (pageLoadStrategy # "none") /\ At("stop")

\* One round of a wait has ended.
WaitContinues ==
  /\ windowCommand.at \in {"wait", "stop"} /\ returned.of \in {"pending", "event", "gone"}
  /\ CommandStep /\ UNCHANGED disturbances /\ returned' = NotReturned
  /\ UNCHANGED <<sessionFrame, promptText, currentFrame, shownDialog, dialogTypes>>
  /\ LET first == windowCommand.at = "wait"
         status == IF returned.of = "pending" /\ returned.status = "kOk" /\ dialogTypes # <<>>
                   THEN "kUnexpectedAlertOpen" ELSE returned.status
         stay == UNCHANGED <<timedOut, windowCommand>>
     IN CASE status = "kOk" /\ (returned.pending \/ returned.of = "event") -> stay
          [] status = "kOk" /\ ~returned.pending /\ returned.of # "event" ->
               WaitReturns(IF first THEN "kOk" ELSE "kTimeout")
          [] first /\ status \in Hints -> stay
          [] ~first /\ status \in Hints ->
               \* The loop after Page.stopLoading tests the status of the first one.
               WaitReturns(status)
          [] first /\ status = "kTimeout" -> StartStopping
          [] first /\ status = "kTargetDetached" ->
               \* The wait goes on with the page that takes over, see WebViews.
               \E s \in {"kOk", "kTimeout", "kNoSuchWindow"} : WaitReturns(s)
          [] OTHER -> WaitReturns(status)

WaitTimesOut ==
  /\ windowCommand.at \in {"wait", "stop"} /\ trackerCalls = <<>> /\ returned = NotReturned
  /\ CommandStep /\ Disturbs
  /\ IF windowCommand.at = "wait" THEN StartStopping ELSE WaitReturns("kTimeout")
  /\ UNCHANGED <<sessionFrame, promptText, currentFrame, returned, shownDialog, dialogTypes>>

\* The commands that load a page, in ExecuteGet, ExecuteGoBack and so on.
RunNavigates ==
  /\ windowCommand.at = "run" /\ windowCommand.kind = "navigate"
  /\ UNCHANGED <<sessionVars, promptText, shownDialog, disturbances, frameStates, timedOut,
                 dialogTypes, trackerCalls, returned, windowCommands>>
  /\ IF pageLoadStrategy # "none"
     THEN At("navigate") /\ UNCHANGED <<sessionFrame, currentFrame, document, inbox>>
     ELSE /\ sessionFrame' = "top" /\ UNCHANGED <<currentFrame, document, inbox>>
          /\ windowCommand' = [windowCommand EXCEPT !.at = "wait", !.attempt = 3]

NavigateReturns ==
  /\ windowCommand.at = "navigate" /\ returned.of \in {"navigate", "event"}
  /\ returned' = NotReturned /\ inbox' = Forget(0)
  /\ IF returned.status = "kOk"
     THEN /\ sessionFrame' = "top" /\ SetFrame("top")
          /\ windowCommand' = [windowCommand EXCEPT !.at = "wait", !.attempt = 3, !.status = "kOk"]
     ELSE RunReturns(returned.status)
  /\ UNCHANGED <<sessionVars, promptText, browserVars, frameStates, timedOut, dialogTypes,
                 trackerCalls, windowCommands>>

NavigateTimesOut ==
  /\ windowCommand.at = "navigate" /\ trackerCalls = <<>> /\ returned = NotReturned
  /\ returned' = [of |-> "navigate", status |-> "kTimeout", pending |-> FALSE]
  /\ CommandStep /\ Disturbs
  /\ UNCHANGED <<sessionFrame, promptText, currentFrame, timedOut, windowCommand, shownDialog, dialogTypes>>

\* Any other window command; one of them switches to the child frame.
RunOther ==
  /\ windowCommand.at = "run" /\ windowCommand.kind = "other" /\ CommandStep
  /\ UNCHANGED <<promptText, timedOut, returned, shownDialog, dialogTypes>>
  /\ \/ RunReturns("kOk") /\ UNCHANGED disturbances
     \/ /\ Disturbs
        /\ \E s \in {"kAbortedByNavigation", "kTimeout", "kDisconnected", "kNoSuchElement",
                      "kUnexpectedAlertOpen", "kUnexpectedAlertOpen_Keep"} : RunReturns(s)
     \/ /\ UNCHANGED disturbances
        /\ document["child"] # "gone" /\ sessionFrame' = "child" /\ SetFrame("child")
        /\ windowCommand' = [windowCommand EXCEPT !.at = "wait", !.attempt = 3, !.status = "kOk"]

CheckReturns ==
  /\ windowCommand.at = "check" /\ returned.of = "pending" /\ CommandStep /\ UNCHANGED disturbances
  /\ returned' = NotReturned
  /\ IF returned.status # "kOk"
     THEN Finish(returned.status) /\ UNCHANGED <<sessionFrame, currentFrame>>
     ELSE IF returned.pending THEN Retry(windowCommand.status) ELSE LastWait(windowCommand.status)
  /\ UNCHANGED <<promptText, timedOut, shownDialog, dialogTypes>>

\* ExecuteGetAlert and ExecuteGetAlertText, ExecuteSetAlertText, ExecuteAcceptAlert and
\* ExecuteDismissAlert.
RunAlert ==
  /\ windowCommand.at = "run" /\ windowCommand.kind = "alert" /\ CommandStep /\ UNCHANGED disturbances
  /\ UNCHANGED <<sessionFrame, currentFrame, timedOut, returned>>
  /\ \/ /\ UNCHANGED <<promptText, shownDialog, dialogTypes>>
        /\ Finish(IF dialogTypes = <<>> THEN "kNoSuchAlert" ELSE "kOk")
     \/ /\ UNCHANGED <<shownDialog, dialogTypes>>
        /\ IF dialogTypes # <<>> /\ Head(dialogTypes) = "prompt"
           THEN promptText' = "typed" /\ Finish("kOk")
           ELSE /\ UNCHANGED promptText
                /\ Finish(CASE dialogTypes = <<>> -> "kNoSuchAlert"
                            [] dialogTypes # <<>> /\ Head(dialogTypes) = "alert" ->
                                 "kElementNotInteractable"
                            [] OTHER -> "kUnsupportedOperation")
     \/ /\ promptText' = "default"
        /\ IF dialogTypes = <<>> THEN Finish("kNoSuchAlert") /\ UNCHANGED <<shownDialog, dialogTypes>>
           ELSE CloseDialog /\ Finish("kOk")

Browser == \/ \E f \in Frames : \/ BrowserStarts(f) \/ BrowserCommits(f) \/ BrowserParses(f)
                                \/ BrowserLoads(f) \/ BrowserStops(f)
           \/ BrowserAttachesFrame \/ BrowserDetachesFrame
           \/ \E type \in DialogTypes : BrowserShowsDialog(type)
           \/ UserClosesDialog \/ BrowserCrashes \/ BrowserAnswers \/ BrowserNavigates

Driver == \/ NewSession \/ ProcessNextMessage \/ CommandFails \/ AfterRoundTrip \/ AfterDocument
          \/ AfterUpdate \/ UpdateCurrentLoadingState \/ AfterUrl \/ NewWindowCommand
          \/ LooksForDialog \/ EventsFail \/ AsksIfPending \/ WaitContinues \/ WaitTimesOut
          \/ RunNavigates \/ NavigateReturns \/ NavigateTimesOut \/ RunOther \/ CheckReturns
          \/ RunAlert

Next == Browser \/ Driver

Spec == Init /\ [][Next]_vars
-----------------------------------------------------------------------------
\* Types; loading_state_ always points into frame_to_state_map_ or to dummy_state_.
TypeOK ==
  /\ pageLoadStrategy \in {"unset", "normal", "eager", "none"}
  /\ DOMAIN frameStates \subseteq Frames
  /\ \A f \in DOMAIN frameStates : frameStates[f] \in {"unknown", "loading", "notLoading"}
  /\ currentFrame \in DOMAIN frameStates \cup {""}
  /\ timedOut => windowCommand.at = "stop"
  /\ windowCommand.at \in {"idle", "start", "wait", "stop", "run", "navigate", "check"}
  /\ windowCommand.attempt \in 0..3

\* A frame the tracker takes for loading is loading: once all messages are read no waiter
\* waits for the end of a load that is over (the deadlock that the second look at the state
\* in UpdateCurrentLoadingState is to avoid).
LoadingIsLoading ==
  Quiet /\ HasCurrentFrame /\ GetLoadingState = "loading"
    => document[currentFrame] \in {"blank", "started", "loading", "interactive"}
=============================================================================
