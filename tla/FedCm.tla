-------------------------------- MODULE FedCm --------------------------------
(***************************************************************************)
(* Federated sign-in dialogs: the tracker that learns from events which    *)
(* dialog is shown (chrome/fedcm_tracker.cc), and the commands that answer *)
(* it (fedcm_commands.cc).  A dialog may close, and the next one open,     *)
(* before, while and after a command is sent.                              *)
(***************************************************************************)
EXTENDS Naturals, Sequences

CONSTANTS
  MaxFedCmCommands,  \* bound: commands
  MaxFedCmDialogs    \* bound: dialogs

VARIABLES
  shown,           \* the browser's dialog, or 0
  fedCmEvents,     \* the events under way: <<"shown" or "closed", dialog>>
  tracker,         \* fedcm_tracker_: "none" or "enabled"
  lastDialog,      \* last_dialog_id_, or 0
  listening,       \* the client lists a tracker; "dangling" if that was deleted
  fedCmCall,       \* the command under way
  opened, fedCmCommands

vars == <<shown, fedCmEvents, tracker, lastDialog, listening, fedCmCall, opened, fedCmCommands>>

NoFedCmCall == [name |-> "none", step |-> "idle", dialog |-> 0, answer |-> "none"]

Init ==
  /\ shown = 0 /\ fedCmEvents = <<>> /\ tracker = "none" /\ lastDialog = 0 /\ listening = {}
  /\ fedCmCall = NoFedCmCall /\ opened = 0 /\ fedCmCommands = 0
-----------------------------------------------------------------------------
\* Events are sent once FedCm.enable has been.
Emit(event, queue) == IF tracker = "enabled" THEN Append(queue, event) ELSE queue

ShowDialog ==
  /\ shown = 0 /\ opened < MaxFedCmDialogs /\ opened' = opened + 1 /\ shown' = opened'
  /\ fedCmEvents' = Emit(<<"shown", shown'>>, fedCmEvents)
  /\ UNCHANGED <<tracker, lastDialog, listening, fedCmCall, fedCmCommands>>

\* The user or the page closes it.
CloseDialog ==
  /\ shown # 0 /\ shown' = 0 /\ fedCmEvents' = Emit(<<"closed", shown>>, fedCmEvents)
  /\ UNCHANGED <<tracker, lastDialog, listening, fedCmCall, opened, fedCmCommands>>

AfterShown(event) == IF event[1] = "shown" THEN event[2] ELSE lastDialog

\* FedCmTracker::OnEvent, while a command of any kind is sent.
AfterEvent(event) == IF event[1] = "closed" THEN 0 ELSE event[2]

OnEvent ==
  /\ fedCmEvents # <<>> /\ lastDialog' = AfterEvent(Head(fedCmEvents))
  /\ fedCmEvents' = Tail(fedCmEvents)
  /\ UNCHANGED <<shown, tracker, listening, fedCmCall, opened, fedCmCommands>>
-----------------------------------------------------------------------------
Commands == {"cancel", "selectAccount", "click", "openUrl", "getAccounts", "getTitle", "setDelay"}

Start(name) ==
  /\ fedCmCall.step = "idle" /\ fedCmCommands < MaxFedCmCommands
  /\ fedCmCommands' = fedCmCommands + 1
  /\ fedCmCall' = [NoFedCmCall EXCEPT !.name = name, !.step = "tracker"]
  /\ UNCHANGED <<shown, fedCmEvents, tracker, lastDialog, listening, opened>>

Answer(a) == fedCmCall' = [fedCmCall EXCEPT !.step = "answered", !.answer = a]

\* GetFedCmTracker: a tracker that could not be enabled is deleted, but the client still lists it.
GetFedCmTracker ==
  /\ fedCmCall.step = "tracker"
  /\ \/ /\ tracker = "enabled" /\ UNCHANGED <<tracker, lastDialog, listening>>
        /\ fedCmCall' = [fedCmCall EXCEPT !.step = "check"]
     \/ /\ tracker = "none" /\ tracker' = "enabled" /\ lastDialog' = 0
        /\ listening' = listening \cup {"tracker"}
        /\ fedCmCall' = [fedCmCall EXCEPT !.step = "check"]
     \/ /\ tracker = "none" /\ listening' = listening \cup {"dangling"} /\ Answer("error")
        /\ UNCHANGED <<tracker, lastDialog>>
  /\ UNCHANGED <<shown, fedCmEvents, opened, fedCmCommands>>

\* HasDialog, the parameters, and the commands that only read what the tracker knows.
CheckDialog ==
  /\ fedCmCall.step = "check"
  /\ \/ fedCmCall.name # "setDelay" /\ lastDialog = 0 /\ Answer("no such alert")
     \/ /\ lastDialog # 0 /\ fedCmCall.name \in {"selectAccount", "click", "openUrl", "setDelay"}
        /\ Answer("invalid argument")
     \/ lastDialog # 0 /\ fedCmCall.name \in {"getAccounts", "getTitle"} /\ Answer("ok")
     \/ /\ \/ lastDialog # 0 /\ fedCmCall.name \in {"cancel", "selectAccount", "click", "openUrl"}
           \/ fedCmCall.name = "setDelay"
        /\ fedCmCall' = [fedCmCall EXCEPT !.step = "send", !.dialog = lastDialog]
  /\ UNCHANGED <<shown, fedCmEvents, tracker, lastDialog, listening, opened, fedCmCommands>>

\* The browser: a command for another dialog than the one that is shown fails, and so may others.
Send ==
  /\ fedCmCall.step = "send"
  /\ \/ /\ fedCmCall' = [fedCmCall EXCEPT !.step = "received", !.answer = "error"]
        /\ UNCHANGED <<shown, fedCmEvents>>
     \/ /\ fedCmCall.dialog = shown \/ fedCmCall.name = "setDelay"
        /\ fedCmCall' = [fedCmCall EXCEPT !.step = "received", !.answer = "ok"]
        /\ IF fedCmCall.name \in {"cancel", "selectAccount", "click"}
           THEN shown' = 0 /\ fedCmEvents' = Emit(<<"closed", shown>>, fedCmEvents)
           ELSE UNCHANGED <<shown, fedCmEvents>>
  /\ UNCHANGED <<tracker, lastDialog, listening, opened, fedCmCommands>>

\* DialogClosed: whatever the answer after a cancel or a click, after a selection if it is OK.
ForgetsDialog(name, answer) ==
  name \in {"cancel", "click"} \/ (name = "selectAccount" /\ answer = "ok")

Receive ==
  /\ fedCmCall.step = "received"
  /\ lastDialog' = IF ForgetsDialog(fedCmCall.name, fedCmCall.answer) THEN 0 ELSE lastDialog
  /\ fedCmCall' = [fedCmCall EXCEPT !.step = "answered"]
  /\ UNCHANGED <<shown, fedCmEvents, tracker, listening, opened, fedCmCommands>>

EndCall ==
  /\ fedCmCall.step = "answered" /\ fedCmCall' = NoFedCmCall
  /\ UNCHANGED <<shown, fedCmEvents, tracker, lastDialog, listening, opened, fedCmCommands>>

Next ==
  \/ ShowDialog \/ CloseDialog \/ OnEvent \/ (\E c \in Commands : Start(c)) \/ GetFedCmTracker
  \/ CheckDialog \/ Send \/ Receive \/ EndCall

Spec == Init /\ [][Next]_vars
-----------------------------------------------------------------------------
TypeOK ==
  /\ shown \in 0..MaxFedCmDialogs /\ lastDialog \in 0..MaxFedCmDialogs
  /\ tracker \in {"none", "enabled"} /\ listening \subseteq {"tracker", "dangling"}

\* Once the events are handled, a dialog that the commands would be sent for is the one that is
\* shown: a dialog that was answered, or that closed by itself, is forgotten, in whichever order
\* the answer and the events come (FedCmTracker, ExecuteSelectAccount, ExecuteCancelDialog).
NoGhostDialog ==
  fedCmEvents = <<>> /\ fedCmCall.step \notin {"send", "received"} => lastDialog \in {0, shown}

\* Why it holds: with no event under way the tracker knows no dialog but the one that is shown, and
\* otherwise the last of the events will tell it.  Without a tracker there are no events.
EventsWillTell ==
  /\ tracker = "none" => lastDialog = 0 /\ fedCmEvents = <<>>
  /\ fedCmEvents = <<>> => lastDialog \in {0, shown}
  /\ fedCmEvents # <<>> => AfterEvent(fedCmEvents[Len(fedCmEvents)]) \in {0, shown}
=============================================================================
