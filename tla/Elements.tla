------------------------------ MODULE Elements ------------------------------
(***************************************************************************)
(* Commands on elements (element_commands.cc, element_util.cc) and the     *)
(* scripts they run in the page: WebViewImpl::CallFunction with the        *)
(* references of its arguments (chrome/web_view_impl.cc,                   *)
(* js/call_function.js).                                                   *)
(*                                                                         *)
(* A reference f.<frame>.d.<loader>.e.<node> is the only memory of an      *)
(* element: the driver keeps none.  A command is a sequence of scripts,    *)
(* and each script takes several round trips to the browser; between any   *)
(* two of them the page may navigate, drop a node or lose a frame, and the *)
(* browser may give the number of an old node to a new one.                *)
(***************************************************************************)
EXTENDS Naturals

CONSTANTS
  MaxPageChanges,     \* navigations, removed nodes and removed frames
  MaxElementCommands  \* commands of the client

VARIABLES
  loaderOf,           \* the document of each frame; 0 when the frame is gone
  nodeIs,             \* the element that the node number denotes now
  pageChanges,
  elementFrame,       \* Session::GetCurrentFrameId
  reference,          \* the reference that the client has been given
  elementCommand, elementCommands,
  scriptCall,         \* CallFunctionWithTimeoutInternal
  effects             \* how often the command has had its effect

vars == <<loaderOf, nodeIs, pageChanges, elementFrame, reference, elementCommand,
          elementCommands, scriptCall, effects>>

Frames == {"top", "sub"}
NavigationHints == {"kNoSuchExecutionContext", "kAbortedByNavigation"}
NoNode == [frame |-> "", loader |-> 0, attached |-> FALSE]
NoCall == [at |-> "none", frame |-> "", loader |-> 0, status |-> "kOk", node |-> NoNode]
NoCommand == [kind |-> "none", at |-> "done", pass |-> 1, attempt |-> 0, timedOut |-> FALSE,
              repeated |-> FALSE, status |-> "kOk"]

Init ==
  /\ loaderOf = [f \in Frames |-> 1] /\ nodeIs = NoNode /\ pageChanges = 0
  /\ elementFrame = "top" /\ reference = NoNode
  /\ elementCommand = NoCommand /\ elementCommands = 0
  /\ scriptCall = NoCall /\ effects = 0
-----------------------------------------------------------------------------
\* The commands, function by function: what is done at each point, and the points and
\* statuses that may follow when it succeeds.  "script" is a function called with the
\* element, "effect" one that acts on it, "plain" one without element, "parent" one called
\* in the frames above, "input" is what is sent to the browser process.
Does(what, next) == [what |-> what, next |-> next]

FindElementCommon ==
  [find      |-> Does("plain", {"find", "found", "kNoSuchElement", "kInvalidSelector"}),
   findChild |-> Does("script", {"findChild", "found", "kNoSuchElement", "kInvalidSelector"})]

\* GET_TAG, the image of an area, the wait until the element is displayed, its region.
GetElementClickableLocation ==
  [location  |-> Does("script", {"image", "displayed"}),
   image     |-> Does("script", {"displayed", "kUnknownError"}),
   displayed |-> Does("script", {"displayed", "kElementNotVisible", "region"}),
   region    |-> Does("script", {"kElementNotInteractable", "scroll"})]

\* Scroll the region in its frame, look whether the click would reach the element, and scroll
\* each frame in the one above it.
ScrollElementRegionIntoView ==
  [scroll    |-> Does("script", {"clickable"}),
   clickable |-> Does("script", {"clickable", "kElementClickIntercepted", "frames"}),
   frames    |-> Does("parent", {"located", "kUnknownError"})]

ExecuteClickElement ==
  [click     |-> Does("script", {"toggles", "fileInput", "location"}),
   toggles   |-> Does("script", {"selected", "select"}),
   selected  |-> Does("script", {"select"}),
   select    |-> Does("effect", {"kOk"}),
   fileInput |-> Does("script", {"kInvalidArgument", "location"}),
   press     |-> Does("input", {"kOk"})]

\* ExecuteTouchSingleTap, DoubleTap, LongPress and ExecuteFlick.
ExecuteTouch == [tap |-> Does("input", {"kOk"})]

ExecuteClearElement ==
  [clear     |-> Does("script", {"clearType", "editable", "readOnly"}),
   clearType |-> Does("script", {"readOnly", "editable"}),
   editable  |-> Does("script", {"readOnly", "shown"}),
   readOnly  |-> Does("script", {"kInvalidElementState", "shown"}),
   shown     |-> Does("script", {"shown", "kElementNotVisible", "clearing"}),
   clearing  |-> Does("effect", {"kOk"})]

FocusToElement ==
  [visible   |-> Does("script", {"enabled", "focused", "kElementNotVisible"}),
   focused   |-> Does("plain", {"enabled", "visible"}),
   enabled   |-> Does("script", {"kInvalidElementState", "focus", "type"}),
   focus     |-> Does("script", {"caret", "type"})]

ExecuteSendKeysToElement ==
  [keys      |-> Does("script", {"keysType"}),
   keysType  |-> Does("script", {"strict", "paths", "color", "content"}),
   strict    |-> Does("script", {"kElementNotVisible", "paths"}),
   paths     |-> Does("script", {"kInvalidArgument", "backend"}),
   color     |-> Does("effect", {"kOk"}),
   content   |-> Does("script", {"wasFocused", "topEditable"}),
   topEditable |-> Does("script", {"selection", "wasFocused"}),
   selection |-> Does("script", {"wasFocused"}),
   wasFocused |-> Does("plain", {"visible", "type"}),
   caret     |-> Does("script", {"type"}),
   type      |-> Does("input", {"kOk"})]

\* The commands that read something of an element.
ExecuteGetters ==
  [read      |-> Does("script", {"kOk"}),
   rect      |-> Does("script", {"size"}),
   size      |-> Does("script", {"kOk", "kUnknownError"}),
   isXml     |-> Does("plain", {"kOk", "kInvalidArgument", "read"}),
   submit    |-> Does("effect", {"kOk"})]

\* The commands of a page without element: its title and source, the storages' items.
ExecutePageCommands == [page |-> Does("plain", {"kOk"})]

ExecuteElementScreenshot ==
  [screenshot |-> Does("script", {"intoView"}),
   intoView  |-> Does("script", {"rect"})]

ExecuteSwitchToFrame ==
  [frame     |-> Does("plain", {"frameAgain", "kNoSuchFrame"}),
   frameAgain |-> Does("plain", {"identifier", "kUnknownError"}),
   identifier |-> Does("plain", {"switched"})]

ExecuteScripts ==
  [execute   |-> Does("effect", {"kOk", "kJavaScriptError"}),
   async     |-> Does("effect", {"kOk", "kJavaScriptError"})]

Functions == {FindElementCommon, GetElementClickableLocation, ScrollElementRegionIntoView,
              ExecuteClickElement, ExecuteTouch, ExecuteClearElement, FocusToElement,
              ExecuteSendKeysToElement, ExecuteGetters, ExecutePageCommands,
              ExecuteElementScreenshot,
              ExecuteSwitchToFrame, ExecuteScripts}

Kinds == {"find", "findChild", "click", "touch", "clear", "keys", "read", "rect", "isXml",
          "page", "submit", "screenshot", "frame", "execute", "async", "label"}

\* The first point of a command.
Start(kind) == IF kind = "touch" THEN "location" ELSE IF kind = "label" THEN "backend" ELSE kind

Line(at) == LET f == CHOOSE g \in Functions : at \in DOMAIN g IN f[at]
Points == UNION {DOMAIN f : f \in Functions}
-----------------------------------------------------------------------------
\* The page.  A navigation replaces the document of a frame, and a navigation of the top
\* frame takes the sub frame with it.
PageStep ==
  /\ elementCommand.at # "done" \/ elementCommands < MaxElementCommands
  /\ pageChanges < MaxPageChanges /\ pageChanges' = pageChanges + 1
  /\ UNCHANGED <<elementFrame, reference, elementCommand, elementCommands, scriptCall, effects>>

\* The new document may have a node with the old number.
Navigate(f) ==
  /\ PageStep /\ loaderOf[f] # 0
  /\ loaderOf' = [g \in Frames |-> CASE g = f -> loaderOf[f] + 1
                                     [] f = "top" /\ g = "sub" -> 0
                                     [] OTHER -> loaderOf[g]]
  /\ IF nodeIs # NoNode /\ (nodeIs.frame = f \/ f = "top")
     THEN nodeIs' \in {NoNode, [frame |-> f, loader |-> loaderOf[f] + 1, attached |-> TRUE]}
     ELSE UNCHANGED nodeIs

\* A script of the page takes the node out of the document; it lives while it is referred to.
RemoveNode ==
  /\ PageStep /\ nodeIs # NoNode
  /\ nodeIs' \in {NoNode, [nodeIs EXCEPT !.attached = FALSE]} /\ UNCHANGED loaderOf

RemoveFrame ==
  /\ PageStep /\ loaderOf["sub"] # 0
  /\ loaderOf' = [loaderOf EXCEPT !["sub"] = 0]
  /\ nodeIs' = IF nodeIs.frame = "sub" THEN NoNode ELSE nodeIs
-----------------------------------------------------------------------------
\* CallFunctionWithTimeoutInternal.
CallStep == UNCHANGED <<loaderOf, nodeIs, pageChanges, elementFrame, reference, elementCommand,
                        elementCommands, effects>>

FailCall(statuses) ==
  \E s \in statuses : scriptCall' = [scriptCall EXCEPT !.at = "returned", !.status = s]

UsesElement == Line(elementCommand.at).what \in {"script", "effect"}
CallFrame == IF Line(elementCommand.at).what = "parent" THEN "top" ELSE elementFrame

\* What a round trip yields while a navigation commits, or once the target of the frame is
\* detached; WrapIfTargetDetached.
RoundTripFails(f) ==
  IF loaderOf[f] = 0 THEN {"kNoSuchExecutionContext", "kAbortedByNavigation"}
  ELSE IF pageChanges > 0 THEN {"kAbortedByNavigation"} ELSE {}

CallFunction ==
  /\ scriptCall = NoCall /\ elementCommand.at \in Points
  /\ Line(elementCommand.at).what # "input"
  /\ \/ scriptCall' = [NoCall EXCEPT !.at = "loader", !.frame = CallFrame]
     \/ /\ loaderOf[CallFrame] = 0
        /\ scriptCall' = [NoCall EXCEPT !.at = "returned", !.status = "kTargetDetached"]
  /\ CallStep

\* The loader that GetLoaderId finds for a frame in the tree of frames.
LoaderOf(f) == loaderOf[f]

\* GetLoaderId and the context known for the frame.
GetLoaderId ==
  /\ scriptCall.at = "loader" /\ CallStep
  /\ \/ FailCall(RoundTripFails(scriptCall.frame))
     \/ /\ loaderOf[scriptCall.frame] # 0
        /\ scriptCall' = [scriptCall EXCEPT !.at = "resolve", !.loader = LoaderOf(scriptCall.frame)]

RefersToFrame(ref, call) == TRUE
\* A reference of another document of the frame is stale.
RefersToDocument(ref, call) == ref.loader = call.loader

\* ResolveElementReferencesInPlace; the number is looked up in whatever document is there.
\* An element of another frame is looked at again once the loader is known not to have changed.
ResolveElementReferenceInPlace ==
  /\ scriptCall.at = "resolve" /\ CallStep
  /\ CASE ~UsesElement -> scriptCall' = [scriptCall EXCEPT !.at = "again"]
       [] UsesElement /\ reference.frame # scriptCall.frame ->
            scriptCall' = [scriptCall EXCEPT !.at = "again", !.status = "kNoSuchElement"]
       [] /\ UsesElement /\ reference.frame = scriptCall.frame
          /\ ~RefersToDocument(reference, scriptCall) -> FailCall({"kStaleElementReference"})
       [] OTHER -> IF nodeIs = NoNode THEN FailCall({"kStaleElementReference"})
                   ELSE scriptCall' = [scriptCall EXCEPT !.at = "again", !.node = nodeIs]

CompareLoaders ==
  /\ scriptCall.at = "again" /\ CallStep
  /\ \/ FailCall(RoundTripFails(scriptCall.frame))
     \/ /\ loaderOf[scriptCall.frame] # 0
        /\ IF LoaderOf(scriptCall.frame) # scriptCall.loader THEN FailCall({"kAbortedByNavigation"})
           ELSE IF scriptCall.status # "kOk" THEN FailCall({scriptCall.status})
           ELSE scriptCall' = [scriptCall EXCEPT !.at = "call"]

\* Runtime.callFunctionOn in the context that was found, and callFunction in the page, which
\* refuses nodes that are out of the document.
RunsIn(call) == loaderOf[call.frame] = call.loader

Refused(call) == UsesElement /\ ~nodeIs.attached

RunFunction ==
  /\ scriptCall.at = "call"
  /\ IF ~RunsIn(scriptCall) THEN FailCall(NavigationHints) /\ UNCHANGED effects
     ELSE IF Refused(scriptCall) THEN FailCall({"kStaleElementReference"}) /\ UNCHANGED effects
     ELSE /\ effects' = IF Line(elementCommand.at).what = "effect" THEN effects + 1 ELSE effects
          /\ scriptCall' = [scriptCall EXCEPT !.at = "answer"]
  /\ UNCHANGED <<loaderOf, nodeIs, pageChanges, elementFrame, reference, elementCommand,
                 elementCommands>>

\* A document that goes away before the function has ended takes the answer with it; a function
\* may also take too long.
FunctionReturns ==
  /\ scriptCall.at = "answer" /\ CallStep
  /\ IF RunsIn(scriptCall) THEN FailCall({"kOk", "kTimeout"})
     ELSE FailCall({"kAbortedByNavigation", "kTargetDetached"})
-----------------------------------------------------------------------------
\* The commands.
NewElementCommand ==
  /\ elementCommand.at = "done" /\ elementCommands < MaxElementCommands
  /\ elementCommands' = elementCommands + 1 /\ effects' = 0
  /\ \E kind \in Kinds :
       /\ reference = NoNode => kind \in {"find", "frame"}
       /\ elementCommand' = [NoCommand EXCEPT !.kind = kind, !.at = Start(kind)]
  /\ UNCHANGED <<loaderOf, nodeIs, pageChanges, elementFrame, reference, scriptCall>>

\* What the command makes of the status of a step that failed.
Wrap(command, status) ==
  CASE command.kind = "click" /\ status = "kTargetDetached" ->
         IF command.at = "press" THEN "kOk" ELSE "kAbortedByNavigation"
    [] command.kind \in {"find", "findChild"} /\ status = "kTargetDetached" -> "kAbortedByNavigation"
    [] command.kind = "execute" /\ status \in {"kTargetDetached", "kTimeout"} ->
         "kScriptTimeout"
    [] command.kind = "async" /\ status \in {"kAbortedByNavigation", "kTimeout"} ->
         "kScriptTimeout"
    [] command.kind = "keys" /\ command.at \in DOMAIN FocusToElement -> "kElementNotInteractable"
    [] OTHER -> status

\* ExecuteWindowCommand after command.Run.  It runs the command again after a navigation, after a
\* timeout and after every other error while a navigation is pending, the last time in the top
\* frame; it answers; or the wait for the navigation fails.
Ends(status) ==
  LET command == elementCommand
      hint == status \in NavigationHints \cup {"kTimeout"}
      top == command.attempt = 1 /\ status \notin {"kOk", "kTargetDetached"}
      answer(s) == elementCommand' = [command EXCEPT !.at = "done", !.status = s]
  IN \/ /\ command.attempt < 2 /\ status \notin {"kOk", "kTargetDetached"}
        /\ elementCommand' = [command EXCEPT !.at = Start(command.kind), !.pass = 1,
                                !.attempt = @ + 1, !.timedOut = @ \/ status = "kTimeout",
                                !.repeated = @ \/ (~hint /\ effects' > 0)]
        /\ elementFrame' = IF top THEN "top" ELSE elementFrame
     \/ /\ hint => command.attempt = 2
        /\ answer(IF status \in NavigationHints THEN "kTimeout" ELSE status)
        /\ UNCHANGED elementFrame
     \/ /\ status # "kTargetDetached" /\ \E s \in {"kTimeout", "kUnknownError"} : answer(s)
        /\ elementFrame' \in {elementFrame} \cup (IF top THEN {"top"} ELSE {})

\* After the place of the element is known; a click finds it out for the page and for the
\* target that contains the frame, which may be gone by then.
Located ==
  CASE elementCommand.kind = "touch" -> {"tap"}
    [] elementCommand.pass = 1 ->
         IF loaderOf[elementFrame] = 0 THEN {"kAbortedByNavigation"} ELSE {"location"}
    [] OTHER -> {"press"}

\* A step of the command has succeeded.
StepSucceeds ==
  /\ scriptCall.at = "returned" /\ scriptCall.status = "kOk" /\ scriptCall' = NoCall
  /\ \E next \in Line(elementCommand.at).next :
       CASE next = "found" ->
              /\ loaderOf[elementFrame] # 0
              /\ UNCHANGED <<loaderOf, pageChanges, elementCommands, effects>> /\ Ends("kOk")
              /\ LET new == [frame |-> elementFrame, loader |-> loaderOf[elementFrame],
                             attached |-> TRUE]
                 IN IF elementCommand'.status = "kOk" THEN nodeIs' = new /\ reference' = new
                    ELSE UNCHANGED <<nodeIs, reference>>
         [] next = "switched" ->
              /\ elementCommand' = [elementCommand EXCEPT !.at = "done", !.status = "kOk"]
              /\ elementFrame' = "sub" /\ loaderOf["sub"] # 0
              /\ UNCHANGED <<loaderOf, nodeIs, reference, pageChanges, elementCommands, effects>>
         [] next = "located" ->
              /\ UNCHANGED <<loaderOf, nodeIs, reference, pageChanges, elementCommands, effects>>
              /\ \E at \in Located :
                   IF at \in NavigationHints THEN Ends(at)
                   ELSE /\ elementCommand' = [elementCommand EXCEPT !.at = at, !.pass = 2]
                        /\ UNCHANGED elementFrame
         [] next \in Points \cup {"backend"} ->
              /\ elementCommand' = [elementCommand EXCEPT !.at = next]
              /\ UNCHANGED <<loaderOf, nodeIs, elementFrame, reference, pageChanges,
                             elementCommands, effects>>
         [] OTHER -> /\ UNCHANGED <<loaderOf, nodeIs, reference, pageChanges, elementCommands,
                                    effects>>
                     /\ Ends(next)

\* The loop of FindElementCommon goes on over navigations until the implicit wait is over, and
\* an element is taken for unfocused when that cannot be found out.
StepFails ==
  /\ scriptCall.at = "returned" /\ scriptCall.status # "kOk" /\ scriptCall' = NoCall
  /\ UNCHANGED <<loaderOf, nodeIs, reference, pageChanges, elementCommands, effects>>
  /\ CASE elementCommand.kind \in {"find", "findChild"} /\ scriptCall.status \in NavigationHints ->
            UNCHANGED <<elementCommand, elementFrame>> \/ Ends("kNoSuchElement")
       [] elementCommand.at = "wasFocused" ->
            elementCommand' = [elementCommand EXCEPT !.at = "visible"] /\ UNCHANGED elementFrame
       [] OTHER -> Ends(Wrap(elementCommand, scriptCall.status))

\* Mouse, touch and key events are sent to the browser process; it answers, does not answer
\* in time, or answers an error or that the page is gone, after some of the events or all.
DispatchInput ==
  /\ scriptCall = NoCall /\ elementCommand.at \in Points
  /\ Line(elementCommand.at).what = "input"
  /\ effects' = effects + 1
  /\ \E s \in {"kOk", "kTimeout", "kUnknownError"} \cup
              (IF loaderOf[elementFrame] = 0 THEN {"kTargetDetached"} ELSE {}) :
       Ends(Wrap(elementCommand, s))
  /\ UNCHANGED <<loaderOf, nodeIs, reference, pageChanges, elementCommands, scriptCall>>

\* GetBackendNodeIdByElement for SetFileInputFiles and the accessibility tree: the loader is
\* compared once, then the number alone is used.
GetBackendNodeIdByElement ==
  /\ elementCommand.at = "backend" /\ scriptCall = NoCall
  /\ UNCHANGED <<loaderOf, nodeIs, reference, pageChanges, elementCommands, scriptCall, effects>>
  /\ CASE loaderOf[elementFrame] = 0 -> Ends("kNoSuchWindow")
       [] loaderOf[elementFrame] # 0 /\ reference.frame # elementFrame -> Ends("kNoSuchElement")
       [] /\ loaderOf[elementFrame] # 0 /\ reference.frame = elementFrame
          /\ reference.loader # loaderOf[elementFrame] -> Ends("kStaleElementReference")
       [] OTHER -> /\ elementCommand' = [elementCommand EXCEPT !.at = "byNumber"]
                   /\ UNCHANGED elementFrame

UseBackendNodeId ==
  /\ elementCommand.at = "byNumber"
  /\ IF nodeIs = NoNode THEN UNCHANGED effects /\ Ends("kNoSuchElement")
     ELSE /\ effects' = IF elementCommand.kind = "keys" THEN effects + 1 ELSE effects
          /\ Ends("kOk")
  /\ UNCHANGED <<loaderOf, nodeIs, reference, pageChanges, elementCommands, scriptCall>>

Next ==
  \/ \E f \in Frames : Navigate(f)
  \/ RemoveNode \/ RemoveFrame
  \/ NewElementCommand \/ CallFunction \/ GetLoaderId \/ ResolveElementReferenceInPlace
  \/ CompareLoaders \/ RunFunction \/ FunctionReturns \/ StepSucceeds \/ StepFails
  \/ DispatchInput \/ GetBackendNodeIdByElement \/ UseBackendNodeId

Spec == Init /\ [][Next]_vars
-----------------------------------------------------------------------------
\* Types; a command knows the points it goes through.
TypeOK ==
  /\ elementFrame \in Frames /\ effects \in Nat
  /\ elementCommand.at \in Points \cup {"done", "backend", "byNumber"}
  /\ scriptCall.at \in {"none", "loader", "resolve", "again", "call", "answer", "returned"}

\* ExecuteWindowCommand runs a command up to three times.  A command on an element all the same
\* acts on it once: what is tried again because the page has gone finds the reference stale.  Two
\* retries need not follow the loss of the page, and may act again: that of a command that was not
\* answered in time, and that of one that had acted and ended in an error of another kind while a
\* navigation was pending (a client's script that threw, input that the browser refused).
ActsOnce == ~elementCommand.timedOut /\ ~elementCommand.repeated => effects <= 1

\* An element that is reported stale or unknown is so: its document or the node has gone, or
\* the command runs in another frame than the one it was found in.
StaleIsTrue ==
  /\ elementCommand.at = "done" /\ elementCommand.status = "kStaleElementReference"
       => nodeIs # reference
  /\ elementCommand.at = "done" /\ elementCommand.status = "kNoSuchElement"
       /\ elementCommand.kind \notin {"find", "findChild", "label", "keys"}
       => reference.frame # elementFrame

\* Both: no element command acts twice but for these two, and none blames a reference that is still good.
ElementCommandsAreExact == ActsOnce /\ StaleIsTrue
-----------------------------------------------------------------------------
(* What ElementCommandsAreExact rests on.                                  *)

\* The points that a command goes through.
PointsOf(kind) ==
  CASE kind = "click" -> DOMAIN GetElementClickableLocation \cup DOMAIN ScrollElementRegionIntoView
                         \cup DOMAIN ExecuteClickElement
    [] kind = "touch" -> DOMAIN GetElementClickableLocation \cup DOMAIN ScrollElementRegionIntoView
                         \cup DOMAIN ExecuteTouch
    [] kind = "clear" -> DOMAIN ExecuteClearElement
    [] kind = "keys" -> DOMAIN ExecuteSendKeysToElement \cup DOMAIN FocusToElement
                        \cup {"backend", "byNumber"}
    [] kind = "rect" -> {"rect", "size"}
    [] kind = "isXml" -> {"isXml", "read"}
    [] kind = "screenshot" -> DOMAIN ExecuteElementScreenshot \cup {"rect", "size"}
    [] kind = "frame" -> DOMAIN ExecuteSwitchToFrame
    [] kind = "label" -> {"backend", "byNumber"}
    [] OTHER -> {kind}

Statuses == {"kOk", "kTimeout", "kTargetDetached", "kStaleElementReference", "kNoSuchElement"}
            \cup NavigationHints
Nodes == [frame : Frames, loader : Nat \ {0}, attached : BOOLEAN] \cup {NoNode}

\* A record of the fields of a command, with any points and statuses.
IsCommand(c) ==
  /\ c = [kind |-> c.kind, at |-> c.at, pass |-> c.pass, attempt |-> c.attempt,
          timedOut |-> c.timedOut, repeated |-> c.repeated, status |-> c.status]
  /\ c.attempt \in 0..2 /\ c.timedOut \in BOOLEAN /\ c.repeated \in BOOLEAN

Calls == [at : {"none", "loader", "resolve", "again", "call", "answer", "returned"},
          frame : Frames \cup {""}, loader : Nat, status : Statuses, node : Nodes]

ElementsTyped ==
  /\ loaderOf \in [Frames -> Nat] /\ nodeIs \in Nodes /\ elementFrame \in Frames
  /\ reference \in Nodes /\ (reference # NoNode => reference.attached) /\ effects \in Nat
  /\ IsCommand(elementCommand) /\ scriptCall \in Calls

\* A command is at one of its points; all but two commands are given a reference.
CommandIsKnown ==
  elementCommand.at # "done" =>
    /\ elementCommand.kind \in Kinds /\ elementCommand.at \in PointsOf(elementCommand.kind)
    /\ elementCommand.kind \notin {"find", "frame"} => reference # NoNode

\* The node is one of the document that its frame has; a reference is of it or of an older one.
NodesAreOfDocuments ==
  /\ nodeIs # NoNode => nodeIs.loader = loaderOf[nodeIs.frame]
  /\ reference # NoNode => \/ loaderOf[reference.frame] = 0
                           \/ reference.loader <= loaderOf[reference.frame]

\* A call is one of the command, in its frame, and its document is not older than the reference.
CallIsOfCommand ==
  /\ scriptCall.at = "none" <=> scriptCall = NoCall
  /\ scriptCall.at # "none" =>
       elementCommand.at \in Points /\ Line(elementCommand.at).what # "input"
  /\ scriptCall.at \in {"loader", "resolve", "again", "call", "answer"} =>
       scriptCall.frame = CallFrame
  /\ scriptCall.at \in {"resolve", "again", "call", "answer"} =>
       /\ loaderOf[scriptCall.frame] = 0 \/ scriptCall.loader <= loaderOf[scriptCall.frame]
       /\ reference # NoNode /\ reference.frame = scriptCall.frame
            => reference.loader <= scriptCall.loader

\* What the call has found out about the reference.
CallIsRight ==
  /\ scriptCall.at \in {"loader", "resolve", "call", "answer"} => scriptCall.status = "kOk"
  /\ scriptCall.at = "again" => scriptCall.status \in {"kOk", "kNoSuchElement"}
  /\ scriptCall.at \in {"again", "call", "answer"} /\ UsesElement /\ scriptCall.status = "kOk" =>
       reference.frame = scriptCall.frame /\ reference.loader = scriptCall.loader
  /\ scriptCall.at = "again" /\ scriptCall.status = "kNoSuchElement" =>
       UsesElement /\ reference.frame # scriptCall.frame
  /\ scriptCall.at = "returned" =>
       /\ scriptCall.status \in Statuses
       /\ scriptCall.status = "kStaleElementReference" => UsesElement /\ nodeIs # reference
       /\ scriptCall.status = "kNoSuchElement" => UsesElement /\ reference.frame # elementFrame

\* What a command has reported is right: it had a reference.
BlameIsRight ==
  /\ StaleIsTrue
  /\ elementCommand.at = "done" /\ elementCommand.status = "kStaleElementReference"
       => reference # NoNode

\* The document of the reference has gone.
DocumentIsGone == reference # NoNode /\ loaderOf[reference.frame] # reference.loader

\* The effect was had, and the command is about to end.
Acted ==
  /\ elementCommand.at \in Points /\ Line(elementCommand.at).what = "effect"
  /\ \/ scriptCall.at = "answer"
     \/ scriptCall.at = "returned" /\ scriptCall.status \in {"kOk", "kTimeout"}

\* The effect was had and the answer was lost with the document, or the command begins again and
\* cannot reach the element.
CannotActAgain ==
  /\ DocumentIsGone
  /\ \/ /\ elementCommand.at \in Points /\ Line(elementCommand.at).what = "effect"
        /\ scriptCall.at = "returned"
        /\ scriptCall.status \in {"kAbortedByNavigation", "kTargetDetached"}
     \/ /\ elementCommand.at = Start(elementCommand.kind) /\ elementCommand.at \in Points /\ UsesElement
        /\ \/ scriptCall.at \in {"none", "loader"}
           \/ /\ scriptCall.at \in {"resolve", "again"}
              /\ scriptCall.frame = reference.frame => scriptCall.loader # reference.loader
              /\ scriptCall.at = "again" => scriptCall.status # "kOk"
           \/ scriptCall.at = "returned" /\ scriptCall.status # "kOk"

ActsOnceInv ==
  ~elementCommand.timedOut /\ ~elementCommand.repeated =>
    /\ effects <= 1
    /\ elementCommand.at # "done" => effects = 0 \/ Acted \/ CannotActAgain

ElementsInv ==
  /\ ElementsTyped /\ CommandIsKnown /\ NodesAreOfDocuments /\ CallIsOfCommand /\ CallIsRight
  /\ BlameIsRight /\ ActsOnceInv
=============================================================================
