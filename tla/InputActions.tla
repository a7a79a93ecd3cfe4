---------------------------- MODULE InputActions ----------------------------
(***************************************************************************)
(* What the input commands send to the browser and what the session keeps  *)
(* of it: PerformActions and ReleaseActions of window_commands.cc, the     *)
(* older mouse, touch and key commands, the keys of key_converter.cc and   *)
(* the dispatch of web_view_impl.cc.                                       *)
(*                                                                         *)
(* The browser is the set of keys, buttons and touches that are down.  A   *)
(* point of the page is one number.  Every dispatch may fail, in which     *)
(* case a prefix of its events arrived.                                    *)
(*                                                                         *)
(* Two inputs are outside of the model, because what the code does with    *)
(* them is undefined: an empty sequence of actions, behind which           *)
(* action_input_states[j] is read out of its range or is the state of      *)
(* another source, and an id that is used again with another type, whose   *)
(* old input state is freed while the cancel list points to it.            *)
(***************************************************************************)
EXTENDS Naturals, Integers, Sequences, FiniteSets, SequencesExt

CONSTANTS
  MaxInputCommands,   \* bound: commands of a behaviour
  Viewport            \* width of the viewport; a point is in 0..Viewport

VARIABLES
  sources,             \* active_input_sources: the ids
  inputStates,         \* input_state_table
  cancelList,          \* input_cancel_list
  stickyModifiers,     \* sticky_modifiers
  mousePosition,       \* mouse_position
  clickCount,          \* click_count
  pressedMouseButton,  \* pressed_mouse_button
  performing,          \* the locals of ExecutePerformActions
  down,                \* what is down in the browser
  lost,                \* history: kinds of events of dispatches that failed
  shifted,             \* history: a letter went down while its source held Shift
  justReleased,        \* history: ReleaseActions was the last command
  oldCommand,          \* history: a command was used that W3C sessions refuse
  inputCommands        \* commands so far

sessionInput == <<sources, inputStates, cancelList, stickyModifiers, mousePosition, clickCount,
                  pressedMouseButton>>
vars == <<sessionInput, performing, down, lost, shifted, justReleased, oldCommand, inputCommands>>

Types == [k1 |-> "key", k2 |-> "key", m |-> "mouse", t |-> "touch", t2 |-> "touch", w |-> "wheel",
          n |-> "none"]
Ids == DOMAIN Types
NotPerforming == [actions |-> <<>>]

Init ==
  /\ sources = {} /\ inputStates = [id \in {} |-> 0] /\ cancelList = <<>>
  /\ stickyModifiers = {} /\ mousePosition = 0 /\ clickCount = 0
  /\ pressedMouseButton = "none" /\ performing = NotPerforming
  /\ down = {} /\ lost = {} /\ shifted = FALSE /\ justReleased = FALSE
  /\ oldCommand = FALSE /\ inputCommands = 0

-----------------------------------------------------------------------------
(* The browser and the dispatch of events to it.                           *)

Event(kind, what) == [kind |-> kind, what |-> what]

\* A character event and a move change nothing that is down.
After(events, was) ==
  FoldLeft(LAMBDA d, e : IF e.kind = "down" THEN d \cup {e.what}
                         ELSE IF e.kind = "up" THEN d \ {e.what} ELSE d,
           was, events)

\* The outcomes of a dispatch: what is down then, whether it succeeded, and the kinds
\* of events that may not have arrived.  Bound: one dispatch of a behaviour fails.
Dispatch(events) ==
  {[down |-> After(events, down), ok |-> TRUE, lost |-> {}]} \cup
  {[down |-> After(SubSeq(events, 1, n), down), ok |-> FALSE,
    lost |-> {events[i].kind : i \in DOMAIN events}] :
     n \in {k \in 0..Len(events) : lost = {}}}

DispatchKeyEvents(events) == Dispatch(events)

\* A mouse event is sent as a touch when touch is emulated, except for a move
\* without a button.
DispatchMouseEvents(events) == Dispatch(events)
DispatchTouchEvents(events) == Dispatch(events)

\* A touchCancel is left out.
DispatchTouchEventWithMultiPoints(events) ==
  Dispatch(SelectSeq(events, LAMBDA e : e.kind # "cancel"))

-----------------------------------------------------------------------------
(* Keys: a letter in both cases, Shift, and in typed text the null key and *)
(* a key that has no code.                                                 *)

Modifiers == {"Shift"}
Code(key) == IF key \in {"a", "A"} THEN "KeyA" ELSE key
NecessaryModifiers(key) == IF key = "A" THEN {"Shift"} ELSE {}

\* KeyEventBuilder::UpdateKeyString: the key of an event is that of the layout
\* under its modifiers; only a key the layout does not have keeps its name.
EventKey(key, modifiers) == IF Code(key) = "KeyA" THEN IF "Shift" \in modifiers THEN "A" ELSE "a"
                            ELSE key

\* KeyEventBuilder::Generate
Generate(key) == <<Event("down", Code(key)), Event("char", Code(key)), Event("up", Code(key))>>

\* The loop of ConvertKeysToKeyEvents: what one key adds to the events, and the
\* modifiers that stick.
ConvertKey(r, key) ==
  LET Downs(ms) == SetToSeq({Event("down", m) : m \in ms})
      Ups(ms) == SetToSeq({Event("up", m) : m \in ms})
      necessary == NecessaryModifiers(key) \ r.sticky
  IN  IF ~r.ok THEN r
      ELSE IF key = "null" THEN [r EXCEPT !.events = @ \o Ups(r.sticky), !.sticky = {}]
      ELSE IF key = "unknown" THEN [r EXCEPT !.ok = FALSE]
      ELSE IF key \in Modifiers
      THEN [r EXCEPT !.events = @ \o (IF key \in r.sticky THEN Ups({key}) ELSE Downs({key})),
                     !.sticky = IF key \in @ THEN @ \ {key} ELSE @ \cup {key}]
      ELSE [r EXCEPT !.events = @ \o Downs(necessary) \o Generate(key) \o Ups(necessary)]

ConvertKeysToKeyEvents(keys, releaseModifiers) ==
  FoldLeft(ConvertKey, [events |-> <<>>, sticky |-> stickyModifiers, ok |-> TRUE],
           IF releaseModifiers THEN Append(keys, "null") ELSE keys)

\* ConvertKeyActionToKeyEvent: the event of a key action, if there is one, and the
\* state of its source.  A key that is not pressed cannot be released.
ConvertKeyActionToKeyEvent(action, state) ==
  LET isDown == action.kind = "keyDown"
      modifiers == IF action.key \notin Modifiers THEN state.modifiers
                   ELSE IF isDown THEN state.modifiers \cup {action.key}
                   ELSE state.modifiers \ {action.key}
      used == modifiers \cup (IF action.key \in Modifiers THEN {} ELSE NecessaryModifiers(action.key))
  IN  IF ~isDown /\ action.key \notin state.pressed
      THEN [state |-> state, events |-> <<>>, key |-> ""]
      ELSE [state |-> [state EXCEPT !.modifiers = modifiers,
                                    !.pressed = IF isDown THEN @ \cup {action.key}
                                                ELSE @ \ {action.key}],
            events |-> <<Event(IF isDown THEN "down" ELSE "up", Code(action.key))>>,
            key |-> EventKey(action.key, used)]

-----------------------------------------------------------------------------
(* ExecutePerformActions.                                                  *)

\* Mutant: the copy of the event keeps its type.
CancelEntryOfPress(id, what, code) == [id |-> id, what |-> what, event |-> Event("down", code)]

\* InputCancelListEntry: the event that releases what was pressed.
CancelEntry(id, what, code) == [id |-> id, what |-> what, event |-> Event("up", code)]

\* An action; the fields its kind does not use have a default.
Action(kind) == [kind |-> kind, key |-> "", button |-> "none", to |-> 0, origin |-> "viewport"]

\* A new input state; that of a wheel has no position yet.
NewState(id) == [pressed |-> {}, modifiers |-> {}, at |-> IF Types[id] = "wheel" THEN -1 ELSE 0]

IsInvalid(seq) == \E i \in DOMAIN seq.actions : seq.actions[i].kind = "invalid"

\* The next action of the tick, or the first of the next tick.
Advance(p) ==
  LET rest == {j \in DOMAIN p.actions : j > p.j /\ Len(p.actions[j].actions) >= p.i}
      next == {j \in DOMAIN p.actions : Len(p.actions[j].actions) > p.i}
      First(S) == CHOOSE j \in S : \A k \in S : j <= k
  IN  IF rest # {} THEN [p EXCEPT !.j = First(rest)]
      ELSE IF next # {} THEN [p EXCEPT !.i = @ + 1, !.j = First(next), !.touches = <<>>]
      ELSE NotPerforming

\* ProcessInputActionSequence for each sequence: sources are added up to the first
\* sequence that is invalid, which ends the command.  As no sequence is empty and each
\* id has one type, action_input_states[j] is the input state of the j-th id.
ProcessSequences(seqs) ==
  /\ LET bad == {s \in DOMAIN seqs : IsInvalid(seqs[s])}
         read == {seqs[s].id : s \in {s \in DOMAIN seqs : \A b \in bad : s <= b}}
     IN  /\ sources' = sources \cup read
         /\ inputStates' = [id \in DOMAIN inputStates \cup read |->
                              IF id \in sources THEN inputStates[id] ELSE NewState(id)]
         /\ performing' = IF bad # {} THEN NotPerforming
                          ELSE [actions |-> seqs, i |-> 1, j |-> 1, seen |-> {}, initAt |-> 0,
                                at |-> [id \in Ids |-> 0], touchStart |-> {},
                                buttons |-> [id \in Ids |-> {}], last |-> [id \in Ids |-> {}],
                                buttonType |-> [id \in Ids |-> "none"], touches |-> <<>>]
  /\ inputCommands' = inputCommands + 1 /\ justReleased' = FALSE
  /\ UNCHANGED <<cancelList, stickyModifiers, mousePosition, clickCount, pressedMouseButton,
                 down, lost, shifted, oldCommand>>

\* The command returns with an error and leaves what was done.
Returns ==
  /\ performing' = NotPerforming
  /\ UNCHANGED <<sessionInput, down, lost, shifted, oldCommand, justReleased, inputCommands>>

\* "pressed" counts buttons as 1 << MouseButton and |buttons| as the protocol does:
\* read as the other, middle and right change places.
ReadAsButtons(pressed) ==
  {CASE b = "middle" -> "right" [] b = "right" -> "middle" [] OTHER -> b : b \in pressed}

\* What the first tick sets up for the source: where it is and what it holds.
Located(p, id) ==
  LET at == IF inputStates[id].at >= 0 THEN inputStates[id].at ELSE p.initAt
      seen == [p EXCEPT !.seen = @ \cup {id}]
      placed == [seen EXCEPT !.initAt = at, !.at[id] = at]
  IN  IF p.i > 1 THEN p
      ELSE IF Types[id] \in {"key", "none"} THEN seen
      ELSE IF Types[id] = "mouse"
      THEN [placed EXCEPT !.buttons[id] = ReadAsButtons(inputStates[id].pressed),
                          !.last[id] = ReadAsButtons(inputStates[id].pressed)]
      ELSE placed

\* A key action; a dispatch that fails leaves the key in the cancel list.
KeyAction(p, id, action) ==
  LET r == ConvertKeyActionToKeyEvent(action, inputStates[id])
      modifier == {r.key} \cap Modifiers
  IN  /\ Types[id] = "key" /\ action.kind # "pause"
      /\ inputStates' = [inputStates EXCEPT ![id] = r.state]
      /\ IF r.events = <<>>
         THEN /\ performing' = Advance(p)
              /\ UNCHANGED <<cancelList, stickyModifiers, down, lost, shifted>>
         ELSE /\ cancelList' = IF action.kind = "keyUp" THEN cancelList
                               ELSE Append(cancelList, CancelEntry(id, r.key, Code(action.key)))
              /\ stickyModifiers' = IF action.kind = "keyDown" THEN stickyModifiers \cup modifier
                                    ELSE stickyModifiers \ modifier
              /\ shifted' = (shifted \/ (action.key = "a" /\ "Shift" \in r.state.modifiers))
              /\ \E o \in DispatchKeyEvents(r.events) :
                   /\ down' = o.down /\ lost' = lost \cup o.lost
                   /\ performing' = IF o.ok THEN Advance(p) ELSE NotPerforming
      /\ UNCHANGED <<sources, mousePosition, clickCount, pressedMouseButton, justReleased,
                     oldCommand, inputCommands>>

\* Where a move or a scroll goes.  An element may be gone, and a place outside of the
\* viewport ends the command.
Targets(p, id, action) ==
  CASE action.origin = "viewport" -> {action.to}
    [] action.origin = "pointer" -> {p.at[id] + action.to}
    [] action.origin = "element" -> {action.to + Viewport, -1}

Moved(p, id, action) ==
  IF action.kind \notin {"pointerMove", "scroll"} THEN {p}
  ELSE {[p EXCEPT !.at[id] = x] : x \in Targets(p, id, action) \cap (0..Viewport)}

\* The button of the event.  A pointerCancel of a mouse is sent as a press.
ButtonType(p, id, action) ==
  IF action.kind \in {"pointerDown", "pointerUp"} THEN action.button
  ELSE IF p.buttons[id] = {} THEN "none" ELSE p.buttonType[id]
Presses(action) == action.kind \in {"pointerDown", "pointerCancel"}

\* GetMouseClickCount; |quick|: within the time of a double click.
GetMouseClickCount(x, button, last, quick) ==
  IF clickCount = 0 \/ ~quick \/ x - mousePosition > 2 \/ mousePosition - x > 2
       \/ last # ({button} \ {"none"}) \/ clickCount >= 3
  THEN 1 ELSE clickCount + 1

MouseAction(p, id, action) ==
  /\ Types[id] = "mouse" /\ action.kind # "pause"
  /\ \E q \in Moved(p, id, action), quick \in BOOLEAN :
       LET button == ButtonType(q, id, action)
           mask == {button} \ {"none"}
           x == q.at[id]
           presses == Presses(action)
           r == [q EXCEPT !.buttonType[id] = button,
                          !.buttons[id] = IF presses THEN @ \cup mask
                                          ELSE IF action.kind = "pointerUp" THEN @ \ mask ELSE @,
                          !.last[id] = IF presses THEN mask ELSE @]
           event == Event(IF presses THEN "down" ELSE IF action.kind = "pointerUp" THEN "up"
                          ELSE "move", button)
       IN  /\ quick => presses
           /\ clickCount' = IF presses THEN GetMouseClickCount(x, button, q.last[id], quick)
                            ELSE clickCount
           /\ mousePosition' = IF presses THEN x ELSE mousePosition
           /\ cancelList' = IF presses THEN Append(cancelList, CancelEntry(id, button, button))
                            ELSE cancelList
           /\ \E o \in DispatchMouseEvents(<<event>>) :
                /\ inputStates' =
                     [inputStates EXCEPT
                        ![id].pressed = IF presses THEN @ \cup {button}
                                        ELSE IF action.kind = "pointerUp" THEN @ \ {button} ELSE @,
                        ![id].at = IF o.ok THEN x ELSE @]
                /\ down' = o.down /\ lost' = lost \cup o.lost
                /\ performing' = IF o.ok THEN Advance(r) ELSE NotPerforming
  /\ UNCHANGED <<sources, stickyModifiers, pressedMouseButton, shifted, oldCommand, justReleased, inputCommands>>

\* A wheel has no button; a scroll moves the mouse.
WheelAction(p, id, action) ==
  /\ Types[id] = "wheel" /\ action.kind = "scroll"
  /\ \E q \in Moved(p, id, action) :
       /\ mousePosition' = q.at[id]
       /\ \E o \in DispatchMouseEvents(<<Event("wheel", "none")>>) :
            /\ inputStates' = IF o.ok THEN [inputStates EXCEPT ![id].at = q.at[id]] ELSE inputStates
            /\ lost' = lost \cup o.lost
            /\ performing' = IF o.ok THEN Advance(q) ELSE NotPerforming
  /\ UNCHANGED <<sources, cancelList, stickyModifiers, clickCount, pressedMouseButton, down,
                 shifted, oldCommand, justReleased, inputCommands>>

\* A touch that did not start in this command has no events, though its state
\* changes.  The events of a tick are sent with its last touch.
TouchAction(p, id, action) ==
  /\ Types[id] = "touch"
  /\ \E q \in Moved(p, id, action) :
       LET starts == action.kind = "pointerDown"
           kind == CASE starts -> "down" [] action.kind = "pointerUp" -> "up"
                     [] action.kind = "pointerCancel" -> "cancel" [] OTHER -> "move"
           started == starts \/ id \in q.touchStart
           touches == IF started THEN Append(q.touches, Event(kind, id)) ELSE q.touches
           isLast == ~\E j \in DOMAIN p.actions :
                        /\ j > p.j /\ Len(p.actions[j].actions) >= p.i
                        /\ Types[p.actions[j].id] = "touch"
           r == [q EXCEPT !.touches = touches,
                          !.touchStart = IF starts THEN @ \cup {id}
                                         ELSE IF kind = "up" THEN @ \ {id} ELSE @]
       IN  /\ cancelList' = IF starts THEN Append(cancelList, CancelEntry(id, "touch", id))
                            ELSE cancelList
           /\ \E o \in IF isLast THEN DispatchTouchEventWithMultiPoints(touches)
                       ELSE {[down |-> down, ok |-> TRUE, lost |-> {}]} :
                /\ inputStates' =
                     [inputStates EXCEPT ![id].pressed = IF starts THEN {"touch"}
                                                         ELSE IF kind = "up" THEN {} ELSE @,
                                         ![id].at = IF o.ok THEN q.at[id] ELSE @]
                /\ down' = o.down /\ lost' = lost \cup o.lost
                /\ performing' = IF o.ok THEN Advance(r) ELSE NotPerforming
  /\ UNCHANGED <<sources, stickyModifiers, mousePosition, clickCount, pressedMouseButton, shifted, oldCommand,
                 justReleased, inputCommands>>

\* A pause sets the duration of the tick, and the position of a pointer again.
PauseAction(p, id, action) ==
  /\ action.kind = "pause" /\ Types[id] # "touch"
  /\ performing' = Advance(p)
  /\ inputStates' = [inputStates EXCEPT ![id].at = IF Types[id] \in {"mouse", "wheel"} THEN p.at[id]
                                                   ELSE @]
  /\ UNCHANGED <<sources, cancelList, stickyModifiers, mousePosition, clickCount,
                 pressedMouseButton, down, lost, shifted, oldCommand, justReleased, inputCommands>>

\* An id that occurs twice ends the command, and so do a key without a code, a size
\* of the viewport that is not told, and a place that is not in it.
ActionFails(p, id, action) ==
  /\ \/ p.i = 1 /\ id \in performing.seen
     \/ Types[id] = "key" /\ action.kind # "pause" /\ action.key \notin Modifiers
     \/ p.i = 1 /\ Types[id] \notin {"key", "none"}
     \/ action.kind \in {"pointerMove", "scroll"} /\ Targets(p, id, action) \ (0..Viewport) # {}
  /\ Returns

PerformAction ==
  /\ performing # NotPerforming
  /\ LET seq == performing.actions[performing.j]
         action == seq.actions[performing.i]
         p == Located(performing, seq.id)
     IN  \/ ActionFails(p, seq.id, action)
         \/ /\ performing.i = 1 => seq.id \notin performing.seen
            /\ \/ KeyAction(p, seq.id, action) \/ MouseAction(p, seq.id, action)
               \/ WheelAction(p, seq.id, action) \/ TouchAction(p, seq.id, action)
               \/ PauseAction(p, seq.id, action)

-----------------------------------------------------------------------------
(* ExecuteReleaseActions.                                                  *)

StickyAfterRelease == {}

\* The entries from the last to the first; one whose key is not pressed is skipped.
Release(r, entry) ==
  IF entry.what \notin r.states[entry.id].pressed THEN r
  ELSE [events |-> Append(r.events, entry.event),
        states |-> [r.states EXCEPT ![entry.id].pressed = @ \ {entry.what}]]

\* Dispatches that fail are ignored.
ReleaseActions ==
  /\ performing = NotPerforming /\ inputCommands < MaxInputCommands
  /\ LET r == FoldLeft(Release, [events |-> <<>>, states |-> inputStates], Reverse(cancelList))
     IN  \E o \in Dispatch(r.events) : down' = o.down /\ lost' = lost \cup o.lost
  /\ cancelList' = <<>> /\ inputStates' = [id \in {} |-> 0] /\ sources' = {}
  /\ mousePosition' = 0 /\ clickCount' = 0 /\ stickyModifiers' = StickyAfterRelease
  /\ inputCommands' = inputCommands + 1 /\ justReleased' = TRUE
  /\ UNCHANGED <<pressedMouseButton, performing, shifted, oldCommand>>

-----------------------------------------------------------------------------
(* The other commands.                                                     *)

\* |old|: a W3C session refuses the command.  Bound: one such command.
OtherCommand(old) ==
  /\ performing = NotPerforming /\ inputCommands < MaxInputCommands
  /\ inputCommands' = inputCommands + 1 /\ justReleased' = FALSE
  /\ old => ~oldCommand
  /\ oldCommand' = (oldCommand \/ old)
  /\ UNCHANGED <<sources, inputStates, cancelList, clickCount, performing, shifted>>

\* SendKeysOnWindow: the modifiers stay as they were when something fails.
SendKeysOnWindow(keys, releaseModifiers) ==
  LET r == ConvertKeysToKeyEvents(keys, releaseModifiers)
  IN  IF ~r.ok THEN UNCHANGED <<stickyModifiers, down, lost>>
      ELSE \E o \in DispatchKeyEvents(r.events) :
             /\ down' = o.down /\ lost' = lost \cup o.lost
             /\ stickyModifiers' = IF o.ok THEN r.sticky ELSE stickyModifiers

SendKeysToElement(keys) ==
  /\ OtherCommand(FALSE) /\ SendKeysOnWindow(keys, TRUE)
  /\ UNCHANGED <<mousePosition, pressedMouseButton>>

SendKeysToActiveElement(keys) ==
  /\ OtherCommand(TRUE) /\ SendKeysOnWindow(keys, FALSE)
  /\ UNCHANGED <<mousePosition, pressedMouseButton>>

\* Mouse events from the place the mouse is at.
SendMouse(events) ==
  \E o \in DispatchMouseEvents(events) : down' = o.down /\ lost' = lost \cup o.lost
Click(button) == <<Event("down", button), Event("up", button)>>

\* The mouse is at the element only if the click succeeded.
ClickElement ==
  /\ OtherCommand(FALSE)
  /\ \E o \in DispatchMouseEvents(<<Event("move", "none")>> \o Click("left")), x \in {0, Viewport} :
       /\ down' = o.down /\ lost' = lost \cup o.lost
       /\ mousePosition' = IF o.ok THEN x ELSE mousePosition
  /\ UNCHANGED <<stickyModifiers, pressedMouseButton>>

MouseMoveTo(x) ==
  /\ OtherCommand(TRUE)
  /\ \E o \in DispatchMouseEvents(<<Event("move", pressedMouseButton)>>) :
       /\ down' = o.down /\ lost' = lost \cup o.lost
       /\ mousePosition' = IF o.ok THEN x ELSE mousePosition
  /\ UNCHANGED <<stickyModifiers, pressedMouseButton>>

MouseClick(button) ==
  /\ OtherCommand(TRUE) /\ SendMouse(Click(button))
  /\ pressedMouseButton' = "none" /\ UNCHANGED <<stickyModifiers, mousePosition>>

MouseButtonDown(button) ==
  /\ OtherCommand(TRUE) /\ SendMouse(<<Event("down", button)>>)
  /\ pressedMouseButton' = button /\ UNCHANGED <<stickyModifiers, mousePosition>>

MouseButtonUp(button) ==
  /\ OtherCommand(TRUE) /\ SendMouse(<<Event("up", button)>>)
  /\ pressedMouseButton' = "none" /\ UNCHANGED <<stickyModifiers, mousePosition>>

MouseDoubleClick(button) ==
  /\ OtherCommand(TRUE) /\ SendMouse(Click(button) \o Click(button))
  /\ pressedMouseButton' = "none" /\ UNCHANGED <<stickyModifiers, mousePosition>>

\* TouchDown, TouchMove and TouchUp send one event of a touch; SingleTap and Flick send
\* a start, moves and an end.  A place that does not scroll into view ends them before.
TouchCommand(events) ==
  /\ OtherCommand(TRUE)
  /\ \E o \in DispatchTouchEvents(events) : down' = o.down /\ lost' = lost \cup o.lost
  /\ UNCHANGED <<stickyModifiers, mousePosition, pressedMouseButton>>

ExecuteTouchEvent == \E kind \in {"down", "move", "up"} : TouchCommand(<<Event(kind, "touch")>>)
TouchSingleTap == TouchCommand(Click("touch"))
Flick ==
  TouchCommand(<<Event("down", "touch"), Event("move", "touch"), Event("up", "touch")>>)

-----------------------------------------------------------------------------
(* The commands that are enumerated.                                       *)

KeyActions ==
  {[Action(kind) EXCEPT !.key = key] : kind \in {"keyDown", "keyUp"}, key \in {"a", "Shift"}}
Down(button) == [Action("pointerDown") EXCEPT !.button = button]
Up(button) == [Action("pointerUp") EXCEPT !.button = button]
Move(to, origin) == [Action("pointerMove") EXCEPT !.to = to, !.origin = origin]
MouseActions ==
  {Down("left"), Up("left"), Down("right"), Move(Viewport, "pointer"), Move(0, "element"),
   Action("pointerCancel"), Action("invalid")}
TouchActions == {Action(kind) : kind \in {"pointerDown", "pointerUp", "pause"}}

Of(id, actions) == [id |-> id, actions |-> actions]

Performed ==
  {<<Of("k1", <<a, b>>)>> : a, b \in KeyActions}
  \cup {<<Of("m", <<a>>)>> : a \in MouseActions}
  \cup {<<Of("k1", <<a>>), Of("m", <<Action("pause"), Up("left")>>)>> :
          a \in {[Action("keyDown") EXCEPT !.key = "A"], Action("pause"), Action("invalid")}}
  \cup {<<Of("k1", <<a>>), Of("k2", <<a>>)>> : a \in {x \in KeyActions : x.key = "Shift"}}
  \cup {<<Of("m", <<Move(1, "viewport")>>), Of("w", <<Action("scroll"), Action("pause")>>)>>}
  \cup {<<Of("t", <<a>>)>> : a \in TouchActions \ {Action("pause")}}
  \cup {<<Of("t", <<Action("pointerDown"), Action("pointerCancel"), Action("pointerUp")>>),
          Of("t2", <<Action("pointerMove"), Action("pointerDown"), Action("pause")>>)>>}
  \cup {<<Of("n", <<Action("pause")>>), Of("k1", <<a>>), Of("k1", <<a>>)>> :
          a \in {x \in KeyActions : x.kind = "keyDown" /\ x.key = "a"}}

BeginPerformActions ==
  /\ performing = NotPerforming /\ inputCommands < MaxInputCommands
  /\ \E seqs \in Performed : ProcessSequences(seqs)

Texts == {<<"A">>, <<"Shift", "a">>, <<"Shift", "A", "Shift">>, <<"null", "unknown">>}

Next ==
  \/ BeginPerformActions
  \/ PerformAction \/ ReleaseActions \/ ClickElement
  \/ \E keys \in Texts : SendKeysToElement(keys) \/ SendKeysToActiveElement(keys)
  \/ \E x \in {0, Viewport} : MouseMoveTo(x)
  \/ MouseClick("left") \/ MouseButtonDown("left") \/ MouseButtonUp("left")
  \/ MouseDoubleClick("left") \/ ExecuteTouchEvent \/ TouchSingleTap \/ Flick

Spec == Init /\ [][Next]_vars

-----------------------------------------------------------------------------
TypeOK ==
  /\ sources = DOMAIN inputStates /\ sources \subseteq Ids
  /\ \A i \in DOMAIN cancelList : cancelList[i].id \in sources
  /\ stickyModifiers \subseteq Modifiers /\ clickCount \in 0..3
  /\ mousePosition \in 0..Viewport /\ inputCommands \in 0..MaxInputCommands

\* Unless a key or button failed to go up, ReleaseActions leaves none of those down
\* that PerformActions pressed, also when the press itself failed or the command ended
\* early.  (Touches, and letters pressed while their source held Shift, are the
\* exceptions.)
ReleaseUnpresses ==
  justReleased /\ "up" \notin lost /\ ~shifted /\ ~oldCommand => down \subseteq {"t", "t2"}

\* The modifiers the session adds to its next events are those that are down in the
\* browser, whichever commands pressed and released them.
StickyMatchesBrowser ==
  performing = NotPerforming /\ lost = {} /\ ~oldCommand
    => stickyModifiers = down \cap Modifiers

\* Both: what the session believes of keys and buttons is what the browser has.
InputMatchesBrowser == ReleaseUnpresses /\ StickyMatchesBrowser

\* "List of actions for Release Actions command": ReleaseActions lets go of every key.
ReleaseReleasesKeys ==
  justReleased /\ lost = {} /\ ~oldCommand => "KeyA" \notin down
=============================================================================
