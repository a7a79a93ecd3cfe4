------------------------------ MODULE WebViews ------------------------------
(***************************************************************************)
(* The views of a session and the targets of its browser: ChromeImpl and   *)
(* TabTracker keep the views of tabs, PageTracker those of the pages of a  *)
(* tab, FrameTracker those of out-of-process frames.  An event may remove  *)
(* a view at any place where messages are processed, which is inside every *)
(* DevTools command; WebViewImplHolder locks the views of a call, and a    *)
(* locked view is only marked as detached and deleted when the holder is.  *)
(*                                                                         *)
(* A view is identified by the number of its DevTools session, so views of *)
(* one target that follow each other are told apart.  The thread is a      *)
(* stack of calls; the last one waits and processes the next event.        *)
(***************************************************************************)
EXTENDS Integers, Sequences, FiniteSets, SequencesExt

CONSTANTS
  Tabs, Pages, Frames,   \* targets
  ParentOf,              \* the tab of a page, the page or frame of a frame
  None,
  Root,                  \* the browser-wide client
  MaxSessions,           \* bound: sessions the browser opens
  MaxEvents,             \* bound: events that are under way
  MaxDepth               \* bound: calls that are nested

Targets == Tabs \cup Pages \cup Frames
Parent(x) == IF x \in Tabs THEN Root ELSE ParentOf[x]

VARIABLES
  open,         \* targets that exist in the browser
  session,      \* the session through which a target is attached, 0 if none
  ready,        \* sessions in which Target.setAutoAttach is in effect
  lastSession,  \* number of the last session
  shown,        \* the page a tab shows
  closed,       \* tabs and pages that are gone; only the id of a frame is used again,
                \* when the frame moves between processes
  events,       \* messages of the browser that are under way
  view,         \* the view of a target: web_views_, page_to_target_map_ and
                \* frame_to_target_map_; 0 if there is none
  active,       \* active_page_ of the PageTracker of a tab
  locked,       \* views with is_locked_
  detached,     \* views with is_detached_
  stack,        \* the calls of the session's thread
  ignored       \* history: targets that were attached again while their old view
                \* was locked

browserVars == <<open, session, ready, lastSession, shown, closed>>
vars == <<browserVars, events, view, active, locked, detached, stack, ignored>>

Init ==
  /\ open = {} /\ session = [x \in Targets |-> 0] /\ ready = {} /\ lastSession = 0
  /\ shown = [t \in Tabs |-> None] /\ closed = {}
  /\ events = <<>> /\ view = [x \in Targets |-> 0] /\ active = [t \in Tabs |-> None]
  /\ locked = {} /\ detached = {} /\ stack = <<>> /\ ignored = {}

-----------------------------------------------------------------------------
(* Views and their holders.                                                *)

\* A target with its parents, up to its tab: GetParent and GetTab.
Chain(x) ==
  IF x \in Tabs THEN <<x>>
  ELSE IF Parent(x) \in Tabs THEN <<x, Parent(x)>>
  ELSE IF Parent(Parent(x)) \in Tabs THEN <<x, Parent(x), Parent(Parent(x))>>
  ELSE <<x, Parent(x), Parent(Parent(x)), Parent(Parent(Parent(x)))>>

\* Mutant: what a view owns outlives it.
OnlyThese(X) == X

\* The targets X and those whose views the views of X own.
Descendants(X) ==
  {x \in Targets : LET chain == Chain(x) IN \E i \in DOMAIN chain : chain[i] \in X}

\* WebViewImplHolder: what it locks, innermost first, and whether it was locked.
\* A tab is locked twice, as a view and as the tab of the view.
Items(x) ==
  IF x = Root THEN <<>>
  ELSE LET item(y) == [on |-> y, view |-> view[y], was |-> view[y] \in locked]
           chain == Chain(x)
       IN  [i \in DOMAIN chain |-> item(chain[i])]

LockedBy(items) == {items[i].view : i \in DOMAIN items}

\* The items ~WebViewImplHolder visits: it stops at one that was locked before.
Released(items) ==
  {items[i] : i \in {j \in DOMAIN items : \A k \in 1..j : ~items[k].was}}

\* The views of the targets X and all views they own are deleted.
DeleteViews(X, unlocked) ==
  LET gone == Descendants(X)
      dead == {view[x] : x \in gone} IN
    /\ view' = [x \in Targets |-> IF x \in gone THEN 0 ELSE view[x]]
    /\ active' = [t \in Tabs |-> IF t \in gone THEN None ELSE active[t]]
    /\ locked' = (locked \ dead) \ unlocked
    /\ detached' = detached \ dead

\* ~WebViewImplHolder.  A detached page or frame is deleted by its tracker.  No
\* page tracker knows a detached tab, which stays, locked, until the next update.
Release(items) ==
  DeleteViews({it.on : it \in {it \in Released(items) : /\ it.view \in detached
                                                        /\ it.on \notin Tabs}},
              {it.view : it \in Released(items)} \ detached)

Top == stack[Len(stack)]
Waiting == stack # <<>> /\ Top.op # "message"

\* The view in whose method or client the call runs exists no more.
Dangling(call) == call.on # Root /\ view[call.on] # call.view

\* A call on the view of a target, under a holder or not.  (The holder of
\* AttachTo finds everything locked by the one in FrameTracker::OnEvent.)
NewCall(op, x, held) ==
  [op |-> op, on |-> x, view |-> IF x = Root THEN 0 ELSE view[x],
   items |-> IF held THEN Items(x) ELSE <<>>, held |-> held,
   activates |-> FALSE, page |-> None, todo |-> {}]

Push(call) == stack' = Append(stack, call) /\ locked' = locked \cup LockedBy(call.items)

\* A command begins, or a wait for navigations in a page that was detached goes on
\* in its tab |t|.
Continues(t) ==
  IF stack = <<>> THEN TRUE
  ELSE /\ Len(stack) < MaxDepth /\ ~Dangling(Top)
       /\ Top.op = "call" /\ Top.held /\ Top.view \in detached
       /\ Top.on \in Pages /\ Parent(Top.on) = t

-----------------------------------------------------------------------------
(* The browser.                                                            *)

Emit(new) == Len(events) + Len(new) <= MaxEvents /\ events' = events \o new

Attached(x, s, act) == [kind |-> "attached", target |-> x, session |-> s,
                        on |-> session[Parent(x)], active |-> act]

Detached(x) == [kind |-> "detached", target |-> x, session |-> session[x],
                on |-> IF x \in Tabs THEN 0 ELSE session[Parent(x)], active |-> FALSE]

UNCHANGEDdriver == UNCHANGED <<view, active, locked, detached, stack, ignored>>

BrowserOpensTab ==
  /\ \E t \in Tabs \ (open \cup closed) : open' = open \cup {t}
  /\ UNCHANGED <<session, ready, lastSession, shown, closed, events>> /\ UNCHANGEDdriver

\* A page or frame appears below an attached target and is attached to it.  The
\* first page of a tab is shown, another one is prerendered.
BrowserAttaches ==
  /\ lastSession < MaxSessions
  /\ \E x \in (Pages \cup Frames) \ (open \cup closed) :
       /\ Parent(x) \in open /\ session[Parent(x)] \in ready
       /\ LET first == x \in Pages /\ shown[Parent(x)] = None IN
            /\ Emit(<<Attached(x, lastSession + 1, first)>>)
            /\ shown' = IF first THEN [shown EXCEPT ![Parent(x)] = x] ELSE shown
       /\ open' = open \cup {x}
       /\ session' = [session EXCEPT ![x] = lastSession + 1]
       /\ lastSession' = lastSession + 1
  /\ UNCHANGED <<ready, closed>> /\ UNCHANGEDdriver

Without(gone) ==
  /\ open' = open \ gone /\ closed' = closed \cup (gone \ Frames)
  /\ session' = [y \in Targets |-> IF y \in gone THEN 0 ELSE session[y]]

\* A prerendered page takes the place of the one that is shown, which is detached.
BrowserActivates ==
  /\ \E x \in Pages \cap open :
       LET old == shown[Parent(x)] IN
         /\ old \notin {None, x}
         /\ Emit(<<[kind |-> "changed", target |-> x, session |-> session[x],
                    on |-> session[Parent(x)], active |-> TRUE], Detached(old)>>)
         /\ shown' = [shown EXCEPT ![Parent(x)] = x]
         /\ Without(Descendants({old}) \cap open)
  /\ UNCHANGED <<ready, lastSession>> /\ UNCHANGEDdriver

\* A target goes away with everything below it.
BrowserDetaches ==
  /\ \E x \in open :
       LET gone == Descendants({x}) \cap open IN
         /\ IF session[x] = 0 THEN UNCHANGED events ELSE Emit(<<Detached(x)>>)
         /\ Without(gone)
         /\ shown' = [t \in Tabs |-> IF t \in gone \/ shown[t] \in gone THEN None ELSE shown[t]]
  /\ UNCHANGED <<ready, lastSession>> /\ UNCHANGEDdriver

-----------------------------------------------------------------------------
(* HandleMessage and the trackers.                                         *)

\* children_ has the client of the session, or it is the root.
Known(e) == e.target \in Tabs \cup {x \in Pages \cup Frames : /\ view[Parent(x)] # 0
                                                           /\ view[Parent(x)] = e.on}

IgnoreEvent(e) ==
  /\ ~Known(e)
  /\ UNCHANGED <<view, active, locked, detached, stack, ignored>>

\* FrameTracker and PageTracker, Target.attachedToTarget of a target they know.
\* PageTracker activates the page all the same.
AttachedAgain(e) ==
  /\ e.kind = "attached" /\ view[e.target] # 0
  /\ active' = IF e.active THEN [active EXCEPT ![Parent(e.target)] = e.target] ELSE active
  /\ ignored' = ignored \cup {e.target}
  /\ UNCHANGED <<view, locked, detached, stack>>

\* A new view is created, entered into the map and attached under a holder, inside
\* HandleMessage, which holds the view of the parent.
AttachedToTarget(e) ==
  /\ e.kind = "attached" /\ view[e.target] = 0 /\ Len(stack) + 2 <= MaxDepth
  /\ view' = [view EXCEPT ![e.target] = e.session]
  /\ LET message == [NewCall("message", Parent(e.target), TRUE)
                     EXCEPT !.activates = e.active, !.page = e.target]
         lockedThen == locked \cup LockedBy(message.items)
         chain == Chain(e.target)
         items == [i \in DOMAIN chain |->
                     [on |-> chain[i], view |-> view'[chain[i]],
                      was |-> view'[chain[i]] \in lockedThen]] IN
       /\ stack' = stack \o <<message, [NewCall("attach", e.target, FALSE)
                                        EXCEPT !.view = e.session, !.items = items, !.held = TRUE]>>
       /\ locked' = lockedThen \cup LockedBy(items)
  /\ UNCHANGED <<active, detached, ignored>>

\* PageTracker, Target.targetInfoChanged: OnPageActivated.
TargetInfoChanged(e) ==
  /\ e.kind = "changed"
  /\ active' = IF view[e.target] # 0 THEN [active EXCEPT ![Parent(e.target)] = e.target] ELSE active
  /\ UNCHANGED <<view, locked, detached, stack, ignored>>

\* Mutant: a locked view is deleted as well.
KeepsDetachedNever(x) == FALSE

\* A locked view is only marked.
KeepsDetached(x) == view[x] \in locked

\* Mutant: a locked page stays the active one.
ActiveUnlessGone(x) ==
  [t \in Tabs |-> IF active[t] = x /\ ~KeepsDetached(x) THEN None ELSE active[t]]

\* A page that is disconnected is not the active one any more.
ActiveWithout(x) == [t \in Tabs |-> IF active[t] = x THEN None ELSE active[t]]

\* FrameTracker, PageTracker::OnPageDisconnected and TabTracker.
DetachedFromTarget(e) ==
  LET x == e.target
      cleared == ActiveWithout(x) IN
    /\ e.kind = "detached"
    /\ IF view[x] = 0 THEN UNCHANGED <<view, active, locked, detached>>
       ELSE IF KeepsDetached(x)
       THEN /\ detached' = detached \cup {view[x]} /\ active' = cleared
            /\ UNCHANGED <<view, locked>>
       ELSE LET gone == Descendants({x}) IN
              /\ view' = [y \in Targets |-> IF y \in gone THEN 0 ELSE view[y]]
              /\ active' = [t \in Tabs |-> IF t = x THEN None ELSE cleared[t]]
              /\ locked' = locked \ {view[y] : y \in gone}
              /\ detached' = detached \ {view[y] : y \in gone}
    /\ UNCHANGED <<stack, ignored>>

\* ProcessNextMessage of the call on top receives an event.
HandleMessage ==
  /\ Waiting /\ ~Dangling(Top) /\ events # <<>>
  /\ LET e == Head(events) IN
       \/ IgnoreEvent(e)
       \/ Known(e) /\ (\/ AttachedAgain(e) \/ AttachedToTarget(e)
                       \/ TargetInfoChanged(e) \/ DetachedFromTarget(e))
  /\ events' = Tail(events)
  /\ UNCHANGED browserVars

\* The listener of an event returns; PageTracker activates the page it attached,
\* if it still knows it.
MessageReturns ==
  /\ stack # <<>> /\ Top.op = "message"
  /\ stack' = SubSeq(stack, 1, Len(stack) - 1)
  /\ LET items == Top.items
         x == Top.page IN
       IF Top.activates /\ view[x] # 0
       THEN /\ active' = [active EXCEPT ![Parent(x)] = x]
            /\ locked' = locked \ ({it.view : it \in Released(items)} \ detached)
            /\ UNCHANGED <<view, detached>>
       ELSE Release(items)
  /\ UNCHANGED <<browserVars, events, ignored>>

-----------------------------------------------------------------------------
(* Calls.                                                                  *)

\* AttachTo: Target.setAutoAttach takes effect.
SetAutoAttach ==
  /\ Waiting /\ Top.op = "attach" /\ ~Dangling(Top)
  /\ Top.view \notin ready /\ ready' = ready \cup {Top.view}
  /\ UNCHANGED <<open, session, lastSession, shown, closed, events>> /\ UNCHANGEDdriver

\* A call returns: it got its answer, timed out or found its target detached.
CallReturns ==
  /\ Waiting /\ ~Dangling(Top) /\ Top.op \in {"attach", "call", "wait"}
  /\ Top.op = "attach" => Top.view \in ready \cup detached
  /\ stack' = SubSeq(stack, 1, Len(stack) - 1)
  /\ Release(Top.items)
  /\ UNCHANGED <<browserVars, events, ignored>>

\* Session::GetTargetWindow and GetActivePageByWebViewId:
\* WaitForPendingActivePage of a tab.
WaitForPendingActivePage ==
  /\ \E t \in Tabs :
       /\ view[t] # 0 /\ Continues(t)
       /\ Push(NewCall("wait", t, TRUE))
  /\ UNCHANGED <<browserVars, events, view, active, detached, ignored>>

\* A method of the active page of a tab, with a holder (the methods that run
\* scripts, wait for navigations or take heap snapshots) or without one.  A wait for
\* navigations goes on in the new page when its own was detached.
CallOnPage ==
  /\ \E t \in Tabs, held \in BOOLEAN :
       /\ view[t] # 0 /\ active[t] # None /\ view[active[t]] # 0
       /\ Continues(t) /\ (stack # <<>> => held)
       /\ Push(NewCall("call", active[t], held))
  /\ UNCHANGED <<browserVars, events, view, active, detached, ignored>>

\* GetTargetForFrame: a script runs in the view of an out-of-process frame, unless
\* that is detached.
CallOnFrame ==
  /\ Waiting /\ Len(stack) < MaxDepth /\ ~Dangling(Top) /\ Top.op = "call" /\ Top.held
  /\ \E f \in Frames :
       /\ view[f] # 0 /\ view[f] \notin detached /\ f \in Descendants({Top.on}) \ {Top.on}
       /\ Push(NewCall("call", f, TRUE))
  /\ UNCHANGED <<browserVars, events, view, active, detached, ignored>>

\* GetTopLevelWebViewIds: Target.getTargets is sent.
BeginUpdateWebViews ==
  /\ stack = <<>>
  /\ Push(NewCall("getTargets", Root, FALSE))
  /\ UNCHANGED <<browserVars, events, view, active, detached, ignored>>

\* Its answer: UpdateWebViews erases the views that are not listed.
UpdateWebViews ==
  /\ Waiting /\ Top.op = "getTargets"
  /\ stack' = <<[Top EXCEPT !.op = "update", !.todo = Tabs \cap open]>>
  /\ DeleteViews(Tabs \ open, {})
  /\ UNCHANGED <<browserVars, events, ignored>>

\* The next tab of the snapshot, if it is new: Target.attachToTarget and AttachTo.
\* It may have been closed in the meantime.
AttachToTarget ==
  /\ Waiting /\ Top.op = "update"
  /\ \E t \in Top.todo :
       LET rest == <<[Top EXCEPT !.todo = @ \ {t}]>> IN
         IF view[t] # 0 \/ t \notin open
         THEN stack' = rest /\ UNCHANGED <<session, lastSession, view, locked>>
         ELSE /\ lastSession < MaxSessions /\ lastSession' = lastSession + 1
              /\ session' = [session EXCEPT ![t] = lastSession']
              /\ view' = [view EXCEPT ![t] = lastSession']
              /\ stack' = Append(rest, [NewCall("attach", t, FALSE) EXCEPT
                            !.view = lastSession', !.held = TRUE,
                            !.items = <<[on |-> t, view |-> lastSession', was |-> FALSE]>>])
              /\ locked' = locked \cup {lastSession'}
  /\ UNCHANGED <<open, ready, shown, closed, events, active, detached, ignored>>

UpdateReturns ==
  /\ Waiting /\ Top.op = "update" /\ Top.todo = {}
  /\ stack' = <<>>
  /\ UNCHANGED <<browserVars, events, view, active, locked, detached, ignored>>

\* CloseWebView: CloseTarget waits until the tab is not listed, or for 20 seconds.
BeginCloseWebView ==
  /\ stack = <<>>
  /\ \E t \in Tabs : view[t] # 0 /\ Push([NewCall("close", Root, FALSE) EXCEPT !.todo = {t}])
  /\ UNCHANGED <<browserVars, events, view, active, detached, ignored>>

CloseWebView ==
  /\ Waiting /\ Top.op = "close"
  /\ stack' = <<>>
  /\ DeleteViews(Top.todo \ open, {})
  /\ UNCHANGED <<browserVars, events, ignored>>

\* A call whose view was deleted goes on: undefined behaviour, nothing is known of
\* what follows.
Undefined ==
  /\ Waiting /\ Dangling(Top)
  /\ UNCHANGED vars

Browser == BrowserOpensTab \/ BrowserAttaches \/ BrowserActivates \/ BrowserDetaches
Driver == \/ HandleMessage \/ MessageReturns \/ SetAutoAttach \/ CallReturns
          \/ WaitForPendingActivePage \/ CallOnPage \/ CallOnFrame
          \/ BeginUpdateWebViews \/ UpdateWebViews \/ AttachToTarget \/ UpdateReturns
          \/ BeginCloseWebView \/ CloseWebView \/ Undefined
Next == Browser \/ Driver

Spec == Init /\ [][Next]_vars

-----------------------------------------------------------------------------
TypeOK ==
  /\ open \subseteq Targets /\ session \in [Targets -> 0..MaxSessions]
  /\ ready \subseteq 1..MaxSessions /\ lastSession \in 0..MaxSessions
  /\ shown \in [Tabs -> Pages \cup {None}] /\ Len(events) <= MaxEvents
  /\ view \in [Targets -> 0..MaxSessions] /\ active \in [Tabs -> Pages \cup {None}]
  /\ locked \subseteq 1..MaxSessions /\ detached \subseteq 1..MaxSessions
  /\ ignored \subseteq Frames /\ closed \subseteq Tabs \cup Pages
  /\ \A x \in Targets : x \notin Tabs /\ view[x] # 0 => view[Parent(x)] # 0

\* No view that a holder locked is deleted before the holder is, whatever events
\* arrive inside the call and however calls are nested.
HeldViewsExist ==
  \A i \in DOMAIN stack : LET call == stack[i] IN
    /\ call.held => ~Dangling(call)
    /\ \A j \in DOMAIN call.items : view[call.items[j].on] = call.items[j].view

\* The locks are those of the holders on the stack, and those of detached tabs; what
\* is detached is locked.  So no page or frame that was detached during a call is
\* kept after it, and none stays locked and escapes deletion for ever.
LocksMatchHolders ==
  LET tabViews == {view[t] : t \in Tabs} IN
    /\ locked \ tabViews = (UNION {LockedBy(stack[i].items) : i \in DOMAIN stack}) \ tabViews
    /\ detached \subseteq locked

\* Both: a holder keeps its views, and no view is kept without a holder.
HoldersKeepViews == HeldViewsExist /\ LocksMatchHolders

-----------------------------------------------------------------------------
(* What HoldersKeepViews rests on.                                         *)

HeldItems == [on : Targets, view : Nat \ {0}, was : BOOLEAN]
Calls == [op : {"message", "attach", "call", "wait", "getTargets", "update", "close"},
          on : Targets \cup {Root}, view : Nat, items : Seq(HeldItems), held : BOOLEAN,
          activates : BOOLEAN, page : Targets \cup {None}, todo : SUBSET Tabs]
Messages == [kind : {"attached", "changed", "detached"}, target : Targets, session : Nat,
             on : Nat, active : BOOLEAN]

\* Only pages and frames are attached by events, and only pages are activated.
Sound(e) ==
  /\ e.kind = "attached" => e.target \notin Tabs /\ e.session # 0
  /\ e.active \/ e.kind = "changed" => e.target \in Pages

ViewsTyped ==
  /\ session \in [Targets -> Nat] /\ lastSession \in Nat
  /\ events \in Seq(Messages) /\ \A i \in 1..Len(events) : Sound(events[i])
  /\ view \in [Targets -> Nat] /\ active \in [Tabs -> Pages \cup {None}]
  /\ stack \in Seq(Calls)

\* The browser shows pages in its tabs.
BrowserTyped == open \subseteq Targets /\ shown \in [Tabs -> Pages \cup {None}]

\* A session has one view, in the views vw, and a session that is announced has none yet.
Distinct(vw) == \A x, y \in Targets : vw[x] # 0 /\ vw[x] = vw[y] => x = y
OneView ==
  /\ Distinct(view) /\ \A x \in Targets : view[x] <= lastSession
  /\ \A i \in 1..Len(events) : events[i].kind = "attached" =>
       events[i].session <= lastSession /\ \A x \in Targets : view[x] # events[i].session
  /\ \A i, j \in 1..Len(events) :
       /\ events[i].kind = "attached" /\ events[j].kind = "attached"
       /\ events[i].session = events[j].session
       => i = j

\* A view is owned by one that exists.
Owned(vw) == \A x \in Targets : x \notin Tabs /\ vw[x] # 0 => vw[Parent(x)] # 0

\* A call on the stack st: a holder has the views of a target and of its parents.
Held(call) == LockedBy(call.items)
Holds(call, vw) ==
  IF call.held
  THEN /\ call.on \in Targets /\ DOMAIN call.items = DOMAIN Chain(call.on)
       /\ call.view = call.items[1].view
       /\ \A j \in DOMAIN call.items :
            call.items[j].on = Chain(call.on)[j] /\ vw[call.items[j].on] = call.items[j].view
  ELSE call.items = <<>>
Outermost(call) == call.op \in {"getTargets", "update", "close"}
Placed(call) ==
  /\ Outermost(call) => ~call.held
  /\ call.activates => /\ call.op = "message" /\ call.held /\ call.page \in Pages
                       /\ call.on = Parent(call.page)
Holders(st, vw) ==
  \A i \in 1..Len(st) : Holds(st[i], vw) /\ Placed(st[i]) /\ (Outermost(st[i]) => i = 1)

\* A holder knows what those below it locked; a tab may be locked because it is detached.
Nested(st) ==
  \A i \in 1..Len(st) : \A j \in DOMAIN st[i].items :
    IF st[i].items[j].was
    THEN st[i].items[j].on \in Tabs \/ \E k \in 1..(i - 1) : st[i].items[j].view \in Held(st[k])
    ELSE \A k \in 1..(i - 1) : st[i].items[j].view \notin Held(st[k])

\* The locks lk are those of the holders, and those of detached tabs.
Locks(st, vw, lk) ==
  /\ 0 \notin lk /\ \A i \in 1..Len(st) : Held(st[i]) \subseteq lk
  /\ \A v \in lk : (\E t \in Tabs : vw[t] = v) \/ \E i \in 1..Len(st) : v \in Held(st[i])

HoldersInv ==
  /\ ViewsTyped /\ OneView /\ Owned(view) /\ Holders(stack, view) /\ Nested(stack)
  /\ Locks(stack, view, locked) /\ detached \subseteq locked

-----------------------------------------------------------------------------
Quiet == stack = <<>> /\ events = <<>>

\* The targets of tabs that were not closed during a call.
Live == Targets \ Descendants({t \in Tabs : view[t] \in detached})

\* When all events are processed the views are those of the attached targets: no
\* view speaks to a session that has ended, and the only targets without a view are
\* those that were attached again while a call held their old view.
ViewsAreAttached ==
  Quiet => \A x \in (Pages \cup Frames) \cap Live :
             /\ view[x] \in {0, session[x]}
             /\ session[x] # 0 /\ view[Parent(x)] = session[Parent(x)]
                  => view[x] = session[x] \/ x \in ignored

\* When all events are processed, the page commands are sent to is the one the tab
\* shows, if there is one.
ActiveIsShown ==
  Quiet => \A t \in Tabs \cap Live : view[t] # 0 => active[t] \in {None, shown[t]}

\* Both: the views are those of the targets, and the active page is the shown one.
ViewsFollowTargets == ViewsAreAttached /\ ActiveIsShown

\* A call that goes on finds its view.
CallsFindTheirView == Waiting => ~Dangling(Top)
=============================================================================
