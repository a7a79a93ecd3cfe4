------------------------ MODULE DevToolsClient_proofs ------------------------
(* Proofs about DevToolsClient, for any number of operations and events.   *)
EXTENDS DevToolsClient, QueueLemmas, TLAPS

StackTyped == stack \in Seq(ActivationRecord) /\ ret \in Statuses
CommandsTyped ==
  /\ nextId \in Nat \ {0} /\ DOMAIN commands \subseteq 1..(nextId - 1)
  /\ commands \in [DOMAIN commands -> Command] /\ connected \in BOOLEAN
ClientsTyped ==
  /\ attached \in SUBSET Clients /\ detached \in SUBSET Clients /\ crashed \in SUBSET Clients
  /\ listeners \in [Clients -> Seq(Listeners)] /\ fedcm \in {"none", "live", "dangling"}
UnnotifiedTyped ==
  /\ unConnect \in [Clients -> Seq(Listeners)] /\ unEvent \in [Clients -> Seq(Listeners)]
  /\ event \in [Clients -> [number : Nat, kind : EventKinds]]
  /\ unResponse \in [Clients -> Seq(Listeners)] /\ response \in SUBSET Clients
CountsTyped == sends \in 0..MaxSends /\ events \in 0..MaxEvents
RestTyped ==
  /\ dialogs \in [Clients -> Nat]
  /\ lastSeen \in [Clients -> [Listeners -> Nat]] /\ opened \in [Clients -> Nat]
  /\ failed \in SUBSET Clients /\ died \in BOOLEAN /\ navigations \in SUBSET Nat
Typed ==
  /\ StackTyped /\ CommandsTyped /\ ClientsTyped /\ UnnotifiedTyped /\ CountsTyped /\ RestTyped

-----------------------------------------------------------------------------
(* The calls on a stack.                                                   *)

Sending(r) == r.fn = "SendCommand"
Processing(r) == r.fn = "ProcessNextMessage"

\* While a call waits for its command, the call above it processes messages, for the
\* client of the command or, once that has nothing left to tell its listeners, for Root.
Waits(a, b) ==
  /\ Processing(b)
  /\ (b.c = a.c /\ b.id = a.id) \/ (b.c = Root /\ b.id = 0)

\* What a call is doing when it has called another one.
Calls(a, b) ==
  /\ Sending(a) => Waits(a, b)
  /\ Processing(a) /\ a.c = Root => a.at = "handle"
  /\ a.fn = "ProcessEvent" => a.at # "start"

Linked(st) ==
  /\ \A i \in 1..(Len(st) - 1) : Calls(st[i], st[i + 1])
  /\ \A i, j \in 1..Len(st) : Sending(st[i]) /\ Sending(st[j]) /\ st[i].id = st[j].id => i = j

\* The places at which a call may be.
Placed(r) ==
  /\ Processing(r) /\ r.c = Root => r.at \in {"start", "handle"}
  /\ r.fn = "ProcessEvent" => r.at \in {"start", "event", "dialog", "roundTrip"}
  /\ r.fn = "ProcessEvent" /\ r.at = "dialog" => AcceptsDialog(r.ev.kind)
  /\ r.fn = "AttachTo" => r.at \in {"start", "connect"} /\ r.c # Root
  /\ r.fn \in {"SendCommand", "HandleEventsUntil", "GetFedCmTracker", "OnConnected", "OnEvent", "OnCommandSuccess"} => r.at = "start"
  /\ r.fn = "HandleDialog" => r.at \in {"start", "dialog", "retry"}
  /\ r.fn = "ProcessCommandResponse" => r.at \in {"start", "response"}

\* Root has no listeners.
RootIsQuiet ==
  /\ listeners[Root] = <<>> /\ unConnect[Root] = <<>> /\ unEvent[Root] = <<>>
  /\ unResponse[Root] = <<>> /\ detached \subseteq {Frame}

\* A command that is awaited has its ResponseInfo.
Holds(r, cs) == Sending(r) => r.id \in DOMAIN cs /\ cs[r.id].client = r.c

Sound(st, cs) == Linked(st) /\ \A i \in 1..Len(st) : Placed(st[i]) /\ Holds(st[i], cs)

\* What waits is in response_info_map_, and so is what the browser will answer.
Regular(cmd, det) ==
  /\ cmd.state = "kWaiting" => cmd.mapped
  /\ cmd.client \notin det => cmd.mapped = cmd.pending
Settled(cs, det) == \A id \in DOMAIN cs : Regular(cs[id], det)

\* Root is about to receive on behalf of a command.
Tests(st) ==
  /\ Len(st) > 1 /\ Sending(st[Len(st) - 1])
  /\ st[Len(st)].c = Root /\ st[Len(st)].id = 0 /\ st[Len(st)].at = "start"

\* Nothing happens between the test that a command still waits and the receive.
TestedBeforeReceive ==
  Tests(stack) => LET cmd == commands[stack[Len(stack) - 1].id]
                  IN  cmd.pending /\ cmd.state = "kWaiting"

Chain ==
  Sound(stack, commands) /\ Settled(commands, detached) /\ RootIsQuiet /\ TestedBeforeReceive

\* The event that opened the dialogs of c is being processed, and nothing above it is older.
Opener(r, c) == r.fn = "ProcessEvent" /\ r.c = c /\ r.at # "start" /\ r.ev.kind \in Dialogs
Opened(st, c, o) ==
  \E j \in 1..Len(st) :
    /\ Opener(st[j], c) /\ (st[j].at = "roundTrip" => st[j].id > o)
    /\ \A i \in (j + 1)..Len(st) : Sending(st[i]) => st[i].id > o

DialogBlocks(c) ==
  /\ opened[c] < nextId
  /\ dialogs[c] > 0 /\ c \notin failed /\ ~died =>
       \/ Opened(stack, c, opened[c])
       \/ \A id \in DOMAIN commands :
            commands[id].client = c /\ id <= opened[c] => commands[id].state # "kWaiting"
Blocking == (died => stack = <<>>) /\ \A c \in Clients : DialogBlocks(c)

\* c is being attached, and above AttachTo there is only what tells the listeners so.
Attaching(r, c) == r.fn = "AttachTo" /\ r.c = c /\ r.at = "connect"
Telling(r, c) ==
  /\ r.c = c
  /\ \/ r.fn \in {"OnConnected", "SendCommand"}
     \/ Processing(r) /\ r.at \in {"start", "connect"}
Connecting(st, c) ==
  \E j \in 1..Len(st) : Attaching(st[j], c) /\ \A i \in (j + 1)..Len(st) : Telling(st[i], c)

Distinct(list) == \A i, j \in 1..Len(list) : list[i] = list[j] => i = j

\* A listener is on a list once; the FedCmTracker is added at most once.
Listed ==
  /\ \A c \in Clients : Distinct(listeners[c]) /\ Distinct(unEvent[c])
  /\ fedcm = "none" => \A i \in 1..Len(listeners[Page]) : listeners[Page][i] # "fedcm"

\* What is to be told of an event has seen nothing as new.
Timed(c) ==
  /\ event[c].number <= events /\ \A l \in Listeners : lastSeen[c][l] <= events
  /\ ~AcceptsDialog(event[c].kind) =>
       \A i \in 1..Len(unEvent[c]) : event[c].number > lastSeen[c][unEvent[c][i]]

\* Nobody has seen anything as new as the event whose processing begins.
Dated(r) ==
  r.fn = "ProcessEvent" =>
    /\ r.c \in attached /\ r.ev.number <= events
    /\ r.at = "start" => r.ev.number = events /\ \A c \in Clients, l \in Listeners : lastSeen[c][l] < events

\* The connection is announced before anything else happens to a client.
Told(c) ==
  c \in attached /\ c \notin failed /\ unConnect[c] # <<>> /\ ~died => Connecting(stack, c)

InOrder ==
  /\ Listed /\ \A c \in Clients : Timed(c) /\ Told(c)
  /\ \A i \in 1..Len(stack) : Dated(stack[i])

-----------------------------------------------------------------------------
(* Operations on a stack.                                                  *)

\* The running call returns.
LEMMA Popped ==
  ASSUME NEW st \in Seq(ActivationRecord), st # <<>>
  PROVE  /\ SubSeq(st, 1, Len(st) - 1) \in Seq(ActivationRecord)
         /\ Len(st) \in Nat \ {0} /\ st[Len(st)] \in ActivationRecord
         /\ Len(SubSeq(st, 1, Len(st) - 1)) = Len(st) - 1
         /\ \A i \in 1..(Len(st) - 1) : i \in 1..Len(st) /\ SubSeq(st, 1, Len(st) - 1)[i] = st[i]
<1>1. Len(st) \in Nat \ {0} /\ \A i \in 1..Len(st) : st[i] \in ActivationRecord
  OBVIOUS
<1>2. /\ SubSeq(st, 1, Len(st) - 1) \in Seq(ActivationRecord)
      /\ Len(SubSeq(st, 1, Len(st) - 1)) = Len(st) - 1
      /\ \A i \in 1..(Len(st) - 1) : SubSeq(st, 1, Len(st) - 1)[i] = st[i]
  BY FrontFacts
<1>3. \A i \in 1..(Len(st) - 1) : i \in 1..Len(st) BY <1>1
<1>4. Len(st) \in 1..Len(st) BY <1>1
<1> QED BY <1>1, <1>2, <1>3, <1>4

\* The running call goes to another place.
LEMMA Moved ==
  ASSUME NEW st \in Seq(ActivationRecord), st # <<>>, NEW r \in ActivationRecord
  PROVE  LET s2 == [st EXCEPT ![Len(st)] = r] IN
           /\ s2 \in Seq(ActivationRecord) /\ s2 # <<>> /\ Len(s2) = Len(st)
           /\ s2[Len(st)] = r /\ \A i \in 1..(Len(st) - 1) : s2[i] = st[i]
<1>1. Len(st) \in 1..Len(st) OBVIOUS
<1>2. /\ [st EXCEPT ![Len(st)] = r] \in Seq(ActivationRecord)
      /\ Len([st EXCEPT ![Len(st)] = r]) = Len(st)
      /\ [st EXCEPT ![Len(st)] = r][Len(st)] = r
      /\ \A j \in 1..Len(st) : j # Len(st) => [st EXCEPT ![Len(st)] = r][j] = st[j]
  BY <1>1, ReplacedElement
<1>3. \A i \in 1..(Len(st) - 1) : i \in 1..Len(st) /\ i # Len(st) OBVIOUS
<1>4. Len(st) \in Nat \ {0} OBVIOUS
<1> QED BY <1>2, <1>3, <1>4

\* Another call begins.
LEMMA Pushed ==
  ASSUME NEW st \in Seq(ActivationRecord), NEW x \in ActivationRecord
  PROVE  /\ Append(st, x) \in Seq(ActivationRecord) /\ Append(st, x) # <<>>
         /\ Len(st) \in Nat /\ Len(Append(st, x)) = Len(st) + 1
         /\ Append(st, x)[Len(st) + 1] = x
         /\ \A i \in 1..Len(st) : Append(st, x)[i] = st[i]
<1>1. Len(st) \in Nat OBVIOUS
<1>2. /\ Append(st, x) \in Seq(ActivationRecord) /\ Len(Append(st, x)) = Len(st) + 1
      /\ Append(st, x)[Len(st) + 1] = x
      /\ \A i \in 1..Len(st) : Append(st, x)[i] = st[i]
  BY AppendFacts
<1> QED BY <1>1, <1>2

\* Links, when the running call returns.
LEMMA LinkedPop ==
  ASSUME NEW st \in Seq(ActivationRecord), st # <<>>, Linked(st)
  PROVE  Linked(SubSeq(st, 1, Len(st) - 1))
<1> DEFINE b == SubSeq(st, 1, Len(st) - 1)
<1>1. /\ Len(st) \in Nat \ {0} /\ Len(b) = Len(st) - 1
      /\ \A i \in 1..(Len(st) - 1) : i \in 1..Len(st) /\ b[i] = st[i]
  BY Popped
<1> HIDE DEF b
<1>2. \A i \in 1..(Len(b) - 1) : i \in 1..(Len(st) - 1) /\ i + 1 \in 1..(Len(st) - 1)
  BY <1>1
<1>3. \A i \in 1..(Len(b) - 1) : Calls(b[i], b[i + 1]) BY <1>1, <1>2 DEF Linked
<1>4. \A i, j \in 1..Len(b) : Sending(b[i]) /\ Sending(b[j]) /\ b[i].id = b[j].id => i = j
  BY <1>1 DEF Linked
<1> QED BY <1>3, <1>4 DEF Linked, b

\* ... when another call begins.
LEMMA LinkedPush ==
  ASSUME NEW st \in Seq(ActivationRecord), NEW x \in ActivationRecord, Linked(st),
         st # <<>> => Calls(st[Len(st)], x),
         Sending(x) => \A i \in 1..Len(st) : Sending(st[i]) => st[i].id # x.id
  PROVE  Linked(Append(st, x))
<1> DEFINE p == Append(st, x)
<1>1. /\ Len(st) \in Nat /\ Len(p) = Len(st) + 1 /\ p[Len(st) + 1] = x
      /\ \A i \in 1..Len(st) : p[i] = st[i]
  BY Pushed
<1> HIDE DEF p
<1>2. ASSUME NEW i \in 1..(Len(p) - 1) PROVE Calls(p[i], p[i + 1])
  <2>1. CASE i < Len(st)
    <3>1. i \in 1..Len(st) /\ i + 1 \in 1..Len(st) /\ i \in 1..(Len(st) - 1) BY <1>1, <2>1
    <3> QED BY <1>1, <3>1 DEF Linked
  <2>2. CASE i = Len(st)
    <3>1. i \in 1..Len(st) /\ st # <<>> BY <1>1, <2>2
    <3> QED BY <1>1, <2>2, <3>1
  <2> QED BY <1>1, <2>1, <2>2
<1>3. ASSUME NEW i \in 1..Len(p), NEW j \in 1..Len(p), Sending(p[i]), Sending(p[j]), p[i].id = p[j].id
      PROVE  i = j
  <2>1. (i \in 1..Len(st) \/ i = Len(st) + 1) /\ (j \in 1..Len(st) \/ j = Len(st) + 1)
    BY <1>1
  <2> QED BY <1>1, <1>3, <2>1 DEF Linked
<1> QED BY <1>2, <1>3 DEF Linked, p

\* ... when the running call goes to another place.
LEMMA LinkedMove ==
  ASSUME NEW st \in Seq(ActivationRecord), st # <<>>, NEW r \in ActivationRecord, Linked(st),
         r.fn = st[Len(st)].fn, r.c = st[Len(st)].c,
         r.fn \in {"SendCommand", "ProcessNextMessage"} => r.id = st[Len(st)].id
  PROVE  Linked([st EXCEPT ![Len(st)] = r])
<1> DEFINE p == [st EXCEPT ![Len(st)] = r]
<1>1. /\ Len(p) = Len(st) /\ p[Len(st)] = r /\ \A i \in 1..(Len(st) - 1) : p[i] = st[i]
  BY Moved
<1>2. Len(st) \in Nat \ {0} OBVIOUS
<1> HIDE DEF p
<1>3. ASSUME NEW i \in 1..(Len(p) - 1) PROVE Calls(p[i], p[i + 1])
  <2>0. i \in 1..(Len(st) - 1) /\ i + 1 \in 1..Len(st) /\ Calls(st[i], st[i + 1]) /\ p[i] = st[i]
    BY <1>1, <1>2 DEF Linked
  <2>1. CASE i + 1 \in 1..(Len(st) - 1) BY <1>1, <2>0, <2>1
  <2>2. CASE i + 1 = Len(st)
    BY <1>1, <2>0, <2>2 DEF Calls, Waits, Processing
  <2> QED BY <1>1, <1>2, <2>1, <2>2
<1>4. \A i \in 1..Len(p) : i \in 1..Len(st) /\ (Sending(p[i]) => Sending(st[i]) /\ p[i].id = st[i].id)
  <2>1. \A i \in 1..Len(p) : i \in 1..(Len(st) - 1) \/ i = Len(st) BY <1>1, <1>2
  <2> QED BY <1>1, <2>1 DEF Sending
<1>5. \A i, j \in 1..Len(p) : Sending(p[i]) /\ Sending(p[j]) /\ p[i].id = p[j].id => i = j
  BY <1>4 DEF Linked
<1> QED BY <1>3, <1>5 DEF Linked, p

\* The event that opened a dialog, when the running call returns.
LEMMA OpenedPop ==
  ASSUME NEW st \in Seq(ActivationRecord), st # <<>>, NEW c, NEW o, Opened(st, c, o)
  PROVE  \/ Opened(SubSeq(st, 1, Len(st) - 1), c, o)
         \/ Opener(st[Len(st)], c) /\ (st[Len(st)].at = "roundTrip" => st[Len(st)].id > o)
<1> DEFINE b == SubSeq(st, 1, Len(st) - 1)
<1>1. /\ Len(st) \in Nat \ {0} /\ Len(b) = Len(st) - 1
      /\ \A i \in 1..(Len(st) - 1) : i \in 1..Len(st) /\ b[i] = st[i]
  BY Popped
<1> HIDE DEF b
<1>2. PICK j \in 1..Len(st) :
        /\ Opener(st[j], c) /\ (st[j].at = "roundTrip" => st[j].id > o)
        /\ \A i \in (j + 1)..Len(st) : Sending(st[i]) => st[i].id > o
  BY DEF Opened
<1>3. CASE j = Len(st) BY <1>2, <1>3
<1>4. CASE j # Len(st)
  <2>1. j \in 1..Len(b) /\ b[j] = st[j] BY <1>1, <1>4
  <2>2. \A i \in (j + 1)..Len(b) : i \in (j + 1)..Len(st) /\ b[i] = st[i] BY <1>1
  <2>3. Opened(b, c, o) BY <1>2, <2>1, <2>2 DEF Opened
  <2> QED BY <2>3 DEF b
<1> QED BY <1>3, <1>4

\* ... when another call begins.
LEMMA OpenedPush ==
  ASSUME NEW st \in Seq(ActivationRecord), NEW x \in ActivationRecord, NEW c, NEW o,
         Opened(st, c, o), Sending(x) => x.id > o
  PROVE  Opened(Append(st, x), c, o)
<1> DEFINE p == Append(st, x)
<1>1. /\ Len(st) \in Nat /\ Len(p) = Len(st) + 1 /\ p[Len(st) + 1] = x
      /\ \A i \in 1..Len(st) : p[i] = st[i]
  BY Pushed
<1> HIDE DEF p
<1>2. PICK j \in 1..Len(st) :
        /\ Opener(st[j], c) /\ (st[j].at = "roundTrip" => st[j].id > o)
        /\ \A i \in (j + 1)..Len(st) : Sending(st[i]) => st[i].id > o
  BY DEF Opened
<1>3. j \in 1..Len(p) /\ p[j] = st[j] BY <1>1
<1>4. \A i \in (j + 1)..Len(p) : (i \in (j + 1)..Len(st) /\ p[i] = st[i]) \/ p[i] = x
  BY <1>1
<1> QED BY <1>2, <1>3, <1>4 DEF Opened, p

\* ... when the running call goes to another place.
LEMMA OpenedMove ==
  ASSUME NEW st \in Seq(ActivationRecord), st # <<>>, NEW r \in ActivationRecord, NEW c, NEW o,
         Opened(st, c, o),
         Opener(st[Len(st)], c) => Opener(r, c) /\ (r.at = "roundTrip" => r.id > o),
         Sending(r) => Sending(st[Len(st)]) /\ r.id = st[Len(st)].id
  PROVE  Opened([st EXCEPT ![Len(st)] = r], c, o)
<1> DEFINE p == [st EXCEPT ![Len(st)] = r]
<1>1. /\ Len(p) = Len(st) /\ p[Len(st)] = r /\ \A i \in 1..(Len(st) - 1) : p[i] = st[i]
  BY Moved
<1>0. Len(st) \in Nat \ {0} OBVIOUS
<1> HIDE DEF p
<1>2. PICK j \in 1..Len(st) :
        /\ Opener(st[j], c) /\ (st[j].at = "roundTrip" => st[j].id > o)
        /\ \A i \in (j + 1)..Len(st) : Sending(st[i]) => st[i].id > o
  BY DEF Opened
<1>3. j \in 1..Len(p) /\ Opener(p[j], c) /\ (p[j].at = "roundTrip" => p[j].id > o)
  <2>1. CASE j = Len(st) BY <1>0, <1>1, <1>2, <2>1
  <2>2. CASE j # Len(st)
    <3>1. j \in 1..(Len(st) - 1) BY <1>0, <2>2
    <3> QED BY <1>1, <1>2, <3>1
  <2> QED BY <2>1, <2>2
<1>4. ASSUME NEW i \in (j + 1)..Len(p), Sending(p[i]) PROVE p[i].id > o
  <2>1. i \in (j + 1)..Len(st) /\ (i = Len(st) \/ i \in 1..(Len(st) - 1)) BY <1>0, <1>1
  <2> QED BY <1>1, <1>2, <1>4, <2>1
<1> QED BY <1>3, <1>4 DEF Opened, p

\* Who runs while a client is being connected.
LEMMA ConnectingTop ==
  ASSUME NEW st \in Seq(ActivationRecord), NEW c, Connecting(st, c)
  PROVE  st # <<>> /\ (Attaching(st[Len(st)], c) \/ Telling(st[Len(st)], c))
<1>1. PICK j \in 1..Len(st) : Attaching(st[j], c) /\ \A i \in (j + 1)..Len(st) : Telling(st[i], c)
  BY DEF Connecting
<1>2. Len(st) \in Nat \ {0} BY <1>1
<1>3. j = Len(st) \/ Len(st) \in (j + 1)..Len(st) BY <1>1, <1>2
<1> QED BY <1>1, <1>2, <1>3

\* The connection, when the running call returns.
LEMMA ConnectingPop ==
  ASSUME NEW st \in Seq(ActivationRecord), st # <<>>, NEW c, Connecting(st, c),
         ~Attaching(st[Len(st)], c)
  PROVE  Connecting(SubSeq(st, 1, Len(st) - 1), c)
<1> DEFINE b == SubSeq(st, 1, Len(st) - 1)
<1>1. /\ Len(st) \in Nat \ {0} /\ Len(b) = Len(st) - 1
      /\ \A i \in 1..(Len(st) - 1) : i \in 1..Len(st) /\ b[i] = st[i]
  BY Popped
<1> HIDE DEF b
<1>2. PICK j \in 1..Len(st) : Attaching(st[j], c) /\ \A i \in (j + 1)..Len(st) : Telling(st[i], c)
  BY DEF Connecting
<1>3. j \in 1..Len(b) /\ b[j] = st[j] BY <1>1, <1>2
<1>4. \A i \in (j + 1)..Len(b) : i \in (j + 1)..Len(st) /\ b[i] = st[i] BY <1>1
<1> QED BY <1>2, <1>3, <1>4 DEF Connecting, b

\* ... when another call begins.
LEMMA ConnectingPush ==
  ASSUME NEW st \in Seq(ActivationRecord), NEW x \in ActivationRecord, NEW c,
         Connecting(st, c), Telling(x, c)
  PROVE  Connecting(Append(st, x), c)
<1> DEFINE p == Append(st, x)
<1>1. /\ Len(st) \in Nat /\ Len(p) = Len(st) + 1 /\ p[Len(st) + 1] = x
      /\ \A i \in 1..Len(st) : p[i] = st[i]
  BY Pushed
<1> HIDE DEF p
<1>2. PICK j \in 1..Len(st) : Attaching(st[j], c) /\ \A i \in (j + 1)..Len(st) : Telling(st[i], c)
  BY DEF Connecting
<1>3. j \in 1..Len(p) /\ p[j] = st[j] BY <1>1
<1>4. \A i \in (j + 1)..Len(p) : (i \in (j + 1)..Len(st) /\ p[i] = st[i]) \/ p[i] = x
  BY <1>1
<1> QED BY <1>2, <1>3, <1>4 DEF Connecting, p

\* ... when the running call goes to another place.
LEMMA ConnectingMove ==
  ASSUME NEW st \in Seq(ActivationRecord), st # <<>>, NEW r \in ActivationRecord, NEW c,
         Connecting(st, c),
         Attaching(st[Len(st)], c) => Attaching(r, c),
         Telling(st[Len(st)], c) => Telling(r, c)
  PROVE  Connecting([st EXCEPT ![Len(st)] = r], c)
<1> DEFINE p == [st EXCEPT ![Len(st)] = r]
<1>1. /\ Len(p) = Len(st) /\ p[Len(st)] = r /\ \A i \in 1..(Len(st) - 1) : p[i] = st[i]
  BY Moved
<1>0. Len(st) \in Nat \ {0} OBVIOUS
<1> HIDE DEF p
<1>2. PICK j \in 1..Len(st) : Attaching(st[j], c) /\ \A i \in (j + 1)..Len(st) : Telling(st[i], c)
  BY DEF Connecting
<1>3. j \in 1..Len(p) /\ Attaching(p[j], c)
  <2>1. CASE j = Len(st) BY <1>0, <1>1, <1>2, <2>1
  <2>2. CASE j # Len(st)
    <3>1. j \in 1..(Len(st) - 1) BY <1>0, <2>2
    <3> QED BY <1>1, <1>2, <3>1
  <2> QED BY <2>1, <2>2
<1>4. ASSUME NEW i \in (j + 1)..Len(p) PROVE Telling(p[i], c)
  <2>1. i \in (j + 1)..Len(st) /\ (i = Len(st) \/ i \in 1..(Len(st) - 1)) BY <1>0, <1>1
  <2> QED BY <1>1, <1>2, <2>1
<1> QED BY <1>3, <1>4 DEF Connecting, p

-----------------------------------------------------------------------------
(* Types.                                                                  *)

\* The activation records that calls push.
LEMMA Activated ==
  ASSUME NEW fn \in Functions, NEW c \in Clients, NEW id \in Nat, NEW l \in Listeners,
         NEW caller \in Clients, NEW ev \in [number : Nat, kind : EventKinds]
  PROVE  /\ Activation(fn, c) \in ActivationRecord
         /\ [Activation(fn, c) EXCEPT !.id = id] \in ActivationRecord
         /\ [Activation(fn, c) EXCEPT !.l = l] \in ActivationRecord
         /\ [Activation(fn, c) EXCEPT !.caller = caller] \in ActivationRecord
         /\ [Activation(fn, c) EXCEPT !.ev = ev] \in ActivationRecord
<1>1. NoEvent \in [number : Nat, kind : EventKinds] BY DEF NoEvent, EventKinds
<1> HIDE DEF NoEvent
<1>2. Activation(fn, c) \in ActivationRecord
  BY <1>1 DEF Activation, ActivationRecord, Places
<1>3. [Activation(fn, c) EXCEPT !.id = id] \in ActivationRecord
  BY <1>1 DEF Activation, ActivationRecord, Places
<1>4. [Activation(fn, c) EXCEPT !.l = l] \in ActivationRecord
  BY <1>1 DEF Activation, ActivationRecord, Places
<1>5. [Activation(fn, c) EXCEPT !.caller = caller] \in ActivationRecord
  BY <1>1 DEF Activation, ActivationRecord, Places
<1>6. [Activation(fn, c) EXCEPT !.ev = ev] \in ActivationRecord
  BY <1>1 DEF Activation, ActivationRecord, Places
<1> QED BY <1>2, <1>3, <1>4, <1>5, <1>6

\* The running call, and the stack when it is at another place or has returned.
LEMMA TopFacts ==
  ASSUME StackTyped, stack # <<>>
  PROVE  /\ Top \in ActivationRecord /\ Below \in Seq(ActivationRecord)
         /\ Top.fn \in Functions /\ Top.c \in Clients /\ Top.id \in Nat /\ Top.caller \in Clients
         /\ Top.ev \in [number : Nat, kind : EventKinds]
         /\ Top.ev.number \in Nat /\ Top.ev.kind \in EventKinds
<1>1. Top \in ActivationRecord /\ Below \in Seq(ActivationRecord)
  BY Popped DEF StackTyped, Top, Below
<1> QED BY <1>1 DEF ActivationRecord

\* The stack when the running call is at another place.
LEMMA AtFacts ==
  ASSUME StackTyped, stack # <<>>, NEW p \in Places
  PROVE  /\ At(p) = [stack EXCEPT ![Len(stack)] = [Top EXCEPT !.at = p]]
         /\ [Top EXCEPT !.at = p] \in ActivationRecord
         /\ At(p) \in Seq(ActivationRecord) /\ At(p) # <<>> /\ Len(At(p)) = Len(stack)
         /\ At(p)[Len(stack)] = [Top EXCEPT !.at = p]
         /\ \A i \in 1..(Len(stack) - 1) : At(p)[i] = stack[i]
<1>1. Top \in ActivationRecord BY TopFacts
<1>2. [Top EXCEPT !.at = p] \in ActivationRecord BY <1>1 DEF ActivationRecord
<1>3. At(p) = [stack EXCEPT ![Len(stack)] = [Top EXCEPT !.at = p]] BY DEF At, Top, StackTyped
<1> QED BY <1>2, <1>3, Moved DEF StackTyped

\* A command is entered in response_info_map_.
LEMMA Registered ==
  ASSUME CommandsTyped, NEW c \in Clients, Register(c)
  PROVE  /\ nextId' = nextId + 1 /\ nextId' \in Nat \ {0} /\ nextId \notin DOMAIN commands
         /\ DOMAIN commands' = DOMAIN commands \cup {nextId}
         /\ DOMAIN commands' \subseteq 1..(nextId' - 1)
         /\ commands'[nextId] = NewCommand(c)
         /\ \A id \in DOMAIN commands : commands'[id] = commands[id]
         /\ commands' \in [DOMAIN commands' -> Command]
<1>1. /\ nextId' = nextId + 1 /\ nextId' \in Nat \ {0} /\ nextId \notin DOMAIN commands
      /\ DOMAIN commands' = DOMAIN commands \cup {nextId}
      /\ DOMAIN commands' \subseteq 1..(nextId' - 1)
  BY DEF Register, CommandsTyped
<1>2. /\ commands'[nextId] = NewCommand(c)
      /\ \A id \in DOMAIN commands : commands'[id] = commands[id]
  BY <1>1 DEF Register
<1>3. NewCommand(c) \in Command BY DEF NewCommand, Command, CommandStates
<1>4. commands' \in [DOMAIN commands' -> Command]
  BY <1>1, <1>3 DEF Register, CommandsTyped
<1> QED BY <1>1, <1>2, <1>4

\* A ResponseInfo is deleted.
LEMMA WithoutFacts ==
  ASSUME CommandsTyped, NEW id
  PROVE  /\ DOMAIN Without(id) = DOMAIN commands \ {id}
         /\ Without(id) \in [DOMAIN Without(id) -> Command]
         /\ \A i \in DOMAIN commands : i # id => Without(id)[i] = commands[i]
BY DEF Without, CommandsTyped

\* What SendCommandInternal does before its loop.
LEMMA SendFacts ==
  ASSUME CommandsTyped, NEW st \in Seq(ActivationRecord), NEW c \in Clients, SendCommand(st, c)
  PROVE  LET x == [Activation("SendCommand", c) EXCEPT !.id = nextId] IN
         /\ x \in ActivationRecord /\ x.fn = "SendCommand" /\ x.c = c /\ x.id = nextId
         /\ x.at = "start"
         /\ \/ stack' = Append(st, x) /\ Register(c) /\ ret' = "kOk" /\ connected' = connected
            \/ /\ stack' = st /\ UNCHANGED <<nextId, commands>> /\ ret' = "kDisconnected"
               /\ connected' = FALSE
<1> DEFINE x == [Activation("SendCommand", c) EXCEPT !.id = nextId]
<1>1. nextId \in Nat /\ "SendCommand" \in Functions BY DEF CommandsTyped, Functions
<1>2. NoEvent \in [number : Nat, kind : EventKinds] BY DEF NoEvent, EventKinds
<1>3. x \in ActivationRecord BY <1>1, <1>2, Activated DEF Listeners
<1>4. x.fn = "SendCommand" /\ x.c = c /\ x.id = nextId /\ x.at = "start" BY DEF Activation
<1> QED BY <1>3, <1>4 DEF SendCommand, Call

\* A command that is sent keeps the types.
LEMMA SendTyped ==
  ASSUME CommandsTyped, NEW st \in Seq(ActivationRecord), NEW c \in Clients, SendCommand(st, c)
  PROVE  StackTyped' /\ CommandsTyped'
<1> DEFINE x == [Activation("SendCommand", c) EXCEPT !.id = nextId]
<1>1. /\ x \in ActivationRecord
      /\ \/ stack' = Append(st, x) /\ Register(c) /\ ret' = "kOk" /\ connected' = connected
         \/ /\ stack' = st /\ UNCHANGED <<nextId, commands>> /\ ret' = "kDisconnected"
            /\ connected' = FALSE
  BY SendFacts
<1> HIDE DEF x
<1>2. StackTyped' BY <1>1, Pushed DEF StackTyped, Statuses
<1>3. CommandsTyped' BY <1>1, Registered DEF CommandsTyped
<1> QED BY <1>2, <1>3

\* Types of what a step leaves alone.
LEMMA Kept ==
  ASSUME Typed
  PROVE  /\ UNCHANGED <<stack, ret>> => StackTyped'
         /\ UNCHANGED commandVars => CommandsTyped'
         /\ UNCHANGED clientVars => ClientsTyped'
         /\ UNCHANGED unnotified => UnnotifiedTyped'
         /\ UNCHANGED bounds => CountsTyped'
         /\ UNCHANGED <<dialogs, history>> => RestTyped'
<1>1. UNCHANGED <<stack, ret>> => StackTyped' BY DEF Typed, StackTyped
<1>2. UNCHANGED commandVars => CommandsTyped' BY DEF Typed, CommandsTyped, commandVars
<1>3. UNCHANGED clientVars => ClientsTyped' BY DEF Typed, ClientsTyped, clientVars
<1>4. UNCHANGED unnotified => UnnotifiedTyped' BY DEF Typed, UnnotifiedTyped, unnotified
<1>5. UNCHANGED bounds => CountsTyped' BY DEF Typed, CountsTyped, bounds
<1>6. UNCHANGED <<dialogs, history>> => RestTyped' BY DEF Typed, RestTyped, history
<1> QED BY <1>1, <1>2, <1>3, <1>4, <1>5, <1>6

\* An operation within the bound.
LEMMA SpendTyped ==
  ASSUME Typed, Spend
  PROVE  CountsTyped'
<1>1. sends' \in 0..MaxSends BY SendsAssumption DEF Typed, CountsTyped, Spend
<1>2. events' \in 0..MaxEvents BY DEF Typed, CountsTyped, Spend
<1> QED BY <1>1, <1>2 DEF CountsTyped

\* A listener sends a command.
LEMMA ListenerSendFacts ==
  ASSUME Typed, NEW st \in Seq(ActivationRecord), NEW hook \in Functions, NEW l \in Listeners,
         NEW c \in Clients, NEW kind, ListenerSends(st, hook, l, c, kind)
  PROVE  LET y == [Activation(hook, c) EXCEPT !.l = l] IN
         /\ Spend \/ UNCHANGED bounds
         /\ y \in ActivationRecord /\ y.fn = hook /\ y.c = c /\ y.l = l /\ y.at = "start"
         /\ Append(st, y) \in Seq(ActivationRecord)
         /\ \E target \in SendTargets(hook, l, c, kind) \cap Clients : SendCommand(Append(st, y), target)
<1> DEFINE y == [Activation(hook, c) EXCEPT !.l = l]
<1>1. NoEvent \in [number : Nat, kind : EventKinds] BY DEF NoEvent, EventKinds
<1>2. y \in ActivationRecord BY <1>1, Activated
<1>3. y.fn = hook /\ y.c = c /\ y.l = l /\ y.at = "start" BY DEF Activation
<1>4. Usable \subseteq Clients BY DEF Usable, Typed, ClientsTyped
<1>5. \E target \in SendTargets(hook, l, c, kind) \cap Clients : SendCommand(Append(st, y), target)
  BY <1>4 DEF ListenerSends
<1> QED BY <1>2, <1>3, <1>5, Pushed DEF ListenerSends

\* So does one that a listener sends.
LEMMA ListenerSendTyped ==
  ASSUME Typed, NEW st \in Seq(ActivationRecord), NEW hook \in Functions, NEW l \in Listeners,
         NEW c \in Clients, NEW kind, ListenerSends(st, hook, l, c, kind)
  PROVE  StackTyped' /\ CommandsTyped' /\ CountsTyped'
<1> DEFINE y == [Activation(hook, c) EXCEPT !.l = l]
<1>1. /\ Spend \/ UNCHANGED bounds
      /\ Append(st, y) \in Seq(ActivationRecord)
      /\ \E target \in SendTargets(hook, l, c, kind) \cap Clients : SendCommand(Append(st, y), target)
  BY ListenerSendFacts
<1>2. PICK target \in Clients : SendCommand(Append(st, y), target) BY <1>1
<1> HIDE DEF y
<1>3. StackTyped' /\ CommandsTyped' BY <1>1, <1>2, SendTyped DEF Typed
<1>4. CountsTyped' BY <1>1, SpendTyped, Kept
<1> QED BY <1>3, <1>4

\* What ProcessCommandResponse is called with.
LEMMA ResponseActivation ==
  ASSUME Typed, NEW id \in DOMAIN commands
  PROVE  LET c == commands[id].client
             x == [Activation("ProcessCommandResponse", c) EXCEPT !.id = id] IN
         /\ c \in Clients
         /\ x \in ActivationRecord /\ x.fn = "ProcessCommandResponse" /\ x.at = "start"
<1> DEFINE c == commands[id].client
           x == [Activation("ProcessCommandResponse", c) EXCEPT !.id = id]
<1>1. c \in Clients /\ id \in Nat BY DEF Typed, CommandsTyped, Command
<1>2. NoEvent \in [number : Nat, kind : EventKinds] /\ "frame" \in Listeners
  BY DEF NoEvent, EventKinds, Listeners
<1>3. "ProcessCommandResponse" \in Functions BY DEF Functions
<1> HIDE DEF c
<1>4. x \in ActivationRecord BY <1>1, <1>2, <1>3, Activated
<1>5. x.fn = "ProcessCommandResponse" /\ x.at = "start" BY DEF Activation
<1> QED BY <1>1, <1>4, <1>5 DEF c

\* The rest of a list of listeners.
LEMMA UnlistedFacts ==
  ASSUME NEW list \in Seq(Listeners), NEW n \in 1..Len(list)
  PROVE  /\ list[n] \in Listeners
         /\ Unlisted(list, n) \in Seq(Listeners) /\ Len(Unlisted(list, n)) = Len(list) - n
         /\ \A i \in 1..(Len(list) - n) : n + i \in 1..Len(list) /\ Unlisted(list, n)[i] = list[n + i]
<1>1. Len(list) \in Nat /\ \A i \in 1..Len(list) : list[i] \in Listeners OBVIOUS
<1>2. \A i \in (n + 1)..Len(list) : list[i] \in Listeners BY <1>1
<1>3. /\ SubSeq(list, n + 1, Len(list)) \in Seq(Listeners)
      /\ Len(SubSeq(list, n + 1, Len(list))) = IF n + 1 <= Len(list) THEN Len(list) - (n + 1) + 1 ELSE 0
      /\ \A i \in 1..(Len(list) - (n + 1) + 1) : SubSeq(list, n + 1, Len(list))[i] = list[n + 1 + i - 1]
  BY <1>1, <1>2, SubSeqProperties
<1>4. /\ Len(list) - (n + 1) + 1 = Len(list) - n
      /\ \A i \in 1..(Len(list) - n) : n + i \in 1..Len(list) /\ n + 1 + i - 1 = n + i
  BY <1>1
<1>5. Unlisted(list, n) = SubSeq(list, n + 1, Len(list)) BY DEF Unlisted
<1>6. Len(SubSeq(list, n + 1, Len(list))) = Len(list) - n BY <1>1, <1>3
<1>7. \A i \in 1..(Len(list) - n) : SubSeq(list, n + 1, Len(list))[i] = list[n + i]
  BY <1>3, <1>4
<1>8. list[n] \in Listeners BY <1>1
<1> HIDE DEF Unlisted
<1>9. \A i \in 1..(Len(list) - n) : Unlisted(list, n)[i] = list[n + i] BY <1>5, <1>7
<1>10. Unlisted(list, n) \in Seq(Listeners) /\ Len(Unlisted(list, n)) = Len(list) - n
  BY <1>3, <1>5, <1>6
<1> QED BY <1>4, <1>8, <1>9, <1>10

\* Every step keeps the types.
LEMMA TypedStep == Typed /\ [Next]_vars => Typed'
<1> SUFFICES ASSUME Typed, [Next]_vars PROVE Typed' OBVIOUS
<1>0. StackTyped /\ CommandsTyped /\ ClientsTyped /\ UnnotifiedTyped /\ CountsTyped /\ RestTyped
  BY DEF Typed
<1>a. /\ UNCHANGED <<stack, ret>> => StackTyped'
      /\ UNCHANGED commandVars => CommandsTyped'
      /\ UNCHANGED clientVars => ClientsTyped'
      /\ UNCHANGED unnotified => UnnotifiedTyped'
      /\ UNCHANGED bounds => CountsTyped'
      /\ UNCHANGED <<dialogs, history>> => RestTyped'
  BY Kept
<1>b. Spend => CountsTyped' BY SpendTyped
<1>c. /\ \A fn \in Functions, c \in Clients : Activation(fn, c) \in ActivationRecord
      /\ \A fn \in Functions, c \in Clients, id \in Nat :
           [Activation(fn, c) EXCEPT !.id = id] \in ActivationRecord
      /\ \A fn \in Functions, c \in Clients, l \in Listeners :
           [Activation(fn, c) EXCEPT !.l = l] \in ActivationRecord
      /\ \A fn \in Functions, c, x \in Clients :
           [Activation(fn, c) EXCEPT !.caller = x] \in ActivationRecord
      /\ \A fn \in Functions, c \in Clients, ev \in [number : Nat, kind : EventKinds] :
           [Activation(fn, c) EXCEPT !.ev = ev] \in ActivationRecord
  <2>1. NoEvent \in [number : Nat, kind : EventKinds] /\ "frame" \in Listeners /\ 0 \in Nat
    BY DEF NoEvent, EventKinds, Listeners
  <2> QED BY <2>1, Activated
<1>d. Functions = {"SendCommand", "ProcessNextMessage", "ProcessEvent", "HandleDialog",
              "ProcessCommandResponse", "AttachTo", "HandleEventsUntil",
              "OnConnected", "OnEvent", "OnCommandSuccess", "GetFedCmTracker"}
  BY DEF Functions
<1>e. Page \in Clients /\ Root \in Clients /\ Frame \in Clients BY DEF Clients
<1>f. Usable \subseteq Clients BY <1>0 DEF Usable, ClientsTyped
<1>g. \A st \in Seq(ActivationRecord), x \in ActivationRecord : Call(st, x) => StackTyped'
  BY Pushed DEF Call, StackTyped, Statuses
<1>h. \A s \in Statuses : stack # <<>> /\ Return(s) => StackTyped'
  BY <1>0, TopFacts DEF Return, StackTyped
<1>i. <<>> \in Seq(ActivationRecord) OBVIOUS
<1>j. stack # <<>> => \A p \in Places : At(p) \in Seq(ActivationRecord) BY <1>0, AtFacts
<1>k. ret \in Statuses BY <1>0 DEF StackTyped
<1>l. \A st \in Seq(ActivationRecord), c \in Clients : SendCommand(st, c) => StackTyped' /\ CommandsTyped'
  BY <1>0, SendTyped
<1>m. \A c \in Clients : Register(c) /\ UNCHANGED connected => CommandsTyped'
  BY <1>0, Registered DEF CommandsTyped
<1>n. \A id : nextId' = nextId /\ UNCHANGED connected /\ commands' = Without(id) => CommandsTyped'
  BY <1>0, WithoutFacts DEF CommandsTyped
<1>1. ASSUME NEW c \in Clients, BeginSendCommand(c) PROVE Typed'
  <2>1. RestTyped'
    <3>1. navigations' \in SUBSET Nat
      BY <1>0, <1>1 DEF BeginSendCommand, MayNavigate, CommandsTyped, RestTyped
    <3> QED BY <1>0, <1>1, <3>1 DEF BeginSendCommand, RestTyped
  <2> QED BY <1>1, <1>a, <1>b, <1>i, <1>l, <2>1 DEF BeginSendCommand, Typed
<1>2. ASSUME NEW c \in Clients, SendCommandAndIgnoreResponse(c) PROVE Typed'
  BY <1>2, <1>a, <1>b, <1>m DEF SendCommandAndIgnoreResponse, Typed
<1>3. ASSUME NEW c \in Clients, BeginHandleEventsUntil(c) PROVE Typed'
  BY <1>3, <1>a, <1>b, <1>c, <1>d, <1>g, <1>i DEF BeginHandleEventsUntil, Typed
<1>4. CASE BeginHandleDialog
  BY <1>4, <1>a, <1>b, <1>c, <1>d, <1>e, <1>g, <1>i DEF BeginHandleDialog, Typed
<1>5. CASE BeginAttachTo
  BY <1>5, <1>a, <1>c, <1>d, <1>e, <1>g, <1>i DEF BeginAttachTo, Typed
<1>6. CASE BeginGetFedCmTracker
  <2>1. ClientsTyped'
    <3>1. Append(listeners[Page], "fedcm") \in Seq(Listeners)
      BY <1>0, <1>e, AppendFacts DEF ClientsTyped, Listeners
    <3> QED BY <1>0, <1>6, <1>e, <3>1 DEF BeginGetFedCmTracker, ClientsTyped
  <2>2. Activation("GetFedCmTracker", Page) \in ActivationRecord BY <1>c, <1>d, <1>e
  <2>3. \A x \in ActivationRecord : <<x>> \in Seq(ActivationRecord) OBVIOUS
  <2>4. <<Activation("GetFedCmTracker", Page)>> \in Seq(ActivationRecord) BY <2>2, <2>3
  <2> QED BY <1>6, <1>a, <1>b, <1>e, <1>l, <2>1, <2>4 DEF BeginGetFedCmTracker, Typed
<1>7. CASE EndGetFedCmTracker
  <2>1. ClientsTyped' BY <1>0, <1>7 DEF EndGetFedCmTracker, ClientsTyped
  <2> QED BY <1>7, <1>a, <1>h, <1>k, <2>1 DEF EndGetFedCmTracker, Running, Typed
<1>8. CASE SendCommandFails
  <2>1. CommandsTyped' BY <1>0, <1>8, <1>n DEF SendCommandFails, CommandsTyped
  <2> QED BY <1>8, <1>a, <1>h, <1>k, <2>1 DEF SendCommandFails, Running, Typed
<1>o. ASSUME NEW id, nextId' = nextId, UNCHANGED connected,
             commands' = [commands EXCEPT ![id].state = "kIgnored"]
      PROVE  CommandsTyped'
  <2>1. id \in DOMAIN commands => [commands[id] EXCEPT !.state = "kIgnored"] \in Command
    BY <1>0 DEF CommandsTyped, Command, CommandStates
  <2>2. commands' = [commands EXCEPT ![id] = [commands[id] EXCEPT !.state = "kIgnored"]]
    BY <1>0, <1>o DEF CommandsTyped
  <2> QED BY <1>0, <1>o, <2>1, <2>2 DEF CommandsTyped
<1>9. CASE SendCommandLoop
  <2>1. stack # <<>> /\ Top.c \in Clients /\ Top.id \in Nat
    BY <1>0, <1>9, TopFacts DEF SendCommandLoop, Running
  <2>2. StackTyped'
    <3>1. CASE Call(stack, [Activation("ProcessNextMessage", Top.c) EXCEPT !.id = Top.id])
      BY <1>0, <1>c, <1>d, <1>g, <2>1, <3>1 DEF StackTyped
    <3>2. CASE Return("kUnexpectedAlertOpen") BY <1>h, <2>1, <3>2 DEF Statuses
    <3>3. CASE Return(IF commands[Top.id].ok THEN "kOk" ELSE "kUnknownError")
      BY <1>h, <2>1, <3>3 DEF Statuses
    <3> QED BY <1>9, <3>1, <3>2, <3>3 DEF SendCommandLoop
  <2>3. CommandsTyped' BY <1>0, <1>9, <1>n, <1>o DEF SendCommandLoop, CommandsTyped
  <2> QED BY <1>9, <1>a, <2>2, <2>3 DEF SendCommandLoop, Typed
<1>10. CASE HandleEventsUntil
  <2>1. stack # <<>> /\ Top.c \in Clients
    BY <1>0, <1>10, TopFacts DEF HandleEventsUntil, Running
  <2>2. StackTyped'
    BY <1>0, <1>10, <1>c, <1>d, <1>g, <1>h, <2>1 DEF HandleEventsUntil, Statuses, StackTyped
  <2> QED BY <1>10, <1>a, <2>2 DEF HandleEventsUntil, Typed
<1>11. CASE HandleEventsEnds
  BY <1>11, <1>a, <1>h, <1>k DEF HandleEventsEnds, Running, Typed
<1>p. NotifiesConnect \/ NotifiesEvent \/ NotifiesCommandResponse => stack # <<>>
  BY DEF NotifiesConnect, NotifiesEvent, NotifiesCommandResponse, Running
<1>q. {"connect", "event", "response", "handle", "dialog", "retry", "roundTrip"} \subseteq Places
  BY DEF Places
<1>r. \A kind : \A st \in Seq(ActivationRecord), hook \in Functions, l \in Listeners, c \in Clients :
        ListenerSends(st, hook, l, c, kind) => StackTyped' /\ CommandsTyped' /\ CountsTyped'
  BY ListenerSendTyped
<1>s. \A st : st \in Seq(ActivationRecord) /\ stack' = st /\ ret' \in Statuses => StackTyped'
  BY DEF StackTyped
<1>12. CASE EnsureListenersNotifiedOfConnect
  <2> DEFINE c == Top.c
  <2>1. /\ stack # <<>> /\ c \in Clients /\ unConnect[c] \in Seq(Listeners)
        /\ At("connect") \in Seq(ActivationRecord)
    BY <1>0, <1>12, <1>p, <1>j, <1>q, TopFacts DEF EnsureListenersNotifiedOfConnect, UnnotifiedTyped
  <2>2. PICK n \in 1..Len(unConnect[c]) :
          /\ unConnect' = [unConnect EXCEPT ![c] = Unlisted(@, n)]
          /\ \/ /\ n = Len(unConnect[c]) /\ Head(unConnect[c]) # "frame"
                /\ stack' = At("connect") /\ ret' = "kOk" /\ UNCHANGED <<commandVars, bounds>>
             \/ /\ Head(unConnect[c]) # "frame"
                /\ ListenerSends(At("connect"), "OnConnected", unConnect[c][n], c, "other")
             \/ /\ n = 1 /\ Head(unConnect[c]) = "frame"
                /\ SendCommand(Append(At("connect"), [Activation("OnConnected", c) EXCEPT
                                                      !.l = "frame"]), c)
                /\ UNCHANGED bounds
    BY <1>12 DEF EnsureListenersNotifiedOfConnect
  <2> HIDE DEF c
  <2>3. unConnect[c][n] \in Listeners /\ Unlisted(unConnect[c], n) \in Seq(Listeners)
    BY <2>1, UnlistedFacts
  <2>4. UnnotifiedTyped'
    BY <1>0, <1>12, <2>2, <2>3 DEF EnsureListenersNotifiedOfConnect, UnnotifiedTyped
  <2>5. StackTyped' /\ CommandsTyped' /\ CountsTyped'
    <3>1. CASE stack' = At("connect") /\ ret' = "kOk" /\ UNCHANGED <<commandVars, bounds>>
      BY <1>a, <1>s, <2>1, <3>1 DEF Statuses
    <3>2. CASE ListenerSends(At("connect"), "OnConnected", unConnect[c][n], c, "other")
      BY <1>d, <1>r, <2>1, <2>3, <3>2
    <3>3. CASE /\ SendCommand(Append(At("connect"), [Activation("OnConnected", c) EXCEPT
                                                     !.l = "frame"]), c)
               /\ UNCHANGED bounds
      <4>1. [Activation("OnConnected", c) EXCEPT !.l = "frame"] \in ActivationRecord
        BY <1>c, <1>d, <2>1 DEF Listeners
      <4>2. Append(At("connect"), [Activation("OnConnected", c) EXCEPT !.l = "frame"])
              \in Seq(ActivationRecord)
        BY <2>1, <4>1, Pushed
      <4> QED BY <1>a, <1>l, <2>1, <3>3, <4>2
    <3> QED BY <2>2, <3>1, <3>2, <3>3
  <2> QED BY <1>12, <1>a, <2>4, <2>5 DEF EnsureListenersNotifiedOfConnect, Typed
<1>13. CASE EnsureListenersNotifiedOfEvent
  <2> DEFINE c == Top.c
             kind == event[c].kind
             attaches == kind = "attachedToTarget" /\ Frame \notin attached
  <2>1. /\ stack # <<>> /\ c \in Clients /\ unEvent[c] \in Seq(Listeners)
        /\ At("event") \in Seq(ActivationRecord)
    BY <1>0, <1>13, <1>p, <1>j, <1>q, TopFacts DEF EnsureListenersNotifiedOfEvent, UnnotifiedTyped
  <2>2. PICK n \in 1..Len(unEvent[c]) :
          /\ unEvent' = [unEvent EXCEPT ![c] = Untold(c, n)]
          /\ lastSeen' = [lastSeen EXCEPT ![c] = SeenAfter(c, n)]
          /\ detached' = IF kind = "detachedFromTarget" /\ unEvent[c][1] = "frame"
                         THEN detached \cup ({Frame} \cap attached) ELSE detached
          /\ \/ /\ n = Len(unEvent[c]) /\ ~(attaches /\ unEvent[c][1] = "frame")
                /\ stack' = At("event") /\ ret' = "kOk" /\ UNCHANGED <<commandVars, bounds>>
             \/ ListenerSends(At("event"), "OnEvent", unEvent[c][n], c, kind)
             \/ /\ attaches /\ unEvent[c][n] = "frame"
                /\ Call(Append(At("event"), [Activation("OnEvent", c) EXCEPT !.l = unEvent[c][n]]),
                        Activation("AttachTo", Frame))
                /\ UNCHANGED <<commandVars, bounds>>
    BY <1>13 DEF EnsureListenersNotifiedOfEvent
  <2> HIDE DEF c, kind, attaches
  <2>3. unEvent[c][n] \in Listeners /\ Unlisted(unEvent[c], n) \in Seq(Listeners)
    BY <2>1, UnlistedFacts
  <2>4. UnnotifiedTyped'
    BY <1>0, <1>13, <2>2, <2>3 DEF EnsureListenersNotifiedOfEvent, UnnotifiedTyped, Untold
  <2>5. StackTyped' /\ CommandsTyped' /\ CountsTyped'
    <3>1. CASE stack' = At("event") /\ ret' = "kOk" /\ UNCHANGED <<commandVars, bounds>>
      BY <1>a, <1>s, <2>1, <3>1 DEF Statuses
    <3>2. CASE ListenerSends(At("event"), "OnEvent", unEvent[c][n], c, kind)
      BY <1>d, <1>r, <2>1, <2>3, <3>2
    <3>3. CASE /\ Call(Append(At("event"), [Activation("OnEvent", c) EXCEPT !.l = unEvent[c][n]]),
                       Activation("AttachTo", Frame))
               /\ UNCHANGED <<commandVars, bounds>>
      <4>1. [Activation("OnEvent", c) EXCEPT !.l = unEvent[c][n]] \in ActivationRecord
        BY <1>c, <1>d, <2>1, <2>3
      <4>2. Append(At("event"), [Activation("OnEvent", c) EXCEPT !.l = unEvent[c][n]])
              \in Seq(ActivationRecord)
        BY <2>1, <4>1, Pushed
      <4>3. Activation("AttachTo", Frame) \in ActivationRecord BY <1>c, <1>d, <1>e
      <4> QED BY <1>a, <1>g, <3>3, <4>2, <4>3
    <3> QED BY <2>2, <3>1, <3>2, <3>3
  <2>6. SeenAfter(c, n) \in [Listeners -> Nat]
    <3>1. event[c].number \in Nat /\ lastSeen[c] \in [Listeners -> Nat]
      BY <1>0, <2>1 DEF UnnotifiedTyped, RestTyped
    <3> QED BY <3>1 DEF SeenAfter
  <2>7. RestTyped'
    BY <1>0, <1>13, <2>2, <2>6 DEF EnsureListenersNotifiedOfEvent, RestTyped
  <2>8. ClientsTyped'
    BY <1>0, <1>13, <2>2 DEF EnsureListenersNotifiedOfEvent, ClientsTyped
  <2> QED BY <2>4, <2>5, <2>7, <2>8 DEF Typed
<1>14. CASE EnsureListenersNotifiedOfCommandResponse
  <2> DEFINE c == Top.c
  <2>1. /\ stack # <<>> /\ c \in Clients /\ unResponse[c] \in Seq(Listeners)
        /\ At("response") \in Seq(ActivationRecord)
    BY <1>0, <1>14, <1>p, <1>j, <1>q, TopFacts
       DEF EnsureListenersNotifiedOfCommandResponse, UnnotifiedTyped
  <2>2. PICK n \in 1..Len(unResponse[c]) :
          /\ unResponse' = [unResponse EXCEPT ![c] = Unlisted(@, n)]
          /\ \/ /\ n = Len(unResponse[c]) /\ stack' = At("response") /\ ret' = "kOk"
                /\ UNCHANGED <<commandVars, bounds>>
             \/ /\ stack' = At("response") /\ ret' = "kUnknownError"
                /\ UNCHANGED <<commandVars, bounds>>
             \/ ListenerSends(At("response"), "OnCommandSuccess", unResponse[c][n], c, "other")
    BY <1>14 DEF EnsureListenersNotifiedOfCommandResponse
  <2> HIDE DEF c
  <2>3. unResponse[c][n] \in Listeners /\ Unlisted(unResponse[c], n) \in Seq(Listeners)
    BY <2>1, UnlistedFacts
  <2>4. UnnotifiedTyped'
    BY <1>0, <1>14, <2>2, <2>3 DEF EnsureListenersNotifiedOfCommandResponse, UnnotifiedTyped
  <2>5. StackTyped' /\ CommandsTyped' /\ CountsTyped'
    <3>1. CASE stack' = At("response") /\ ret' \in {"kOk", "kUnknownError"}
               /\ UNCHANGED <<commandVars, bounds>>
      BY <1>a, <1>s, <2>1, <3>1 DEF Statuses
    <3>2. CASE ListenerSends(At("response"), "OnCommandSuccess", unResponse[c][n], c, "other")
      BY <1>d, <1>r, <2>1, <2>3, <3>2
    <3> QED BY <2>2, <3>1, <3>2
  <2> QED BY <1>14, <1>a, <2>4, <2>5 DEF EnsureListenersNotifiedOfCommandResponse, Typed
<1>15. CASE DeadPointer
  <2>1. StackTyped' BY <1>15 DEF DeadPointer, StackTyped, Statuses
  <2>2. RestTyped' BY <1>0, <1>15 DEF DeadPointer, RestTyped
  <2> QED BY <1>15, <1>a, <2>1, <2>2 DEF DeadPointer, Typed
<1>16. CASE NotificationFails
  <2>1. stack # <<>> /\ Top.c \in Clients BY <1>0, <1>16, TopFacts DEF NotificationFails
  <2>2. StackTyped' BY <1>16, <1>h, <1>k, <2>1 DEF NotificationFails
  <2>3. NoEvent \in [number : Nat, kind : EventKinds] BY DEF NoEvent, EventKinds
  <2>4. unEvent' \in [Clients -> Seq(Listeners)] /\ response' \in SUBSET Clients
    <3> DEFINE c == Top.c
    <3>1. unEvent' = [unEvent EXCEPT ![c] = <<>>] \/ unEvent' = unEvent
      BY <1>16 DEF NotificationFails
    <3>2. response' = response \ {c} \/ response' = response BY <1>16 DEF NotificationFails
    <3> HIDE DEF c
    <3>3. <<>> \in Seq(Listeners) OBVIOUS
    <3>4. unEvent' \in [Clients -> Seq(Listeners)] BY <1>0, <3>1, <3>3 DEF UnnotifiedTyped
    <3> QED BY <1>0, <3>2, <3>4 DEF UnnotifiedTyped
  <2>5. event' \in [Clients -> [number : Nat, kind : EventKinds]]
    BY <1>0, <1>16, <2>3 DEF NotificationFails, UnnotifiedTyped
  <2>6. UnnotifiedTyped' BY <1>0, <1>16, <2>4, <2>5 DEF NotificationFails, UnnotifiedTyped
  <2>7. RestTyped' BY <1>0, <1>16, <2>1 DEF NotificationFails, RestTyped
  <2> QED BY <1>16, <1>a, <2>2, <2>6, <2>7 DEF NotificationFails, Typed
<1>17. CASE ListenerContinues
  <2>1. /\ stack # <<>> /\ Top \in ActivationRecord /\ Top.c \in Clients /\ Top.fn \in Functions
        /\ Below \in Seq(ActivationRecord)
    BY <1>0, <1>17, TopFacts DEF ListenerContinues, InListener, Running
  <2>2. CASE ListenerSends(Below, Top.fn, Top.l, Top.c, "other")
    <3>1. CASE Top.l \in Listeners
      BY <1>17, <1>a, <1>r, <2>1, <2>2, <3>1 DEF ListenerContinues, Typed
    <3>2. CASE Top.l \notin Listeners
      <4>1. SendTargets(Top.fn, Top.l, Top.c, "other") = {}
        BY <3>2 DEF SendTargets, Listeners
      <4> QED BY <2>2, <4>1 DEF ListenerSends
    <3> QED BY <3>1, <3>2
  <2>3. CASE (Return("kOk") \/ Return(ret)) /\ UNCHANGED <<commandVars, bounds>>
    <3>1. StackTyped' BY <1>h, <1>k, <2>1, <2>3 DEF Statuses
    <3> QED BY <1>17, <1>a, <2>3, <3>1 DEF ListenerContinues, Typed
  <2> QED BY <1>17, <2>2, <2>3 DEF ListenerContinues
<1>18. CASE SetUpDevTools
  <2>1. stack # <<>> /\ Top.c \in Clients BY <1>0, <1>18, TopFacts DEF SetUpDevTools, Running
  <2>2. ClientsTyped' BY <1>0, <1>18, <2>1 DEF SetUpDevTools, ClientsTyped
  <2>3. StackTyped' BY <1>18, <1>h, <1>j, <1>q, <1>s, <2>1 DEF SetUpDevTools, Statuses
  <2>4. CommandsTyped' BY <1>0, <1>18, <1>m, <2>1 DEF SetUpDevTools, CommandsTyped
  <2> QED BY <1>18, <1>a, <2>2, <2>3, <2>4 DEF SetUpDevTools, Typed
<1>19. CASE AttachToReturns
  <2>1. StackTyped' BY <1>19, <1>h DEF AttachToReturns, Running, Statuses
  <2> QED BY <1>19, <1>a, <2>1 DEF AttachToReturns, Typed
<1>20. CASE ProcessNextMessage
  <2>1. /\ stack # <<>> /\ Top.caller \in Clients /\ Below \in Seq(ActivationRecord)
    BY <1>0, <1>20, TopFacts DEF ProcessNextMessage, AllNotified, Running
  <2>2. StackTyped'
    BY <1>20, <1>c, <1>d, <1>e, <1>g, <1>h, <2>1 DEF ProcessNextMessage, Statuses
  <2> QED BY <1>20, <1>a, <2>2 DEF ProcessNextMessage, Typed
<1>t. Receives => stack # <<>> BY DEF Receives, AllNotified, Running
<1>u. \A c \in Clients, x \in ActivationRecord : stack # <<>> /\ Handle(c, x) => StackTyped'
  <2> SUFFICES ASSUME NEW c \in Clients, NEW x \in ActivationRecord, stack # <<>>, Handle(c, x)
               PROVE  StackTyped'
    OBVIOUS
  <2>1. [stack EXCEPT ![Len(stack)].at = "handle", ![Len(stack)].to = c] \in Seq(ActivationRecord)
    <3> DEFINE r == [Top EXCEPT !.at = "handle", !.to = c]
    <3>1. Top \in ActivationRecord BY <1>0, TopFacts
    <3>2. r \in ActivationRecord BY <1>q, <3>1 DEF ActivationRecord
    <3>3. [stack EXCEPT ![Len(stack)].at = "handle", ![Len(stack)].to = c]
            = [stack EXCEPT ![Len(stack)] = r]
      BY <1>0 DEF Top, StackTyped
    <3> QED BY <1>0, <3>2, <3>3, Moved DEF StackTyped
  <2> QED BY <1>g, <2>1 DEF Handle
<1>21. CASE ReceiveFails
  <2>1. StackTyped' BY <1>21, <1>h, <1>t DEF ReceiveFails, Statuses
  <2>2. CommandsTyped' BY <1>0, <1>21 DEF ReceiveFails, CommandsTyped
  <2> QED BY <1>21, <1>a, <2>1, <2>2 DEF ReceiveFails, Typed
<1>22. ASSUME NEW c \in Clients, NEW kind \in EventKinds, ReceiveEvent(c, kind) PROVE Typed'
  <2>1. events + 1 \in Nat /\ events' \in 0..MaxEvents
    BY <1>0, <1>22, EventsAssumption DEF ReceiveEvent, CountsTyped
  <2>2. CountsTyped' BY <1>0, <1>22, <2>1 DEF ReceiveEvent, CountsTyped
  <2>3. [number |-> events + 1, kind |-> kind] \in [number : Nat, kind : EventKinds] BY <2>1
  <2>4. [Activation("ProcessEvent", c) EXCEPT !.ev = [number |-> events + 1, kind |-> kind]]
          \in ActivationRecord
    BY <1>c, <1>d, <2>3
  <2>5. StackTyped' BY <1>22, <1>t, <1>u, <2>4 DEF ReceiveEvent
  <2> QED BY <1>22, <1>a, <2>2, <2>5 DEF ReceiveEvent, Typed
<1>23. ASSUME NEW id \in DOMAIN commands, NEW ok \in BOOLEAN, ReceiveResponse(id, ok) PROVE Typed'
  <2> DEFINE c == commands[id].client
  <2>1. commands[id] \in Command /\ c \in Clients BY <1>0 DEF CommandsTyped, Command
  <2>2. CommandsTyped'
    <3>1. CASE commands' = Without(id)
      BY <1>0, <1>23, <1>n, <3>1 DEF ReceiveResponse
    <3>2. CASE commands' = [commands EXCEPT
                              ![id].pending = FALSE, ![id].mapped = FALSE, ![id].ok = ok,
                              ![id].state = IF @ = "kIgnored" THEN @ ELSE "kReceived"]
      <4> DEFINE r == [commands[id] EXCEPT !.pending = FALSE, !.mapped = FALSE, !.ok = ok,
                         !.state = IF @ = "kIgnored" THEN @ ELSE "kReceived"]
      <4>1. r \in Command BY <2>1 DEF Command, CommandStates
      <4>2. commands' = [commands EXCEPT ![id] = r] BY <1>0, <3>2 DEF CommandsTyped
      <4> QED BY <1>0, <1>23, <4>1, <4>2 DEF ReceiveResponse, CommandsTyped
    <3> QED BY <1>23, <3>1, <3>2 DEF ReceiveResponse
  <2>3. UnnotifiedTyped'
    BY <1>0, <1>23, <2>1 DEF ReceiveResponse, UnnotifiedTyped, ClientsTyped
  <2>4. StackTyped'
    <3> DEFINE x == [Activation("ProcessCommandResponse", c) EXCEPT !.id = id]
    <3>1. x \in ActivationRecord BY ResponseActivation
    <3>3. Handle(c, x) \/ \E s \in Statuses : Return(s) BY <1>23 DEF ReceiveResponse, Statuses
    <3> HIDE DEF c, x
    <3>2. Handle(c, x) => StackTyped' BY <1>23, <1>t, <1>u, <2>1, <3>1 DEF ReceiveResponse
    <3> QED BY <1>23, <1>h, <1>t, <3>2, <3>3 DEF ReceiveResponse
  <2> QED BY <1>23, <1>a, <2>2, <2>3, <2>4 DEF ReceiveResponse, Typed
<1>24. ASSUME NEW id \in DOMAIN commands, ReceiveOrphanResponse(id) PROVE Typed'
  <2>1. commands[id] \in Command BY <1>0 DEF CommandsTyped
  <2>2. CommandsTyped'
    <3>1. CASE commands' = Without(id)
      BY <1>0, <1>24, <1>n, <3>1 DEF ReceiveOrphanResponse
    <3>2. CASE commands' = [commands EXCEPT ![id].pending = FALSE]
      <4>1. [commands[id] EXCEPT !.pending = FALSE] \in Command BY <2>1 DEF Command
      <4>2. commands' = [commands EXCEPT ![id] = [commands[id] EXCEPT !.pending = FALSE]]
        BY <1>0, <3>2 DEF CommandsTyped
      <4> QED BY <1>0, <1>24, <4>1, <4>2 DEF ReceiveOrphanResponse, CommandsTyped
    <3> QED BY <1>24, <3>1, <3>2 DEF ReceiveOrphanResponse
  <2>3. StackTyped' BY <1>24, <1>h, <1>t DEF ReceiveOrphanResponse, Statuses
  <2> QED BY <1>24, <1>a, <2>2, <2>3 DEF ReceiveOrphanResponse, Typed
<1>25. CASE HandleMessageReturns
  <2>1. StackTyped' BY <1>25, <1>h, <1>k DEF HandleMessageReturns, Running, Statuses
  <2> QED BY <1>25, <1>a, <2>1 DEF HandleMessageReturns, Typed
<1>26. CASE ProcessCommandResponseReturns
  <2>1. StackTyped' BY <1>26, <1>h DEF ProcessCommandResponseReturns, Running, Statuses
  <2>2. UnnotifiedTyped' BY <1>0, <1>26 DEF ProcessCommandResponseReturns, UnnotifiedTyped
  <2> QED BY <1>26, <1>a, <2>1, <2>2 DEF ProcessCommandResponseReturns, Typed
<1>27. CASE ProcessEvent
  <2> DEFINE c == Top.c
             kind == Top.ev.kind
  <2>1. /\ stack # <<>> /\ c \in Clients /\ Top.ev \in [number : Nat, kind : EventKinds]
    BY <1>0, <1>27, TopFacts DEF ProcessEvent, Running
  <2>2. StackTyped'
    <3>1. CASE Call(At("dialog"), Activation("HandleDialog", c))
      BY <1>c, <1>d, <1>g, <1>j, <1>q, <2>1, <3>1
    <3>2. CASE Announce(c) BY <1>j, <1>q, <1>s, <2>1, <3>2 DEF Announce, Statuses
    <3>3. CASE Return(ret) BY <1>h, <1>k, <2>1, <3>3
    <3> QED BY <1>27, <3>1, <3>2, <3>3 DEF ProcessEvent
  <2>3. UnnotifiedTyped'
    <3>1. CASE Announce(c)
      <4>1. /\ unEvent' = [unEvent EXCEPT ![c] = listeners[c]] /\ event' = [event EXCEPT ![c] = Top.ev]
            /\ UNCHANGED <<unConnect, unResponse, response>>
        BY <1>27, <3>1 DEF Announce, ProcessEvent
      <4> HIDE DEF c
      <4>2. listeners[c] \in Seq(Listeners) BY <1>0, <2>1 DEF ClientsTyped
      <4>3. unEvent' \in [Clients -> Seq(Listeners)] BY <1>0, <4>1, <4>2 DEF UnnotifiedTyped
      <4>4. event' \in [Clients -> [number : Nat, kind : EventKinds]]
        BY <1>0, <2>1, <4>1 DEF UnnotifiedTyped
      <4> QED BY <1>0, <4>1, <4>3, <4>4 DEF UnnotifiedTyped
    <3>2. CASE UNCHANGED <<unEvent, event>>
      BY <1>0, <1>27, <3>2 DEF ProcessEvent, UnnotifiedTyped
    <3> QED BY <1>27, <3>1, <3>2 DEF ProcessEvent
  <2>4. RestTyped'
    <3>1. DialogsAfter(c, kind) \in Nat /\ nextId - 1 \in Nat
      BY <1>0, <2>1 DEF DialogsAfter, RestTyped, CommandsTyped
    <3>2. dialogs' \in [Clients -> Nat] BY <1>0, <1>27, <3>1 DEF ProcessEvent, RestTyped
    <3>3. opened' \in [Clients -> Nat] BY <1>0, <1>27, <3>1 DEF ProcessEvent, RestTyped
    <3>4. failed' \in SUBSET Clients BY <1>0, <1>27, <2>1 DEF ProcessEvent, RestTyped
    <3> QED BY <1>0, <1>27, <3>2, <3>3, <3>4 DEF ProcessEvent, RestTyped
  <2> QED BY <1>27, <1>a, <2>2, <2>3, <2>4 DEF ProcessEvent, Typed
<1>28. CASE EventNotified
  <2> DEFINE c == Top.c
             st == [stack EXCEPT ![Len(stack)].at = "roundTrip", ![Len(stack)].id = nextId]
  <2>1. stack # <<>> /\ c \in Clients /\ Top \in ActivationRecord /\ nextId \in Nat
    BY <1>0, <1>28, TopFacts DEF EventNotified, Running, CommandsTyped
  <2>2. st \in Seq(ActivationRecord)
    <3> DEFINE r == [Top EXCEPT !.at = "roundTrip", !.id = nextId]
    <3>1. r \in ActivationRecord BY <1>q, <2>1 DEF ActivationRecord
    <3>2. st = [stack EXCEPT ![Len(stack)] = r] BY <1>0 DEF Top, StackTyped
    <3> QED BY <1>0, <2>1, <3>1, <3>2, Moved DEF StackTyped
  <2>3. CASE SendCommand(st, c) /\ UNCHANGED <<crashed, failed>>
    <3>1. StackTyped' /\ CommandsTyped' BY <1>l, <2>1, <2>2, <2>3
    <3>2. NoEvent \in [number : Nat, kind : EventKinds] BY DEF NoEvent, EventKinds
    <3>3. UnnotifiedTyped' BY <1>0, <1>28, <3>2 DEF EventNotified, UnnotifiedTyped
    <3>4. ClientsTyped' /\ RestTyped' /\ CountsTyped'
      BY <1>0, <1>28, <2>3 DEF EventNotified, ClientsTyped, RestTyped, CountsTyped, bounds
    <3> QED BY <3>1, <3>3, <3>4 DEF Typed
  <2>4. CASE /\ (Return("kTargetDetached") \/ Return("kTabCrashed") \/ Return("kOk"))
             /\ UNCHANGED commandVars /\ crashed' \in {crashed, crashed \cup {c}}
             /\ failed' \in {failed, failed \cup {c}}
    <3>1. StackTyped' BY <1>h, <2>1, <2>4 DEF Statuses
    <3>2. NoEvent \in [number : Nat, kind : EventKinds] BY DEF NoEvent, EventKinds
    <3>3. UnnotifiedTyped' BY <1>0, <1>28, <3>2 DEF EventNotified, UnnotifiedTyped
    <3>4. ClientsTyped' /\ RestTyped'
      BY <1>0, <1>28, <2>1, <2>4 DEF EventNotified, ClientsTyped, RestTyped
    <3> QED BY <1>28, <1>a, <2>4, <3>1, <3>3, <3>4 DEF EventNotified, Typed
  <2> QED BY <1>28, <2>3, <2>4 DEF EventNotified
<1>29. CASE RoundTripReturns
  <2>1. StackTyped' BY <1>29, <1>h DEF RoundTripReturns, Running, Statuses
  <2>2. \A id \in DOMAIN commands : Blocked(Top.c, Top.id)[id] \in Command
    BY <1>0 DEF Blocked, CommandsTyped, Command, CommandStates
  <2>3. DOMAIN Blocked(Top.c, Top.id) = DOMAIN commands
        /\ Blocked(Top.c, Top.id) \in [DOMAIN commands -> Command]
    <3>1. DOMAIN Blocked(Top.c, Top.id) = DOMAIN commands BY DEF Blocked
    <3>2. Blocked(Top.c, Top.id)
            = [id \in DOMAIN commands |-> Blocked(Top.c, Top.id)[id]]
      BY DEF Blocked
    <3> QED BY <2>2, <3>1, <3>2
  <2>4. CommandsTyped' BY <1>0, <1>29, <2>3 DEF RoundTripReturns, CommandsTyped
  <2> QED BY <1>29, <1>a, <2>1, <2>4 DEF RoundTripReturns, Typed
<1>30. CASE HandleDialog
  <2>1. stack # <<>> /\ Top.c \in Clients BY <1>0, <1>30, TopFacts DEF HandleDialog, Running
  <2>2. StackTyped' /\ CommandsTyped'
    <3>1. CASE (Return("kNoSuchAlert") \/ Return(ret)) /\ UNCHANGED commandVars
      BY <1>a, <1>h, <1>k, <2>1, <3>1 DEF Statuses
    <3>2. CASE SendCommand(At("dialog"), Top.c) \/ SendCommand(At("retry"), Top.c)
      BY <1>j, <1>l, <1>q, <2>1, <3>2
    <3> QED BY <1>30, <3>1, <3>2 DEF HandleDialog
  <2> QED BY <1>30, <1>a, <2>2 DEF HandleDialog, Typed
<1>31. CASE DialogHandled
  <2>1. stack # <<>> /\ Top.c \in Clients BY <1>0, <1>31, TopFacts DEF DialogHandled, Running
  <2>2. StackTyped' BY <1>31, <1>h, <2>1 DEF DialogHandled, Statuses
  <2>3. RestTyped'
    <3> DEFINE c == Top.c
    <3>0. dialogs' = [dialogs EXCEPT ![c] = IF @ > 0 THEN @ - 1 ELSE 0]
      BY <1>31 DEF DialogHandled
    <3> HIDE DEF c
    <3>2. c \in Clients => (IF dialogs[c] > 0 THEN dialogs[c] - 1 ELSE 0) \in Nat
      BY <1>0 DEF RestTyped
    <3>1. dialogs' \in [Clients -> Nat] BY <1>0, <3>0, <3>2 DEF RestTyped
    <3> QED BY <1>0, <1>31, <3>1 DEF DialogHandled, RestTyped, history
  <2> QED BY <1>31, <1>a, <2>2, <2>3 DEF DialogHandled, Typed
<1>32. CASE UNCHANGED vars
  BY <1>32, <1>a DEF vars, Typed
<1>33. CASE Receive
  BY <1>33, <1>21, <1>22, <1>23, <1>24 DEF Receive
<1>34. CASE Begin
  BY <1>34, <1>1, <1>2, <1>3, <1>4, <1>5, <1>6 DEF Begin
<1>35. CASE Step
  BY <1>35, <1>7, <1>8, <1>9, <1>10, <1>11, <1>12, <1>13, <1>14, <1>15, <1>16, <1>17, <1>18, <1>19,
     <1>20, <1>33, <1>25, <1>26, <1>27, <1>28, <1>29, <1>30, <1>31 DEF Step
<1> QED BY <1>32, <1>34, <1>35 DEF Next


\* The types hold at first.
LEMMA TypedInit == Init => Typed
<1> SUFFICES ASSUME Init PROVE Typed OBVIOUS
<1>1. StackTyped BY DEF Init, StackTyped, Statuses
<1>2. CommandsTyped
  <2>1. DOMAIN commands = {} BY DEF Init
  <2>2. commands \in [DOMAIN commands -> Command] BY <2>1 DEF Init
  <2> QED BY <2>1, <2>2 DEF Init, CommandsTyped
<1>3. \A c \in Clients : InitialListeners(c) \in Seq(Listeners)
  <2>1. <<>> \in Seq(Listeners) OBVIOUS
  <2>2. <<"frame", "override", "navigation">> \in Seq(Listeners) BY DEF Listeners
  <2> QED BY <2>1, <2>2 DEF InitialListeners
<1>4. ClientsTyped
  <2>1. listeners \in [Clients -> Seq(Listeners)] BY <1>3 DEF Init
  <2> QED BY <2>1 DEF Init, ClientsTyped, Clients
<1>5. UnnotifiedTyped
  <2>1. NoEvent \in [number : Nat, kind : EventKinds] BY DEF NoEvent, EventKinds
  <2>2. <<>> \in Seq(Listeners) OBVIOUS
  <2>3. unConnect \in [Clients -> Seq(Listeners)] BY <1>3 DEF Init
  <2>4. unEvent \in [Clients -> Seq(Listeners)] /\ unResponse \in [Clients -> Seq(Listeners)]
    BY <2>2 DEF Init
  <2>5. event \in [Clients -> [number : Nat, kind : EventKinds]] BY <2>1 DEF Init
  <2> QED BY <2>3, <2>4, <2>5 DEF Init, UnnotifiedTyped
<1>6. CountsTyped BY SendsAssumption, EventsAssumption DEF Init, CountsTyped
<1>7. RestTyped BY DEF Init, RestTyped
<1> QED BY <1>1, <1>2, <1>4, <1>5, <1>6, <1>7 DEF Typed

\* The types are those of TypeOK, with the commands as a function.
LEMMA TypedInvariant == Spec => []Typed
BY TypedInit, TypedStep, PTL DEF Spec

\* TypeOK: the variables of devtools_client_impl.cc and of the call stack keep their types,
\* for any number of operations and events.
THEOREM TypeCorrect == Spec => []TypeOK
<1>1. Typed => TypeOK
  BY DEF Typed, StackTyped, CommandsTyped, ClientsTyped, UnnotifiedTyped, CountsTyped, RestTyped, TypeOK
<1> QED BY <1>1, TypedInvariant, PTL

-----------------------------------------------------------------------------
(* Commands and responses.                                                 *)

\* The calls below the running one go on as they were.
LEMMA SoundPop ==
  ASSUME NEW st \in Seq(ActivationRecord), st # <<>>, NEW cs, Sound(st, cs)
  PROVE  Sound(SubSeq(st, 1, Len(st) - 1), cs) /\ ~Tests(SubSeq(st, 1, Len(st) - 1))
<1> DEFINE b == SubSeq(st, 1, Len(st) - 1)
<1>1. /\ Len(st) \in Nat \ {0} /\ Len(b) = Len(st) - 1
      /\ \A i \in 1..(Len(st) - 1) : i \in 1..Len(st) /\ b[i] = st[i]
  BY Popped
<1>2. Linked(b) BY LinkedPop DEF Sound
<1> HIDE DEF b
<1>3. \A i \in 1..Len(b) : Placed(b[i]) /\ Holds(b[i], cs) BY <1>1 DEF Sound
<1>4. ASSUME Tests(b) PROVE FALSE
  <2> DEFINE m == Len(b)
  <2>1. /\ m \in Nat /\ m > 1 /\ Len(st) = m + 1
        /\ m \in 1..(Len(st) - 1) /\ m - 1 \in 1..(Len(st) - 1) /\ (m - 1) + 1 = m
        /\ m + 1 = Len(st)
    BY <1>1, <1>4 DEF Tests
  <2>2. Calls(st[m - 1], st[m]) /\ Calls(st[m], st[m + 1])
    <3>1. \A i \in 1..(Len(st) - 1) : Calls(st[i], st[i + 1]) BY DEF Sound, Linked
    <3> HIDE DEF m
    <3> QED BY <2>1, <3>1
  <2>3. Sending(st[m - 1]) /\ st[m].c = Root /\ st[m].at = "start"
    BY <1>1, <1>4, <2>1 DEF Tests
  <2> HIDE DEF m
  <2> QED BY <2>2, <2>3 DEF Calls, Waits
<1> QED BY <1>2, <1>3, <1>4 DEF Sound, b

\* The stack stays sound when the running call goes to another place.
LEMMA SoundMove ==
  ASSUME NEW st \in Seq(ActivationRecord), st # <<>>, NEW r \in ActivationRecord, NEW cs,
         Sound(st, cs), Placed(r), r.at # "start",
         r.fn = st[Len(st)].fn, r.c = st[Len(st)].c,
         r.fn \in {"SendCommand", "ProcessNextMessage"} => r.id = st[Len(st)].id
  PROVE  Sound([st EXCEPT ![Len(st)] = r], cs) /\ ~Tests([st EXCEPT ![Len(st)] = r])
<1> DEFINE p == [st EXCEPT ![Len(st)] = r]
<1>0. Linked(p) BY LinkedMove DEF Sound
<1>1. /\ Len(p) = Len(st) /\ p[Len(st)] = r /\ \A i \in 1..(Len(st) - 1) : p[i] = st[i]
  BY Moved
<1>2. Len(st) \in Nat \ {0} OBVIOUS
<1> HIDE DEF p
<1>3. Holds(r, cs)
  <2>1. Holds(st[Len(st)], cs) BY <1>2 DEF Sound
  <2> QED BY <2>1 DEF Holds, Sending
<1>4. ASSUME NEW i \in 1..Len(p) PROVE Placed(p[i]) /\ Holds(p[i], cs)
  <2>1. i \in 1..Len(st) /\ (i \in 1..(Len(st) - 1) \/ i = Len(st)) BY <1>1, <1>2
  <2> QED BY <1>1, <1>3, <2>1 DEF Sound
<1>5. ~Tests(p) BY <1>1 DEF Tests
<1> QED BY <1>0, <1>4, <1>5 DEF Sound, p

\* ... when another call begins.
LEMMA SoundPush ==
  ASSUME NEW st \in Seq(ActivationRecord), NEW x \in ActivationRecord, NEW cs,
         Sound(st, cs), Placed(x), Holds(x, cs), st # <<>> => Calls(st[Len(st)], x),
         Sending(x) => \A i \in 1..Len(st) : Sending(st[i]) => st[i].id # x.id
  PROVE  /\ Sound(Append(st, x), cs)
         /\ Tests(Append(st, x)) =>
              /\ st # <<>> /\ Sending(st[Len(st)]) /\ Processing(x) /\ x.c = Root /\ x.id = 0
              /\ Append(st, x)[Len(Append(st, x)) - 1] = st[Len(st)]
<1> DEFINE p == Append(st, x)
<1>0. Linked(p) BY LinkedPush DEF Sound
<1>1. /\ Len(st) \in Nat /\ Len(p) = Len(st) + 1 /\ p[Len(st) + 1] = x
      /\ \A i \in 1..Len(st) : p[i] = st[i]
  BY Pushed
<1> HIDE DEF p
<1>2. ASSUME NEW i \in 1..Len(p) PROVE Placed(p[i]) /\ Holds(p[i], cs)
  <2>1. i \in 1..Len(st) \/ i = Len(st) + 1 BY <1>1
  <2> QED BY <1>1, <2>1 DEF Sound
<1>3. ASSUME Tests(p)
      PROVE  /\ st # <<>> /\ Sending(st[Len(st)]) /\ Processing(x) /\ x.c = Root /\ x.id = 0
             /\ p[Len(p) - 1] = st[Len(st)]
  <2>1. Len(st) \in 1..Len(st) /\ Len(p) - 1 = Len(st) /\ st # <<>> BY <1>1, <1>3 DEF Tests
  <2>2. Sending(st[Len(st)]) /\ x.c = Root /\ x.id = 0 BY <1>1, <1>3, <2>1 DEF Tests
  <2>3. p[Len(p) - 1] = st[Len(st)] BY <1>1, <2>1
  <2>4. Processing(x) BY <2>1, <2>2 DEF Calls, Waits
  <2> QED BY <2>1, <2>2, <2>3, <2>4
<1> QED BY <1>0, <1>2, <1>3 DEF Sound, p

\* The commands that are awaited stay.
LEMMA SoundCommands ==
  ASSUME NEW st, NEW cs, NEW cs2, Sound(st, cs),
         \A i \in 1..Len(st) : Sending(st[i]) =>
           st[i].id \in DOMAIN cs2 /\ cs2[st[i].id].client = cs[st[i].id].client
  PROVE  Sound(st, cs2)
BY DEF Sound, Holds

\* A call that may send a command.
Ready(r) ==
  /\ ~Sending(r) /\ (Processing(r) /\ r.c = Root => r.at = "handle")
  /\ (r.fn = "ProcessEvent" => r.at # "start")

\* ... when a command is sent.
LEMMA SoundSend ==
  ASSUME CommandsTyped, NEW st \in Seq(ActivationRecord), NEW c \in Clients, SendCommand(st, c),
         Sound(st, commands), st # <<>> => Ready(st[Len(st)]), ~Tests(st),
         Settled(commands, detached)
  PROVE  Sound(stack', commands') /\ ~Tests(stack') /\ Settled(commands', detached)
<1> DEFINE x == [Activation("SendCommand", c) EXCEPT !.id = nextId]
<1>1. /\ x \in ActivationRecord /\ x.fn = "SendCommand" /\ x.c = c /\ x.id = nextId
      /\ x.at = "start"
      /\ \/ stack' = Append(st, x) /\ Register(c)
         \/ stack' = st /\ UNCHANGED <<nextId, commands>>
  BY SendFacts
<1> HIDE DEF x
<1>2. CASE stack' = st /\ UNCHANGED <<nextId, commands>> BY <1>2
<1>3. CASE stack' = Append(st, x) /\ Register(c)
  <2>1. /\ nextId \notin DOMAIN commands /\ DOMAIN commands' = DOMAIN commands \cup {nextId}
        /\ commands'[nextId] = NewCommand(c)
        /\ \A id \in DOMAIN commands : commands'[id] = commands[id]
    BY <1>3, Registered
  <2>2. Settled(commands', detached)
    <3>1. Regular(NewCommand(c), detached) BY DEF Regular, NewCommand
    <3> QED BY <2>1, <3>1 DEF Settled
  <2>3. Sound(st, commands') BY <2>1, SoundCommands DEF Sound, Holds
  <2>4. Sending(x) /\ ~Processing(x) BY <1>1 DEF Sending, Processing
  <2>5. Placed(x) BY <1>1 DEF Placed, Processing
  <2>6. Holds(x, commands') BY <1>1, <2>1 DEF Holds, NewCommand
  <2>7. \A i \in 1..Len(st) : Sending(st[i]) => st[i].id # x.id BY <1>1, <2>1 DEF Sound, Holds
  <2>8. st # <<>> => Calls(st[Len(st)], x) BY DEF Ready, Calls
  <2> QED BY <1>1, <1>3, <2>2, <2>3, <2>4, <2>5, <2>6, <2>7, <2>8, SoundPush
<1> QED BY <1>1, <1>2, <1>3

\* ... when the running call begins to notify.
LEMMA AtSound ==
  ASSUME StackTyped, stack # <<>>, Sound(stack, commands), NEW p \in Places, p # "start",
         Placed([Top EXCEPT !.at = p]), ~Sending(Top), Processing(Top) => Top.c # Root
  PROVE  /\ At(p) \in Seq(ActivationRecord) /\ At(p) # <<>>
         /\ Sound(At(p), commands) /\ ~Tests(At(p)) /\ Ready(At(p)[Len(At(p))])
<1> DEFINE r == [Top EXCEPT !.at = p]
<1>1. /\ At(p) = [stack EXCEPT ![Len(stack)] = r] /\ r \in ActivationRecord
      /\ At(p) \in Seq(ActivationRecord) /\ At(p) # <<>> /\ Len(At(p)) = Len(stack)
      /\ At(p)[Len(stack)] = r
  BY AtFacts
<1>2. Top \in ActivationRecord BY TopFacts
<1>3. r.at = p /\ r.fn = Top.fn /\ r.c = Top.c /\ r.id = Top.id
  BY <1>2 DEF ActivationRecord
<1>4. Placed(r) OBVIOUS
<1> HIDE DEF r
<1>5. Sound(At(p), commands) /\ ~Tests(At(p))
  BY <1>1, <1>3, <1>4, SoundMove DEF StackTyped, Top
<1>6. Ready(r) BY <1>3 DEF Ready, Sending, Processing
<1> QED BY <1>1, <1>5, <1>6

\* A call that has called anything but ProcessNextMessage may call again.
LEMMA BelowSound ==
  ASSUME StackTyped, stack # <<>>, Sound(stack, commands)
  PROVE  /\ Below \in Seq(ActivationRecord) /\ Sound(Below, commands) /\ ~Tests(Below)
         /\ Below # <<>> /\ ~Processing(Top) => Ready(Below[Len(Below)])
         /\ Below # <<>> => Calls(Below[Len(Below)], Top)
<1>1. /\ Below \in Seq(ActivationRecord) /\ Len(stack) \in Nat \ {0}
      /\ Len(Below) = Len(stack) - 1
      /\ \A i \in 1..(Len(stack) - 1) : i \in 1..Len(stack) /\ Below[i] = stack[i]
  BY Popped DEF StackTyped, Below
<1>2. Sound(Below, commands) /\ ~Tests(Below) BY SoundPop DEF StackTyped, Below
<1>3. ASSUME Below # <<>> PROVE Calls(Below[Len(Below)], Top)
  <2> DEFINE m == Len(Below)
  <2>1. m \in 1..(Len(stack) - 1) /\ m + 1 = Len(stack) BY <1>1, <1>3
  <2>2. \A i \in 1..(Len(stack) - 1) : Calls(stack[i], stack[i + 1]) BY DEF Sound, Linked
  <2> HIDE DEF m
  <2>3. Calls(stack[m], stack[m + 1]) BY <2>1, <2>2
  <2> QED BY <1>1, <2>1, <2>3 DEF Top, m
<1>4. Below # <<>> /\ ~Processing(Top) => Ready(Below[Len(Below)])
  BY <1>3 DEF Calls, Waits, Ready
<1> QED BY <1>1, <1>2, <1>3, <1>4

\* ... when a listener sends a command.
LEMMA ListenerSound ==
  ASSUME Typed, NEW st \in Seq(ActivationRecord), NEW l \in Listeners, NEW c \in Clients, NEW kind,
         NEW hook \in {"OnConnected", "OnEvent", "OnCommandSuccess"},
         ListenerSends(st, hook, l, c, kind),
         Sound(st, commands), st # <<>> => Ready(st[Len(st)]), ~Tests(st),
         Settled(commands, detached)
  PROVE  Sound(stack', commands') /\ ~Tests(stack') /\ Settled(commands', detached)
<1> DEFINE y == [Activation(hook, c) EXCEPT !.l = l]
<1>1. hook \in Functions BY DEF Functions
<1>2. /\ y \in ActivationRecord /\ y.fn = hook /\ y.c = c /\ y.at = "start"
      /\ Append(st, y) \in Seq(ActivationRecord)
      /\ \E target \in SendTargets(hook, l, c, kind) \cap Clients : SendCommand(Append(st, y), target)
  BY <1>1, ListenerSendFacts
<1>3. PICK target \in Clients : SendCommand(Append(st, y), target) BY <1>2
<1> HIDE DEF y
<1>4. Placed(y) /\ ~Sending(y) /\ ~Processing(y) /\ Ready(y)
  BY <1>2 DEF Placed, Sending, Processing, Ready
<1>5. Holds(y, commands) /\ (st # <<>> => Calls(st[Len(st)], y))
  BY <1>4 DEF Holds, Calls, Ready
<1>6. Sound(Append(st, y), commands) /\ ~Tests(Append(st, y))
  BY <1>2, <1>4, <1>5, SoundPush
<1>7. Append(st, y) # <<>> /\ Append(st, y)[Len(Append(st, y))] = y
  <2>1. Len(st) \in Nat /\ Len(Append(st, y)) = Len(st) + 1 /\ Append(st, y)[Len(st) + 1] = y
        /\ Append(st, y) # <<>>
    BY <1>2, Pushed
  <2> QED BY <2>1
<1>8. CommandsTyped BY DEF Typed
<1> QED BY <1>2, <1>3, <1>4, <1>6, <1>7, <1>8, SoundSend

\* Root never has a listener to tell anything.
LEMMA QuietStep == Typed /\ RootIsQuiet /\ Next => RootIsQuiet' /\ detached \subseteq detached'
<1> SUFFICES ASSUME Typed, RootIsQuiet, Next PROVE RootIsQuiet' /\ detached \subseteq detached'
  OBVIOUS
<1> DEFINE Same == UNCHANGED <<listeners, unConnect, unEvent, unResponse, detached>>
<1>0. Same => RootIsQuiet' /\ detached \subseteq detached' BY DEF RootIsQuiet
<1>a. StackTyped /\ ClientsTyped /\ UnnotifiedTyped BY DEF Typed
<1>b. Root # Page /\ Root # Frame /\ Root \in Clients BY ClientsAssumption DEF Clients
<1>1. CASE Begin
  <2>1. CASE BeginGetFedCmTracker
    <3>1. listeners'[Root] = listeners[Root] BY <1>a, <1>b, <2>1 DEF BeginGetFedCmTracker, ClientsTyped
    <3> QED BY <2>1, <3>1 DEF BeginGetFedCmTracker, RootIsQuiet, unnotified
  <2>2. CASE ~BeginGetFedCmTracker
    <3>1. Same
      BY <1>1, <2>2 DEF Begin, BeginSendCommand, SendCommandAndIgnoreResponse, BeginHandleEventsUntil,
        BeginHandleDialog, BeginAttachTo, clientVars, unnotified
    <3> QED BY <1>0, <3>1
  <2> QED BY <2>1, <2>2
<1>2. CASE \/ EndGetFedCmTracker \/ SendCommandFails \/ SendCommandLoop \/ HandleEventsUntil
           \/ HandleEventsEnds \/ DeadPointer \/ ListenerContinues
  <2>1. Same
    BY <1>2 DEF EndGetFedCmTracker, SendCommandFails, SendCommandLoop, HandleEventsUntil,
      HandleEventsEnds, DeadPointer, ListenerContinues, clientVars, unnotified
  <2> QED BY <1>0, <2>1
<1>3. CASE \/ SetUpDevTools \/ AttachToReturns \/ ProcessNextMessage \/ HandleMessageReturns
           \/ ProcessCommandResponseReturns \/ EventNotified \/ RoundTripReturns \/ HandleDialog
           \/ DialogHandled
  <2>1. Same
    BY <1>3 DEF SetUpDevTools, AttachToReturns, ProcessNextMessage, HandleMessageReturns,
      ProcessCommandResponseReturns, EventNotified, RoundTripReturns, HandleDialog,
      DialogHandled, clientVars, unnotified
  <2> QED BY <1>0, <2>1
<1>4. CASE EnsureListenersNotifiedOfConnect
  <2> DEFINE c == Top.c
  <2>1. \E n \in 1..Len(unConnect[c]) : unConnect' = [unConnect EXCEPT ![c] = Unlisted(@, n)]
    BY <1>4 DEF EnsureListenersNotifiedOfConnect
  <2>2. c # Root BY <1>4 DEF EnsureListenersNotifiedOfConnect, RootIsQuiet
  <2> HIDE DEF c
  <2>3. unConnect'[Root] = unConnect[Root] BY <1>a, <1>b, <2>1, <2>2 DEF UnnotifiedTyped
  <2> QED BY <1>4, <2>3 DEF EnsureListenersNotifiedOfConnect, RootIsQuiet, clientVars
<1>5. CASE EnsureListenersNotifiedOfEvent
  <2> DEFINE c == Top.c
             kind == event[c].kind
  <2>1. \E n \in 1..Len(unEvent[c]) :
          /\ unEvent' = [unEvent EXCEPT ![c] = Untold(c, n)]
          /\ detached' = IF kind = "detachedFromTarget" /\ unEvent[c][1] = "frame"
                         THEN detached \cup ({Frame} \cap attached) ELSE detached
    BY <1>5 DEF EnsureListenersNotifiedOfEvent
  <2>2. c # Root BY <1>5 DEF EnsureListenersNotifiedOfEvent, RootIsQuiet
  <2> HIDE DEF c, kind
  <2>3. unEvent'[Root] = unEvent[Root] BY <1>a, <1>b, <2>1, <2>2 DEF UnnotifiedTyped
  <2>4. detached \subseteq detached' /\ detached' \subseteq {Frame} BY <2>1 DEF RootIsQuiet
  <2> QED BY <1>5, <2>3, <2>4 DEF EnsureListenersNotifiedOfEvent, RootIsQuiet
<1>6. CASE EnsureListenersNotifiedOfCommandResponse
  <2> DEFINE c == Top.c
  <2>1. \E n \in 1..Len(unResponse[c]) : unResponse' = [unResponse EXCEPT ![c] = Unlisted(@, n)]
    BY <1>6 DEF EnsureListenersNotifiedOfCommandResponse
  <2>2. c # Root BY <1>6 DEF EnsureListenersNotifiedOfCommandResponse, RootIsQuiet
  <2> HIDE DEF c
  <2>3. unResponse'[Root] = unResponse[Root] BY <1>a, <1>b, <2>1, <2>2 DEF UnnotifiedTyped
  <2> QED BY <1>6, <2>3 DEF EnsureListenersNotifiedOfCommandResponse, RootIsQuiet, clientVars
<1>7. CASE NotificationFails
  <2> DEFINE c == Top.c
  <2>1. unEvent' = [unEvent EXCEPT ![c] = <<>>] \/ unEvent' = unEvent
    BY <1>7 DEF NotificationFails
  <2> HIDE DEF c
  <2>2. unEvent'[Root] = <<>> BY <1>a, <1>b, <2>1 DEF UnnotifiedTyped, RootIsQuiet
  <2> QED BY <1>7, <2>2 DEF NotificationFails, RootIsQuiet, clientVars
<1>8. CASE ProcessEvent
  <2> DEFINE c == Top.c
  <2>1. unEvent' = [unEvent EXCEPT ![c] = listeners[c]] \/ unEvent' = unEvent
    BY <1>8 DEF ProcessEvent, Announce
  <2> HIDE DEF c
  <2>2. unEvent'[Root] = <<>> BY <1>a, <1>b, <2>1 DEF UnnotifiedTyped, RootIsQuiet
  <2> QED BY <1>8, <2>2 DEF ProcessEvent, RootIsQuiet, clientVars
<1>9. CASE Receive
  <2>1. CASE \E id \in DOMAIN commands, ok \in BOOLEAN : ReceiveResponse(id, ok)
    <3>1. PICK id \in DOMAIN commands, ok \in BOOLEAN : ReceiveResponse(id, ok) BY <2>1
    <3> DEFINE c == commands[id].client
    <3>2. unResponse' = [unResponse EXCEPT ![c] = listeners[c]] \/ unResponse' = unResponse
      BY <3>1 DEF ReceiveResponse
    <3> HIDE DEF c
    <3>3. unResponse'[Root] = <<>> BY <1>a, <1>b, <3>2 DEF UnnotifiedTyped, RootIsQuiet
    <3> QED BY <3>1, <3>3 DEF ReceiveResponse, RootIsQuiet, clientVars
  <2>2. CASE ~\E id \in DOMAIN commands, ok \in BOOLEAN : ReceiveResponse(id, ok)
    <3>1. Same
      BY <1>9, <2>2 DEF Receive, ReceiveFails, ReceiveEvent, ReceiveOrphanResponse, clientVars, unnotified
    <3> QED BY <1>0, <3>1
  <2> QED BY <2>1, <2>2
<1> QED BY <1>1, <1>2, <1>3, <1>4, <1>5, <1>6, <1>7, <1>8, <1>9 DEF Next, Step

\* A ResponseInfo is deleted, or changed.
LEMMA SettledWithout ==
  ASSUME CommandsTyped, Settled(commands, detached), NEW id
  PROVE  Settled(Without(id), detached)
BY WithoutFacts DEF Settled

\* A ResponseInfo that nobody awaits is not missed.
LEMMA SoundWithout ==
  ASSUME CommandsTyped, NEW st, Sound(st, commands), NEW id,
         \A i \in 1..Len(st) : Sending(st[i]) => st[i].id # id
  PROVE  Sound(st, Without(id))
<1>1. /\ DOMAIN Without(id) = DOMAIN commands \ {id}
      /\ \A i \in DOMAIN commands : i # id => Without(id)[i] = commands[i]
  BY WithoutFacts
<1>2. \A i \in 1..Len(st) : Sending(st[i]) => st[i].id \in DOMAIN commands /\ st[i].id # id
  BY DEF Sound, Holds
<1> QED BY <1>1, <1>2, SoundCommands

\* A ResponseInfo changes, and its client stays.
LEMMA Changed ==
  ASSUME CommandsTyped, NEW id \in DOMAIN commands, NEW r, Regular(r, detached),
         r.client = commands[id].client, Settled(commands, detached)
  PROVE  /\ Settled([commands EXCEPT ![id] = r], detached)
         /\ \A st : Sound(st, commands) => Sound(st, [commands EXCEPT ![id] = r])
<1> DEFINE cs == [commands EXCEPT ![id] = r]
<1>1. /\ DOMAIN cs = DOMAIN commands /\ cs[id] = r
      /\ \A i \in DOMAIN commands : i # id => cs[i] = commands[i]
  BY DEF CommandsTyped
<1> HIDE DEF cs
<1>2. Settled(cs, detached) BY <1>1 DEF Settled
<1>3. ASSUME NEW st, Sound(st, commands) PROVE Sound(st, cs)
  <2>1. \A i \in 1..Len(st) : Sending(st[i]) =>
           st[i].id \in DOMAIN cs /\ cs[st[i].id].client = commands[st[i].id].client
    BY <1>1, <1>3 DEF Sound, Holds
  <2> QED BY <1>3, <2>1, SoundCommands
<1> QED BY <1>2, <1>3 DEF cs

\* No other call waits for the command of the running call.
LEMMA OwnCommand ==
  ASSUME StackTyped, stack # <<>>, Sound(stack, commands), Sending(Top)
  PROVE  \A i \in 1..Len(Below) : Sending(Below[i]) => Below[i].id # Top.id
<1>1. /\ Len(stack) \in Nat \ {0} /\ Len(Below) = Len(stack) - 1
      /\ \A i \in 1..(Len(stack) - 1) : i \in 1..Len(stack) /\ Below[i] = stack[i]
  BY Popped DEF StackTyped, Below
<1>2. \A i, j \in 1..Len(stack) : Sending(stack[i]) /\ Sending(stack[j]) /\ stack[i].id = stack[j].id => i = j
  BY DEF Sound, Linked
<1>3. Len(stack) \in 1..Len(stack) /\ Top = stack[Len(stack)] BY <1>1 DEF Top
<1> SUFFICES ASSUME NEW i \in 1..Len(Below), Sending(Below[i]), Below[i].id = Top.id PROVE FALSE
  OBVIOUS
<1>4. i \in 1..Len(stack) /\ Below[i] = stack[i] /\ i # Len(stack) BY <1>1
<1> QED BY <1>2, <1>3, <1>4

\* HandleMessage routes a message.
LEMMA HandleSound ==
  ASSUME StackTyped, stack # <<>>, Processing(Top), NEW c \in Clients, NEW x \in ActivationRecord,
         x.fn \in {"ProcessEvent", "ProcessCommandResponse"}, x.at = "start", NEW cs,
         Sound(stack, cs), Handle(c, x)
  PROVE  Sound(stack', cs) /\ ~Tests(stack')
<1> DEFINE r == [Top EXCEPT !.at = "handle", !.to = c]
           st == [stack EXCEPT ![Len(stack)] = r]
<1>1. Top \in ActivationRecord BY TopFacts
<1>2. r \in ActivationRecord BY <1>1 DEF ActivationRecord, Places
<1>3. r.at = "handle" /\ r.fn = Top.fn /\ r.c = Top.c /\ r.id = Top.id BY <1>1 DEF ActivationRecord
<1>4. stack' = Append(st, x) BY DEF Handle, Call, Top, StackTyped
<1> HIDE DEF r
<1>5. Placed(r) /\ ~Sending(r) BY <1>3 DEF Placed, Processing, Sending
<1>6. Sound(st, cs) BY <1>2, <1>3, <1>5, SoundMove DEF StackTyped, Top
<1>7. st \in Seq(ActivationRecord) /\ st # <<>> /\ st[Len(st)] = r BY <1>2, Moved DEF StackTyped
<1> HIDE DEF st
<1>8. Placed(x) /\ ~Sending(x) /\ ~Processing(x) /\ Holds(x, cs)
  BY DEF Placed, Processing, Sending, Holds
<1>9. Calls(r, x) BY <1>3, <1>5 DEF Calls, Processing
<1> QED BY <1>4, <1>5, <1>6, <1>7, <1>8, <1>9, SoundPush

\* Every step keeps the chain of calls and the commands it waits for.
LEMMA ChainStep ==
  Typed /\ Chain /\ Next =>
    Sound(stack', commands') /\ Settled(commands', detached) /\ TestedBeforeReceive'
<1> SUFFICES ASSUME Typed, Chain, Next
             PROVE  Sound(stack', commands') /\ Settled(commands', detached) /\ TestedBeforeReceive'
  OBVIOUS
<1> DEFINE G == Sound(stack', commands') /\ Settled(commands', detached) /\ ~Tests(stack')
           Goal == Sound(stack', commands') /\ Settled(commands', detached) /\ TestedBeforeReceive'
<1>0. /\ StackTyped /\ CommandsTyped /\ ClientsTyped /\ UnnotifiedTyped
      /\ Sound(stack, commands) /\ Settled(commands, detached) /\ RootIsQuiet
  BY DEF Typed, Chain
<1>a. G => Goal BY DEF TestedBeforeReceive
<1>b. stack # <<>> => /\ Below \in Seq(ActivationRecord) /\ Sound(Below, commands) /\ ~Tests(Below)
                      /\ (Below # <<>> /\ ~Processing(Top) => Ready(Below[Len(Below)]))
                      /\ (Below # <<>> => Calls(Below[Len(Below)], Top))
  BY <1>0, BelowSound
<1>c. \A s : stack # <<>> /\ Return(s) /\ UNCHANGED commands => G BY <1>0, <1>b DEF Return
<1>d. ASSUME NEW p \in Places, stack # <<>>, p # "start", Placed([Top EXCEPT !.at = p]),
             ~Sending(Top), Processing(Top) => Top.c # Root
      PROVE  /\ At(p) \in Seq(ActivationRecord) /\ At(p) # <<>>
             /\ Sound(At(p), commands) /\ ~Tests(At(p)) /\ Ready(At(p)[Len(At(p))])
  BY <1>0, <1>d, AtSound
<1>e. stack # <<>> => /\ Placed(Top) /\ Holds(Top, commands) /\ Top \in ActivationRecord
                      /\ Top.c \in Clients /\ Top.id \in Nat /\ Top.caller \in Clients
                      /\ Top.ev \in [number : Nat, kind : EventKinds]
  <2>1. stack # <<>> => Len(stack) \in 1..Len(stack) BY <1>0, Popped DEF StackTyped
  <2> QED BY <1>0, <2>1, TopFacts DEF Sound, Top
<1>f. \A st \in Seq(ActivationRecord), c \in Clients :
        /\ SendCommand(st, c) /\ Sound(st, commands) /\ (st # <<>> => Ready(st[Len(st)])) /\ ~Tests(st)
        => G
  BY <1>0, SoundSend
<1>g. ASSUME NEW st \in Seq(ActivationRecord), NEW l \in Listeners, NEW c \in Clients, NEW kind,
             NEW hook \in {"OnConnected", "OnEvent", "OnCommandSuccess"},
             ListenerSends(st, hook, l, c, kind), Sound(st, commands),
             st # <<>> => Ready(st[Len(st)]), ~Tests(st)
      PROVE  G
  BY <1>0, <1>g, ListenerSound
<1>h. ASSUME NEW x \in ActivationRecord, Placed(x), ~Sending(x)
      PROVE  Sound(Append(<<>>, x), commands) /\ ~Tests(Append(<<>>, x))
  <2>1. Sound(<<>>, commands) /\ <<>> \in Seq(ActivationRecord) BY DEF Sound, Linked
  <2>2. Holds(x, commands) BY <1>h DEF Holds
  <2> DEFINE e == <<>>
  <2>3. e \in Seq(ActivationRecord) /\ Sound(e, commands) /\ e = <<>> BY <2>1
  <2> HIDE DEF e
  <2>4. Sound(Append(e, x), commands) /\ ~Tests(Append(e, x)) BY <1>h, <2>2, <2>3, SoundPush
  <2> QED BY <2>3, <2>4
<1>i. \A c \in Clients : {"HandleEventsUntil", "HandleDialog", "AttachTo", "GetFedCmTracker"} \subseteq Functions
  BY DEF Functions
<1>k. Page \in Clients /\ Root \in Clients /\ Frame \in Clients BY DEF Clients
<1>l. Root # Page /\ Root # Frame BY ClientsAssumption
<1>m. \A fn \in Functions, c \in Clients :
        /\ Activation(fn, c) \in ActivationRecord /\ Activation(fn, c).fn = fn
        /\ Activation(fn, c).c = c /\ Activation(fn, c).at = "start" /\ Activation(fn, c).id = 0
  <2>1. NoEvent \in [number : Nat, kind : EventKinds] /\ "frame" \in Listeners /\ 0 \in Nat
    BY DEF NoEvent, EventKinds, Listeners
  <2>2. \A fn \in Functions, c \in Clients : Activation(fn, c) \in ActivationRecord
    BY <2>1, Activated
  <2> QED BY <2>2 DEF Activation
<1>n. Sound(<<>>, commands) /\ ~Tests(<<>>) /\ <<>> \in Seq(ActivationRecord) BY DEF Sound, Linked, Tests
<1>o. {"SendCommand", "ProcessNextMessage", "ProcessEvent", "HandleDialog", "ProcessCommandResponse",
       "AttachTo", "HandleEventsUntil", "OnConnected", "OnEvent", "OnCommandSuccess",
       "GetFedCmTracker"} \subseteq Functions
  BY DEF Functions
<1>p. \A c \in Clients : Register(c) => Sound(stack, commands') /\ Settled(commands', detached)
  <2> SUFFICES ASSUME NEW c \in Clients, Register(c)
               PROVE  Sound(stack, commands') /\ Settled(commands', detached)
    OBVIOUS
  <2>1. /\ DOMAIN commands' = DOMAIN commands \cup {nextId} /\ commands'[nextId] = NewCommand(c)
        /\ \A id \in DOMAIN commands : commands'[id] = commands[id]
    BY <1>0, Registered
  <2>2. Regular(NewCommand(c), detached) BY DEF Regular, NewCommand
  <2>3. Settled(commands', detached) BY <1>0, <2>1, <2>2 DEF Settled
  <2>4. Sound(stack, commands') BY <1>0, <2>1, SoundCommands DEF Sound, Holds
  <2> QED BY <2>3, <2>4
<1>q. stack # <<>> /\ Sending(Top) =>
        Sound(Below, Without(Top.id)) /\ Settled(Without(Top.id), detached)
  BY <1>0, <1>b, OwnCommand, SoundWithout, SettledWithout
<1>1. ASSUME NEW c \in Clients, BeginSendCommand(c) PROVE Goal
  <2>1. SendCommand(<<>>, c) BY <1>1 DEF BeginSendCommand
  <2> QED BY <1>a, <1>f, <1>n, <2>1
<1>2. ASSUME NEW c \in Clients, SendCommandAndIgnoreResponse(c) PROVE Goal
  <2>1. stack' = <<>> /\ stack = <<>> /\ Register(c)
    BY <1>2 DEF SendCommandAndIgnoreResponse, Idle
  <2>2. G BY <1>p, <1>n, <2>1
  <2> QED BY <1>a, <2>2
<1>3. ASSUME NEW c \in Clients, BeginHandleEventsUntil(c) PROVE Goal
  <2> DEFINE x == Activation("HandleEventsUntil", c)
  <2>1. x \in ActivationRecord /\ x.fn = "HandleEventsUntil" /\ x.at = "start" BY <1>m, <1>o
  <2>2. stack' = Append(<<>>, x) /\ UNCHANGED commands
    BY <1>3 DEF BeginHandleEventsUntil, Call, commandVars
  <2> HIDE DEF x
  <2>3. Placed(x) /\ ~Sending(x) BY <2>1 DEF Placed, Sending, Processing
  <2>4. G BY <1>0, <1>h, <2>1, <2>2, <2>3
  <2> QED BY <1>a, <2>4
<1>4. CASE BeginHandleDialog
  <2> DEFINE x == Activation("HandleDialog", Page)
  <2>1. x \in ActivationRecord /\ x.fn = "HandleDialog" /\ x.at = "start" BY <1>m, <1>o, <1>k
  <2>2. stack' = Append(<<>>, x) /\ UNCHANGED commands
    BY <1>4 DEF BeginHandleDialog, Call, commandVars
  <2> HIDE DEF x
  <2>3. Placed(x) /\ ~Sending(x) BY <2>1 DEF Placed, Sending, Processing
  <2>4. G BY <1>0, <1>h, <2>1, <2>2, <2>3
  <2> QED BY <1>a, <2>4
<1>5. CASE BeginAttachTo
  <2> DEFINE x == Activation("AttachTo", Page)
  <2>1. x \in ActivationRecord /\ x.fn = "AttachTo" /\ x.at = "start" /\ x.c = Page BY <1>m, <1>o, <1>k
  <2>2. stack' = Append(<<>>, x) /\ UNCHANGED commands
    BY <1>5 DEF BeginAttachTo, Call, commandVars
  <2> HIDE DEF x
  <2>3. Placed(x) /\ ~Sending(x) BY <2>1, <1>l DEF Placed, Sending, Processing
  <2>4. G BY <1>0, <1>h, <2>1, <2>2, <2>3
  <2> QED BY <1>a, <2>4
<1>6. CASE BeginGetFedCmTracker
  <2> DEFINE x == Activation("GetFedCmTracker", Page)
             st == <<x>>
  <2>1. x \in ActivationRecord /\ x.fn = "GetFedCmTracker" /\ x.at = "start" BY <1>m, <1>o, <1>k
  <2>2. SendCommand(st, Page) BY <1>6 DEF BeginGetFedCmTracker
  <2> HIDE DEF x
  <2>3. Placed(x) /\ ~Sending(x) /\ Ready(x) BY <2>1 DEF Placed, Sending, Processing, Ready
  <2>4. \A z \in ActivationRecord : /\ Append(<<>>, z) = <<z>> /\ <<z>> \in Seq(ActivationRecord)
                                    /\ <<z>>[Len(<<z>>)] = z
    OBVIOUS
  <2>5. Sound(st, commands) /\ ~Tests(st) BY <1>h, <2>1, <2>3, <2>4
  <2>6. st \in Seq(ActivationRecord) /\ st[Len(st)] = x BY <2>1, <2>4
  <2> HIDE DEF st
  <2> QED BY <1>a, <1>f, <1>k, <2>2, <2>3, <2>5, <2>6
<1>7. CASE EndGetFedCmTracker
  BY <1>7, <1>a, <1>c DEF EndGetFedCmTracker, Running, commandVars
<1>8. CASE SendCommandFails
  <2>1. stack # <<>> /\ Return(ret) /\ Sending(Top) /\ commands' \in {commands, Without(Top.id)}
    BY <1>8 DEF SendCommandFails, Running, Sending
  <2>2. CASE commands' = commands BY <1>a, <1>c, <2>1, <2>2
  <2>3. CASE commands' = Without(Top.id)
    <3>1. Sound(Below, Without(Top.id)) /\ Settled(Without(Top.id), detached) BY <1>q, <2>1
    <3> QED BY <1>a, <1>b, <2>1, <2>3, <3>1 DEF Return
  <2> QED BY <2>1, <2>2, <2>3
<1>9. CASE SendCommandLoop
  <2>1. stack # <<>> /\ Sending(Top) BY <1>9 DEF SendCommandLoop, Running, Sending
  <2>2. Top.id \in DOMAIN commands /\ commands[Top.id] \in Command /\ Top.id # 0
    <3>1. Top.id \in DOMAIN commands BY <1>e, <2>1 DEF Holds
    <3> QED BY <1>0, <3>1 DEF CommandsTyped
  <2>3. CASE /\ Call(stack, [Activation("ProcessNextMessage", Top.c) EXCEPT !.id = Top.id])
             /\ UNCHANGED commands
    <3> DEFINE x == [Activation("ProcessNextMessage", Top.c) EXCEPT !.id = Top.id]
    <3>1. x \in ActivationRecord
      <4>1. NoEvent \in [number : Nat, kind : EventKinds] /\ "frame" \in Listeners
        BY DEF NoEvent, EventKinds, Listeners
      <4> QED BY <1>e, <1>o, <2>1, <4>1, Activated
    <3>2. x.fn = "ProcessNextMessage" /\ x.c = Top.c /\ x.id = Top.id /\ x.at = "start"
      BY DEF Activation
    <3>3. stack' = Append(stack, x) BY <2>3 DEF Call
    <3> HIDE DEF x
    <3>4. Placed(x) /\ ~Sending(x) /\ Holds(x, commands)
      BY <3>2 DEF Placed, Sending, Processing, Holds
    <3>5. Calls(Top, x) BY <2>1, <3>2 DEF Calls, Waits, Sending, Processing
    <3>6. G BY <1>0, <2>2, <2>3, <3>1, <3>2, <3>3, <3>4, <3>5, SoundPush DEF StackTyped, Top
    <3> QED BY <1>a, <3>6
  <2>4. CASE /\ commands' = [commands EXCEPT ![Top.id].state = "kIgnored"]
             /\ Return("kUnexpectedAlertOpen")
    <3> DEFINE r == [commands[Top.id] EXCEPT !.state = "kIgnored"]
    <3>1. commands' = [commands EXCEPT ![Top.id] = r] BY <1>0, <2>4 DEF CommandsTyped
    <3>2. r.client = commands[Top.id].client /\ r.state = "kIgnored"
          /\ r.mapped = commands[Top.id].mapped /\ r.pending = commands[Top.id].pending
      BY <2>2 DEF Command
    <3>3. Regular(commands[Top.id], detached) BY <1>0, <2>2 DEF Settled
    <3> HIDE DEF r
    <3>4. Regular(r, detached) BY <3>2, <3>3 DEF Regular
    <3>5. Sound(Below, commands') /\ Settled(commands', detached)
      BY <1>0, <1>b, <2>1, <2>2, <3>1, <3>2, <3>4, Changed
    <3>6. G BY <1>b, <2>1, <2>4, <3>5 DEF Return
    <3> QED BY <1>a, <3>6
  <2>5. CASE /\ commands' = Without(Top.id)
             /\ Return(IF commands[Top.id].ok THEN "kOk" ELSE "kUnknownError")
    BY <1>a, <1>b, <1>q, <2>1, <2>5 DEF Return
  <2> QED BY <1>9, <2>3, <2>4, <2>5 DEF SendCommandLoop
<1>r. ASSUME NEW fn \in Functions, NEW c \in Clients, stack # <<>>, Ready(Top),
             fn # "SendCommand", UNCHANGED commands, fn = "AttachTo" => c # Root,
             Call(stack, Activation(fn, c))
      PROVE  G
  <2> DEFINE x == Activation(fn, c)
  <2>1. x \in ActivationRecord /\ x.fn = fn /\ x.c = c /\ x.at = "start" BY <1>m
  <2>2. stack' = Append(stack, x) BY <1>r DEF Call
  <2> HIDE DEF x
  <2>3. Placed(x) /\ ~Sending(x) /\ Holds(x, commands) /\ Calls(Top, x) /\ ~Sending(Top)
    BY <1>r, <2>1 DEF Placed, Sending, Holds, Calls, Ready
  <2> QED BY <1>0, <1>r, <2>1, <2>2, <2>3, SoundPush DEF StackTyped, Top
<1>10. CASE HandleEventsUntil
  <2>1. stack # <<>> /\ Ready(Top) /\ UNCHANGED commands /\ Top.c \in Clients
    BY <1>10, <1>e DEF HandleEventsUntil, Running, Ready, Sending, Processing, commandVars
  <2>2. Call(stack, Activation("ProcessNextMessage", Top.c)) => G BY <1>o, <1>r, <2>1
  <2> QED BY <1>10, <1>a, <1>c, <2>1, <2>2 DEF HandleEventsUntil
<1>11. CASE HandleEventsEnds
  BY <1>11, <1>a, <1>c DEF HandleEventsEnds, Running, commandVars

<1>s. ASSUME NEW p \in Places, stack # <<>>, ~Sending(Top), Processing(Top) => Top.c # Root,
             \/ p = "connect" /\ Top.fn \in {"ProcessNextMessage", "AttachTo"}
             \/ p = "event" /\ Top.fn \in {"ProcessNextMessage", "ProcessEvent"}
             \/ p = "response" /\ Top.fn \in {"ProcessNextMessage", "ProcessCommandResponse"}
             \/ p = "dialog" /\ Top.fn = "ProcessEvent" /\ AcceptsDialog(Top.ev.kind)
             \/ p \in {"dialog", "retry"} /\ Top.fn = "HandleDialog"
      PROVE  /\ At(p) \in Seq(ActivationRecord) /\ At(p) # <<>>
             /\ Sound(At(p), commands) /\ ~Tests(At(p)) /\ Ready(At(p)[Len(At(p))])
  <2> DEFINE r == [Top EXCEPT !.at = p]
  <2>1. r.fn = Top.fn /\ r.c = Top.c /\ r.ev = Top.ev /\ r.at = p
    BY <1>e, <1>s DEF ActivationRecord
  <2>2. Placed(Top) /\ (Top.fn = "AttachTo" => Top.c # Root) BY <1>e, <1>s DEF Placed
  <2> HIDE DEF r
  <2>3. Placed(r) BY <1>s, <2>1, <2>2 DEF Placed, Processing, Sending
  <2>4. p # "start" BY <1>s
  <2> QED BY <1>d, <1>s, <2>3, <2>4 DEF r
<1>t. {"connect", "event", "response", "handle", "dialog", "retry", "roundTrip"} \subseteq Places
  BY DEF Places
<1>12. CASE EnsureListenersNotifiedOfConnect
  <2> DEFINE c == Top.c
             st == At("connect")
  <2>1. /\ stack # <<>> /\ c \in Clients /\ unConnect[c] \in Seq(Listeners) /\ c # Root
        /\ Top.fn \in {"ProcessNextMessage", "AttachTo"} /\ ~Sending(Top)
    BY <1>0, <1>12, <1>e DEF EnsureListenersNotifiedOfConnect, NotifiesConnect, Running,
      UnnotifiedTyped, RootIsQuiet, Sending
  <2>2. /\ st \in Seq(ActivationRecord) /\ st # <<>>
        /\ Sound(st, commands) /\ ~Tests(st) /\ Ready(st[Len(st)])
    BY <1>s, <1>t, <2>1
  <2>3. PICK n \in 1..Len(unConnect[c]) :
             \/ /\ stack' = st /\ UNCHANGED <<commandVars, bounds>>
             \/ ListenerSends(st, "OnConnected", unConnect[c][n], c, "other")
             \/ SendCommand(Append(st, [Activation("OnConnected", c) EXCEPT !.l = "frame"]), c)
    BY <1>12 DEF EnsureListenersNotifiedOfConnect
  <2> HIDE DEF c, st
  <2>4. unConnect[c][n] \in Listeners BY <2>1, UnlistedFacts
  <2>5. CASE stack' = st /\ UNCHANGED <<commandVars, bounds>>
    BY <1>0, <1>a, <2>2, <2>5 DEF commandVars
  <2>6. CASE ListenerSends(st, "OnConnected", unConnect[c][n], c, "other")
    <3>1. G BY <1>g, <2>1, <2>2, <2>4, <2>6
    <3> QED BY <1>a, <3>1
  <2>7. CASE SendCommand(Append(st, [Activation("OnConnected", c) EXCEPT !.l = "frame"]), c)
    <3> DEFINE y == [Activation("OnConnected", c) EXCEPT !.l = "frame"]
    <3>1. y.fn = "OnConnected" /\ y.c = c /\ y.at = "start" BY DEF Activation
    <3>2. y \in ActivationRecord
      <4>1. NoEvent \in [number : Nat, kind : EventKinds] /\ "frame" \in Listeners /\ 0 \in Nat
        BY DEF NoEvent, EventKinds, Listeners
      <4> QED BY <1>o, <2>1, <4>1, Activated
    <3> HIDE DEF y
    <3>3. Placed(y) /\ ~Sending(y) /\ ~Processing(y) /\ Ready(y) /\ Holds(y, commands)
      BY <3>1 DEF Placed, Sending, Processing, Ready, Holds
    <3>4. Calls(st[Len(st)], y) BY <2>2, <3>3 DEF Calls, Ready
    <3>5. Sound(Append(st, y), commands) /\ ~Tests(Append(st, y))
      BY <2>2, <3>2, <3>3, <3>4, SoundPush
    <3>6. /\ Append(st, y) \in Seq(ActivationRecord) /\ Append(st, y) # <<>>
          /\ Append(st, y)[Len(Append(st, y))] = y
      BY <2>2, <3>2, Pushed
    <3> QED BY <1>a, <1>f, <2>1, <2>7, <3>3, <3>5, <3>6 DEF y
  <2> QED BY <2>3, <2>5, <2>6, <2>7
<1>13. CASE EnsureListenersNotifiedOfEvent
  <2> DEFINE c == Top.c
             st == At("event")
             kind == event[c].kind
  <2>1. /\ stack # <<>> /\ c \in Clients /\ unEvent[c] \in Seq(Listeners) /\ c # Root
        /\ Top.fn \in {"ProcessNextMessage", "ProcessEvent"} /\ ~Sending(Top)
    BY <1>0, <1>13, <1>e DEF EnsureListenersNotifiedOfEvent, NotifiesEvent, Running,
      UnnotifiedTyped, RootIsQuiet, Sending
  <2>2. /\ st \in Seq(ActivationRecord) /\ st # <<>>
        /\ Sound(st, commands) /\ ~Tests(st) /\ Ready(st[Len(st)])
    BY <1>s, <1>t, <2>1
  <2>3. PICK n \in 1..Len(unEvent[c]) :
             \/ /\ stack' = st /\ UNCHANGED <<commandVars, bounds>>
             \/ ListenerSends(st, "OnEvent", unEvent[c][n], c, kind)
             \/ /\ Call(Append(st, [Activation("OnEvent", c) EXCEPT !.l = unEvent[c][n]]),
                        Activation("AttachTo", Frame))
                /\ UNCHANGED <<commandVars, bounds>>
    BY <1>13 DEF EnsureListenersNotifiedOfEvent
  <2> HIDE DEF c, st, kind
  <2>4. unEvent[c][n] \in Listeners BY <2>1, UnlistedFacts
  <2>5. CASE stack' = st /\ UNCHANGED <<commandVars, bounds>>
    BY <1>0, <1>a, <2>2, <2>5 DEF commandVars
  <2>6. CASE ListenerSends(st, "OnEvent", unEvent[c][n], c, kind)
    <3>1. G BY <1>g, <2>1, <2>2, <2>4, <2>6
    <3> QED BY <1>a, <3>1
  <2>7. CASE /\ Call(Append(st, [Activation("OnEvent", c) EXCEPT !.l = unEvent[c][n]]),
                     Activation("AttachTo", Frame))
             /\ UNCHANGED <<commandVars, bounds>>
    <3> DEFINE y == [Activation("OnEvent", c) EXCEPT !.l = unEvent[c][n]]
               x == Activation("AttachTo", Frame)
               sy == Append(st, y)
    <3>1. y.fn = "OnEvent" /\ y.c = c /\ y.at = "start" BY DEF Activation
    <3>2. y \in ActivationRecord
      <4>1. NoEvent \in [number : Nat, kind : EventKinds] /\ 0 \in Nat BY DEF NoEvent, EventKinds
      <4> QED BY <1>o, <2>1, <2>4, <4>1, Activated
    <3>3. x \in ActivationRecord /\ x.fn = "AttachTo" /\ x.c = Frame /\ x.at = "start"
      BY <1>k, <1>m, <1>o
    <3> HIDE DEF y, x
    <3>4. Placed(y) /\ ~Sending(y) /\ ~Processing(y) /\ Ready(y) /\ Holds(y, commands)
      BY <3>1 DEF Placed, Sending, Processing, Ready, Holds
    <3>5. Calls(st[Len(st)], y) BY <2>2, <3>4 DEF Calls, Ready
    <3>6. Sound(sy, commands) BY <2>2, <3>2, <3>4, <3>5, SoundPush
    <3>7. sy \in Seq(ActivationRecord) /\ sy # <<>> /\ sy[Len(sy)] = y BY <2>2, <3>2, Pushed
    <3>8. stack' = Append(sy, x) /\ UNCHANGED commands BY <2>7 DEF Call, commandVars, y, x
    <3> HIDE DEF sy
    <3>9. Placed(x) /\ ~Sending(x) /\ ~Processing(x) /\ Holds(x, commands)
      BY <1>l, <3>3 DEF Placed, Sending, Processing, Holds
    <3>11. Calls(y, x) BY <3>4 DEF Ready, Calls
    <3>10. G BY <1>0, <3>3, <3>6, <3>7, <3>8, <3>9, <3>11, SoundPush
    <3> QED BY <1>a, <3>10
  <2> QED BY <2>3, <2>5, <2>6, <2>7
<1>14. CASE EnsureListenersNotifiedOfCommandResponse
  <2> DEFINE c == Top.c
             st == At("response")
  <2>1. /\ stack # <<>> /\ c \in Clients /\ unResponse[c] \in Seq(Listeners) /\ c # Root
        /\ Top.fn \in {"ProcessNextMessage", "ProcessCommandResponse"} /\ ~Sending(Top)
    BY <1>0, <1>14, <1>e DEF EnsureListenersNotifiedOfCommandResponse, NotifiesCommandResponse,
      Running, UnnotifiedTyped, RootIsQuiet, Sending
  <2>2. /\ st \in Seq(ActivationRecord) /\ st # <<>>
        /\ Sound(st, commands) /\ ~Tests(st) /\ Ready(st[Len(st)])
    BY <1>s, <1>t, <2>1
  <2>3. PICK n \in 1..Len(unResponse[c]) :
             \/ /\ stack' = st /\ UNCHANGED <<commandVars, bounds>>
             \/ ListenerSends(st, "OnCommandSuccess", unResponse[c][n], c, "other")
    BY <1>14 DEF EnsureListenersNotifiedOfCommandResponse
  <2> HIDE DEF c, st
  <2>4. unResponse[c][n] \in Listeners BY <2>1, UnlistedFacts
  <2>5. CASE stack' = st /\ UNCHANGED <<commandVars, bounds>>
    BY <1>0, <1>a, <2>2, <2>5 DEF commandVars
  <2>6. CASE ListenerSends(st, "OnCommandSuccess", unResponse[c][n], c, "other")
    <3>1. G BY <1>g, <2>1, <2>2, <2>4, <2>6
    <3> QED BY <1>a, <3>1
  <2> QED BY <2>3, <2>5, <2>6
<1>15. CASE DeadPointer
  BY <1>0, <1>15, <1>a, <1>n DEF DeadPointer, commandVars
<1>16. CASE NotificationFails
  BY <1>16, <1>a, <1>c DEF NotificationFails, commandVars
<1>17. CASE ListenerContinues
  <2>1. /\ stack # <<>> /\ Top.fn \in {"OnConnected", "OnEvent", "OnCommandSuccess"}
        /\ ~Processing(Top) /\ Top.c \in Clients
    BY <1>17, <1>e DEF ListenerContinues, InListener, Running, Processing
  <2>2. CASE ListenerSends(Below, Top.fn, Top.l, Top.c, "other")
    <3>1. CASE Top.l \in Listeners
      <4> DEFINE st == Below
      <4>1. /\ st \in Seq(ActivationRecord) /\ Sound(st, commands) /\ ~Tests(st)
            /\ (st # <<>> => Ready(st[Len(st)]))
        BY <1>b, <2>1
      <4>2. ListenerSends(st, Top.fn, Top.l, Top.c, "other") BY <2>2
      <4> HIDE DEF st
      <4>3. G BY <1>g, <2>1, <3>1, <4>1, <4>2
      <4> QED BY <1>a, <4>3
    <3>2. CASE Top.l \notin Listeners
      <4>1. SendTargets(Top.fn, Top.l, Top.c, "other") = {}
        BY <3>2 DEF SendTargets, Listeners
      <4> QED BY <2>2, <4>1 DEF ListenerSends
    <3> QED BY <3>1, <3>2
  <2>3. CASE (Return("kOk") \/ Return(ret)) /\ UNCHANGED <<commandVars, bounds>>
    BY <1>a, <1>c, <2>1, <2>3 DEF commandVars
  <2> QED BY <1>17, <2>2, <2>3 DEF ListenerContinues
<1>18. CASE SetUpDevTools
  <2>1. stack # <<>> /\ Top.fn = "AttachTo" /\ Top.c \in Clients /\ ~Sending(Top) /\ ~Processing(Top)
    BY <1>18, <1>e DEF SetUpDevTools, Running, Sending, Processing
  <2>2. CASE Register(Top.c) /\ stack' = At("connect")
    <3> DEFINE st == At("connect")
    <3>1. Sound(st, commands) /\ ~Tests(st) BY <1>s, <1>t, <2>1
    <3>2. /\ DOMAIN commands' = DOMAIN commands \cup {nextId}
          /\ \A id \in DOMAIN commands : commands'[id] = commands[id]
      BY <1>0, <2>1, <2>2, Registered
    <3>3. Sound(st, commands')
      <4> HIDE DEF st
      <4> QED BY <3>1, <3>2, SoundCommands DEF Sound, Holds
    <3>4. Settled(commands', detached) BY <1>p, <2>1, <2>2
    <3> QED BY <1>a, <2>2, <3>1, <3>3, <3>4
  <2>3. CASE Return("kUnknownError") /\ UNCHANGED commands BY <1>a, <1>c, <2>1, <2>3
  <2> QED BY <1>18, <2>2, <2>3 DEF SetUpDevTools
<1>19. CASE AttachToReturns
  BY <1>19, <1>a, <1>c DEF AttachToReturns, Running, commandVars
<1>20. CASE ProcessNextMessage
  <2>1. /\ stack # <<>> /\ Processing(Top) /\ UNCHANGED <<commands, detached>>
        /\ \/ \E s : Return(s)
           \/ /\ ~NothingToAwait(Top.id) /\ Top.c \notin detached \cup {Root}
              /\ Call(Below, [Activation("ProcessNextMessage", Root) EXCEPT !.caller = Top.caller])
    BY <1>20 DEF ProcessNextMessage, AllNotified, Running, Processing, commandVars, clientVars
  <2>2. CASE \E s : Return(s) BY <1>a, <1>c, <2>1, <2>2
  <2>3. CASE /\ ~NothingToAwait(Top.id) /\ Top.c \notin detached \cup {Root}
             /\ Call(Below, [Activation("ProcessNextMessage", Root) EXCEPT !.caller = Top.caller])
    <3> DEFINE x == [Activation("ProcessNextMessage", Root) EXCEPT !.caller = Top.caller]
               st == Below
               a == st[Len(st)]
    <3>1. x \in ActivationRecord
      <4>1. NoEvent \in [number : Nat, kind : EventKinds] /\ "frame" \in Listeners /\ 0 \in Nat
        BY DEF NoEvent, EventKinds, Listeners
      <4> QED BY <1>e, <1>k, <1>o, <2>1, <4>1, Activated
    <3>2. x.fn = "ProcessNextMessage" /\ x.c = Root /\ x.id = 0 /\ x.at = "start" BY DEF Activation
    <3>3. stack' = Append(st, x) BY <2>3 DEF Call
    <3>4. /\ st \in Seq(ActivationRecord) /\ Sound(st, commands)
          /\ (st # <<>> => Calls(a, Top))
      BY <1>b, <2>1
    <3> HIDE DEF x, st
    <3>5. Placed(x) /\ ~Sending(x) /\ Processing(x) /\ Holds(x, commands)
      BY <3>2 DEF Placed, Sending, Processing, Holds
    <3>6. st # <<>> => Calls(a, x)
      <4> HIDE DEF a
      <4> QED BY <3>2, <3>4, <3>5 DEF Calls, Waits
    <3>7. /\ Sound(stack', commands)
          /\ Tests(stack') => st # <<>> /\ Sending(a) /\ stack'[Len(stack') - 1] = a
      BY <3>1, <3>3, <3>4, <3>5, <3>6, SoundPush
    <3>8. ASSUME Tests(stack') PROVE commands[a.id].pending /\ commands[a.id].state = "kWaiting"
      <4>1. st # <<>> /\ Sending(a) /\ Calls(a, Top) BY <3>4, <3>7, <3>8
      <4>2. Holds(a, commands)
        <5>1. Len(st) \in 1..Len(st) BY <3>4, <4>1
        <5> QED BY <3>4, <5>1 DEF Sound
      <4> HIDE DEF a
      <4>3. Top.c = a.c /\ Top.id = a.id BY <2>3, <4>1 DEF Calls, Waits
      <4>4. a.id \in DOMAIN commands /\ commands[a.id].client = Top.c
        BY <4>1, <4>2, <4>3 DEF Holds
      <4>5. a.id # 0 BY <1>0, <4>4 DEF CommandsTyped
      <4>6. commands[a.id].mapped /\ commands[a.id].state = "kWaiting"
        BY <2>3, <4>3, <4>5 DEF NothingToAwait
      <4>7. Regular(commands[a.id], detached) BY <1>0, <4>4 DEF Settled
      <4> QED BY <2>3, <4>4, <4>6, <4>7 DEF Regular
    <3>9. TestedBeforeReceive' BY <2>1, <3>7, <3>8 DEF TestedBeforeReceive
    <3> QED BY <1>0, <2>1, <3>7, <3>9
  <2> QED BY <2>1, <2>2, <2>3
<1>u. Receives => stack # <<>> /\ Processing(Top) BY DEF Receives, AllNotified, Running, Processing
<1>21. CASE ReceiveFails
  BY <1>21, <1>a, <1>c, <1>u DEF ReceiveFails
<1>22. ASSUME NEW c \in Clients, NEW kind \in EventKinds, ReceiveEvent(c, kind) PROVE Goal
  <2> DEFINE ev == [number |-> events + 1, kind |-> kind]
             x == [Activation("ProcessEvent", c) EXCEPT !.ev = ev]
  <2>1. ev \in [number : Nat, kind : EventKinds] BY DEF Typed, CountsTyped
  <2>2. x \in ActivationRecord
    <3>1. "frame" \in Listeners /\ 0 \in Nat BY DEF Listeners
    <3> QED BY <1>o, <2>1, <3>1, Activated
  <2>3. x.fn = "ProcessEvent" /\ x.at = "start" BY DEF Activation
  <2>4. Handle(c, x) /\ UNCHANGED commands /\ stack # <<>> /\ Processing(Top)
    BY <1>22, <1>u DEF ReceiveEvent, commandVars
  <2> HIDE DEF x
  <2>5. Sound(stack', commands) /\ ~Tests(stack') BY <1>0, <2>2, <2>3, <2>4, HandleSound
  <2> QED BY <1>0, <1>a, <2>4, <2>5
<1>v. \A id : ~Awaited(id) => Sound(stack, Without(id)) /\ Settled(Without(id), detached)
  BY <1>0, SoundWithout, SettledWithout DEF Awaited, Sending
<1>23. ASSUME NEW id \in DOMAIN commands, NEW ok \in BOOLEAN, ReceiveResponse(id, ok) PROVE Goal
  <2> DEFINE c == commands[id].client
             x == [Activation("ProcessCommandResponse", c) EXCEPT !.id = id]
             r == [commands[id] EXCEPT !.pending = FALSE, !.mapped = FALSE, !.ok = ok,
                         !.state = IF @ = "kIgnored" THEN @ ELSE "kReceived"]
  <2>1. commands[id] \in Command /\ c \in Clients BY <1>0 DEF CommandsTyped, Command
  <2>2. stack # <<>> /\ Processing(Top) BY <1>23, <1>u DEF ReceiveResponse
  <2>3. Sound(stack, commands') /\ Settled(commands', detached)
    <3>1. CASE ~Awaited(id) /\ commands' = Without(id) BY <1>v, <3>1
    <3>2. CASE commands' = [commands EXCEPT
                              ![id].pending = FALSE, ![id].mapped = FALSE, ![id].ok = ok,
                              ![id].state = IF @ = "kIgnored" THEN @ ELSE "kReceived"]
      <4>1. commands' = [commands EXCEPT ![id] = r] BY <1>0, <3>2 DEF CommandsTyped
      <4>2. r.client = c /\ r.pending = FALSE /\ r.mapped = FALSE /\ r.state # "kWaiting"
        BY <2>1 DEF Command
      <4> HIDE DEF r
      <4>3. Regular(r, detached) BY <4>2 DEF Regular
      <4> QED BY <1>0, <4>1, <4>2, <4>3, Changed
    <3> QED BY <1>23, <3>1, <3>2 DEF ReceiveResponse
  <2>4. Handle(c, x) \/ \E s : Return(s) BY <1>23 DEF ReceiveResponse
  <2>5. CASE Handle(c, x)
    <3>1. x \in ActivationRecord /\ x.fn = "ProcessCommandResponse" /\ x.at = "start"
      BY ResponseActivation
    <3> HIDE DEF c, x
    <3>2. Sound(stack', commands') /\ ~Tests(stack')
      BY <1>0, <2>1, <2>2, <2>3, <2>5, <3>1, HandleSound
    <3> QED BY <1>a, <2>3, <3>2
  <2>6. CASE \E s : Return(s)
    <3>1. Sound(Below, commands') /\ ~Tests(Below)
      BY <1>0, <2>2, <2>3, SoundPop DEF StackTyped, Below
    <3> QED BY <1>a, <2>3, <2>6, <3>1 DEF Return
  <2> QED BY <2>4, <2>5, <2>6
<1>24. ASSUME NEW id \in DOMAIN commands, ReceiveOrphanResponse(id) PROVE Goal
  <2> DEFINE r == [commands[id] EXCEPT !.pending = FALSE]
  <2>1. commands[id] \in Command BY <1>0 DEF CommandsTyped
  <2>2. stack # <<>> BY <1>24, <1>u DEF ReceiveOrphanResponse
  <2>3. Sound(stack, commands') /\ Settled(commands', detached)
    <3>1. CASE ~Awaited(id) /\ commands' = Without(id) BY <1>v, <3>1
    <3>2. CASE commands' = [commands EXCEPT ![id].pending = FALSE]
      <4>1. commands' = [commands EXCEPT ![id] = r] BY <1>0, <3>2 DEF CommandsTyped
      <4>2. /\ r.client = commands[id].client /\ r.mapped = commands[id].mapped
            /\ r.state = commands[id].state /\ r.client \in detached
        BY <1>24, <2>1 DEF Command, ReceiveOrphanResponse
      <4>4. Regular(commands[id], detached) BY <1>0 DEF Settled
      <4> HIDE DEF r
      <4>3. Regular(r, detached) BY <4>2, <4>4 DEF Regular
      <4> QED BY <1>0, <4>1, <4>2, <4>3, Changed
    <3> QED BY <1>24, <3>1, <3>2 DEF ReceiveOrphanResponse
  <2>4. Sound(Below, commands') /\ ~Tests(Below)
    BY <1>0, <2>2, <2>3, SoundPop DEF StackTyped, Below
  <2> QED BY <1>24, <1>a, <2>3, <2>4 DEF ReceiveOrphanResponse, Return
<1>25. CASE HandleMessageReturns
  BY <1>25, <1>a, <1>c DEF HandleMessageReturns, Running, commandVars
<1>26. CASE ProcessCommandResponseReturns
  BY <1>26, <1>a, <1>c DEF ProcessCommandResponseReturns, Running, commandVars
<1>27. CASE ProcessEvent
  <2>1. /\ stack # <<>> /\ Top.fn = "ProcessEvent" /\ ~Sending(Top) /\ ~Processing(Top)
        /\ UNCHANGED commands
    BY <1>27 DEF ProcessEvent, Running, Sending, Processing, commandVars
  <2>2. \/ AcceptsDialog(Top.ev.kind) /\ Call(At("dialog"), Activation("HandleDialog", Top.c))
        \/ stack' = At("event")
        \/ \E s : Return(s)
    BY <1>27 DEF ProcessEvent, Announce
  <2>3. CASE AcceptsDialog(Top.ev.kind) /\ Call(At("dialog"), Activation("HandleDialog", Top.c))
    <3> DEFINE st == At("dialog")
               x == Activation("HandleDialog", Top.c)
    <3>1. /\ st \in Seq(ActivationRecord) /\ st # <<>> /\ Sound(st, commands)
          /\ Ready(st[Len(st)])
      BY <1>s, <1>t, <2>1, <2>3
    <3>2. x \in ActivationRecord /\ x.fn = "HandleDialog" /\ x.at = "start"
      BY <1>e, <1>m, <1>o, <2>1
    <3>3. stack' = Append(st, x) BY <2>3 DEF Call
    <3> HIDE DEF st, x
    <3>4. Placed(x) /\ ~Sending(x) /\ ~Processing(x) /\ Holds(x, commands)
      BY <3>2 DEF Placed, Sending, Processing, Holds
    <3>5. Calls(st[Len(st)], x) BY <3>1 DEF Ready, Calls
    <3>6. G BY <1>0, <2>1, <3>1, <3>2, <3>3, <3>4, <3>5, SoundPush
    <3> QED BY <1>a, <3>6
  <2>4. CASE stack' = At("event")
    <3>1. Sound(At("event"), commands) /\ ~Tests(At("event")) BY <1>s, <1>t, <2>1
    <3> QED BY <1>0, <1>a, <2>1, <2>4, <3>1
  <2>5. CASE \E s : Return(s) BY <1>a, <1>c, <2>1, <2>5
  <2> QED BY <2>2, <2>3, <2>4, <2>5
<1>28. CASE EventNotified
  <2> DEFINE c == Top.c
             r == [Top EXCEPT !.at = "roundTrip", !.id = nextId]
             st == [stack EXCEPT ![Len(stack)] = r]
  <2>1. /\ stack # <<>> /\ c \in Clients /\ Top \in ActivationRecord /\ nextId \in Nat
        /\ Top.fn = "ProcessEvent"
    BY <1>0, <1>28, <1>e DEF EventNotified, Running, CommandsTyped
  <2>2. \/ SendCommand(st, c)
        \/ (\E s : Return(s)) /\ UNCHANGED commands
    BY <1>0, <1>28 DEF EventNotified, commandVars, Top, StackTyped
  <2>3. CASE SendCommand(st, c)
    <3>1. r \in ActivationRecord BY <1>t, <2>1 DEF ActivationRecord
    <3>2. r.fn = "ProcessEvent" /\ r.at = "roundTrip" /\ r.c = Top.c BY <2>1 DEF ActivationRecord
    <3> HIDE DEF r
    <3>3. Placed(r) /\ Ready(r) BY <3>2 DEF Placed, Ready, Processing, Sending
    <3>4. Sound(st, commands) /\ ~Tests(st)
      BY <1>0, <2>1, <3>1, <3>2, <3>3, SoundMove DEF StackTyped, Top
    <3>5. st \in Seq(ActivationRecord) /\ st # <<>> /\ st[Len(st)] = r
      BY <1>0, <2>1, <3>1, Moved DEF StackTyped
    <3> HIDE DEF st, c
    <3> QED BY <1>a, <1>f, <2>1, <2>3, <3>3, <3>4, <3>5
  <2>4. CASE (\E s : Return(s)) /\ UNCHANGED commands BY <1>a, <1>c, <2>1, <2>4
  <2> QED BY <2>2, <2>3, <2>4
<1>29. CASE RoundTripReturns
  <2> DEFINE cs == Blocked(Top.c, Top.id)
  <2>1. stack # <<>> /\ stack' = Below /\ commands' = cs
    BY <1>29 DEF RoundTripReturns, Running, Return
  <2>2. DOMAIN cs = DOMAIN commands BY DEF Blocked
  <2>3. ASSUME NEW id \in DOMAIN commands
        PROVE  cs[id].client = commands[id].client /\ Regular(cs[id], detached)
    <3>1. commands[id] \in Command /\ Regular(commands[id], detached)
      BY <1>0 DEF CommandsTyped, Settled
    <3>2. cs[id] = commands[id] \/ cs[id] = [commands[id] EXCEPT !.state = "kBlocked"]
      BY DEF Blocked
    <3> DEFINE r == [commands[id] EXCEPT !.state = "kBlocked"]
    <3>3. /\ r.client = commands[id].client /\ r.mapped = commands[id].mapped
          /\ r.pending = commands[id].pending /\ r.state = "kBlocked"
      BY <3>1 DEF Command
    <3> HIDE DEF r
    <3>4. Regular(r, detached) BY <3>1, <3>3 DEF Regular
    <3> QED BY <3>1, <3>2, <3>3, <3>4 DEF r
  <2> HIDE DEF cs
  <2>4. Settled(cs, detached) BY <2>2, <2>3 DEF Settled
  <2>5. Sound(Below, cs) BY <1>b, <2>1, <2>2, <2>3, SoundCommands DEF Sound, Holds
  <2> QED BY <1>a, <1>b, <2>1, <2>4, <2>5
<1>30. CASE HandleDialog
  <2>1. stack # <<>> /\ Top.fn = "HandleDialog" /\ Top.c \in Clients /\ ~Sending(Top) /\ ~Processing(Top)
    BY <1>30, <1>e DEF HandleDialog, Running, Sending, Processing
  <2>2. \/ (\E s : Return(s)) /\ UNCHANGED commands
        \/ \E p \in {"dialog", "retry"} : SendCommand(At(p), Top.c)
    BY <1>30 DEF HandleDialog, commandVars
  <2>3. ASSUME NEW p \in {"dialog", "retry"}, SendCommand(At(p), Top.c) PROVE Goal
    <3>1. /\ At(p) \in Seq(ActivationRecord) /\ At(p) # <<>>
          /\ Sound(At(p), commands) /\ ~Tests(At(p)) /\ Ready(At(p)[Len(At(p))])
      BY <1>s, <1>t, <2>1
    <3> QED BY <1>a, <1>f, <2>1, <2>3, <3>1
  <2> QED BY <1>a, <1>c, <2>1, <2>2, <2>3
<1>31. CASE DialogHandled
  BY <1>31, <1>a, <1>c DEF DialogHandled, Running, commandVars
<1>33. CASE Receive
  BY <1>33, <1>21, <1>22, <1>23, <1>24 DEF Receive
<1>34. CASE Begin
  BY <1>34, <1>1, <1>2, <1>3, <1>4, <1>5, <1>6 DEF Begin
<1>35. CASE Step
  BY <1>35, <1>7, <1>8, <1>9, <1>10, <1>11, <1>12, <1>13, <1>14, <1>15, <1>16, <1>17, <1>18, <1>19,
     <1>20, <1>33, <1>25, <1>26, <1>27, <1>28, <1>29, <1>30, <1>31 DEF Step
<1> QED BY <1>34, <1>35 DEF Next

\* The chain of calls is an invariant.
LEMMA ChainInvariant == Spec => []Chain
<1>1. Init => Chain
  <2> SUFFICES ASSUME Init PROVE Chain OBVIOUS
  <2>1. Sound(stack, commands) /\ ~Tests(stack) BY DEF Init, Sound, Linked, Tests
  <2>2. Settled(commands, detached)
    <3>1. DOMAIN commands = {} BY DEF Init
    <3> QED BY <3>1 DEF Settled
  <2>3. RootIsQuiet BY DEF Init, RootIsQuiet, InitialListeners, Clients
  <2> QED BY <2>1, <2>2, <2>3 DEF Chain, TestedBeforeReceive
<1>2. Typed /\ Chain /\ [Next]_vars => Chain'
  <2> SUFFICES ASSUME Typed, Chain, [Next]_vars PROVE Chain' OBVIOUS
  <2>1. CASE Next
    <3>1. Sound(stack', commands') /\ Settled(commands', detached) /\ TestedBeforeReceive'
      BY <2>1, ChainStep
    <3>2. RootIsQuiet' /\ detached \subseteq detached' BY <2>1, QuietStep DEF Chain
    <3>3. \A cmd : Regular(cmd, detached) => Regular(cmd, detached') BY <3>2 DEF Regular
    <3>4. Settled(commands', detached') BY <3>1, <3>3 DEF Settled
    <3> QED BY <3>1, <3>2, <3>4 DEF Chain
  <2>2. CASE UNCHANGED vars
    BY <2>2 DEF vars, commandVars, clientVars, unnotified, Chain, RootIsQuiet, TestedBeforeReceive
  <2> QED BY <2>1, <2>2
<1> QED BY <1>1, <1>2, TypedInvariant, PTL DEF Spec

\* ResponsesMeetCommands: every response of an attached session finds its command in
\* response_info_map_, and the thread never blocks for a command that has been answered or
\* blocked, at any depth of nested calls.
THEOREM ResponsesMeet == Spec => []ResponsesMeetCommands
<1>1. ASSUME Typed, Chain PROVE ResponsesMeetCommands
  <2>0. StackTyped /\ Sound(stack, commands) /\ Settled(commands, detached)
    BY <1>1 DEF Typed, Chain
  <2>1. ResponsesAreExpected BY <2>0 DEF Settled, Regular, ResponsesAreExpected
  <2>2. AwaitedIsUnanswered
    <3> SUFFICES ASSUME Receives, Len(stack) > 1, stack[Len(stack) - 1].fn = "SendCommand"
                 PROVE  commands[stack[Len(stack) - 1].id].pending
                        /\ commands[stack[Len(stack) - 1].id].state = "kWaiting"
      BY DEF AwaitedIsUnanswered
    <3>1. /\ stack # <<>> /\ Processing(Top) /\ Top.at # "handle" /\ Top.c = Root
          /\ ~NothingToAwait(Top.id)
      BY DEF Receives, AllNotified, Running, Processing
    <3> DEFINE n == Len(stack)
               a == stack[n - 1]
    <3>2. n \in Nat /\ n - 1 \in 1..(n - 1) /\ n \in 1..n /\ (n - 1) + 1 = n /\ n - 1 \in 1..n
      BY <2>0 DEF StackTyped
    <3>3. Calls(a, Top) /\ Placed(Top) /\ Holds(a, commands)
      <4>1. \A i \in 1..(n - 1) : Calls(stack[i], stack[i + 1]) BY <2>0 DEF Sound, Linked
      <4>2. \A i \in 1..n : Placed(stack[i]) /\ Holds(stack[i], commands) BY <2>0 DEF Sound
      <4> HIDE DEF n
      <4>3. Top = stack[n] BY DEF Top, n
      <4> QED BY <3>2, <4>1, <4>2, <4>3
    <3>4. Sending(a) BY DEF Sending
    <3>5. Top.at = "start" BY <3>1, <3>3 DEF Placed
    <3>6. CASE Top.id = 0
      <4>1. Tests(stack) BY <3>1, <3>4, <3>5, <3>6 DEF Tests, Top
      <4> QED BY <1>1, <4>1 DEF Chain, TestedBeforeReceive
    <3>7. CASE Top.id # 0
      <4>1. Top.id = a.id /\ a.c = Root BY <3>1, <3>3, <3>4, <3>7 DEF Calls, Waits
      <4>2. commands[a.id].mapped /\ commands[a.id].state = "kWaiting"
        BY <3>1, <3>7, <4>1 DEF NothingToAwait
      <4>3. a.id \in DOMAIN commands /\ commands[a.id].client = Root BY <3>3, <3>4, <4>1 DEF Holds
      <4>4. Root \notin detached BY <1>1, ClientsAssumption DEF Chain, RootIsQuiet
      <4>5. Regular(commands[a.id], detached) BY <2>0, <4>3 DEF Settled
      <4> QED BY <4>2, <4>3, <4>4, <4>5 DEF Regular
    <3> QED BY <3>6, <3>7
  <2> QED BY <2>1, <2>2 DEF ResponsesMeetCommands
<1> QED BY <1>1, TypedInvariant, ChainInvariant, PTL

-----------------------------------------------------------------------------
(* Dialogs.                                                                *)

\* A command never begins to wait again.
Aged(cs, cs2, n) ==
  \A id \in DOMAIN cs2 :
    \/ id >= n
    \/ /\ id \in DOMAIN cs /\ cs2[id].client = cs[id].client
       /\ cs2[id].state = "kWaiting" => cs[id].state = "kWaiting"

\* All that is received is received by Root.
LEMMA ReceiveReceives == Receive => Receives
<1>1. ReceiveFails => Receives BY DEF ReceiveFails
<1>2. \A c \in Clients, kind \in EventKinds : ReceiveEvent(c, kind) => Receives BY DEF ReceiveEvent
<1>3. \A id \in DOMAIN commands, ok \in BOOLEAN : ReceiveResponse(id, ok) => Receives
  BY DEF ReceiveResponse
<1>4. \A id \in DOMAIN commands : ReceiveOrphanResponse(id) => Receives BY DEF ReceiveOrphanResponse
<1> QED BY <1>1, <1>2, <1>3, <1>4 DEF Receive

\* No step makes a command wait again.
LEMMA AgedStep == Typed /\ Next => Aged(commands, commands', nextId) /\ nextId' >= nextId /\ nextId' \in Nat
<1> SUFFICES ASSUME Typed, Next
             PROVE  Aged(commands, commands', nextId) /\ nextId' >= nextId /\ nextId' \in Nat
  OBVIOUS
<1> DEFINE G == Aged(commands, commands', nextId) /\ nextId' >= nextId /\ nextId' \in Nat
<1>0. CommandsTyped /\ nextId \in Nat BY DEF Typed, CommandsTyped
<1>a. UNCHANGED <<nextId, commands>> => G BY <1>0 DEF Aged
<1>b. \A c \in Clients : Register(c) => G
  <2> SUFFICES ASSUME NEW c \in Clients, Register(c) PROVE G OBVIOUS
  <2>1. /\ nextId' = nextId + 1 /\ DOMAIN commands' = DOMAIN commands \cup {nextId}
        /\ \A id \in DOMAIN commands : commands'[id] = commands[id]
    BY <1>0, Registered
  <2> QED BY <1>0, <2>1 DEF Aged
<1>c. \A id : commands' = Without(id) /\ nextId' = nextId => G BY <1>0 DEF Without, Aged
<1>d. \A st, c : c \in Clients /\ SendCommand(st, c) => G BY <1>a, <1>b DEF SendCommand
<1>e. Usable \subseteq Clients BY DEF Usable, Typed, ClientsTyped
<1>f. \A st, hook, l, c, kind : ListenerSends(st, hook, l, c, kind) => G
  BY <1>d, <1>e DEF ListenerSends
<1>g. ASSUME NEW id \in DOMAIN commands, NEW r, commands' = [commands EXCEPT ![id] = r],
             nextId' = nextId, r.client = commands[id].client,
             r.state = "kWaiting" => commands[id].state = "kWaiting"
      PROVE  G
  BY <1>0, <1>g DEF Aged, CommandsTyped
<1>h. \A id \in DOMAIN commands : commands[id] \in Command BY <1>0 DEF CommandsTyped
<1>i. stack # <<>> => Top.c \in Clients BY TopFacts DEF Typed
<1>j. Page \in Clients /\ Frame \in Clients BY DEF Clients
<1>1. CASE Begin
  BY <1>1, <1>a, <1>b, <1>d, <1>j DEF Begin, BeginSendCommand, SendCommandAndIgnoreResponse,
    BeginHandleEventsUntil, BeginHandleDialog, BeginAttachTo, BeginGetFedCmTracker, commandVars
<1>2. CASE \/ EndGetFedCmTracker \/ HandleEventsUntil \/ HandleEventsEnds \/ DeadPointer
           \/ NotificationFails \/ AttachToReturns \/ ProcessNextMessage \/ HandleMessageReturns
           \/ ProcessCommandResponseReturns \/ ProcessEvent \/ DialogHandled
  <2>1. UNCHANGED <<nextId, commands>>
    BY <1>2 DEF EndGetFedCmTracker, HandleEventsUntil, HandleEventsEnds, DeadPointer,
      NotificationFails, AttachToReturns, ProcessNextMessage, HandleMessageReturns,
      ProcessCommandResponseReturns, ProcessEvent, DialogHandled, commandVars
  <2> QED BY <1>a, <2>1
<1>3. CASE SendCommandFails BY <1>3, <1>a, <1>c DEF SendCommandFails
<1>4. CASE SendCommandLoop
  <2>1. CASE commands' = [commands EXCEPT ![Top.id].state = "kIgnored"]
    <3> DEFINE r == [commands[Top.id] EXCEPT !.state = "kIgnored"]
    <3>1. nextId' = nextId BY <1>4 DEF SendCommandLoop
    <3>2. commands' = [commands EXCEPT ![Top.id] = r] BY <1>0, <2>1 DEF CommandsTyped
    <3>3. CASE Top.id \in DOMAIN commands
      <4>1. r.client = commands[Top.id].client /\ r.state = "kIgnored" BY <1>h, <3>3 DEF Command
      <4> QED BY <1>g, <3>1, <3>2, <3>3, <4>1
    <3>4. CASE Top.id \notin DOMAIN commands
      <4>1. commands' = commands BY <1>0, <3>2, <3>4 DEF CommandsTyped
      <4> QED BY <1>a, <3>1, <4>1
    <3> QED BY <3>3, <3>4
  <2> QED BY <1>4, <1>a, <1>c, <2>1 DEF SendCommandLoop
<1>5. CASE EnsureListenersNotifiedOfConnect
  BY <1>5, <1>a, <1>d, <1>f, <1>i DEF EnsureListenersNotifiedOfConnect, NotifiesConnect, Running, commandVars
<1>6. CASE EnsureListenersNotifiedOfEvent
  BY <1>6, <1>a, <1>f DEF EnsureListenersNotifiedOfEvent, commandVars
<1>7. CASE EnsureListenersNotifiedOfCommandResponse
  BY <1>7, <1>a, <1>f DEF EnsureListenersNotifiedOfCommandResponse, commandVars
<1>8. CASE ListenerContinues BY <1>8, <1>a, <1>f DEF ListenerContinues, commandVars
<1>9. CASE SetUpDevTools BY <1>9, <1>a, <1>b, <1>i DEF SetUpDevTools, Running
<1>10. CASE Receive
  <2>1. CASE ReceiveFails BY <1>a, <2>1 DEF ReceiveFails
  <2>2. ASSUME NEW c \in Clients, NEW kind \in EventKinds, ReceiveEvent(c, kind) PROVE G
    BY <1>a, <2>2 DEF ReceiveEvent, commandVars
  <2>3. ASSUME NEW id \in DOMAIN commands, NEW ok \in BOOLEAN, ReceiveResponse(id, ok) PROVE G
    <3> DEFINE r == [commands[id] EXCEPT !.pending = FALSE, !.mapped = FALSE, !.ok = ok,
                         !.state = IF @ = "kIgnored" THEN @ ELSE "kReceived"]
    <3>1. nextId' = nextId /\ (commands' = Without(id) \/ commands' = [commands EXCEPT ![id] = r])
      BY <1>0, <2>3 DEF ReceiveResponse, CommandsTyped
    <3>2. r.client = commands[id].client /\ r.state # "kWaiting" BY <1>h DEF Command
    <3> HIDE DEF r
    <3>3. CASE commands' = Without(id) BY <1>c, <3>1, <3>3
    <3>4. CASE commands' = [commands EXCEPT ![id] = r] BY <1>g, <3>1, <3>2, <3>4
    <3> QED BY <3>1, <3>3, <3>4
  <2>4. ASSUME NEW id \in DOMAIN commands, ReceiveOrphanResponse(id) PROVE G
    <3> DEFINE r == [commands[id] EXCEPT !.pending = FALSE]
    <3>1. nextId' = nextId /\ (commands' = Without(id) \/ commands' = [commands EXCEPT ![id] = r])
      BY <1>0, <2>4 DEF ReceiveOrphanResponse, CommandsTyped
    <3>2. r.client = commands[id].client /\ r.state = commands[id].state BY <1>h DEF Command
    <3> HIDE DEF r
    <3>3. CASE commands' = Without(id) BY <1>c, <3>1, <3>3
    <3>4. CASE commands' = [commands EXCEPT ![id] = r] BY <1>g, <3>1, <3>2, <3>4
    <3> QED BY <3>1, <3>3, <3>4
  <2> QED BY <1>10, <2>1, <2>2, <2>3, <2>4 DEF Receive
<1>11. CASE EventNotified BY <1>11, <1>a, <1>d, <1>i DEF EventNotified, Running, commandVars
<1>12. CASE RoundTripReturns
  <2> DEFINE cs == Blocked(Top.c, Top.id)
  <2>1. nextId' = nextId /\ commands' = cs /\ DOMAIN cs = DOMAIN commands
    BY <1>12 DEF RoundTripReturns, Blocked
  <2>2. ASSUME NEW id \in DOMAIN commands
        PROVE  cs[id].client = commands[id].client
               /\ (cs[id].state = "kWaiting" => commands[id].state = "kWaiting")
    <3> DEFINE r == [commands[id] EXCEPT !.state = "kBlocked"]
    <3>1. cs[id] = commands[id] \/ cs[id] = r BY DEF Blocked
    <3>2. r.client = commands[id].client /\ r.state = "kBlocked" BY <1>h DEF Command
    <3> HIDE DEF r, cs
    <3> QED BY <3>1, <3>2
  <2> HIDE DEF cs
  <2> QED BY <1>0, <2>1, <2>2 DEF Aged
<1>13. CASE HandleDialog BY <1>13, <1>a, <1>d, <1>i DEF HandleDialog, Running, commandVars
<1> QED BY <1>1, <1>2, <1>3, <1>4, <1>5, <1>6, <1>7, <1>8, <1>9, <1>10, <1>11, <1>12, <1>13 DEF Next, Step

\* The event that opened the dialogs stays below what is called since, until its round trip.
LEMMA OpenedStep ==
  ASSUME Typed, Chain, Next, NEW c \in Clients, NEW o \in Nat, o < nextId, Opened(stack, c, o)
  PROVE  \/ Opened(stack', c, o) \/ died' \/ c \in failed' \/ dialogs'[c] = 0
         \/ \A id \in DOMAIN commands' :
              commands'[id].client = c /\ id <= o => commands'[id].state # "kWaiting"
<1> DEFINE G == Opened(stack', c, o)
<1>0. /\ StackTyped /\ CommandsTyped /\ ClientsTyped /\ UnnotifiedTyped /\ nextId \in Nat
      /\ Sound(stack, commands) /\ Settled(commands, detached)
  BY DEF Typed, Chain, CommandsTyped
<1>1. stack # <<>>
  <2>1. PICK j \in 1..Len(stack) : TRUE BY DEF Opened
  <2> QED BY <2>1
<1>2. /\ Top \in ActivationRecord /\ Top.c \in Clients /\ Top.id \in Nat /\ Placed(Top)
      /\ Below \in Seq(ActivationRecord)
  <2>1. Len(stack) \in 1..Len(stack) BY <1>0, <1>1, Popped DEF StackTyped
  <2> QED BY <1>0, <1>1, <2>1, TopFacts DEF Sound, Top
<1>a. Opened(Below, c, o) \/ (Opener(Top, c) /\ (Top.at = "roundTrip" => Top.id > o))
  BY <1>0, <1>1, OpenedPop DEF StackTyped, Top, Below
<1>b. \A s : Return(s) /\ Top.fn # "ProcessEvent" => G BY <1>a DEF Return, Opener
<1>c. ASSUME NEW r \in ActivationRecord, r.fn = Top.fn, r.c = Top.c, r.id = Top.id \/ r.id > o,
             r.ev = Top.ev, r.at # "start", ~Sending(Top), r.at = "roundTrip" => r.id > o
      PROVE  Opened([stack EXCEPT ![Len(stack)] = r], c, o)
  <2>1. Opener(Top, c) => Opener(r, c) BY <1>c DEF Opener
  <2>2. ~Sending(r) BY <1>c DEF Sending
  <2> QED BY <1>0, <1>1, <1>c, <2>1, <2>2, OpenedMove DEF StackTyped, Top
<1>d. ASSUME NEW p \in Places \ {"start", "roundTrip"}, ~Sending(Top)
      PROVE  Opened(At(p), c, o) /\ At(p) \in Seq(ActivationRecord)
  <2> DEFINE r == [Top EXCEPT !.at = p]
  <2>1. /\ r \in ActivationRecord /\ At(p) = [stack EXCEPT ![Len(stack)] = r]
        /\ At(p) \in Seq(ActivationRecord)
    BY <1>0, <1>1, AtFacts
  <2>2. r.fn = Top.fn /\ r.c = Top.c /\ r.id = Top.id /\ r.ev = Top.ev /\ r.at = p
    BY <1>2 DEF ActivationRecord
  <2> HIDE DEF r
  <2>3. Opened([stack EXCEPT ![Len(stack)] = r], c, o) BY <1>c, <1>d, <2>1, <2>2
  <2> QED BY <2>1, <2>3
<1>e. ASSUME NEW st \in Seq(ActivationRecord), NEW c2 \in Clients, SendCommand(st, c2), Opened(st, c, o)
      PROVE  G
  <2> DEFINE x == [Activation("SendCommand", c2) EXCEPT !.id = nextId]
  <2>1. /\ x \in ActivationRecord /\ x.id = nextId /\ (stack' = Append(st, x) \/ stack' = st)
    BY <1>0, <1>e, SendFacts
  <2> HIDE DEF x
  <2> QED BY <1>0, <1>e, <2>1, OpenedPush
<1>f. ASSUME NEW st \in Seq(ActivationRecord), NEW x \in ActivationRecord, ~Sending(x), Opened(st, c, o)
      PROVE  Opened(Append(st, x), c, o) /\ Append(st, x) \in Seq(ActivationRecord)
  BY <1>f, OpenedPush, Pushed
<1>g. ASSUME NEW st \in Seq(ActivationRecord), NEW l \in Listeners, NEW c2 \in Clients, NEW kind,
             NEW hook \in {"OnConnected", "OnEvent", "OnCommandSuccess"},
             ListenerSends(st, hook, l, c2, kind), Opened(st, c, o)
      PROVE  G
  <2> DEFINE y == [Activation(hook, c2) EXCEPT !.l = l]
  <2>1. hook \in Functions BY DEF Functions
  <2>2. /\ y \in ActivationRecord /\ y.fn = hook
        /\ \E target \in SendTargets(hook, l, c2, kind) \cap Clients : SendCommand(Append(st, y), target)
    BY <1>g, <2>1, ListenerSendFacts
  <2>3. PICK target \in Clients : SendCommand(Append(st, y), target) BY <2>2
  <2> HIDE DEF y
  <2>4. ~Sending(y) BY <2>2 DEF Sending
  <2>5. Opened(Append(st, y), c, o) /\ Append(st, y) \in Seq(ActivationRecord)
    BY <1>f, <1>g, <2>2, <2>4
  <2> QED BY <1>e, <2>3, <2>5
<1>h. \A fn \in Functions, c2 \in Clients :
        Activation(fn, c2) \in ActivationRecord /\ Activation(fn, c2).fn = fn
  <2>1. NoEvent \in [number : Nat, kind : EventKinds] /\ "frame" \in Listeners /\ 0 \in Nat
    BY DEF NoEvent, EventKinds, Listeners
  <2>2. \A fn \in Functions, c2 \in Clients : Activation(fn, c2) \in ActivationRecord
    BY <2>1, Activated
  <2> QED BY <2>2 DEF Activation
<1>i. {"SendCommand", "ProcessNextMessage", "ProcessEvent", "HandleDialog", "ProcessCommandResponse",
       "AttachTo", "HandleEventsUntil", "OnConnected", "OnEvent", "OnCommandSuccess",
       "GetFedCmTracker"} \subseteq Functions
  BY DEF Functions
<1>k. {"connect", "event", "response", "handle", "dialog", "retry"} \subseteq Places \ {"start", "roundTrip"}
  BY DEF Places
<1>l. Root \in Clients /\ Frame \in Clients BY DEF Clients
<1>m. Opened(stack, c, o) /\ stack \in Seq(ActivationRecord) BY <1>0 DEF StackTyped
<1>n. ASSUME NEW st \in Seq(ActivationRecord), NEW fn \in Functions \ {"SendCommand"},
             NEW c2 \in Clients, Opened(st, c, o), Call(st, Activation(fn, c2))
      PROVE  G
  <2>1. ~Sending(Activation(fn, c2)) /\ Activation(fn, c2) \in ActivationRecord BY <1>h DEF Sending
  <2> QED BY <1>f, <1>n, <2>1 DEF Call
<1>3. CASE Begin
  BY <1>1, <1>3 DEF Begin, BeginSendCommand, SendCommandAndIgnoreResponse, BeginHandleEventsUntil,
     BeginHandleDialog, BeginAttachTo, BeginGetFedCmTracker, Idle
<1>4. CASE \/ EndGetFedCmTracker \/ SendCommandFails \/ HandleEventsEnds \/ AttachToReturns
           \/ HandleMessageReturns \/ ProcessCommandResponseReturns \/ DialogHandled
  <2>1. (\E s : Return(s)) /\ Top.fn # "ProcessEvent"
    BY <1>4 DEF EndGetFedCmTracker, SendCommandFails, HandleEventsEnds, AttachToReturns,
      HandleMessageReturns, ProcessCommandResponseReturns, DialogHandled, Running
  <2> QED BY <1>b, <2>1
<1>5. CASE SendCommandLoop
  <2>1. Top.fn # "ProcessEvent" BY <1>5 DEF SendCommandLoop, Running
  <2>2. CASE Call(stack, [Activation("ProcessNextMessage", Top.c) EXCEPT !.id = Top.id])
    <3> DEFINE x == [Activation("ProcessNextMessage", Top.c) EXCEPT !.id = Top.id]
    <3>1. x \in ActivationRecord /\ x.fn = "ProcessNextMessage"
      <4>1. NoEvent \in [number : Nat, kind : EventKinds] /\ "frame" \in Listeners
        BY DEF NoEvent, EventKinds, Listeners
      <4>2. x.fn = "ProcessNextMessage" BY DEF Activation
      <4> QED BY <1>2, <1>i, <4>1, <4>2, Activated
    <3>2. stack' = Append(stack, x) BY <2>2 DEF Call
    <3> HIDE DEF x
    <3>3. ~Sending(x) BY <3>1 DEF Sending
    <3> QED BY <1>f, <1>m, <3>1, <3>2, <3>3
  <2> QED BY <1>5, <1>b, <2>1, <2>2 DEF SendCommandLoop
<1>6. CASE HandleEventsUntil
  <2>1. Top.fn # "ProcessEvent" BY <1>6 DEF HandleEventsUntil, Running
  <2>2. Call(stack, Activation("ProcessNextMessage", Top.c)) => G BY <1>2, <1>i, <1>m, <1>n
  <2> QED BY <1>6, <1>b, <2>1, <2>2 DEF HandleEventsUntil
<1>7. CASE EnsureListenersNotifiedOfConnect
  <2> DEFINE d == Top.c
             st == At("connect")
  <2>1. ~Sending(Top) /\ unConnect[d] \in Seq(Listeners) /\ d \in Clients
    BY <1>0, <1>2, <1>7 DEF EnsureListenersNotifiedOfConnect, NotifiesConnect, Running, Sending,
      UnnotifiedTyped
  <2>2. Opened(st, c, o) /\ st \in Seq(ActivationRecord) BY <1>d, <1>k, <2>1
  <2>3. PICK n \in 1..Len(unConnect[d]) :
             \/ stack' = st
             \/ ListenerSends(st, "OnConnected", unConnect[d][n], d, "other")
             \/ SendCommand(Append(st, [Activation("OnConnected", d) EXCEPT !.l = "frame"]), d)
    BY <1>7 DEF EnsureListenersNotifiedOfConnect
  <2> HIDE DEF d, st
  <2>4. unConnect[d][n] \in Listeners BY <2>1, UnlistedFacts
  <2>5. CASE ListenerSends(st, "OnConnected", unConnect[d][n], d, "other")
    BY <1>g, <2>1, <2>2, <2>4, <2>5
  <2>6. CASE SendCommand(Append(st, [Activation("OnConnected", d) EXCEPT !.l = "frame"]), d)
    <3> DEFINE y == [Activation("OnConnected", d) EXCEPT !.l = "frame"]
    <3>1. y \in ActivationRecord /\ y.fn = "OnConnected"
      <4>1. NoEvent \in [number : Nat, kind : EventKinds] /\ "frame" \in Listeners /\ 0 \in Nat
        BY DEF NoEvent, EventKinds, Listeners
      <4>2. y.fn = "OnConnected" BY DEF Activation
      <4> QED BY <1>i, <2>1, <4>1, <4>2, Activated
    <3>2. SendCommand(Append(st, y), d) BY <2>6
    <3> HIDE DEF y
    <3>3. ~Sending(y) BY <3>1 DEF Sending
    <3>4. Opened(Append(st, y), c, o) /\ Append(st, y) \in Seq(ActivationRecord)
      BY <1>f, <2>2, <3>1, <3>3
    <3> QED BY <1>e, <2>1, <3>2, <3>4
  <2> QED BY <2>2, <2>3, <2>5, <2>6
<1>8. CASE EnsureListenersNotifiedOfEvent
  <2> DEFINE d == Top.c
             st == At("event")
             kind == event[d].kind
  <2>1. ~Sending(Top) /\ unEvent[d] \in Seq(Listeners) /\ d \in Clients
    BY <1>0, <1>2, <1>8 DEF EnsureListenersNotifiedOfEvent, NotifiesEvent, Running, Sending,
      UnnotifiedTyped
  <2>2. Opened(st, c, o) /\ st \in Seq(ActivationRecord) BY <1>d, <1>k, <2>1
  <2>3. PICK n \in 1..Len(unEvent[d]) :
             \/ stack' = st
             \/ ListenerSends(st, "OnEvent", unEvent[d][n], d, kind)
             \/ Call(Append(st, [Activation("OnEvent", d) EXCEPT !.l = unEvent[d][n]]),
                     Activation("AttachTo", Frame))
    BY <1>8 DEF EnsureListenersNotifiedOfEvent
  <2> HIDE DEF d, st, kind
  <2>4. unEvent[d][n] \in Listeners BY <2>1, UnlistedFacts
  <2>5. CASE ListenerSends(st, "OnEvent", unEvent[d][n], d, kind)
    BY <1>g, <2>1, <2>2, <2>4, <2>5
  <2>6. CASE Call(Append(st, [Activation("OnEvent", d) EXCEPT !.l = unEvent[d][n]]),
                  Activation("AttachTo", Frame))
    <3> DEFINE y == [Activation("OnEvent", d) EXCEPT !.l = unEvent[d][n]]
    <3>1. y \in ActivationRecord /\ y.fn = "OnEvent"
      <4>1. NoEvent \in [number : Nat, kind : EventKinds] /\ 0 \in Nat BY DEF NoEvent, EventKinds
      <4>2. y.fn = "OnEvent" BY DEF Activation
      <4> QED BY <1>i, <2>1, <2>4, <4>1, <4>2, Activated
    <3>2. Call(Append(st, y), Activation("AttachTo", Frame)) BY <2>6
    <3> HIDE DEF y
    <3>3. ~Sending(y) BY <3>1 DEF Sending
    <3>4. Opened(Append(st, y), c, o) /\ Append(st, y) \in Seq(ActivationRecord)
      BY <1>f, <2>2, <3>1, <3>3
    <3>5. "AttachTo" \in Functions \ {"SendCommand"} BY <1>i
    <3> QED BY <1>l, <1>n, <3>2, <3>4, <3>5
  <2> QED BY <2>2, <2>3, <2>5, <2>6
<1>9. CASE EnsureListenersNotifiedOfCommandResponse
  <2> DEFINE d == Top.c
             st == At("response")
  <2>1. ~Sending(Top) /\ unResponse[d] \in Seq(Listeners) /\ d \in Clients
    BY <1>0, <1>2, <1>9 DEF EnsureListenersNotifiedOfCommandResponse, NotifiesCommandResponse,
      Running, Sending, UnnotifiedTyped
  <2>2. Opened(st, c, o) /\ st \in Seq(ActivationRecord) BY <1>d, <1>k, <2>1
  <2>3. PICK n \in 1..Len(unResponse[d]) :
             \/ stack' = st
             \/ ListenerSends(st, "OnCommandSuccess", unResponse[d][n], d, "other")
    BY <1>9 DEF EnsureListenersNotifiedOfCommandResponse
  <2> HIDE DEF d, st
  <2>4. unResponse[d][n] \in Listeners BY <2>1, UnlistedFacts
  <2>5. CASE ListenerSends(st, "OnCommandSuccess", unResponse[d][n], d, "other")
    BY <1>g, <2>1, <2>2, <2>4, <2>5
  <2> QED BY <2>2, <2>3, <2>5
<1>10. CASE DeadPointer BY <1>10 DEF DeadPointer
<1>11. CASE NotificationFails
  <2>1. CASE Opener(Top, c)
    <3>1. Top.at = "event" /\ Top.c = c BY <1>2, <1>11, <2>1 DEF Opener, Placed, NotificationFails
    <3> QED BY <1>11, <3>1 DEF NotificationFails
  <2>2. CASE ~Opener(Top, c) BY <1>11, <1>a, <2>2 DEF NotificationFails, Return
  <2> QED BY <2>1, <2>2
<1>12. CASE ListenerContinues
  <2>1. Top.fn \in {"OnConnected", "OnEvent", "OnCommandSuccess"}
    BY <1>12 DEF ListenerContinues, InListener, Running
  <2>2. Opened(Below, c, o) BY <1>a, <2>1 DEF Opener
  <2>3. CASE ListenerSends(Below, Top.fn, Top.l, Top.c, "other")
    <3>1. Top.l \in Listeners
      <4>1. SUFFICES ASSUME Top.l \notin Listeners PROVE FALSE OBVIOUS
      <4>2. SendTargets(Top.fn, Top.l, Top.c, "other") = {} BY <4>1 DEF SendTargets, Listeners
      <4> QED BY <2>3, <4>2 DEF ListenerSends
    <3> QED BY <1>2, <1>g, <2>1, <2>2, <2>3, <3>1
  <2> QED BY <1>12, <2>2, <2>3 DEF ListenerContinues, Return
<1>13. CASE SetUpDevTools
  <2>1. Top.fn = "AttachTo" /\ ~Sending(Top) BY <1>13 DEF SetUpDevTools, Running, Sending
  <2>2. Opened(At("connect"), c, o) BY <1>d, <1>k, <2>1
  <2> QED BY <1>13, <1>b, <2>1, <2>2 DEF SetUpDevTools
<1>14. CASE ProcessNextMessage
  <2>1. Top.fn = "ProcessNextMessage" BY <1>14 DEF ProcessNextMessage, AllNotified, Running
  <2>2. CASE Call(Below, [Activation("ProcessNextMessage", Root) EXCEPT !.caller = Top.caller])
    <3> DEFINE x == [Activation("ProcessNextMessage", Root) EXCEPT !.caller = Top.caller]
    <3>1. x \in ActivationRecord /\ x.fn = "ProcessNextMessage"
      <4>1. NoEvent \in [number : Nat, kind : EventKinds] /\ "frame" \in Listeners /\ 0 \in Nat
        BY DEF NoEvent, EventKinds, Listeners
      <4>2. x.fn = "ProcessNextMessage" BY DEF Activation
      <4>3. Top.caller \in Clients BY <1>0, <1>1, TopFacts
      <4> QED BY <1>i, <1>l, <4>1, <4>2, <4>3, Activated
    <3>2. stack' = Append(Below, x) BY <2>2 DEF Call
    <3> HIDE DEF x
    <3>3. ~Sending(x) BY <3>1 DEF Sending
    <3>4. Opened(Below, c, o) BY <1>a, <2>1 DEF Opener
    <3> QED BY <1>2, <1>f, <3>1, <3>2, <3>3, <3>4
  <2> QED BY <1>14, <1>b, <2>1, <2>2 DEF ProcessNextMessage
<1>o. ASSUME NEW c2 \in Clients, NEW x \in ActivationRecord, ~Sending(x), Handle(c2, x),
             Top.fn = "ProcessNextMessage"
      PROVE  G
  <2> DEFINE r == [Top EXCEPT !.at = "handle", !.to = c2]
             st == [stack EXCEPT ![Len(stack)] = r]
  <2>1. r \in ActivationRecord BY <1>2, <1>o DEF ActivationRecord, Places
  <2>2. r.at = "handle" /\ r.fn = Top.fn /\ r.c = Top.c /\ r.id = Top.id /\ r.ev = Top.ev
    BY <1>2 DEF ActivationRecord
  <2>0. stack \in Seq(ActivationRecord) /\ Handle(c2, x) BY <1>0, <1>o DEF StackTyped
  <2>3. stack' = Append(st, x) BY <2>0 DEF Handle, Call, Top
  <2> HIDE DEF r
  <2>4. ~Sending(Top) BY <1>o DEF Sending
  <2>5. Opened(st, c, o) BY <1>c, <2>1, <2>2, <2>4
  <2>6. st \in Seq(ActivationRecord) BY <1>0, <1>1, <2>1, Moved DEF StackTyped
  <2> HIDE DEF st
  <2> QED BY <1>f, <1>o, <2>3, <2>5, <2>6
<1>15. CASE Receive
  <2>0. Receives BY <1>15, ReceiveReceives
  <2>1. Top.fn = "ProcessNextMessage" BY <2>0 DEF Receives, AllNotified, Running
  <2>2. ASSUME NEW c2 \in Clients, NEW kind \in EventKinds, ReceiveEvent(c2, kind) PROVE G
    <3> DEFINE ev == [number |-> events + 1, kind |-> kind]
               x == [Activation("ProcessEvent", c2) EXCEPT !.ev = ev]
    <3>1. ev \in [number : Nat, kind : EventKinds] BY DEF Typed, CountsTyped
    <3>2. x \in ActivationRecord
      <4>1. "frame" \in Listeners /\ 0 \in Nat BY DEF Listeners
      <4> QED BY <1>i, <3>1, <4>1, Activated
    <3>3. x.fn = "ProcessEvent" BY DEF Activation
    <3>4. Handle(c2, x) BY <2>2 DEF ReceiveEvent
    <3> HIDE DEF x
    <3>5. ~Sending(x) BY <3>3 DEF Sending
    <3> QED BY <1>o, <2>1, <3>2, <3>4, <3>5
  <2>3. ASSUME NEW id \in DOMAIN commands, NEW ok \in BOOLEAN, ReceiveResponse(id, ok) PROVE G
    <3> DEFINE d == commands[id].client
               x == [Activation("ProcessCommandResponse", d) EXCEPT !.id = id]
    <3>1. d \in Clients BY <1>0 DEF CommandsTyped, Command
    <3>2. x \in ActivationRecord /\ x.fn = "ProcessCommandResponse" BY ResponseActivation
    <3>3. Handle(d, x) \/ \E s : Return(s) BY <2>3 DEF ReceiveResponse
    <3> HIDE DEF x, d
    <3>4. ~Sending(x) BY <3>2 DEF Sending
    <3> QED BY <1>b, <1>o, <2>1, <3>1, <3>2, <3>3, <3>4
  <2>4. CASE ReceiveFails BY <1>b, <2>1, <2>4 DEF ReceiveFails
  <2>5. ASSUME NEW id \in DOMAIN commands, ReceiveOrphanResponse(id) PROVE G
    BY <1>b, <2>1, <2>5 DEF ReceiveOrphanResponse
  <2> QED BY <1>15, <2>2, <2>3, <2>4, <2>5 DEF Receive
<1>16. CASE ProcessEvent
  <2>1. Top.fn = "ProcessEvent" /\ ~Sending(Top) BY <1>16 DEF ProcessEvent, Running, Sending
  <2>2. CASE Call(At("dialog"), Activation("HandleDialog", Top.c))
    <3>1. Opened(At("dialog"), c, o) /\ At("dialog") \in Seq(ActivationRecord) BY <1>d, <1>k, <2>1
    <3>2. "HandleDialog" \in Functions \ {"SendCommand"} BY <1>i
    <3> QED BY <1>2, <1>n, <2>2, <3>1, <3>2
  <2>3. CASE stack' = At("event") BY <1>d, <1>k, <2>1, <2>3
  <2>4. CASE Return(ret) /\ failed' = failed \cup {Top.c}
    <3>1. CASE Opener(Top, c) BY <2>4, <3>1 DEF Opener
    <3>2. CASE ~Opener(Top, c) BY <1>a, <2>4, <3>2 DEF Return
    <3> QED BY <3>1, <3>2
  <2> QED BY <1>16, <2>2, <2>3, <2>4 DEF ProcessEvent, Announce
<1>17. CASE EventNotified
  <2> DEFINE r == [Top EXCEPT !.at = "roundTrip", !.id = nextId]
             st == [stack EXCEPT ![Len(stack)] = r]
  <2>1. Top.fn = "ProcessEvent" /\ ~Sending(Top) BY <1>17 DEF EventNotified, Running, Sending
  <2>2. \/ SendCommand(st, Top.c)
        \/ (\E s : Return(s)) /\ (Top.ev.kind \notin Dialogs \/ dialogs'[Top.c] = 0)
    BY <1>0, <1>17 DEF EventNotified, Top, StackTyped, Dialogs
  <2>3. CASE SendCommand(st, Top.c)
    <3>1. r \in ActivationRecord BY <1>0, <1>2 DEF ActivationRecord, Places
    <3>2. /\ r.fn = Top.fn /\ r.c = Top.c /\ r.id > o /\ r.ev = Top.ev /\ r.at = "roundTrip"
      BY <1>0, <1>2 DEF ActivationRecord
    <3> HIDE DEF r
    <3>3. Opened(st, c, o) BY <1>c, <2>1, <3>1, <3>2
    <3>4. st \in Seq(ActivationRecord) BY <1>0, <1>1, <3>1, Moved DEF StackTyped
    <3> HIDE DEF st
    <3> QED BY <1>2, <1>e, <2>3, <3>3, <3>4
  <2>4. CASE (\E s : Return(s)) /\ (Top.ev.kind \notin Dialogs \/ dialogs'[Top.c] = 0)
    <3>1. CASE Opener(Top, c) BY <2>4, <3>1 DEF Opener
    <3>2. CASE ~Opener(Top, c) BY <1>a, <2>4, <3>2 DEF Return
    <3> QED BY <3>1, <3>2
  <2> QED BY <2>2, <2>3, <2>4
<1>18. CASE RoundTripReturns
  <2>1. Top.at = "roundTrip" /\ stack' = Below /\ commands' = Blocked(Top.c, Top.id)
    BY <1>18 DEF RoundTripReturns, Return
  <2>2. CASE Opener(Top, c) /\ Top.id > o
    <3>1. Top.c = c BY <2>2 DEF Opener
    <3>2. ASSUME NEW id \in DOMAIN commands', commands'[id].client = c, id <= o
          PROVE  commands'[id].state # "kWaiting"
      <4> DEFINE r == [commands[id] EXCEPT !.state = "kBlocked"]
                 marked == /\ commands[id].client = c /\ commands[id].mapped
                           /\ id <= Top.id /\ commands[id].state = "kWaiting"
      <4>1. id \in DOMAIN commands /\ commands'[id] = IF marked THEN r ELSE commands[id]
        BY <2>1, <3>1, <3>2 DEF Blocked
      <4>2. commands[id] \in Command /\ id \in Nat /\ Regular(commands[id], detached)
        BY <1>0, <4>1 DEF CommandsTyped, Settled
      <4>3. r.state = "kBlocked" BY <4>2 DEF Command
      <4>4. CASE marked BY <4>1, <4>3, <4>4
      <4>5. CASE ~marked
        <5>1. id <= Top.id BY <1>2, <2>2, <3>2, <4>2
        <5>2. commands'[id] = commands[id] BY <4>1, <4>5
        <5> QED BY <3>2, <4>2, <4>5, <5>1, <5>2 DEF Regular
      <4> QED BY <4>4, <4>5
    <3> QED BY <3>2
  <2> QED BY <1>a, <2>1, <2>2
<1>19. CASE HandleDialog
  <2>1. Top.fn = "HandleDialog" /\ ~Sending(Top) BY <1>19 DEF HandleDialog, Running, Sending
  <2>2. ASSUME NEW p \in {"dialog", "retry"}, SendCommand(At(p), Top.c) PROVE G
    <3>1. Opened(At(p), c, o) /\ At(p) \in Seq(ActivationRecord) BY <1>d, <1>k, <2>1
    <3> QED BY <1>2, <1>e, <2>2, <3>1
  <2> QED BY <1>19, <1>b, <2>1, <2>2 DEF HandleDialog
<1> QED BY <1>3, <1>4, <1>5, <1>6, <1>7, <1>8, <1>9, <1>10, <1>11, <1>12, <1>13, <1>14, <1>15, <1>16,
           <1>17, <1>18, <1>19 DEF Next, Step

\* What a step does to the dialogs, but for the beginning of ProcessEvent.
LEMMA HistoryStep ==
  ASSUME Typed, Next
  PROVE  /\ failed \subseteq failed' /\ (~DeadPointer => died' = died)
         /\ ~ProcessEvent => opened' = opened /\ \A c \in Clients : dialogs'[c] > 0 => dialogs[c] > 0
<1> DEFINE Same == UNCHANGED <<dialogs, opened, failed, died>>
           G == /\ failed \subseteq failed' /\ (~DeadPointer => died' = died)
                /\ ~ProcessEvent =>
                     opened' = opened /\ \A c \in Clients : dialogs'[c] > 0 => dialogs[c] > 0
<1>0. Same => G OBVIOUS
<1>1. CASE Begin
  <2>1. Same
    BY <1>1 DEF Begin, BeginSendCommand, SendCommandAndIgnoreResponse, BeginHandleEventsUntil,
      BeginHandleDialog, BeginAttachTo, BeginGetFedCmTracker, history
  <2> QED BY <1>0, <2>1
<1>2. CASE \/ EndGetFedCmTracker \/ SendCommandFails \/ SendCommandLoop \/ HandleEventsUntil
           \/ HandleEventsEnds \/ ListenerContinues \/ SetUpDevTools \/ AttachToReturns
           \/ ProcessNextMessage \/ HandleMessageReturns \/ ProcessCommandResponseReturns
           \/ RoundTripReturns \/ HandleDialog \/ EnsureListenersNotifiedOfConnect
           \/ EnsureListenersNotifiedOfCommandResponse
  <2>1. Same
    BY <1>2 DEF EndGetFedCmTracker, SendCommandFails, SendCommandLoop, HandleEventsUntil,
      HandleEventsEnds, ListenerContinues, SetUpDevTools, AttachToReturns, ProcessNextMessage,
      HandleMessageReturns, ProcessCommandResponseReturns, RoundTripReturns, HandleDialog,
      EnsureListenersNotifiedOfConnect, EnsureListenersNotifiedOfCommandResponse, history
  <2> QED BY <1>0, <2>1
<1>3. CASE EnsureListenersNotifiedOfEvent BY <1>0, <1>3 DEF EnsureListenersNotifiedOfEvent
<1>4. CASE Receive
  <2>1. CASE ReceiveFails BY <1>0, <2>1 DEF ReceiveFails, history
  <2>2. ASSUME NEW c \in Clients, NEW kind \in EventKinds, ReceiveEvent(c, kind) PROVE G
    BY <1>0, <2>2 DEF ReceiveEvent, history
  <2>3. ASSUME NEW id \in DOMAIN commands, NEW ok \in BOOLEAN, ReceiveResponse(id, ok) PROVE G
    BY <1>0, <2>3 DEF ReceiveResponse, history
  <2>4. ASSUME NEW id \in DOMAIN commands, ReceiveOrphanResponse(id) PROVE G
    BY <1>0, <2>4 DEF ReceiveOrphanResponse, history
  <2> QED BY <1>4, <2>1, <2>2, <2>3, <2>4 DEF Receive
<1>5. CASE DeadPointer BY <1>5 DEF DeadPointer
<1>6. CASE NotificationFails BY <1>6 DEF NotificationFails
<1>7. CASE ProcessEvent
  <2>1. failed \subseteq failed' /\ died' = died BY <1>7 DEF ProcessEvent
  <2> QED BY <1>7, <2>1
<1>8. CASE EventNotified BY <1>8 DEF EventNotified
<1>9. CASE DialogHandled
  <2> DEFINE d == Top.c
  <2>1. dialogs' = [dialogs EXCEPT ![d] = IF @ > 0 THEN @ - 1 ELSE 0] /\ UNCHANGED <<opened, failed, died>>
    BY <1>9 DEF DialogHandled, history
  <2> HIDE DEF d
  <2>2. dialogs \in [Clients -> Nat] BY DEF Typed, RestTyped
  <2>3. \A c \in Clients : dialogs'[c] > 0 => dialogs[c] > 0 BY <2>1, <2>2
  <2> QED BY <2>1, <2>3
<1> QED BY <1>1, <1>2, <1>3, <1>4, <1>5, <1>6, <1>7, <1>8, <1>9 DEF Next, Step

\* A step is taken inside a call.
LEMMA StepRuns == Step => stack # <<>>
<1> SUFFICES ASSUME stack = <<>> PROVE ~Step OBVIOUS
<1>1. \A fn : ~Running(fn) BY DEF Running
<1>2. ~Receives /\ ~NotifiesConnect /\ ~NotifiesEvent /\ ~NotifiesCommandResponse
      /\ ~AllNotified /\ ~InListener
  BY <1>1 DEF Receives, AllNotified, NotifiesConnect, NotifiesEvent, NotifiesCommandResponse,
    InListener
<1>3. ~Receive BY <1>2, ReceiveReceives
<1> QED
  BY <1>1, <1>2, <1>3 DEF Step, EndGetFedCmTracker, SendCommandFails, SendCommandLoop,
    HandleEventsUntil, HandleEventsEnds, EnsureListenersNotifiedOfConnect,
    EnsureListenersNotifiedOfEvent, EnsureListenersNotifiedOfCommandResponse, DeadPointer,
    NotificationFails, ListenerContinues, SetUpDevTools, AttachToReturns, ProcessNextMessage,
    HandleMessageReturns, ProcessCommandResponseReturns, ProcessEvent, EventNotified,
    RoundTripReturns, HandleDialog, DialogHandled

\* Nothing is called, and no operation begins, after a dead pointer was dereferenced.
LEMMA AliveStep ==
  ASSUME Blocking, Next
  PROVE  ~died
<1>1. SUFFICES ASSUME died, stack = <<>> PROVE FALSE BY DEF Blocking
<1>2. ~Begin
  BY <1>1 DEF Begin, BeginSendCommand, SendCommandAndIgnoreResponse, BeginHandleEventsUntil,
    BeginHandleDialog, BeginAttachTo, BeginGetFedCmTracker, Idle
<1> QED BY <1>1, <1>2, StepRuns DEF Next

\* Dialogs that were open already.
LEMMA BlocksKept ==
  ASSUME Typed, Chain, Blocking, Next, NEW c \in Clients, opened'[c] = opened[c],
         dialogs'[c] > 0 => dialogs[c] > 0
  PROVE  DialogBlocks(c)'
<1>0. /\ opened[c] \in Nat /\ nextId \in Nat /\ DialogBlocks(c) /\ DOMAIN commands' \subseteq Nat
  <2>1. Typed' BY TypedStep
  <2> QED BY <2>1 DEF Typed, RestTyped, CommandsTyped, Blocking
<1>1. Aged(commands, commands', nextId) /\ nextId' >= nextId /\ nextId' \in Nat BY AgedStep
<1>2. failed \subseteq failed' /\ ~died BY HistoryStep, AliveStep
<1>3. opened'[c] < nextId' BY <1>0, <1>1 DEF DialogBlocks
<1>4. ASSUME dialogs'[c] > 0, c \notin failed', ~died'
      PROVE  \/ Opened(stack', c, opened'[c])
             \/ \A id \in DOMAIN commands' :
                  commands'[id].client = c /\ id <= opened'[c] => commands'[id].state # "kWaiting"
  <2>0. opened[c] < nextId BY <1>0 DEF DialogBlocks
  <2>1. \/ Opened(stack, c, opened[c])
        \/ \A id \in DOMAIN commands :
             commands[id].client = c /\ id <= opened[c] => commands[id].state # "kWaiting"
    BY <1>0, <1>2, <1>4 DEF DialogBlocks
  <2>2. CASE Opened(stack, c, opened[c])
    <3>1. dialogs'[c] # 0
      <4>1. Typed' BY TypedStep
      <4> QED BY <1>4, <4>1 DEF Typed, RestTyped
    <3>2. \/ Opened(stack', c, opened[c]) \/ died' \/ c \in failed' \/ dialogs'[c] = 0
          \/ \A id \in DOMAIN commands' :
               commands'[id].client = c /\ id <= opened[c] => commands'[id].state # "kWaiting"
      BY <1>0, <2>0, <2>2, OpenedStep
    <3> QED BY <1>4, <3>1, <3>2
  <2>3. CASE \A id \in DOMAIN commands :
               commands[id].client = c /\ id <= opened[c] => commands[id].state # "kWaiting"
    BY <1>0, <1>1, <2>0, <2>3 DEF Aged
  <2> QED BY <2>1, <2>2, <2>3
<1> QED BY <1>3, <1>4 DEF DialogBlocks

\* The first dialog opens.
LEMMA BlocksOpened ==
  ASSUME Typed, Chain, ProcessEvent, NEW c \in Clients, c = Top.c, Top.at = "start",
         Top.ev.kind \in Dialogs, dialogs[c] = 0
  PROVE  DialogBlocks(c)'
<1> DEFINE n == Len(stack)
<1>0. StackTyped /\ stack # <<>> /\ Top.fn = "ProcessEvent"
  BY DEF Typed, ProcessEvent, Running
<1>1. /\ c \in Clients /\ Top \in ActivationRecord /\ nextId \in Nat \ {0} /\ opened \in [Clients -> Nat]
      /\ n \in Nat \ {0}
  BY <1>0, TopFacts, Popped DEF Typed, CommandsTyped, RestTyped, StackTyped
<1>2. opened' = [opened EXCEPT ![c] = nextId - 1] /\ nextId' = nextId
  BY <1>0 DEF ProcessEvent, commandVars
<1>3. opened'[c] = nextId - 1 /\ opened'[c] < nextId' BY <1>1, <1>2
<1>4. Opened(stack', c, nextId - 1)
  <2>1. \/ stack' = At("event")
        \/ stack' = Append(At("dialog"), Activation("HandleDialog", c))
    BY DEF ProcessEvent, Announce, Call
  <2>2. ASSUME NEW p \in {"event", "dialog"}
        PROVE  /\ At(p) \in Seq(ActivationRecord) /\ Opened(At(p), c, nextId - 1)
    <3> DEFINE r == [Top EXCEPT !.at = p]
               st == At(p)
    <3>1. p \in Places BY DEF Places
    <3>2. st \in Seq(ActivationRecord) /\ Len(st) = n /\ st[n] = r BY <1>0, <3>1, AtFacts
    <3>3. r.fn = "ProcessEvent" /\ r.c = c /\ r.at = p /\ r.ev = Top.ev
      BY <1>0, <1>1 DEF ActivationRecord
    <3> HIDE DEF r, st
    <3>4. Opener(st[n], c) /\ st[n].at # "roundTrip" BY <3>2, <3>3 DEF Opener
    <3>5. n \in 1..Len(st) /\ (n + 1)..Len(st) = {} BY <1>1, <3>2
    <3>6. Opened(st, c, nextId - 1) BY <3>4, <3>5 DEF Opened
    <3> QED BY <3>2, <3>6 DEF st
  <2>3. CASE stack' = Append(At("dialog"), Activation("HandleDialog", c))
    <3> DEFINE x == Activation("HandleDialog", c)
    <3>1. x \in ActivationRecord
      <4>1. NoEvent \in [number : Nat, kind : EventKinds] /\ "frame" \in Listeners /\ 0 \in Nat
            /\ "HandleDialog" \in Functions
        BY DEF NoEvent, EventKinds, Listeners, Functions
      <4> QED BY <1>1, <4>1, Activated
    <3>2. ~Sending(x) BY DEF Sending, Activation
    <3> HIDE DEF x
    <3>3. At("dialog") \in Seq(ActivationRecord) /\ Opened(At("dialog"), c, nextId - 1) BY <2>2
    <3> QED BY <2>3, <3>1, <3>2, <3>3, OpenedPush DEF x
  <2> QED BY <2>1, <2>2, <2>3
<1> QED BY <1>3, <1>4 DEF DialogBlocks

\* What dialogs block is an invariant.
LEMMA BlockingInvariant == Spec => []Blocking
<1>1. Init => Blocking BY DEF Init, Blocking, DialogBlocks
<1>2. Typed /\ Chain /\ Blocking /\ [Next]_vars => Blocking'
  <2> SUFFICES ASSUME Typed, Chain, Blocking, [Next]_vars PROVE Blocking' OBVIOUS
  <2>1. CASE UNCHANGED vars
    BY <2>1 DEF vars, commandVars, history, Blocking, DialogBlocks
  <2>2. CASE Next
    <3>1. ~died /\ (~DeadPointer => died' = died) BY <2>2, AliveStep, HistoryStep
    <3>2. died' => stack' = <<>> BY <3>1 DEF DeadPointer
    <3>3. ASSUME NEW c \in Clients PROVE DialogBlocks(c)'
      <4>1. CASE ~ProcessEvent BY <2>2, <4>1, HistoryStep, BlocksKept
      <4>2. CASE ProcessEvent
        <5> DEFINE d == Top.c
                   kind == Top.ev.kind
        <5>1. \/ /\ Top.at = "start" /\ dialogs' = [dialogs EXCEPT ![d] = DialogsAfter(d, kind)]
                 /\ opened' = IF dialogs[d] = 0 /\ kind \in Dialogs
                              THEN [opened EXCEPT ![d] = nextId - 1] ELSE opened
              \/ UNCHANGED <<dialogs, opened>>
          BY <4>2 DEF ProcessEvent
        <5>2. dialogs \in [Clients -> Nat] /\ opened \in [Clients -> Nat] BY DEF Typed, RestTyped
        <5>3. CASE Top.at = "start" /\ dialogs[d] = 0 /\ kind \in Dialogs /\ c = d
          BY <4>2, <5>3, BlocksOpened
        <5>4. CASE ~(Top.at = "start" /\ dialogs[d] = 0 /\ kind \in Dialogs /\ c = d)
          <6>1. opened'[c] = opened[c] /\ (dialogs'[c] > 0 => dialogs[c] > 0)
            <7> HIDE DEF d, kind
            <7>1. CASE UNCHANGED <<dialogs, opened>> BY <7>1
            <7>2. CASE /\ Top.at = "start" /\ dialogs' = [dialogs EXCEPT ![d] = DialogsAfter(d, kind)]
                       /\ opened' = IF dialogs[d] = 0 /\ kind \in Dialogs
                                    THEN [opened EXCEPT ![d] = nextId - 1] ELSE opened
              <8>1. CASE c # d BY <5>2, <7>2, <8>1
              <8>2. CASE c = d
                <9>1. opened' = opened \/ (dialogs[d] = 0 /\ kind \in Dialogs) BY <7>2
                <9>2. ~(dialogs[d] = 0 /\ kind \in Dialogs) BY <5>4, <7>2, <8>2
                <9>3. dialogs'[c] = DialogsAfter(c, kind) BY <5>2, <7>2, <8>2
                <9>4. dialogs[c] \in Nat /\ (kind \in Dialogs => dialogs[c] > 0) BY <5>2, <8>2, <9>2
                <9>5. DialogsAfter(c, kind) > 0 => dialogs[c] > 0 BY <9>4 DEF DialogsAfter
                <9> QED BY <9>1, <9>2, <9>3, <9>5
              <8> QED BY <8>1, <8>2
            <7> QED BY <5>1, <7>1, <7>2
          <6> QED BY <2>2, <6>1, BlocksKept
        <5> QED BY <5>3, <5>4
      <4> QED BY <4>1, <4>2
    <3> QED BY <3>2, <3>3 DEF Blocking
  <2> QED BY <2>1, <2>2
<1> QED BY <1>1, <1>2, TypedInvariant, ChainInvariant, PTL DEF Spec

\* DialogsBlockNoCommand: once the event of a dialog has been processed, no command that was
\* sent to its client before waits any more, whatever was nested in between.
THEOREM DialogsBlock == Spec => []DialogsBlockNoCommand
<1>1. ASSUME Typed, Chain, Blocking PROVE DialogsBlockNoCommand
  <2> SUFFICES ASSUME NEW i \in 1..Len(stack), stack[i].fn = "SendCommand", dialogs[stack[i].c] > 0,
                      stack[i].c \notin failed, stack[i].id <= opened[stack[i].c],
                      commands[stack[i].id].state = "kWaiting"
               PROVE  \E j \in (i + 1)..Len(stack) :
                        stack[j].fn = "ProcessEvent" /\ stack[j].c = stack[i].c
    BY DEF DialogsBlockNoCommand
  <2> DEFINE c == stack[i].c
             o == opened[c]
  <2>1. StackTyped /\ Sound(stack, commands) /\ CommandsTyped /\ RestTyped BY <1>1 DEF Typed, Chain
  <2>2. stack[i] \in ActivationRecord /\ Len(stack) \in Nat BY <2>1 DEF StackTyped
  <2>3. c \in Clients /\ stack[i].id \in Nat BY <2>2 DEF ActivationRecord
  <2>4. stack[i].id \in DOMAIN commands /\ commands[stack[i].id].client = c
    BY <2>1 DEF Sound, Holds, Sending
  <2>5. ~died
    <3>1. stack # <<>> BY <2>2
    <3> QED BY <1>1, <3>1 DEF Blocking
  <2>6. Opened(stack, c, o) BY <1>1, <2>3, <2>4, <2>5 DEF Blocking, DialogBlocks
  <2>7. o \in Nat BY <2>1, <2>3 DEF RestTyped
  <2>8. PICK j \in 1..Len(stack) :
          /\ Opener(stack[j], c) /\ \A k \in (j + 1)..Len(stack) : Sending(stack[k]) => stack[k].id > o
    BY <2>6 DEF Opened
  <2>9. stack[i].id <= o /\ Sending(stack[i]) BY DEF Sending
  <2>10. i \notin (j + 1)..Len(stack) BY <2>3, <2>7, <2>8, <2>9
  <2>11. i # j BY <2>8 DEF Opener
  <2>12. j \in (i + 1)..Len(stack) BY <2>2, <2>10, <2>11
  <2> QED BY <2>8, <2>12 DEF Opener
<1> QED BY <1>1, TypedInvariant, ChainInvariant, BlockingInvariant, PTL

-----------------------------------------------------------------------------
(* Listeners.                                                              *)

\* A record of ProcessEvent that was there before, and has begun.
Recorded(r, base) ==
  r.fn = "ProcessEvent" =>
    /\ r.at # "start"
    /\ \E j \in 1..Len(base) : base[j].fn = "ProcessEvent" /\ base[j].c = r.c /\ base[j].ev = r.ev
Known(st, base) == \A i \in 1..Len(st) : Recorded(st[i], base)

\* The record of an event that is received.
Received(r) ==
  /\ r.fn = "ProcessEvent"
  /\ \E c \in Clients, kind \in EventKinds :
       ReceiveEvent(c, kind) /\ r.c = c /\ r.ev = [number |-> events + 1, kind |-> kind]

\* A call that processes no event adds no event.
LEMMA KnownPush ==
  ASSUME NEW st \in Seq(ActivationRecord), NEW x \in ActivationRecord, NEW base,
         Known(st, base), x.fn # "ProcessEvent"
  PROVE  Known(Append(st, x), base)
<1> DEFINE p == Append(st, x)
<1>1. /\ Len(st) \in Nat /\ Len(p) = Len(st) + 1 /\ p[Len(st) + 1] = x
      /\ \A i \in 1..Len(st) : p[i] = st[i]
  BY Pushed
<1> HIDE DEF p
<1>2. \A i \in 1..Len(p) : i \in 1..Len(st) \/ i = Len(st) + 1 BY <1>1
<1>3. Recorded(x, base) BY DEF Recorded
<1> QED BY <1>1, <1>2, <1>3 DEF Known, p

\* Only the event that is received last has not begun to be processed.
LEMMA RecordsStep ==
  ASSUME Typed, Chain, Next, stack # <<>>
  PROVE  \A i \in 1..Len(stack') : Recorded(stack'[i], stack) \/ Received(stack'[i])
<1> DEFINE Old(st) == Known(st, stack)
           G == Old(stack')
           Goal == \A i \in 1..Len(stack') : Recorded(stack'[i], stack) \/ Received(stack'[i])
<1>z. G => Goal BY DEF Known
<1>0. /\ StackTyped /\ CommandsTyped /\ ClientsTyped /\ UnnotifiedTyped /\ nextId \in Nat
      /\ Sound(stack, commands)
  BY DEF Typed, Chain, CommandsTyped
<1>1. stack # <<>> OBVIOUS
<1>2. /\ Top \in ActivationRecord /\ Top.c \in Clients /\ Top.id \in Nat
      /\ Below \in Seq(ActivationRecord)
  BY <1>0, <1>1, TopFacts
<1>3. \A i \in 1..(Len(stack) - 1) : i \in 1..Len(stack) /\ Recorded(stack[i], stack)
  <2>1. \A i \in 1..(Len(stack) - 1) : i \in 1..Len(stack) BY <1>0, <1>1, Popped DEF StackTyped
  <2>2. \A i \in 1..(Len(stack) - 1) : Calls(stack[i], stack[i + 1]) BY <1>0 DEF Sound, Linked
  <2> QED BY <2>1, <2>2 DEF Calls, Recorded
<1>a. Old(Below)
  <2>1. Len(Below) = Len(stack) - 1 /\ \A i \in 1..(Len(stack) - 1) : Below[i] = stack[i]
    BY <1>0, <1>1, Popped DEF StackTyped, Below
  <2> QED BY <1>3, <2>1 DEF Known
<1>b. \A s : Return(s) => G BY <1>a DEF Return
<1>c. ASSUME NEW r \in ActivationRecord, r.fn = Top.fn, r.c = Top.c, r.ev = Top.ev, r.at # "start"
      PROVE  Old([stack EXCEPT ![Len(stack)] = r])
  <2> DEFINE p == [stack EXCEPT ![Len(stack)] = r]
  <2>1. Len(p) = Len(stack) /\ p[Len(stack)] = r /\ \A i \in 1..(Len(stack) - 1) : p[i] = stack[i]
    BY <1>0, <1>1, Moved DEF StackTyped
  <2> HIDE DEF p
  <2>2. Len(stack) \in 1..Len(stack) BY <1>0, <1>1, Popped DEF StackTyped
  <2>3. Recorded(r, stack) BY <1>c, <2>2 DEF Recorded, Top
  <2>4. \A i \in 1..Len(p) : i \in 1..(Len(stack) - 1) \/ i = Len(stack) BY <2>1, <2>2
  <2>5. Known(p, stack) BY <1>3, <2>1, <2>3, <2>4 DEF Known
  <2> QED BY <2>5 DEF p
<1>d. ASSUME NEW p \in Places \ {"start", "roundTrip"}
      PROVE  Old(At(p)) /\ At(p) \in Seq(ActivationRecord)
  <2> DEFINE r == [Top EXCEPT !.at = p]
  <2>1. /\ r \in ActivationRecord /\ At(p) = [stack EXCEPT ![Len(stack)] = r]
        /\ At(p) \in Seq(ActivationRecord)
    BY <1>0, <1>1, AtFacts
  <2>2. r.fn = Top.fn /\ r.c = Top.c /\ r.ev = Top.ev /\ r.at = p
    BY <1>2 DEF ActivationRecord
  <2> HIDE DEF r
  <2>3. Old([stack EXCEPT ![Len(stack)] = r]) BY <1>c, <1>d, <2>1, <2>2
  <2> QED BY <2>1, <2>3
<1>e. ASSUME NEW st \in Seq(ActivationRecord), NEW c2 \in Clients, SendCommand(st, c2), Old(st)
      PROVE  G
  <2> DEFINE x == [Activation("SendCommand", c2) EXCEPT !.id = nextId]
  <2>1. /\ x \in ActivationRecord /\ x.fn = "SendCommand" /\ (stack' = Append(st, x) \/ stack' = st)
    BY <1>0, <1>e, SendFacts
  <2> HIDE DEF x
  <2> QED BY <1>0, <1>e, <2>1, KnownPush
<1>f. ASSUME NEW st \in Seq(ActivationRecord), NEW x \in ActivationRecord, x.fn # "ProcessEvent", Old(st)
      PROVE  Old(Append(st, x)) /\ Append(st, x) \in Seq(ActivationRecord)
  BY <1>f, KnownPush, Pushed
<1>g. ASSUME NEW st \in Seq(ActivationRecord), NEW l \in Listeners, NEW c2 \in Clients, NEW kind,
             NEW hook \in {"OnConnected", "OnEvent", "OnCommandSuccess"},
             ListenerSends(st, hook, l, c2, kind), Old(st)
      PROVE  G
  <2> DEFINE y == [Activation(hook, c2) EXCEPT !.l = l]
  <2>1. hook \in Functions BY DEF Functions
  <2>2. /\ y \in ActivationRecord /\ y.fn = hook
        /\ \E target \in SendTargets(hook, l, c2, kind) \cap Clients : SendCommand(Append(st, y), target)
    BY <1>g, <2>1, ListenerSendFacts
  <2>3. PICK target \in Clients : SendCommand(Append(st, y), target) BY <2>2
  <2> HIDE DEF y
  <2>4. y.fn # "ProcessEvent" BY <2>2 DEF Sending
  <2>5. Old(Append(st, y)) /\ Append(st, y) \in Seq(ActivationRecord)
    BY <1>f, <1>g, <2>2, <2>4
  <2> QED BY <1>e, <2>3, <2>5
<1>h. \A fn \in Functions, c2 \in Clients :
        Activation(fn, c2) \in ActivationRecord /\ Activation(fn, c2).fn = fn
  <2>1. NoEvent \in [number : Nat, kind : EventKinds] /\ "frame" \in Listeners /\ 0 \in Nat
    BY DEF NoEvent, EventKinds, Listeners
  <2>2. \A fn \in Functions, c2 \in Clients : Activation(fn, c2) \in ActivationRecord
    BY <2>1, Activated
  <2> QED BY <2>2 DEF Activation
<1>i. {"SendCommand", "ProcessNextMessage", "ProcessEvent", "HandleDialog", "ProcessCommandResponse",
       "AttachTo", "HandleEventsUntil", "OnConnected", "OnEvent", "OnCommandSuccess",
       "GetFedCmTracker"} \subseteq Functions
  BY DEF Functions
<1>k. {"connect", "event", "response", "handle", "dialog", "retry"} \subseteq Places \ {"start", "roundTrip"}
  BY DEF Places
<1>l. Root \in Clients /\ Frame \in Clients BY DEF Clients
<1>m. stack \in Seq(ActivationRecord) /\ (Top.fn # "ProcessEvent" => Old(stack))
  <2>1. stack \in Seq(ActivationRecord) BY <1>0 DEF StackTyped
  <2>2. ASSUME Top.fn # "ProcessEvent", NEW i \in 1..Len(stack) PROVE Recorded(stack[i], stack)
    <3>1. Len(stack) \in Nat BY <2>1
    <3>2. CASE i = Len(stack) BY <2>2, <3>2 DEF Recorded, Top
    <3>3. CASE i # Len(stack) BY <1>3, <3>1, <3>3
    <3> QED BY <3>2, <3>3
  <2> QED BY <2>1, <2>2 DEF Known
<1>n. ASSUME NEW st \in Seq(ActivationRecord), NEW fn \in Functions \ {"ProcessEvent"},
             NEW c2 \in Clients, Old(st), Call(st, Activation(fn, c2))
      PROVE  G
  <2>1. Activation(fn, c2).fn # "ProcessEvent" /\ Activation(fn, c2) \in ActivationRecord BY <1>h
  <2> QED BY <1>f, <1>n, <2>1 DEF Call
<1>33. CASE Begin BY <1>1, <1>33 DEF Begin, BeginSendCommand, SendCommandAndIgnoreResponse,
     BeginHandleEventsUntil, BeginHandleDialog, BeginAttachTo, BeginGetFedCmTracker, Idle
<1>4. ASSUME \/ EndGetFedCmTracker \/ SendCommandFails \/ HandleEventsEnds \/ AttachToReturns
             \/ HandleMessageReturns \/ ProcessCommandResponseReturns \/ DialogHandled
      PROVE  G
  <2>1. (\E s : Return(s)) /\ Top.fn # "ProcessEvent"
    BY <1>4 DEF EndGetFedCmTracker, SendCommandFails, HandleEventsEnds, AttachToReturns,
      HandleMessageReturns, ProcessCommandResponseReturns, DialogHandled, Running
  <2> QED BY <1>b, <2>1
<1>5. ASSUME SendCommandLoop PROVE G
  <2>1. Top.fn # "ProcessEvent" BY <1>5 DEF SendCommandLoop, Running
  <2>2. CASE Call(stack, [Activation("ProcessNextMessage", Top.c) EXCEPT !.id = Top.id])
    <3> DEFINE x == [Activation("ProcessNextMessage", Top.c) EXCEPT !.id = Top.id]
    <3>1. x \in ActivationRecord /\ x.fn = "ProcessNextMessage"
      <4>1. NoEvent \in [number : Nat, kind : EventKinds] /\ "frame" \in Listeners
        BY DEF NoEvent, EventKinds, Listeners
      <4>2. x.fn = "ProcessNextMessage" BY DEF Activation
      <4> QED BY <1>2, <1>i, <4>1, <4>2, Activated
    <3>2. stack' = Append(stack, x) BY <2>2 DEF Call
    <3> HIDE DEF x
    <3>3. x.fn # "ProcessEvent" BY <3>1 DEF Sending
    <3> QED BY <1>f, <1>m, <2>1, <3>1, <3>2, <3>3
  <2> QED BY <1>5, <1>b, <2>1, <2>2 DEF SendCommandLoop
<1>6. ASSUME HandleEventsUntil PROVE G
  <2>1. Top.fn # "ProcessEvent" BY <1>6 DEF HandleEventsUntil, Running
  <2>2. Call(stack, Activation("ProcessNextMessage", Top.c)) => G BY <1>2, <1>i, <1>m, <1>n, <2>1
  <2> QED BY <1>6, <1>b, <2>1, <2>2 DEF HandleEventsUntil
<1>7. ASSUME EnsureListenersNotifiedOfConnect PROVE G
  <2> DEFINE d == Top.c
             st == At("connect")
  <2>1. ~Sending(Top) /\ unConnect[d] \in Seq(Listeners) /\ d \in Clients
    BY <1>0, <1>2, <1>7 DEF EnsureListenersNotifiedOfConnect, NotifiesConnect, Running, Sending,
      UnnotifiedTyped
  <2>2. Old(st) /\ st \in Seq(ActivationRecord) BY <1>d, <1>k, <2>1
  <2>3. PICK n \in 1..Len(unConnect[d]) :
             \/ stack' = st
             \/ ListenerSends(st, "OnConnected", unConnect[d][n], d, "other")
             \/ SendCommand(Append(st, [Activation("OnConnected", d) EXCEPT !.l = "frame"]), d)
    BY <1>7 DEF EnsureListenersNotifiedOfConnect
  <2> HIDE DEF d, st
  <2>4. unConnect[d][n] \in Listeners BY <2>1, UnlistedFacts
  <2>5. CASE ListenerSends(st, "OnConnected", unConnect[d][n], d, "other")
    BY <1>g, <2>1, <2>2, <2>4, <2>5
  <2>6. CASE SendCommand(Append(st, [Activation("OnConnected", d) EXCEPT !.l = "frame"]), d)
    <3> DEFINE y == [Activation("OnConnected", d) EXCEPT !.l = "frame"]
    <3>1. y \in ActivationRecord /\ y.fn = "OnConnected"
      <4>1. NoEvent \in [number : Nat, kind : EventKinds] /\ "frame" \in Listeners /\ 0 \in Nat
        BY DEF NoEvent, EventKinds, Listeners
      <4>2. y.fn = "OnConnected" BY DEF Activation
      <4> QED BY <1>i, <2>1, <4>1, <4>2, Activated
    <3>2. SendCommand(Append(st, y), d) BY <2>6
    <3> HIDE DEF y
    <3>3. y.fn # "ProcessEvent" BY <3>1 DEF Sending
    <3>4. Old(Append(st, y)) /\ Append(st, y) \in Seq(ActivationRecord)
      BY <1>f, <2>2, <3>1, <3>3
    <3> QED BY <1>e, <2>1, <3>2, <3>4
  <2> QED BY <2>2, <2>3, <2>5, <2>6
<1>8. ASSUME EnsureListenersNotifiedOfEvent PROVE G
  <2> DEFINE d == Top.c
             st == At("event")
             kind == event[d].kind
  <2>1. ~Sending(Top) /\ unEvent[d] \in Seq(Listeners) /\ d \in Clients
    BY <1>0, <1>2, <1>8 DEF EnsureListenersNotifiedOfEvent, NotifiesEvent, Running, Sending,
      UnnotifiedTyped
  <2>2. Old(st) /\ st \in Seq(ActivationRecord) BY <1>d, <1>k, <2>1
  <2>3. PICK n \in 1..Len(unEvent[d]) :
             \/ stack' = st
             \/ ListenerSends(st, "OnEvent", unEvent[d][n], d, kind)
             \/ Call(Append(st, [Activation("OnEvent", d) EXCEPT !.l = unEvent[d][n]]),
                     Activation("AttachTo", Frame))
    BY <1>8 DEF EnsureListenersNotifiedOfEvent
  <2> HIDE DEF d, st, kind
  <2>4. unEvent[d][n] \in Listeners BY <2>1, UnlistedFacts
  <2>5. CASE ListenerSends(st, "OnEvent", unEvent[d][n], d, kind)
    BY <1>g, <2>1, <2>2, <2>4, <2>5
  <2>6. CASE Call(Append(st, [Activation("OnEvent", d) EXCEPT !.l = unEvent[d][n]]),
                  Activation("AttachTo", Frame))
    <3> DEFINE y == [Activation("OnEvent", d) EXCEPT !.l = unEvent[d][n]]
    <3>1. y \in ActivationRecord /\ y.fn = "OnEvent"
      <4>1. NoEvent \in [number : Nat, kind : EventKinds] /\ 0 \in Nat BY DEF NoEvent, EventKinds
      <4>2. y.fn = "OnEvent" BY DEF Activation
      <4> QED BY <1>i, <2>1, <2>4, <4>1, <4>2, Activated
    <3>2. Call(Append(st, y), Activation("AttachTo", Frame)) BY <2>6
    <3> HIDE DEF y
    <3>3. y.fn # "ProcessEvent" BY <3>1 DEF Sending
    <3>4. Old(Append(st, y)) /\ Append(st, y) \in Seq(ActivationRecord)
      BY <1>f, <2>2, <3>1, <3>3
    <3>5. "AttachTo" \in Functions \ {"ProcessEvent"} BY <1>i
    <3> QED BY <1>l, <1>n, <3>2, <3>4, <3>5
  <2> QED BY <2>2, <2>3, <2>5, <2>6
<1>9. ASSUME EnsureListenersNotifiedOfCommandResponse PROVE G
  <2> DEFINE d == Top.c
             st == At("response")
  <2>1. ~Sending(Top) /\ unResponse[d] \in Seq(Listeners) /\ d \in Clients
    BY <1>0, <1>2, <1>9 DEF EnsureListenersNotifiedOfCommandResponse, NotifiesCommandResponse,
      Running, Sending, UnnotifiedTyped
  <2>2. Old(st) /\ st \in Seq(ActivationRecord) BY <1>d, <1>k, <2>1
  <2>3. PICK n \in 1..Len(unResponse[d]) :
             \/ stack' = st
             \/ ListenerSends(st, "OnCommandSuccess", unResponse[d][n], d, "other")
    BY <1>9 DEF EnsureListenersNotifiedOfCommandResponse
  <2> HIDE DEF d, st
  <2>4. unResponse[d][n] \in Listeners BY <2>1, UnlistedFacts
  <2>5. CASE ListenerSends(st, "OnCommandSuccess", unResponse[d][n], d, "other")
    BY <1>g, <2>1, <2>2, <2>4, <2>5
  <2> QED BY <2>2, <2>3, <2>5
<1>10. ASSUME DeadPointer PROVE G BY <1>10 DEF DeadPointer, Known
<1>11. ASSUME NotificationFails PROVE G BY <1>11, <1>b DEF NotificationFails
<1>12. ASSUME ListenerContinues PROVE G
  <2>1. Top.fn \in {"OnConnected", "OnEvent", "OnCommandSuccess"}
    BY <1>12 DEF ListenerContinues, InListener, Running
  <2>2. Old(Below) BY <1>a
  <2>3. CASE ListenerSends(Below, Top.fn, Top.l, Top.c, "other")
    <3>1. Top.l \in Listeners
      <4>1. SUFFICES ASSUME Top.l \notin Listeners PROVE FALSE OBVIOUS
      <4>2. SendTargets(Top.fn, Top.l, Top.c, "other") = {} BY <4>1 DEF SendTargets, Listeners
      <4> QED BY <2>3, <4>2 DEF ListenerSends
    <3> QED BY <1>2, <1>g, <2>1, <2>2, <2>3, <3>1
  <2> QED BY <1>12, <2>2, <2>3 DEF ListenerContinues, Return
<1>13. ASSUME SetUpDevTools PROVE G
  <2>1. Top.fn = "AttachTo" /\ ~Sending(Top) BY <1>13 DEF SetUpDevTools, Running, Sending
  <2>2. Old(At("connect")) BY <1>d, <1>k, <2>1
  <2> QED BY <1>13, <1>b, <2>1, <2>2 DEF SetUpDevTools
<1>14. ASSUME ProcessNextMessage PROVE G
  <2>1. Top.fn = "ProcessNextMessage" BY <1>14 DEF ProcessNextMessage, AllNotified, Running
  <2>2. CASE Call(Below, [Activation("ProcessNextMessage", Root) EXCEPT !.caller = Top.caller])
    <3> DEFINE x == [Activation("ProcessNextMessage", Root) EXCEPT !.caller = Top.caller]
    <3>1. x \in ActivationRecord /\ x.fn = "ProcessNextMessage"
      <4>1. NoEvent \in [number : Nat, kind : EventKinds] /\ "frame" \in Listeners /\ 0 \in Nat
        BY DEF NoEvent, EventKinds, Listeners
      <4>2. x.fn = "ProcessNextMessage" BY DEF Activation
      <4>3. Top.caller \in Clients BY <1>0, <1>1, TopFacts
      <4> QED BY <1>i, <1>l, <4>1, <4>2, <4>3, Activated
    <3>2. stack' = Append(Below, x) BY <2>2 DEF Call
    <3> HIDE DEF x
    <3>3. x.fn # "ProcessEvent" BY <3>1 DEF Sending
    <3>4. Old(Below) BY <1>a
    <3> QED BY <1>2, <1>f, <3>1, <3>2, <3>3, <3>4
  <2> QED BY <1>14, <1>b, <2>1, <2>2 DEF ProcessNextMessage
<1>o. ASSUME NEW c2 \in Clients, NEW x \in ActivationRecord, Handle(c2, x),
             Top.fn = "ProcessNextMessage"
      PROVE  \E st \in Seq(ActivationRecord) : Old(st) /\ stack' = Append(st, x)
  <2> DEFINE r == [Top EXCEPT !.at = "handle", !.to = c2]
             st == [stack EXCEPT ![Len(stack)] = r]
  <2>1. r \in ActivationRecord BY <1>2, <1>o DEF ActivationRecord, Places
  <2>2. r.at = "handle" /\ r.fn = Top.fn /\ r.c = Top.c /\ r.id = Top.id /\ r.ev = Top.ev
    BY <1>2 DEF ActivationRecord
  <2>0. stack \in Seq(ActivationRecord) /\ Handle(c2, x) BY <1>0, <1>o DEF StackTyped
  <2>3. stack' = Append(st, x) BY <2>0 DEF Handle, Call, Top
  <2> HIDE DEF r
  <2>4. ~Sending(Top) BY <1>o DEF Sending
  <2>5. Old(st) BY <1>c, <2>1, <2>2, <2>4
  <2>6. st \in Seq(ActivationRecord) BY <1>0, <1>1, <2>1, Moved DEF StackTyped
  <2> HIDE DEF st
  <2> QED BY <2>3, <2>5, <2>6
<1>15. CASE Receive
  <2>0. Receives BY <1>15, ReceiveReceives
  <2>1. Top.fn = "ProcessNextMessage" BY <2>0 DEF Receives, AllNotified, Running
  <2>2. ASSUME NEW c2 \in Clients, NEW kind \in EventKinds, ReceiveEvent(c2, kind) PROVE Goal
    <3> DEFINE ev == [number |-> events + 1, kind |-> kind]
               x == [Activation("ProcessEvent", c2) EXCEPT !.ev = ev]
    <3>1. ev \in [number : Nat, kind : EventKinds] BY DEF Typed, CountsTyped
    <3>2. x \in ActivationRecord
      <4>1. "frame" \in Listeners /\ 0 \in Nat BY DEF Listeners
      <4> QED BY <1>i, <3>1, <4>1, Activated
    <3>3. x.fn = "ProcessEvent" /\ x.c = c2 /\ x.ev = ev BY DEF Activation
    <3>4. Handle(c2, x) BY <2>2 DEF ReceiveEvent
    <3> HIDE DEF x
    <3>5. PICK st \in Seq(ActivationRecord) : Old(st) /\ stack' = Append(st, x)
      BY <1>o, <2>1, <3>2, <3>4
    <3>6. \A i \in 1..Len(stack') : Recorded(stack'[i], stack) \/ stack'[i] = x
      <4>1. /\ Len(st) \in Nat /\ Len(Append(st, x)) = Len(st) + 1 /\ Append(st, x)[Len(st) + 1] = x
            /\ \A i \in 1..Len(st) : Append(st, x)[i] = st[i]
        BY <3>2, Pushed
      <4>2. \A i \in 1..(Len(st) + 1) : i \in 1..Len(st) \/ i = Len(st) + 1 BY <4>1
      <4> QED BY <3>5, <4>1, <4>2 DEF Known
    <3> QED BY <2>2, <3>3, <3>6 DEF Received
  <2>3. ASSUME NEW id \in DOMAIN commands, NEW ok \in BOOLEAN, ReceiveResponse(id, ok) PROVE G
    <3> DEFINE d == commands[id].client
               x == [Activation("ProcessCommandResponse", d) EXCEPT !.id = id]
    <3>1. d \in Clients BY <1>0 DEF CommandsTyped, Command
    <3>2. x \in ActivationRecord /\ x.fn = "ProcessCommandResponse" BY ResponseActivation
    <3>3. Handle(d, x) \/ \E s : Return(s) BY <2>3 DEF ReceiveResponse
    <3> HIDE DEF x, d
    <3>4. x.fn # "ProcessEvent" BY <3>2 DEF Sending
    <3>5. Handle(d, x) => G BY <1>f, <1>o, <2>1, <3>1, <3>2, <3>4
    <3> QED BY <1>b, <3>3, <3>5
  <2>4. ReceiveFails => G BY <1>b DEF ReceiveFails
  <2>5. ASSUME NEW id \in DOMAIN commands, ReceiveOrphanResponse(id) PROVE G
    BY <1>b, <2>1, <2>5 DEF ReceiveOrphanResponse
  <2> QED BY <1>15, <1>z, <2>2, <2>3, <2>4, <2>5 DEF Receive
<1>16. ASSUME ProcessEvent PROVE G
  <2>1. Top.fn = "ProcessEvent" /\ ~Sending(Top) BY <1>16 DEF ProcessEvent, Running, Sending
  <2>2. CASE Call(At("dialog"), Activation("HandleDialog", Top.c))
    <3>1. Old(At("dialog")) /\ At("dialog") \in Seq(ActivationRecord) BY <1>d, <1>k, <2>1
    <3>2. "HandleDialog" \in Functions \ {"ProcessEvent"} BY <1>i
    <3> QED BY <1>2, <1>n, <2>2, <3>1, <3>2
  <2>3. CASE stack' = At("event") BY <1>d, <1>k, <2>1, <2>3
  <2>4. CASE Return(ret) BY <1>b, <2>4
  <2> QED BY <1>16, <2>2, <2>3, <2>4 DEF ProcessEvent, Announce
<1>17. ASSUME EventNotified PROVE G
  <2> DEFINE r == [Top EXCEPT !.at = "roundTrip", !.id = nextId]
             st == [stack EXCEPT ![Len(stack)] = r]
  <2>1. Top.fn = "ProcessEvent" /\ ~Sending(Top) BY <1>17 DEF EventNotified, Running, Sending
  <2>2. \/ SendCommand(st, Top.c)
        \/ \E s : Return(s)
    BY <1>0, <1>17 DEF EventNotified, Top, StackTyped
  <2>3. CASE SendCommand(st, Top.c)
    <3>1. r \in ActivationRecord BY <1>0, <1>2 DEF ActivationRecord, Places
    <3>2. /\ r.fn = Top.fn /\ r.c = Top.c /\ r.ev = Top.ev /\ r.at = "roundTrip"
      BY <1>0, <1>2 DEF ActivationRecord
    <3> HIDE DEF r
    <3>3. Old(st) BY <1>c, <2>1, <3>1, <3>2
    <3>4. st \in Seq(ActivationRecord) BY <1>0, <1>1, <3>1, Moved DEF StackTyped
    <3> HIDE DEF st
    <3> QED BY <1>2, <1>e, <2>3, <3>3, <3>4
  <2>4. CASE \E s : Return(s) BY <1>b, <2>4
  <2> QED BY <2>2, <2>3, <2>4
<1>18. ASSUME RoundTripReturns PROVE G BY <1>18, <1>b DEF RoundTripReturns
<1>19. ASSUME HandleDialog PROVE G
  <2>1. Top.fn = "HandleDialog" /\ ~Sending(Top) BY <1>19 DEF HandleDialog, Running, Sending
  <2>2. ASSUME NEW p \in {"dialog", "retry"}, SendCommand(At(p), Top.c) PROVE G
    <3>1. Old(At(p)) /\ At(p) \in Seq(ActivationRecord) BY <1>d, <1>k, <2>1
    <3> QED BY <1>2, <1>e, <2>2, <3>1
  <2> QED BY <1>19, <1>b, <2>1, <2>2 DEF HandleDialog
<1> QED BY <1>z, <1>33, <1>4, <1>5, <1>6, <1>7, <1>8, <1>9, <1>10, <1>11, <1>12, <1>13, <1>14, <1>15, <1>16,
           <1>17, <1>18, <1>19 DEF Next, Step

\* When an operation begins, no event is being processed.
LEMMA BeginRecords ==
  ASSUME Typed, Begin
  PROVE  Known(stack', stack)
<1>1. stack = <<>>
  BY DEF Begin, BeginSendCommand, SendCommandAndIgnoreResponse, BeginHandleEventsUntil,
    BeginHandleDialog, BeginAttachTo, BeginGetFedCmTracker, Idle
<1>2. Known(<<>>, stack) /\ <<>> \in Seq(ActivationRecord) BY DEF Known
<1>3. CommandsTyped /\ Page \in Clients BY DEF Typed, Clients
<1>a. ASSUME NEW st \in Seq(ActivationRecord), NEW c \in Clients, SendCommand(st, c), Known(st, stack)
      PROVE  Known(stack', stack)
  <2> DEFINE x == [Activation("SendCommand", c) EXCEPT !.id = nextId]
  <2>1. /\ x \in ActivationRecord /\ x.fn = "SendCommand" /\ (stack' = Append(st, x) \/ stack' = st)
    BY <1>3, <1>a, SendFacts
  <2> HIDE DEF x
  <2> QED BY <1>a, <2>1, KnownPush
<1>b. ASSUME NEW fn \in Functions \ {"ProcessEvent"}, NEW c \in Clients
      PROVE  /\ Append(<<>>, Activation(fn, c)) \in Seq(ActivationRecord)
             /\ Known(Append(<<>>, Activation(fn, c)), stack)
  <2> DEFINE x == Activation(fn, c)
  <2>1. NoEvent \in [number : Nat, kind : EventKinds] /\ "frame" \in Listeners /\ 0 \in Nat
    BY DEF NoEvent, EventKinds, Listeners
  <2>2. x \in ActivationRecord BY <2>1, Activated
  <2>3. x.fn # "ProcessEvent" BY DEF Activation
  <2> HIDE DEF x
  <2>4. Known(Append(<<>>, x), stack) BY <1>2, <2>2, <2>3, KnownPush
  <2>5. Append(<<>>, x) \in Seq(ActivationRecord) BY <1>2, <2>2, Pushed
  <2> QED BY <2>4, <2>5 DEF x
<1>c. {"HandleEventsUntil", "HandleDialog", "AttachTo", "GetFedCmTracker"} \subseteq Functions \ {"ProcessEvent"}
  BY DEF Functions
<1>4. ASSUME NEW c \in Clients, BeginSendCommand(c) PROVE Known(stack', stack)
  BY <1>2, <1>4, <1>a DEF BeginSendCommand
<1>5. ASSUME NEW c \in Clients, SendCommandAndIgnoreResponse(c) PROVE Known(stack', stack)
  BY <1>1, <1>2, <1>5 DEF SendCommandAndIgnoreResponse
<1>6. ASSUME NEW c \in Clients, BeginHandleEventsUntil(c) PROVE Known(stack', stack)
  BY <1>6, <1>b, <1>c DEF BeginHandleEventsUntil, Call
<1>7. BeginHandleDialog => Known(stack', stack) BY <1>3, <1>b, <1>c DEF BeginHandleDialog, Call
<1>8. BeginAttachTo => Known(stack', stack) BY <1>3, <1>b, <1>c DEF BeginAttachTo, Call
<1>9. ASSUME BeginGetFedCmTracker PROVE Known(stack', stack)
  <2> DEFINE x == Activation("GetFedCmTracker", Page)
  <2>1. SendCommand(<<x>>, Page) BY <1>9 DEF BeginGetFedCmTracker
  <2>2. <<x>> = Append(<<>>, x) OBVIOUS
  <2>3. Append(<<>>, x) \in Seq(ActivationRecord) /\ Known(Append(<<>>, x), stack) BY <1>3, <1>b, <1>c
  <2> HIDE DEF x
  <2> QED BY <1>3, <1>a, <2>1, <2>2, <2>3
<1> QED BY <1>4, <1>5, <1>6, <1>7, <1>8, <1>9 DEF Begin

\* The steps that change what the listeners hear, or their lists; the others leave it alone.
Hears ==
  \/ EnsureListenersNotifiedOfEvent \/ NotificationFails \/ ProcessEvent \/ EventNotified
  \/ BeginGetFedCmTracker \/ \E c \in Clients, kind \in EventKinds : ReceiveEvent(c, kind)
HeardSame ==
  UNCHANGED <<listeners, unEvent, event, lastSeen, events>> /\ (fedcm' = "none" => fedcm = "none")

\* No other step changes what the listeners hear.
LEMMA HeardStep ==
  ASSUME Typed, Next
  PROVE  attached \subseteq attached' /\ (Hears \/ HeardSame)
<1> DEFINE G == attached \subseteq attached' /\ (Hears \/ HeardSame)
<1>a. UNCHANGED <<attached, listeners, fedcm, unEvent, event, lastSeen, events>> => G BY DEF HeardSame
<1>b. \A st, hook, l, c, kind : ListenerSends(st, hook, l, c, kind) => events' = events
  BY DEF ListenerSends, Spend, bounds
<1>1. CASE Begin
  BY <1>1, <1>a DEF Begin, BeginSendCommand, SendCommandAndIgnoreResponse, BeginHandleEventsUntil,
    BeginHandleDialog, BeginAttachTo, BeginGetFedCmTracker, Spend, Hears, clientVars, unnotified,
    bounds, history
<1>2. CASE \/ EnsureListenersNotifiedOfEvent \/ NotificationFails \/ ProcessEvent \/ EventNotified
  <2>1. attached' = attached
    BY <1>2 DEF EnsureListenersNotifiedOfEvent, NotificationFails, ProcessEvent, EventNotified, clientVars
  <2> QED BY <1>2, <2>1 DEF Hears
<1>3. CASE \/ SendCommandFails \/ SendCommandLoop \/ HandleEventsUntil \/ HandleEventsEnds
           \/ DeadPointer \/ AttachToReturns \/ ProcessNextMessage \/ HandleMessageReturns
           \/ ProcessCommandResponseReturns \/ RoundTripReturns \/ HandleDialog \/ DialogHandled
  BY <1>3, <1>a DEF SendCommandFails, SendCommandLoop, HandleEventsUntil, HandleEventsEnds,
    DeadPointer, AttachToReturns, ProcessNextMessage, HandleMessageReturns,
    ProcessCommandResponseReturns, RoundTripReturns, HandleDialog, DialogHandled, clientVars,
    unnotified, bounds, history
<1>4. CASE EndGetFedCmTracker
  BY <1>4 DEF EndGetFedCmTracker, HeardSame, unnotified, bounds, history
<1>5. CASE EnsureListenersNotifiedOfConnect
  <2>1. events' = events BY <1>5, <1>b DEF EnsureListenersNotifiedOfConnect, bounds
  <2> QED BY <1>5, <1>a, <2>1 DEF EnsureListenersNotifiedOfConnect, clientVars, history
<1>6. CASE EnsureListenersNotifiedOfCommandResponse
  <2>1. events' = events BY <1>6, <1>b DEF EnsureListenersNotifiedOfCommandResponse, bounds
  <2> QED BY <1>6, <1>a, <2>1 DEF EnsureListenersNotifiedOfCommandResponse, clientVars, history
<1>7. CASE ListenerContinues
  <2>1. events' = events BY <1>7, <1>b DEF ListenerContinues, bounds
  <2> QED BY <1>7, <1>a, <2>1 DEF ListenerContinues, clientVars, unnotified, history
<1>8. CASE SetUpDevTools BY <1>8 DEF SetUpDevTools, HeardSame, unnotified, bounds, history
<1>9. CASE Receive
  <2>1. CASE ReceiveFails BY <1>a, <2>1 DEF ReceiveFails, clientVars, unnotified, bounds, history
  <2>2. ASSUME NEW c \in Clients, NEW kind \in EventKinds, ReceiveEvent(c, kind) PROVE G
    <3>1. attached' = attached BY <2>2 DEF ReceiveEvent, clientVars
    <3> QED BY <2>2, <3>1 DEF Hears
  <2>3. ASSUME NEW id \in DOMAIN commands, NEW ok \in BOOLEAN, ReceiveResponse(id, ok) PROVE G
    BY <1>a, <2>3 DEF ReceiveResponse, clientVars, bounds, history
  <2>4. ASSUME NEW id \in DOMAIN commands, ReceiveOrphanResponse(id) PROVE G
    BY <1>a, <2>4 DEF ReceiveOrphanResponse, clientVars, unnotified, bounds, history
  <2> QED BY <1>9, <2>1, <2>2, <2>3, <2>4 DEF Receive
<1> QED BY <1>1, <1>2, <1>3, <1>4, <1>5, <1>6, <1>7, <1>8, <1>9 DEF Next, Step

\* Nothing that was received becomes newer.
LEMMA DatedStep ==
  ASSUME Typed, Chain, InOrder, Next, NEW i \in 1..Len(stack')
  PROVE  Dated(stack[i])'
<1> DEFINE r == stack'[i]
<1>1. Recorded(r, stack) \/ Received(r)
  <2>1. CASE stack = <<>>
    BY <2>1, StepRuns, BeginRecords DEF Next, Known
  <2>2. CASE stack # <<>> BY <2>2, RecordsStep
  <2> QED BY <2>1, <2>2
<1>2. /\ attached \subseteq attached' /\ events \in Nat /\ events' \in Nat /\ events <= events'
      /\ \A j \in 1..Len(stack) : stack[j] \in ActivationRecord
  <2>1. attached \subseteq attached' /\ (Hears \/ HeardSame) BY HeardStep
  <2>2. events \in Nat /\ events' \in Nat
    <3>1. Typed' BY TypedStep
    <3> QED BY <3>1, EventsAssumption DEF Typed, CountsTyped
  <2>3. events <= events'
    <3>1. CASE HeardSame BY <2>2, <3>1 DEF HeardSame
    <3>2. CASE Hears
      <4>1. \A st, hook, l, c, kind : ListenerSends(st, hook, l, c, kind) => events' = events
        BY DEF ListenerSends, Spend, bounds
      <4>2. EnsureListenersNotifiedOfEvent => events' = events
        BY <4>1 DEF EnsureListenersNotifiedOfEvent, bounds
      <4>3. NotificationFails \/ ProcessEvent \/ EventNotified \/ BeginGetFedCmTracker => events' = events
        BY DEF NotificationFails, ProcessEvent, EventNotified, BeginGetFedCmTracker, Spend, bounds
      <4>4. \A c \in Clients, kind \in EventKinds : ReceiveEvent(c, kind) => events' = events + 1
        BY DEF ReceiveEvent
      <4> QED BY <2>2, <3>2, <4>2, <4>3, <4>4 DEF Hears
    <3> QED BY <2>1, <3>1, <3>2
  <2>4. \A j \in 1..Len(stack) : stack[j] \in ActivationRecord BY DEF Typed, StackTyped
  <2> QED BY <2>1, <2>2, <2>3, <2>4
<1>3. CASE Recorded(r, stack)
  <2>1. ASSUME r.fn = "ProcessEvent" PROVE r.at # "start" /\ r.c \in attached' /\ r.ev.number <= events'
    <3>1. PICK j \in 1..Len(stack) :
            stack[j].fn = "ProcessEvent" /\ stack[j].c = r.c /\ stack[j].ev = r.ev
      BY <1>3, <2>1 DEF Recorded
    <3>2. stack[j].c \in attached /\ stack[j].ev.number <= events BY <3>1 DEF InOrder, Dated
    <3>3. stack[j].ev.number \in Nat BY <1>2 DEF ActivationRecord
    <3>4. r.ev.number \in Nat /\ r.ev.number <= events BY <3>1, <3>2, <3>3
    <3>5. r.at # "start" BY <1>3, <2>1 DEF Recorded
    <3> QED BY <1>2, <3>1, <3>2, <3>4, <3>5
  <2> QED BY <2>1 DEF Dated
<1>4. CASE Received(r)
  <2>1. PICK c \in Clients, kind \in EventKinds :
          ReceiveEvent(c, kind) /\ r.c = c /\ r.ev = [number |-> events + 1, kind |-> kind]
    BY <1>4 DEF Received
  <2>2. c \in attached /\ events' = events + 1 /\ lastSeen' = lastSeen
    BY <2>1 DEF ReceiveEvent, Usable, history
  <2>3. r.ev.number = events' BY <2>1, <2>2
  <2>4. \A c2 \in Clients, l \in Listeners : lastSeen[c2][l] <= events BY DEF InOrder, Timed
  <2>5. lastSeen \in [Clients -> [Listeners -> Nat]] BY DEF Typed, RestTyped
  <2>6. \A c2 \in Clients, l \in Listeners : lastSeen'[c2][l] < events'
    <3> SUFFICES ASSUME NEW c2 \in Clients, NEW l \in Listeners PROVE lastSeen'[c2][l] < events' OBVIOUS
    <3>1. lastSeen[c2][l] \in Nat /\ lastSeen[c2][l] <= events BY <2>4, <2>5
    <3> QED BY <1>2, <2>2, <3>1
  <2>7. r.ev.number <= events' /\ r.c \in attached' BY <1>2, <2>1, <2>2, <2>3
  <2> QED BY <2>3, <2>6, <2>7 DEF Dated
<1> QED BY <1>1, <1>3, <1>4

\* What is left of a list without duplicates has none.
LEMMA DistinctUnlisted ==
  ASSUME NEW list \in Seq(Listeners), NEW n \in 1..Len(list), Distinct(list)
  PROVE  /\ Distinct(Unlisted(list, n))
         /\ \A i \in 1..Len(Unlisted(list, n)) :
              \E k \in 1..Len(list) : Unlisted(list, n)[i] = list[k] /\ \A j \in 1..n : list[j] # list[k]
<1> DEFINE u == Unlisted(list, n)
<1>0. /\ Len(u) = Len(list) - n
      /\ \A i \in 1..(Len(list) - n) : n + i \in 1..Len(list) /\ u[i] = list[n + i]
  BY UnlistedFacts
<1> HIDE DEF u
<1>1. /\ Len(u) = Len(list) - n /\ Len(list) \in Nat
      /\ \A i \in 1..(Len(list) - n) : n + i \in 1..Len(list) /\ u[i] = list[n + i]
  BY <1>0
<1>2. ASSUME NEW i \in 1..Len(u), NEW j \in 1..Len(u), u[i] = u[j] PROVE i = j
  <2>1. n + i \in 1..Len(list) /\ n + j \in 1..Len(list) /\ list[n + i] = list[n + j] BY <1>1, <1>2
  <2>2. n + i = n + j BY <2>1 DEF Distinct
  <2> QED BY <1>1, <2>2
<1>3. ASSUME NEW i \in 1..Len(u)
      PROVE  \E k \in 1..Len(list) : u[i] = list[k] /\ \A j \in 1..n : list[j] # list[k]
  <2>1. n + i \in 1..Len(list) /\ u[i] = list[n + i] BY <1>1
  <2>2. \A j \in 1..n : j \in 1..Len(list) /\ j # n + i BY <1>1
  <2>3. \A j \in 1..n : list[j] # list[n + i] BY <2>1, <2>2 DEF Distinct
  <2> QED BY <2>1, <2>3
<1> QED BY <1>2, <1>3 DEF Distinct, u

\* What EnsureListenersNotifiedOfEvent does to the list of the client, c.
LEMMA TellFacts ==
  ASSUME Typed, EnsureListenersNotifiedOfEvent
  PROVE  \E c \in Clients : \E n \in 1..Len(unEvent[c]) :
           /\ c = Top.c /\ unEvent' = [unEvent EXCEPT ![c] = Unlisted(unEvent[c], n)]
           /\ lastSeen' = [lastSeen EXCEPT ![c] = SeenAfter(c, n)]
           /\ UNCHANGED <<listeners, fedcm, event, events>>
<1>1. stack # <<>> BY DEF EnsureListenersNotifiedOfEvent, NotifiesEvent, Running
<1>2. Top.c \in Clients BY <1>1, TopFacts DEF Typed
<1>3. \A st, hook, l, c, kind : ListenerSends(st, hook, l, c, kind) => events' = events
  BY DEF ListenerSends, Spend, bounds
<1>4. \E n \in 1..Len(unEvent[Top.c]) :
        /\ unEvent' = [unEvent EXCEPT ![Top.c] = Untold(Top.c, n)]
        /\ lastSeen' = [lastSeen EXCEPT ![Top.c] = SeenAfter(Top.c, n)]
        /\ events' = events
  BY <1>3 DEF EnsureListenersNotifiedOfEvent, bounds
<1>5. UNCHANGED <<listeners, fedcm, event>> BY DEF EnsureListenersNotifiedOfEvent
<1> QED BY <1>2, <1>4, <1>5 DEF Untold

\* A listener is listed once.
LEMMA ListedStep ==
  ASSUME Typed, Listed, Next
  PROVE  Listed'
<1>0. /\ ClientsTyped /\ UnnotifiedTyped /\ (Hears \/ HeardSame) /\ Page \in Clients
  BY HeardStep DEF Typed, Clients
<1>e. Distinct(<<>>) BY DEF Distinct
<1>1. CASE HeardSame BY <1>1 DEF HeardSame, Listed
<1>2. CASE EnsureListenersNotifiedOfEvent
  <2>0. PICK c \in Clients : \E n \in 1..Len(unEvent[c]) :
          /\ unEvent' = [unEvent EXCEPT ![c] = Unlisted(unEvent[c], n)]
          /\ UNCHANGED <<listeners, fedcm>>
    BY <1>2, TellFacts
  <2>1. PICK n \in 1..Len(unEvent[c]) :
          /\ unEvent' = [unEvent EXCEPT ![c] = Unlisted(unEvent[c], n)]
          /\ UNCHANGED <<listeners, fedcm>>
    BY <2>0
  <2>2. Distinct(Unlisted(unEvent[c], n))
    <3>1. unEvent[c] \in Seq(Listeners) /\ Distinct(unEvent[c]) BY <1>0 DEF UnnotifiedTyped, Listed
    <3> QED BY <3>1, DistinctUnlisted
  <2>3. \A d \in Clients : Distinct(unEvent'[d]) BY <1>0, <2>1, <2>2 DEF UnnotifiedTyped, Listed
  <2> QED BY <2>1, <2>3 DEF Listed
<1>3. CASE NotificationFails
  <2> DEFINE c == Top.c
  <2>1. (unEvent' = [unEvent EXCEPT ![c] = <<>>] \/ unEvent' = unEvent) /\ UNCHANGED <<listeners, fedcm>>
    BY <1>3 DEF NotificationFails, clientVars
  <2> HIDE DEF c
  <2>2. \A d \in Clients : Distinct(unEvent'[d]) BY <1>0, <1>e, <2>1 DEF UnnotifiedTyped, Listed
  <2> QED BY <2>1, <2>2 DEF Listed
<1>4. CASE ProcessEvent
  <2> DEFINE c == Top.c
  <2>1. (unEvent' = [unEvent EXCEPT ![c] = listeners[c]] \/ unEvent' = unEvent)
        /\ UNCHANGED <<listeners, fedcm>>
    BY <1>4 DEF ProcessEvent, Announce, clientVars
  <2> HIDE DEF c
  <2>2. \A d \in Clients : Distinct(unEvent'[d]) BY <1>0, <2>1 DEF UnnotifiedTyped, Listed
  <2> QED BY <2>1, <2>2 DEF Listed
<1>5. CASE EventNotified BY <1>5 DEF EventNotified, Listed
<1>6. CASE BeginGetFedCmTracker
  <2> DEFINE old == listeners[Page]
             new == Append(old, "fedcm")
  <2>1. /\ fedcm = "none" /\ fedcm' = "live" /\ unEvent' = unEvent
        /\ listeners' = [listeners EXCEPT ![Page] = new]
    BY <1>6 DEF BeginGetFedCmTracker, unnotified
  <2>2. old \in Seq(Listeners) /\ Distinct(old) /\ \A i \in 1..Len(old) : old[i] # "fedcm"
    BY <1>0, <2>1 DEF ClientsTyped, Listed
  <2>3. "fedcm" \in Listeners BY DEF Listeners
  <2> HIDE DEF old
  <2>4. /\ Len(old) \in Nat /\ Len(new) = Len(old) + 1 /\ new[Len(old) + 1] = "fedcm"
        /\ \A i \in 1..Len(old) : new[i] = old[i]
    BY <2>2, <2>3, AppendFacts
  <2> HIDE DEF new
  <2>5. \A i \in 1..Len(new) : i \in 1..Len(old) \/ i = Len(old) + 1 BY <2>4
  <2>6. Distinct(new) BY <2>2, <2>4, <2>5 DEF Distinct
  <2>7. \A d \in Clients : Distinct(listeners'[d]) BY <1>0, <2>1, <2>6 DEF ClientsTyped, Listed
  <2> QED BY <2>1, <2>7 DEF Listed
<1>7. ASSUME NEW c \in Clients, NEW kind \in EventKinds, ReceiveEvent(c, kind) PROVE Listed'
  BY <1>7 DEF ReceiveEvent, Listed, clientVars, unnotified
<1> QED BY <1>0, <1>1, <1>2, <1>3, <1>4, <1>5, <1>6, <1>7 DEF Hears

\* What a listener is to be told of stays newer than all it has seen.
LEMMA TimedStep ==
  ASSUME Typed, Chain, InOrder, Next, NEW c \in Clients
  PROVE  Timed(c)'
<1>0. /\ StackTyped /\ UnnotifiedTyped /\ (Hears \/ HeardSame) /\ events \in Nat
      /\ lastSeen \in [Clients -> [Listeners -> Nat]] /\ Timed(c)
  BY HeardStep, EventsAssumption DEF Typed, CountsTyped, RestTyped, InOrder
<1>a. /\ unEvent[c] \in Seq(Listeners) /\ event[c] \in [number : Nat, kind : EventKinds]
      /\ event[c].number \in Nat /\ \A i \in 1..Len(unEvent[c]) : unEvent[c][i] \in Listeners
  <2>1. unEvent[c] \in Seq(Listeners) /\ event[c] \in [number : Nat, kind : EventKinds]
    BY <1>0 DEF UnnotifiedTyped
  <2> QED BY <2>1
<1>b. NoEvent.number = 0 /\ Len(<<>>) = 0 BY DEF NoEvent
<1>c. stack # <<>> => Placed(Top) /\ Dated(Top) /\ Top.c \in Clients
                      /\ Top.ev \in [number : Nat, kind : EventKinds] /\ Top.ev.number \in Nat
  <2> SUFFICES ASSUME stack # <<>>
               PROVE  Placed(Top) /\ Dated(Top) /\ Top.c \in Clients
                      /\ Top.ev \in [number : Nat, kind : EventKinds] /\ Top.ev.number \in Nat
    OBVIOUS
  <2>1. Len(stack) \in 1..Len(stack) BY <1>0, Popped DEF StackTyped
  <2>2. Placed(Top) /\ Dated(Top) BY <2>1 DEF Chain, Sound, InOrder, Top
  <2> QED BY <1>0, <2>2, TopFacts
<1>1. CASE HeardSame BY <1>0, <1>1 DEF HeardSame, Timed
<1>2. CASE EnsureListenersNotifiedOfEvent
  <2>0. PICK d \in Clients : \E n \in 1..Len(unEvent[d]) :
          /\ unEvent' = [unEvent EXCEPT ![d] = Unlisted(unEvent[d], n)]
          /\ lastSeen' = [lastSeen EXCEPT ![d] = SeenAfter(d, n)] /\ UNCHANGED <<event, events>>
    BY <1>2, TellFacts
  <2>1. PICK n \in 1..Len(unEvent[d]) :
          /\ unEvent' = [unEvent EXCEPT ![d] = Unlisted(unEvent[d], n)]
          /\ lastSeen' = [lastSeen EXCEPT ![d] = SeenAfter(d, n)] /\ UNCHANGED <<event, events>>
    BY <2>0
  <2>2. CASE c # d
    <3>1. unEvent'[c] = unEvent[c] /\ lastSeen'[c] = lastSeen[c] BY <1>0, <2>1, <2>2 DEF UnnotifiedTyped
    <3> QED BY <1>0, <2>1, <3>1 DEF Timed
  <2>3. CASE c = d
    <3> DEFINE list == unEvent[c]
               u == Unlisted(list, n)
               seen == SeenAfter(c, n)
    <3>1. unEvent'[c] = u /\ lastSeen'[c] = seen BY <1>0, <2>1, <2>3 DEF UnnotifiedTyped
    <3>2. \A l \in Listeners :
            \/ seen[l] = lastSeen[c][l]
            \/ seen[l] = event[c].number /\ \E j \in 1..n : list[j] = l
      BY DEF SeenAfter
    <3>3. \A i \in 1..Len(u) :
            \E k \in 1..Len(list) : u[i] = list[k] /\ \A j \in 1..n : list[j] # list[k]
      <4>1. list \in Seq(Listeners) /\ Distinct(list) /\ n \in 1..Len(list)
        BY <1>a, <2>1, <2>3 DEF InOrder, Listed
      <4> HIDE DEF list
      <4> QED BY <4>1, DistinctUnlisted
    <3> HIDE DEF list, u, seen
    <3>4. \A l \in Listeners : seen[l] <= events BY <1>0, <3>2 DEF Timed
    <3>5. ASSUME ~AcceptsDialog(event[c].kind), NEW i \in 1..Len(u) PROVE event[c].number > seen[u[i]]
      <4>1. PICK k \in 1..Len(list) : u[i] = list[k] /\ \A j \in 1..n : list[j] # list[k] BY <3>3
      <4>2. list[k] \in Listeners BY <1>a DEF list
      <4>3. seen[list[k]] = lastSeen[c][list[k]] BY <3>2, <4>1, <4>2
      <4>4. event[c].number > lastSeen[c][list[k]] BY <1>0, <3>5 DEF Timed, list
      <4> QED BY <4>1, <4>3, <4>4
    <3> QED BY <1>0, <2>1, <3>1, <3>4, <3>5 DEF Timed
  <2> QED BY <2>2, <2>3
<1>3. CASE NotificationFails
  <2> DEFINE d == Top.c
  <2>1. /\ unEvent' = IF Top.at = "event" THEN [unEvent EXCEPT ![d] = <<>>] ELSE unEvent
        /\ event' = IF Running("ProcessEvent") THEN [event EXCEPT ![d] = NoEvent] ELSE event
        /\ UNCHANGED <<lastSeen, events>>
    BY <1>3 DEF NotificationFails, bounds
  <2>2. Running("ProcessEvent") => Top.at = "event"
    BY <1>3, <1>c DEF NotificationFails, Running, Placed
  <2> HIDE DEF d
  <2>3. CASE c = d /\ Running("ProcessEvent")
    <3>1. unEvent'[c] = <<>> /\ event'[c] = NoEvent BY <1>0, <2>1, <2>2, <2>3 DEF UnnotifiedTyped
    <3>2. event'[c].number = 0 /\ Len(unEvent'[c]) = 0 BY <1>b, <3>1
    <3> HIDE DEF NoEvent
    <3> QED BY <1>0, <2>1, <3>2 DEF Timed
  <2>4. CASE ~(c = d /\ Running("ProcessEvent"))
    <3>1. event'[c] = event[c] /\ (unEvent'[c] = <<>> \/ unEvent'[c] = unEvent[c])
      BY <1>0, <2>1, <2>4 DEF UnnotifiedTyped
    <3>2. CASE unEvent'[c] = <<>> BY <1>0, <1>b, <2>1, <3>1, <3>2 DEF Timed
    <3>3. CASE unEvent'[c] = unEvent[c] BY <1>0, <2>1, <3>1, <3>3 DEF Timed
    <3> QED BY <3>1, <3>2, <3>3
  <2> QED BY <2>3, <2>4
<1>4. CASE ProcessEvent
  <2> DEFINE d == Top.c
             ev == Top.ev
  <2>1. Top.fn = "ProcessEvent" /\ stack # <<>> BY <1>4 DEF ProcessEvent, Running
  <2>2. /\ UNCHANGED <<lastSeen, events>>
        /\ \/ UNCHANGED <<unEvent, event>>
           \/ /\ unEvent' = [unEvent EXCEPT ![d] = listeners[d]] /\ event' = [event EXCEPT ![d] = ev]
              /\ AcceptsDialog(ev.kind) \/ Top.at = "start"
    <3>1. UNCHANGED <<lastSeen, events>> BY <1>4 DEF ProcessEvent, bounds
    <3>2. Top.at = "dialog" => AcceptsDialog(ev.kind) BY <1>c, <2>1 DEF Placed
    <3> QED BY <1>4, <3>1, <3>2 DEF ProcessEvent, Announce
  <2>3. /\ d \in Clients /\ ev \in [number : Nat, kind : EventKinds] /\ ev.number \in Nat
        /\ ev.number <= events
        /\ Top.at = "start" => ev.number = events /\ \A l \in Listeners : lastSeen[c][l] < events
    BY <1>c, <2>1 DEF Dated
  <2> HIDE DEF d, ev
  <2>4. CASE UNCHANGED <<unEvent, event>> BY <1>0, <2>2, <2>4 DEF Timed
  <2>5. CASE /\ unEvent' = [unEvent EXCEPT ![d] = listeners[d]] /\ event' = [event EXCEPT ![d] = ev]
             /\ AcceptsDialog(ev.kind) \/ Top.at = "start"
    <3>1. CASE c # d
      <4>1. unEvent'[c] = unEvent[c] /\ event'[c] = event[c] BY <1>0, <2>5, <3>1 DEF UnnotifiedTyped
      <4> QED BY <1>0, <2>2, <4>1 DEF Timed
    <3>2. CASE c = d
      <4>1. unEvent'[c] = listeners[c] /\ event'[c] = ev BY <1>0, <2>5, <3>2 DEF UnnotifiedTyped
      <4>2. \A i \in 1..Len(listeners[c]) : listeners[c][i] \in Listeners
        <5>1. listeners[c] \in Seq(Listeners) BY DEF Typed, ClientsTyped
        <5> QED BY <5>1
      <4>3. ~AcceptsDialog(ev.kind) =>
              \A i \in 1..Len(listeners[c]) : ev.number > lastSeen[c][listeners[c][i]]
        <5> SUFFICES ASSUME ~AcceptsDialog(ev.kind), NEW i \in 1..Len(listeners[c])
                     PROVE  ev.number > lastSeen[c][listeners[c][i]]
          OBVIOUS
        <5>1. listeners[c][i] \in Listeners /\ ev.number = events BY <2>3, <2>5, <4>2
        <5>2. lastSeen[c][listeners[c][i]] < events BY <2>3, <2>5, <5>1
        <5>3. lastSeen[c][listeners[c][i]] \in Nat BY <1>0, <5>1
        <5> QED BY <1>0, <5>1, <5>2, <5>3
      <4>4. \A l \in Listeners : lastSeen[c][l] <= events BY <1>0 DEF Timed
      <4> QED BY <2>2, <2>3, <4>1, <4>3, <4>4 DEF Timed
    <3> QED BY <3>1, <3>2
  <2> QED BY <2>2, <2>4, <2>5
<1>5. CASE EventNotified
  <2> DEFINE d == Top.c
  <2>1. /\ event' = [event EXCEPT ![d] = NoEvent] /\ unEvent[d] = <<>>
        /\ UNCHANGED <<unEvent, lastSeen, events>>
    BY <1>5 DEF EventNotified, bounds
  <2> HIDE DEF d
  <2>2. CASE c = d
    <3>1. Len(unEvent'[c]) = 0 /\ event'[c] = NoEvent BY <1>0, <1>b, <2>1, <2>2 DEF UnnotifiedTyped
    <3>2. event'[c].number = 0 BY <1>b, <3>1
    <3> HIDE DEF NoEvent
    <3> QED BY <1>0, <2>1, <3>1, <3>2 DEF Timed
  <2>3. CASE c # d
    <3>1. event'[c] = event[c] BY <1>0, <2>1, <2>3 DEF UnnotifiedTyped
    <3> QED BY <1>0, <2>1, <3>1 DEF Timed
  <2> QED BY <2>2, <2>3
<1>6. CASE BeginGetFedCmTracker
  <2>1. UNCHANGED <<unEvent, event, lastSeen, events>>
    BY <1>6 DEF BeginGetFedCmTracker, Spend, unnotified, history
  <2> QED BY <1>0, <2>1 DEF Timed
<1>7. ASSUME NEW d \in Clients, NEW kind \in EventKinds, ReceiveEvent(d, kind) PROVE Timed(c)'
  <2>1. UNCHANGED <<unEvent, event, lastSeen>> /\ events' = events + 1
    BY <1>7 DEF ReceiveEvent, unnotified, history
  <2>2. event[c].number <= events + 1 BY <1>0, <1>a DEF Timed
  <2>3. ASSUME NEW l \in Listeners PROVE lastSeen[c][l] <= events + 1
    <3>1. lastSeen[c][l] \in Nat /\ lastSeen[c][l] <= events BY <1>0 DEF Timed
    <3> QED BY <1>0, <3>1
  <2> QED BY <1>0, <2>1, <2>2, <2>3 DEF Timed
<1> QED BY <1>0, <1>1, <1>2, <1>3, <1>4, <1>5, <1>6, <1>7 DEF Hears

\* A listener of c that is told of the connection sends its commands to c.
LEMMA SendTells ==
  ASSUME Typed, NEW st \in Seq(ActivationRecord), NEW c \in Clients, Connecting(st, c), SendCommand(st, c)
  PROVE  Connecting(stack', c)
<1> DEFINE x == [Activation("SendCommand", c) EXCEPT !.id = nextId]
<1>1. /\ x \in ActivationRecord /\ x.fn = "SendCommand" /\ x.c = c
      /\ stack' = Append(st, x) \/ stack' = st
  BY SendFacts DEF Typed
<1> HIDE DEF x
<1>2. Telling(x, c) BY <1>1 DEF Telling
<1> QED BY <1>1, <1>2, ConnectingPush

\* So does a listener that goes on.
LEMMA ListenerTells ==
  ASSUME Typed, NEW st \in Seq(ActivationRecord), NEW c \in Clients, NEW l \in Listeners, NEW kind,
         Connecting(st, c), ListenerSends(st, "OnConnected", l, c, kind)
  PROVE  Connecting(stack', c)
<1> DEFINE y == [Activation("OnConnected", c) EXCEPT !.l = l]
<1>1. "OnConnected" \in Functions BY DEF Functions
<1>2. /\ y \in ActivationRecord /\ y.fn = "OnConnected" /\ y.c = c
      /\ Append(st, y) \in Seq(ActivationRecord)
      /\ \E target \in SendTargets("OnConnected", l, c, kind) \cap Clients :
           SendCommand(Append(st, y), target)
  BY <1>1, ListenerSendFacts
<1> HIDE DEF y
<1>3. SendTargets("OnConnected", l, c, kind) \subseteq {c} BY DEF SendTargets
<1>4. SendCommand(Append(st, y), c) BY <1>2, <1>3
<1>5. Telling(y, c) BY <1>2 DEF Telling
<1>6. Connecting(Append(st, y), c) BY <1>2, <1>5, ConnectingPush
<1> QED BY <1>2, <1>4, <1>6, SendTells

\* Until its listeners know of the connection, nothing else happens to a client.
LEMMA ConnectingStep ==
  ASSUME Typed, Chain, Next, NEW c \in Clients, Connecting(stack, c), unConnect[c] # <<>>,
         c \notin failed', ~died'
  PROVE  Connecting(stack', c)
<1> DEFINE G == Connecting(stack', c)
<1>0. /\ StackTyped /\ CommandsTyped /\ UnnotifiedTyped /\ stack \in Seq(ActivationRecord)
  BY DEF Typed, StackTyped
<1>1. stack # <<>> /\ (Attaching(Top, c) \/ Telling(Top, c)) BY <1>0, ConnectingTop DEF Top
<1>2. /\ Top \in ActivationRecord /\ Top.id \in Nat /\ Below \in Seq(ActivationRecord) /\ Placed(Top)
  <2>1. Len(stack) \in 1..Len(stack) BY <1>0, <1>1, Popped
  <2> QED BY <1>0, <1>1, <2>1, TopFacts DEF Chain, Sound, Top
<1>3. /\ Top.c = c /\ Top.at \in {"start", "connect"}
      /\ \/ Top.fn = "AttachTo" /\ Top.at = "connect"
         \/ Top.fn \in {"OnConnected", "SendCommand", "ProcessNextMessage"}
      /\ Top.fn \in {"OnConnected", "SendCommand"} => Top.at = "start"
  BY <1>1, <1>2 DEF Attaching, Telling, Processing, Placed
<1>4. Top.fn # "AttachTo" => Connecting(Below, c)
  BY <1>0, <1>1, ConnectingPop DEF Attaching, Top, Below
<1>5. ConnectPending(Top.c) BY <1>3 DEF ConnectPending
<1>a. \A s : Return(s) /\ Top.fn # "AttachTo" => G BY <1>4 DEF Return
<1>b. \A fn : Running(fn) => Top.fn = fn BY DEF Running
<1>6. ~Begin
  BY <1>1 DEF Begin, BeginSendCommand, SendCommandAndIgnoreResponse,
     BeginHandleEventsUntil, BeginHandleDialog, BeginAttachTo, BeginGetFedCmTracker, Idle
<1>7. ~(\/ EndGetFedCmTracker \/ HandleEventsUntil \/ HandleEventsEnds
        \/ ProcessCommandResponseReturns \/ ProcessEvent \/ EventNotified \/ RoundTripReturns
        \/ HandleDialog \/ DialogHandled)
  BY <1>3, <1>b DEF EndGetFedCmTracker, HandleEventsUntil, HandleEventsEnds,
    ProcessCommandResponseReturns, ProcessEvent, EventNotified, RoundTripReturns, HandleDialog,
    DialogHandled
<1>8. ~NotifiesEvent /\ ~NotifiesCommandResponse /\ ~AllNotified
  BY <1>3, <1>5, <1>b DEF NotifiesEvent, NotifiesCommandResponse, AllNotified
<1>9. ~(\/ EnsureListenersNotifiedOfEvent \/ EnsureListenersNotifiedOfCommandResponse \/ DeadPointer
        \/ SetUpDevTools \/ AttachToReturns \/ ProcessNextMessage \/ Receive \/ HandleMessageReturns)
  <2>1. ~Receive BY <1>8, ReceiveReceives DEF Receives
  <2> QED BY <1>3, <1>8, <1>b, <2>1 DEF EnsureListenersNotifiedOfEvent,
        EnsureListenersNotifiedOfCommandResponse, DeadPointer, SetUpDevTools, AttachToReturns,
        ProcessNextMessage, HandleMessageReturns
<1>10. ~NotificationFails BY <1>3 DEF NotificationFails
<1>11. CASE SendCommandFails
  <2>1. Top.fn = "SendCommand" /\ \E s : Return(s) BY <1>11, <1>b DEF SendCommandFails
  <2> QED BY <1>a, <2>1
<1>12. CASE SendCommandLoop
  <2> DEFINE x == [Activation("ProcessNextMessage", c) EXCEPT !.id = Top.id]
  <2>1. Top.fn = "SendCommand" BY <1>12, <1>b DEF SendCommandLoop
  <2>2. stack' = Append(stack, x) \/ \E s : Return(s) BY <1>3, <1>12 DEF SendCommandLoop, Call
  <2>3. x \in ActivationRecord /\ x.fn = "ProcessNextMessage" /\ x.c = c /\ x.at = "start"
    <3>1. NoEvent \in [number : Nat, kind : EventKinds] /\ "frame" \in Listeners
          /\ "ProcessNextMessage" \in Functions
      BY DEF NoEvent, EventKinds, Listeners, Functions
    <3>2. x.fn = "ProcessNextMessage" /\ x.c = c /\ x.at = "start" BY DEF Activation
    <3>3. x \in ActivationRecord BY <1>2, <3>1, Activated
    <3> QED BY <3>2, <3>3
  <2> HIDE DEF x
  <2>4. Telling(x, c) BY <2>3 DEF Telling, Processing
  <2>5. stack' = Append(stack, x) => G BY <1>0, <2>3, <2>4, ConnectingPush
  <2> QED BY <1>a, <2>1, <2>2, <2>5
<1>13. CASE EnsureListenersNotifiedOfConnect
  <2> DEFINE st == At("connect")
             r == [Top EXCEPT !.at = "connect"]
  <2>1. "connect" \in Places BY DEF Places
  <2>2. /\ r \in ActivationRecord /\ st = [stack EXCEPT ![Len(stack)] = r] /\ st \in Seq(ActivationRecord)
    BY <1>0, <1>1, <2>1, AtFacts
  <2>3. r.fn = Top.fn /\ r.c = Top.c /\ r.at = "connect" BY <1>2 DEF ActivationRecord
  <2>4. Top.fn \in {"ProcessNextMessage", "AttachTo"}
    BY <1>13, <1>b DEF EnsureListenersNotifiedOfConnect, NotifiesConnect
  <2>5. PICK n \in 1..Len(unConnect[c]) :
             \/ stack' = st
             \/ ListenerSends(st, "OnConnected", unConnect[c][n], c, "other")
             \/ SendCommand(Append(st, [Activation("OnConnected", c) EXCEPT !.l = "frame"]), c)
    BY <1>3, <1>13 DEF EnsureListenersNotifiedOfConnect
  <2> HIDE DEF r, st
  <2>6. (Attaching(Top, c) => Attaching(r, c)) /\ (Telling(Top, c) => Telling(r, c))
    BY <2>3, <2>4 DEF Attaching, Telling, Processing
  <2>7. Connecting(st, c) BY <1>0, <1>1, <2>2, <2>6, ConnectingMove DEF Top
  <2>8. unConnect[c][n] \in Listeners
    <3>1. unConnect[c] \in Seq(Listeners) BY <1>0 DEF UnnotifiedTyped
    <3> QED BY <3>1
  <2>9. CASE ListenerSends(st, "OnConnected", unConnect[c][n], c, "other")
    BY <2>2, <2>7, <2>8, <2>9, ListenerTells
  <2>10. CASE SendCommand(Append(st, [Activation("OnConnected", c) EXCEPT !.l = "frame"]), c)
    <3> DEFINE y == [Activation("OnConnected", c) EXCEPT !.l = "frame"]
    <3>1. NoEvent \in [number : Nat, kind : EventKinds] /\ "frame" \in Listeners /\ 0 \in Nat
          /\ "OnConnected" \in Functions
      BY DEF NoEvent, EventKinds, Listeners, Functions
    <3>2. y.fn = "OnConnected" /\ y.c = c BY DEF Activation
    <3>3. y \in ActivationRecord BY <3>1, Activated
    <3>4. SendCommand(Append(st, y), c) BY <2>10
    <3> HIDE DEF y
    <3>5. Telling(y, c) BY <3>2 DEF Telling
    <3>6. Connecting(Append(st, y), c) /\ Append(st, y) \in Seq(ActivationRecord)
      BY <2>2, <2>7, <3>3, <3>5, ConnectingPush, Pushed
    <3> QED BY <3>4, <3>6, SendTells
  <2> QED BY <2>5, <2>7, <2>9, <2>10
<1>14. CASE ListenerContinues
  <2>1. Top.fn = "OnConnected" BY <1>3, <1>14, <1>b DEF ListenerContinues, InListener
  <2>2. Connecting(Below, c) BY <1>4, <2>1
  <2>3. ListenerSends(Below, "OnConnected", Top.l, c, "other") \/ \E s : Return(s)
    BY <1>3, <1>14, <2>1 DEF ListenerContinues
  <2>4. CASE ListenerSends(Below, "OnConnected", Top.l, c, "other")
    <3>1. Top.l \in Listeners
      <4>1. SUFFICES ASSUME Top.l \notin Listeners PROVE FALSE OBVIOUS
      <4>2. SendTargets("OnConnected", Top.l, c, "other") = {} BY <4>1 DEF SendTargets, Listeners
      <4> QED BY <2>4, <4>2 DEF ListenerSends
    <3> QED BY <1>2, <2>2, <2>4, <3>1, ListenerTells
  <2> QED BY <1>a, <2>1, <2>3, <2>4
<1> QED BY <1>6, <1>7, <1>9, <1>10, <1>11, <1>12, <1>13, <1>14 DEF Next, Step

\* Who registers a client, and who tells listeners of the connection.
LEMMA UnconnectedStep ==
  ASSUME Typed, Next
  PROVE  /\ SetUpDevTools \/ attached' = attached
         /\ EnsureListenersNotifiedOfConnect \/ unConnect' = unConnect
<1> DEFINE G == /\ SetUpDevTools \/ attached' = attached
                /\ EnsureListenersNotifiedOfConnect \/ unConnect' = unConnect
<1>1. CASE Begin
  BY <1>1 DEF Begin, BeginSendCommand, SendCommandAndIgnoreResponse, BeginHandleEventsUntil,
    BeginHandleDialog, BeginAttachTo, BeginGetFedCmTracker, clientVars, unnotified
<1>2. CASE \/ SendCommandFails \/ SendCommandLoop \/ HandleEventsUntil \/ HandleEventsEnds
           \/ DeadPointer \/ AttachToReturns \/ ProcessNextMessage \/ HandleMessageReturns
           \/ ProcessCommandResponseReturns \/ RoundTripReturns \/ HandleDialog \/ DialogHandled
           \/ EndGetFedCmTracker \/ SetUpDevTools \/ ListenerContinues
  BY <1>2 DEF SendCommandFails, SendCommandLoop, HandleEventsUntil, HandleEventsEnds,
    DeadPointer, AttachToReturns, ProcessNextMessage, HandleMessageReturns,
    ProcessCommandResponseReturns, RoundTripReturns, HandleDialog, DialogHandled,
    EndGetFedCmTracker, SetUpDevTools, ListenerContinues, clientVars, unnotified
<1>3. CASE EnsureListenersNotifiedOfConnect BY <1>3 DEF EnsureListenersNotifiedOfConnect, clientVars
<1>4. CASE EnsureListenersNotifiedOfEvent BY <1>4 DEF EnsureListenersNotifiedOfEvent
<1>5. CASE EnsureListenersNotifiedOfCommandResponse
  BY <1>5 DEF EnsureListenersNotifiedOfCommandResponse, clientVars
<1>6. CASE NotificationFails \/ ProcessEvent \/ EventNotified
  BY <1>6 DEF NotificationFails, ProcessEvent, EventNotified, clientVars
<1>7. CASE Receive
  <2>1. ReceiveFails => G BY DEF ReceiveFails, clientVars, unnotified
  <2>2. ASSUME NEW c \in Clients, NEW kind \in EventKinds, ReceiveEvent(c, kind) PROVE G
    BY <2>2 DEF ReceiveEvent, clientVars, unnotified
  <2>3. ASSUME NEW id \in DOMAIN commands, NEW ok \in BOOLEAN, ReceiveResponse(id, ok) PROVE G
    BY <2>3 DEF ReceiveResponse, clientVars
  <2>4. ASSUME NEW id \in DOMAIN commands, ReceiveOrphanResponse(id) PROVE G
    BY <2>4 DEF ReceiveOrphanResponse, clientVars, unnotified
  <2> QED BY <1>7, <2>1, <2>2, <2>3, <2>4 DEF Receive
<1> QED BY <1>1, <1>2, <1>3, <1>4, <1>5, <1>6, <1>7 DEF Next, Step

\* The client that SetUpDevTools registers is being connected.
LEMMA ToldStep ==
  ASSUME Typed, Chain, Blocking, InOrder, Next, NEW c \in Clients
  PROVE  Told(c)'
<1> SUFFICES ASSUME c \in attached', c \notin failed', unConnect'[c] # <<>>, ~died'
             PROVE  Connecting(stack', c)
  BY DEF Told
<1>0. StackTyped /\ UnnotifiedTyped /\ ClientsTyped BY DEF Typed
<1>1. failed \subseteq failed' /\ ~died BY HistoryStep, AliveStep
<1>2. unConnect[c] # <<>>
  <2>1. CASE EnsureListenersNotifiedOfConnect
    BY <1>0, <2>1 DEF EnsureListenersNotifiedOfConnect, UnnotifiedTyped
  <2>2. CASE ~EnsureListenersNotifiedOfConnect
    <3>1. unConnect' = unConnect BY <2>2, UnconnectedStep
    <3> QED BY <3>1
  <2> QED BY <2>1, <2>2
<1>3. CASE c \in attached
  <2>1. Connecting(stack, c) BY <1>1, <1>2, <1>3 DEF InOrder, Told
  <2> QED BY <1>2, <2>1, ConnectingStep
<1>4. CASE c \notin attached
  <2>1. SetUpDevTools
    BY <1>4, UnconnectedStep
  <2>2. Running("AttachTo") /\ c = Top.c /\ stack' = At("connect")
    BY <1>4, <2>1 DEF SetUpDevTools
  <2>3. stack # <<>> /\ Top.fn = "AttachTo" BY <2>2 DEF Running
  <2> DEFINE st == At("connect")
             r == [Top EXCEPT !.at = "connect"]
             n == Len(stack)
  <2>4. "connect" \in Places BY DEF Places
  <2>5. Top \in ActivationRecord /\ n \in Nat \ {0} /\ st[n] = r /\ Len(st) = n
    BY <1>0, <2>3, <2>4, AtFacts, TopFacts, Popped DEF StackTyped
  <2>6. r.fn = "AttachTo" /\ r.c = c /\ r.at = "connect" BY <2>2, <2>3, <2>5 DEF ActivationRecord
  <2> HIDE DEF st, r, n
  <2>7. Attaching(st[n], c) /\ n \in 1..Len(st) /\ (n + 1)..Len(st) = {} BY <2>5, <2>6 DEF Attaching
  <2>8. Connecting(st, c) BY <2>7 DEF Connecting
  <2> QED BY <2>2, <2>8 DEF st
<1> QED BY <1>3, <1>4

\* The order of what listeners hear is an invariant.
LEMMA InOrderInvariant == Spec => []InOrder
<1>1. Init => InOrder
  <2> SUFFICES ASSUME Init PROVE InOrder OBVIOUS
  <2>1. Distinct(<<>>) /\ Distinct(<<"frame", "override", "navigation">>) BY DEF Distinct
  <2>2. \A c \in Clients : Distinct(listeners[c]) /\ Distinct(unEvent[c])
    BY <2>1 DEF Init, InitialListeners
  <2>3. \A i \in 1..Len(<<"frame", "override", "navigation">>) :
          <<"frame", "override", "navigation">>[i] # "fedcm"
    OBVIOUS
  <2>4. listeners[Page] = <<"frame", "override", "navigation">>
    BY ClientsAssumption DEF Init, InitialListeners, Clients
  <2>5. Listed BY <2>2, <2>3, <2>4 DEF Listed
  <2>6. ASSUME NEW c \in Clients PROVE Timed(c)
    <3>1. unEvent[c] = <<>> /\ event[c].number = 0 /\ events = 0 /\ \A l \in Listeners : lastSeen[c][l] = 0
      BY DEF Init, NoEvent
    <3> QED BY <3>1 DEF Timed
  <2>7. ASSUME NEW c \in Clients PROVE Told(c) BY DEF Init, Told, InitialListeners
  <2>8. \A i \in 1..Len(stack) : Dated(stack[i]) BY DEF Init
  <2> QED BY <2>5, <2>6, <2>7, <2>8 DEF InOrder
<1>2. Typed /\ Chain /\ Blocking /\ InOrder /\ [Next]_vars => InOrder'
  <2> SUFFICES ASSUME Typed, Chain, Blocking, InOrder, [Next]_vars PROVE InOrder' OBVIOUS
  <2>1. CASE UNCHANGED vars
    BY <2>1 DEF vars, clientVars, unnotified, bounds, history, InOrder, Listed, Timed, Told, Dated
  <2>2. CASE Next
    <3>1. Listed' BY <2>2, ListedStep DEF InOrder
    <3>2. ASSUME NEW c \in Clients PROVE Timed(c)' /\ Told(c)' BY <2>2, TimedStep, ToldStep
    <3>3. \A i \in 1..Len(stack') : Dated(stack[i])' BY <2>2, DatedStep
    <3> QED BY <3>1, <3>2, <3>3 DEF InOrder
  <2> QED BY <2>1, <2>2
<1> QED BY <1>1, <1>2, TypedInvariant, ChainInvariant, BlockingInvariant, PTL DEF Spec

\* ListenersHearInOrder: a listener is told of the connection of its client first and of the events
\* in the order in which they came, whatever is processed inside the commands of the others.
THEOREM HearInOrder == Spec => []ListenersHearInOrder
<1>1. ASSUME Typed, Chain, Blocking, InOrder PROVE ListenersHearInOrder
  <2>1. ASSUME NotifiesEvent PROVE stack # <<>> /\ Top.c \in Clients /\ Top \in ActivationRecord
    <3>1. stack # <<>> BY <2>1 DEF NotifiesEvent, Running
    <3> QED BY <1>1, <3>1, TopFacts DEF Typed
  <2>2. EventsInOrder BY <1>1, <2>1 DEF EventsInOrder, InOrder, Timed
  <2>3. ASSUME NotifiesEvent, Top.c \notin failed, unConnect[Top.c] # <<>> PROVE FALSE
    <3>1. Top.fn = "ProcessEvent" BY <2>3 DEF NotifiesEvent, ConnectPending, Running
    <3>2. Len(stack) \in 1..Len(stack) /\ stack \in Seq(ActivationRecord)
      BY <1>1, <2>1, <2>3, Popped DEF Typed, StackTyped
    <3>3. Top.c \in attached BY <1>1, <3>1, <3>2 DEF InOrder, Dated, Top
    <3>4. ~died BY <1>1, <2>1, <2>3 DEF Blocking
    <3>5. Connecting(stack, Top.c) BY <1>1, <2>1, <2>3, <3>3, <3>4 DEF InOrder, Told
    <3>6. Attaching(Top, Top.c) \/ Telling(Top, Top.c) BY <3>2, <3>5, ConnectingTop DEF Top
    <3> QED BY <3>1, <3>6 DEF Attaching, Telling, Processing
  <2>4. ConnectedBeforeEvents BY <2>3 DEF ConnectedBeforeEvents
  <2> QED BY <2>2, <2>4 DEF ListenersHearInOrder
<1> QED BY <1>1, TypedInvariant, ChainInvariant, BlockingInvariant, InOrderInvariant, PTL
==============================================================================
