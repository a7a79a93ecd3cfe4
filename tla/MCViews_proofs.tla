--------------------------- MODULE MCViews_proofs ----------------------------
(***************************************************************************)
(* The views of a session and the cookies of their pages: WebViews and     *)
(* Cookies, as parts of MCServices, for all targets and every value of     *)
(* the bounds.  The variables of WebViews are                              *)
(*   s1 open, s2 session, s3 ready, s4 lastSession, s5 shown, s6 closed,   *)
(*   s7 events, s8 view, s9 active, s10 locked, s11 detached, s12 stack,   *)
(*   s13 ignored.                                                          *)
(***************************************************************************)
EXTENDS MCServices, QueueLemmas, TLAPS

\* No step moves to another component.
LEMMA PartStays ==
  ASSUME [Next]_vars
  PROVE  part' = part
<1>1. CASE Next
  BY <1>1 DEF Next, RoutingStep, ServerStep, ViewsStep, InputStep, NavStep, ElementsStep,
     CapsStep, LaunchStep, DevicesStep, WindowsStep, OverridesStep, CookiesStep, FedCmStep,
     LogsStep, ReplayStep
<1>2. CASE UNCHANGED vars BY <1>2 DEF vars
<1> QED BY <1>1, <1>2
-----------------------------------------------------------------------------
(* Targets and their parents.                                              *)

\* y is x or a parent of it.
Above(x, y) == \E i \in DOMAIN Views!Chain(x) : Views!Chain(x)[i] = y

\* A chain begins with the target and ends with its tab, and what is above one of its elements
\* comes after it.
LEMMA ChainFacts ==
  ASSUME NEW x \in Views!Targets
  PROVE  /\ Views!Chain(x) \in Seq(Views!Targets) /\ Len(Views!Chain(x)) \in Nat \ {0}
         /\ DOMAIN Views!Chain(x) = 1..Len(Views!Chain(x)) /\ Views!Chain(x)[1] = x
         /\ \A i \in DOMAIN Views!Chain(x) : Views!Chain(x)[i] \in ViewTabs <=> i = Len(Views!Chain(x))
         /\ \A i, j \in DOMAIN Views!Chain(x) : i <= j => Above(Views!Chain(x)[i], Views!Chain(x)[j])
         /\ \A i \in DOMAIN Views!Chain(x) : \A y : Above(Views!Chain(x)[i], y)
              => \E j \in DOMAIN Views!Chain(x) : i <= j /\ Views!Chain(x)[j] = y
         /\ x \notin ViewTabs => Views!Parent(x) \in Views!Targets /\ Above(x, Views!Parent(x))
         /\ Len(Views!Chain(x)) <= 4
         /\ \A i \in 1..(Len(Views!Chain(x)) - 1) : Views!Chain(x)[i + 1] = Views!Parent(Views!Chain(x)[i])
<1>1. /\ \A t \in ViewTabs : t \in Views!Targets /\ Views!Chain(t) = <<t>>
      /\ \A y \in Views!Targets : y \notin ViewTabs => Views!Parent(y) = ParentOf[y] /\ Views!Parent(y) \in Views!Targets
  BY TargetsAreTrees DEF Views!Targets, Views!Chain, Views!Parent
<1>2. CASE x \in ViewTabs
  <2>1. Views!Chain(x) = <<x>> BY <1>1, <1>2
  <2> QED BY <1>2, <2>1 DEF Above
<1>3. CASE x \notin ViewTabs /\ Views!Parent(x) \in ViewTabs
  <2> DEFINE a == Views!Parent(x)
  <2>1. a \in ViewTabs /\ a \in Views!Targets /\ Views!Chain(a) = <<a>> BY <1>1, <1>3
  <2>2. Views!Chain(x) = <<x, a>> BY <1>3 DEF Views!Chain
  <2> HIDE DEF a
  <2>3. Above(x, a) BY <2>2 DEF Above
  <2> QED BY <1>3, <2>1, <2>2, <2>3 DEF Above, a
<1>4. CASE x \notin ViewTabs /\ Views!Parent(x) \notin ViewTabs /\ Views!Parent(Views!Parent(x)) \in ViewTabs
  <2> DEFINE a == Views!Parent(x)
             b == Views!Parent(a)
  <2>1. b \in ViewTabs /\ b \in Views!Targets /\ a \in Views!Targets /\ a \notin ViewTabs /\ Views!Chain(b) = <<b>>
    BY <1>1, <1>4
  <2>2. Views!Chain(x) = <<x, a, b>> /\ Views!Chain(a) = <<a, b>> BY <1>4 DEF Views!Chain
  <2>3. a = Views!Parent(x) /\ b = Views!Parent(a) OBVIOUS
  <2> HIDE DEF a, b
  <2>4. Above(x, a) BY <2>2 DEF Above
  <2>5. \A i, j \in DOMAIN Views!Chain(x) : i <= j => Above(Views!Chain(x)[i], Views!Chain(x)[j])
    BY <2>1, <2>2 DEF Above
  <2>6. \A i \in DOMAIN Views!Chain(x) : \A y : Above(Views!Chain(x)[i], y)
              => \E j \in DOMAIN Views!Chain(x) : i <= j /\ Views!Chain(x)[j] = y
    BY <2>1, <2>2 DEF Above
  <2> QED BY <1>4, <2>1, <2>2, <2>3, <2>4, <2>5, <2>6
<1>5. CASE x \notin ViewTabs /\ Views!Parent(x) \notin ViewTabs /\ Views!Parent(Views!Parent(x)) \notin ViewTabs
  <2> DEFINE a == Views!Parent(x)
             b == Views!Parent(a)
             c == Views!Parent(b)
  <2>1. b \notin ViewTabs /\ b \in Views!Targets /\ a \in Views!Targets /\ a \notin ViewTabs
    BY <1>1, <1>5
  <2>2. c \in ViewTabs
    <3>1. x \in ViewFrames BY <1>5, TargetsAreTrees DEF Views!Targets, Views!Parent
    <3>2. a \in ViewFrames BY <1>5, <2>1, TargetsAreTrees DEF Views!Targets, Views!Parent
    <3>3. b = ParentOf[a] /\ a = ParentOf[x] BY <1>1, <1>5, <2>1
    <3>4. b \in ViewPages BY <3>1, <3>2, <3>3, TargetsAreTrees
    <3> QED BY <3>4, <2>1, TargetsAreTrees DEF Views!Parent
  <2>3. c \in Views!Targets /\ Views!Chain(c) = <<c>> BY <1>1, <2>2
  <2>4. Views!Chain(x) = <<x, a, b, c>> /\ Views!Chain(a) = <<a, b, c>> /\ Views!Chain(b) = <<b, c>>
    BY <1>5, <2>1, <2>2 DEF Views!Chain
  <2>5. a = Views!Parent(x) /\ b = Views!Parent(a) /\ c = Views!Parent(b) OBVIOUS
  <2> HIDE DEF a, b, c
  <2>6. Above(x, a) BY <2>4 DEF Above
  <2>7. \A i, j \in DOMAIN Views!Chain(x) : i <= j => Above(Views!Chain(x)[i], Views!Chain(x)[j])
    <3>1. Above(x, x) /\ Above(x, a) /\ Above(x, b) /\ Above(x, c) BY <2>4 DEF Above
    <3>2. Above(a, a) /\ Above(a, b) /\ Above(a, c) BY <2>4 DEF Above
    <3>3. Above(b, b) /\ Above(b, c) /\ Above(c, c) BY <2>4, <2>3 DEF Above
    <3> QED BY <2>4, <3>1, <3>2, <3>3
  <2>8. \A i \in DOMAIN Views!Chain(x) : \A y : Above(Views!Chain(x)[i], y)
              => \E j \in DOMAIN Views!Chain(x) : i <= j /\ Views!Chain(x)[j] = y
    <3>1. \A y : Above(x, y) => y \in {x, a, b, c} BY <2>4 DEF Above
    <3>2. \A y : Above(a, y) => y \in {a, b, c} BY <2>4 DEF Above
    <3>3. \A y : (Above(b, y) => y \in {b, c}) /\ (Above(c, y) => y = c)
      BY <2>3, <2>4 DEF Above
    <3> QED BY <2>4, <3>1, <3>2, <3>3
  <2> QED BY <1>5, <2>1, <2>2, <2>3, <2>4, <2>5, <2>6, <2>7, <2>8
<1> QED BY <1>2, <1>3, <1>4, <1>5

\* The parents of a target that has a view have views.
LEMMA ChainOwned ==
  ASSUME NEW vw, Views!Owned(vw), NEW x \in Views!Targets, vw[x] # 0
  PROVE  \A i \in DOMAIN Views!Chain(x) : vw[Views!Chain(x)[i]] # 0
<1>1. /\ Views!Chain(x) \in Seq(Views!Targets) /\ Len(Views!Chain(x)) \in Nat \ {0} /\ Len(Views!Chain(x)) <= 4
      /\ DOMAIN Views!Chain(x) = 1..Len(Views!Chain(x)) /\ Views!Chain(x)[1] = x
      /\ \A i \in DOMAIN Views!Chain(x) : Views!Chain(x)[i] \in ViewTabs <=> i = Len(Views!Chain(x))
      /\ \A i \in 1..(Len(Views!Chain(x)) - 1) : Views!Chain(x)[i + 1] = Views!Parent(Views!Chain(x)[i])
  BY ChainFacts
<1> DEFINE c == Views!Chain(x)
           n == Len(c)
<1>a. n \in 1..4 /\ DOMAIN c = 1..n /\ c[1] = x /\ c \in Seq(Views!Targets) BY <1>1
<1>b. \A i \in 1..n : c[i] \in Views!Targets BY <1>1
<1>c. \A i \in 1..n : c[i] \in ViewTabs <=> i = n BY <1>1
<1>d. \A i \in 1..(n - 1) : c[i + 1] = Views!Parent(c[i]) BY <1>1
<1> HIDE DEF c, n
<1>2. ASSUME NEW i \in 1..(n - 1), vw[c[i]] # 0 PROVE vw[c[i + 1]] # 0
  <2>1. i \in 1..n /\ i # n BY <1>a
  <2>2. c[i] \in Views!Targets /\ c[i] \notin ViewTabs BY <1>b, <1>c, <2>1
  <2> QED BY <1>d, <1>2, <2>2 DEF Views!Owned
<1>3. vw[c[1]] # 0 BY <1>a
<1>4. n >= 2 => vw[c[2]] # 0
  <2>1. n >= 2 => 1 \in 1..(n - 1) BY <1>a
  <2> QED BY <1>2, <1>3, <2>1
<1>5. n >= 3 => vw[c[3]] # 0
  <2>1. n >= 3 => n >= 2 /\ 2 \in 1..(n - 1) BY <1>a
  <2> QED BY <1>2, <1>4, <2>1
<1>6. n >= 4 => vw[c[4]] # 0
  <2>1. n >= 4 => n >= 3 /\ 3 \in 1..(n - 1) BY <1>a
  <2> QED BY <1>2, <1>5, <2>1
<1>7. \A i \in 1..n : i = 1 \/ (i = 2 /\ n >= 2) \/ (i = 3 /\ n >= 3) \/ (i = 4 /\ n >= 4)
  BY <1>a
<1>8. \A i \in 1..n : vw[c[i]] # 0 BY <1>3, <1>4, <1>5, <1>6, <1>7
<1> QED BY <1>8, <1>a DEF c

-----------------------------------------------------------------------------
(* The stack of calls.                                                     *)

\* What a call holds: with a view, those of its parents.
LEMMA HeldFacts ==
  ASSUME NEW call \in Views!Calls, NEW vw, Views!Holds(call, vw)
  PROVE  /\ \A v \in Views!Held(call) : \E j \in DOMAIN call.items : v = call.items[j].view
         /\ \A j \in DOMAIN call.items :
              /\ call.items[j] \in Views!HeldItems /\ call.items[j].view \in Views!Held(call)
              /\ vw[call.items[j].on] = call.items[j].view
         /\ \A j \in DOMAIN call.items : \A y : Above(call.items[j].on, y) => vw[y] \in Views!Held(call)
<1>1. \A j \in DOMAIN call.items : call.items[j] \in Views!HeldItems BY DEF Views!Calls
<1>2. \A j \in DOMAIN call.items : call.items[j].view \in Views!Held(call) BY DEF Views!Held, Views!LockedBy
<1>3. \A v \in Views!Held(call) : \E j \in DOMAIN call.items : v = call.items[j].view
  BY DEF Views!Held, Views!LockedBy
<1>4. CASE ~call.held
  <2>1. DOMAIN call.items = {} BY <1>4 DEF Views!Holds
  <2> QED BY <2>1, <1>3
<1>5. CASE call.held
  <2>1. /\ call.on \in Views!Targets /\ DOMAIN call.items = DOMAIN Views!Chain(call.on)
        /\ \A j \in DOMAIN call.items :
             call.items[j].on = Views!Chain(call.on)[j] /\ vw[call.items[j].on] = call.items[j].view
    BY <1>5 DEF Views!Holds
  <2>2. ASSUME NEW j \in DOMAIN call.items, NEW y, Above(call.items[j].on, y)
        PROVE  vw[y] \in Views!Held(call)
    <3>1. Above(Views!Chain(call.on)[j], y) BY <2>1, <2>2
    <3>2. PICK i \in DOMAIN Views!Chain(call.on) : Views!Chain(call.on)[i] = y BY <2>1, <3>1, ChainFacts
    <3>3. vw[y] = call.items[i].view BY <2>1, <3>2
    <3> QED BY <1>2, <2>1, <3>3
  <2> QED BY <1>1, <1>2, <1>3, <2>1, <2>2
<1> QED BY <1>4, <1>5

\* A call begins, while views may be added.
LEMMA Pushed ==
  ASSUME NEW st \in Seq(Views!Calls), NEW vw, NEW new \in [Views!Targets -> Nat], NEW lk, NEW call \in Views!Calls,
         \A x \in Views!Targets : vw[x] # 0 => new[x] = vw[x], Views!Distinct(new),
         Views!Holders(st, vw), Views!Nested(st), Views!Locks(st, vw, lk),
         Views!Holds(call, new), Views!Placed(call), Views!Outermost(call) => st = <<>>,
         \A j \in DOMAIN call.items : call.items[j].was <=> call.items[j].view \in lk
  PROVE  /\ Append(st, call) \in Seq(Views!Calls) /\ Views!Holders(Append(st, call), new)
         /\ Views!Nested(Append(st, call)) /\ Views!Locks(Append(st, call), new, lk \cup Views!Held(call))
<1> DEFINE up == Append(st, call)
           n == Len(st)
<1>1. /\ up \in Seq(Views!Calls) /\ n \in Nat /\ Len(up) = n + 1 /\ up[n + 1] = call
      /\ \A i \in 1..n : up[i] = st[i]
  BY AppendFacts
<1>2. \A i \in 1..(n + 1) : i \in 1..n \/ i = n + 1 BY <1>1
<1>3. \A i \in 1..(n + 1) : up[i] \in Views!Calls BY <1>1
<1> HIDE DEF up, n
<1>4. ASSUME NEW i \in 1..n PROVE Views!Holds(st[i], new)
  <2>1. Views!Holds(st[i], vw) /\ st[i] \in Views!Calls BY <1>4, <1>1 DEF Views!Holders, n
  <2>2. \A j \in DOMAIN st[i].items :
          st[i].items[j] \in Views!HeldItems /\ vw[st[i].items[j].on] = st[i].items[j].view
    BY <2>1, HeldFacts
  <2>3. \A j \in DOMAIN st[i].items : new[st[i].items[j].on] = st[i].items[j].view
    BY <2>2 DEF Views!HeldItems
  <2> QED BY <2>1, <2>3 DEF Views!Holds
<1>5. Views!Holders(up, new)
  <2>1. ASSUME NEW i \in 1..n PROVE Views!Holds(up[i], new) /\ Views!Placed(up[i]) /\ (Views!Outermost(up[i]) => i = 1)
    BY <1>1, <1>4, <2>1 DEF Views!Holders, n
  <2>2. Views!Outermost(call) => n = 0 BY DEF n
  <2> QED BY <1>1, <1>2, <2>1, <2>2 DEF Views!Holders
<1>6. Views!Nested(up)
  <2>1. ASSUME NEW i \in 1..n, NEW j \in DOMAIN up[i].items
        PROVE  IF up[i].items[j].was
               THEN \/ up[i].items[j].on \in ViewTabs
                    \/ \E k \in 1..(i - 1) : up[i].items[j].view \in Views!Held(up[k])
               ELSE \A k \in 1..(i - 1) : up[i].items[j].view \notin Views!Held(up[k])
    <3>1. up[i] = st[i] /\ \A k \in 1..(i - 1) : up[k] = st[k] BY <1>1
    <3> QED BY <3>1 DEF Views!Nested, n
  <2>2. ASSUME NEW j \in DOMAIN call.items
        PROVE  IF call.items[j].was
               THEN \/ call.items[j].on \in ViewTabs
                    \/ \E k \in 1..n : call.items[j].view \in Views!Held(up[k])
               ELSE \A k \in 1..n : call.items[j].view \notin Views!Held(up[k])
    <3>1. \A k \in 1..n : Views!Held(up[k]) = Views!Held(st[k]) BY <1>1
    <3>2. CASE ~call.items[j].was BY <3>1, <3>2 DEF Views!Locks, n
    <3>3. CASE call.items[j].was
      <4>1. call.items[j].view \in lk BY <3>3
      <4>2. CASE \E k \in 1..Len(st) : call.items[j].view \in Views!Held(st[k])
        BY <3>1, <3>3, <4>2 DEF n
      <4>3. CASE \E t \in ViewTabs : vw[t] = call.items[j].view
        <5>1. PICK t \in ViewTabs : vw[t] = call.items[j].view BY <4>3
        <5>2. call.items[j] \in Views!HeldItems /\ new[call.items[j].on] = call.items[j].view
          BY HeldFacts
        <5>3. t \in Views!Targets BY DEF Views!Targets
        <5>4. new[t] = call.items[j].view /\ call.items[j].view # 0 /\ call.items[j].on \in Views!Targets
          BY <5>1, <5>2, <5>3 DEF Views!HeldItems
        <5>5. call.items[j].on = t BY <5>2, <5>3, <5>4 DEF Views!Distinct
        <5> QED BY <3>3, <5>5
      <4> QED BY <4>1, <4>2, <4>3 DEF Views!Locks
    <3> QED BY <3>2, <3>3
  <2>3. (n + 1) - 1 = n BY <1>1
  <2> QED BY <1>1, <1>2, <2>1, <2>2, <2>3 DEF Views!Nested
<1>7. Views!Locks(up, new, lk \cup Views!Held(call))
  <2>1. 0 \notin Views!Held(call)
    <3>1. \A j \in DOMAIN call.items : call.items[j] \in Views!HeldItems BY HeldFacts
    <3> QED BY <3>1, HeldFacts DEF Views!HeldItems
  <2>2. \A i \in 1..n : Views!Held(up[i]) \subseteq lk BY <1>1 DEF Views!Locks, n
  <2>3. ASSUME NEW v \in lk
        PROVE  (\E t \in ViewTabs : new[t] = v) \/ \E i \in 1..n : v \in Views!Held(up[i])
    <3>1. v # 0 BY DEF Views!Locks
    <3>2. \A t \in ViewTabs : vw[t] = v => new[t] = v BY <3>1 DEF Views!Targets
    <3>3. \A i \in 1..n : Views!Held(up[i]) = Views!Held(st[i]) BY <1>1
    <3> QED BY <3>2, <3>3 DEF Views!Locks, n
  <2> QED BY <1>1, <1>2, <2>1, <2>2, <2>3 DEF Views!Locks
<1> QED BY <1>1, <1>5, <1>6, <1>7 DEF up

\* The first event is taken.
LEMMA EventTaken ==
  ASSUME NEW q \in Seq(Views!Messages), q # <<>>
  PROVE  /\ Tail(q) \in Seq(Views!Messages) /\ Head(q) \in Views!Messages /\ Head(q) = q[1] /\ 1 \in 1..Len(q)
         /\ \A i \in 1..Len(Tail(q)) : \E j \in 1..Len(q) : j # 1 /\ Tail(q)[i] = q[j]
         /\ \A i, k \in 1..Len(Tail(q)) : \E j, m \in 1..Len(q) :
              Tail(q)[i] = q[j] /\ Tail(q)[k] = q[m] /\ (j = m => i = k)
<1>1. /\ Tail(q) \in Seq(Views!Messages) /\ Len(q) \in Nat \ {0} /\ Len(Tail(q)) = Len(q) - 1
      /\ \A i \in 1..Len(Tail(q)) : Tail(q)[i] = q[i + 1]
      /\ Head(q) = q[1] /\ Head(q) \in Views!Messages
  BY TailFacts
<1>2. \A i \in 1..Len(Tail(q)) : i + 1 \in 1..Len(q) /\ i + 1 # 1 BY <1>1
<1>3. \A i \in 1..Len(Tail(q)) : \E j \in 1..Len(q) : j # 1 /\ Tail(q)[i] = q[j]
  BY <1>1, <1>2
<1>4. ASSUME NEW i \in 1..Len(Tail(q)), NEW k \in 1..Len(Tail(q))
      PROVE  \E j, m \in 1..Len(q) : /\ Tail(q)[i] = q[j] /\ Tail(q)[k] = q[m]
                                     /\ (j = m => i = k)
  <2>1. i + 1 = k + 1 => i = k BY <1>1
  <2>2. /\ i + 1 \in 1..Len(q) /\ k + 1 \in 1..Len(q)
        /\ Tail(q)[i] = q[i + 1] /\ Tail(q)[k] = q[k + 1]
    BY <1>1, <1>2
  <2> QED BY <2>1, <2>2
<1>5. \A i, k \in 1..Len(Tail(q)) : \E j, m \in 1..Len(q) :
         Tail(q)[i] = q[j] /\ Tail(q)[k] = q[m] /\ (j = m => i = k)
  BY <1>4
<1>6. 1 \in 1..Len(q) BY <1>1
<1> HIDE <1>4
<1> QED BY ONLY <1>1, <1>3, <1>5, <1>6

\* Views are deleted and an event may be taken.
LEMMA FewerViews ==
  ASSUME Views!ViewsTyped, Views!OneView, UNCHANGED <<s2, s4>>, s12' \in Seq(Views!Calls),
         s7' = s7 \/ (s7 # <<>> /\ s7' = Tail(s7)),
         s9' \in [ViewTabs -> ViewPages \cup {None}], s8' \in [Views!Targets -> Nat],
         \A y \in Views!Targets : s8'[y] = 0 \/ s8'[y] = s8[y]
  PROVE  Views!ViewsTyped' /\ Views!OneView'
<1>3. s8 \in [Views!Targets -> Nat] /\ s7 \in Seq(Views!Messages) BY DEF Views!ViewsTyped
<1>6. /\ s7' \in Seq(Views!Messages)
      /\ \A i \in 1..Len(s7') : \E j \in 1..Len(s7) : s7'[i] = s7[j]
      /\ \A i, k \in 1..Len(s7') : \E j, m \in 1..Len(s7) :
           s7'[i] = s7[j] /\ s7'[k] = s7[m] /\ (j = m => i = k)
  <2>1. CASE s7' = s7 BY <1>3, <2>1
  <2>2. CASE s7 # <<>> /\ s7' = Tail(s7) BY <1>3, <2>2, EventTaken
  <2> QED BY <2>1, <2>2
<1>7. Views!ViewsTyped' BY <1>6 DEF Views!ViewsTyped
<1>8. Views!OneView'
  <2>1. Views!Distinct(s8') BY DEF Views!OneView, Views!Distinct
  <2>2. ASSUME NEW x \in Views!Targets PROVE s8'[x] <= s4'
    <3>1. s4 \in Nat /\ s4' = s4 BY DEF Views!ViewsTyped
    <3>2. s8[x] <= s4 BY DEF Views!OneView
    <3>3. s8'[x] = 0 \/ s8'[x] = s8[x] OBVIOUS
    <3> QED BY <3>1, <3>2, <3>3
  <2>3. ASSUME NEW i \in 1..Len(s7'), s7'[i].kind = "attached"
        PROVE  /\ s7'[i].session <= s4'
               /\ \A x \in Views!Targets : s8'[x] # s7'[i].session
    <3>1. PICK j \in 1..Len(s7) : s7'[i] = s7[j] BY <1>6
    <3>2. s7[j].session # 0 BY <2>3, <3>1 DEF Views!ViewsTyped, Views!Sound
    <3> QED BY <2>3, <3>1, <3>2 DEF Views!OneView
  <2>4. ASSUME NEW i \in 1..Len(s7'), NEW k \in 1..Len(s7'),
               s7'[i].kind = "attached", s7'[k].kind = "attached",
               s7'[i].session = s7'[k].session
        PROVE  i = k
    <3>1. PICK j \in 1..Len(s7), m \in 1..Len(s7) :
            s7'[i] = s7[j] /\ s7'[k] = s7[m] /\ (j = m => i = k)
      BY <1>6
    <3>2. j = m BY <2>4, <3>1 DEF Views!OneView
    <3> QED BY <3>1, <3>2
  <2> QED BY <2>1, <2>2, <2>3, <2>4 DEF Views!OneView
<1> QED BY <1>7, <1>8

\* The views of X and what they own are deleted.
LEMMA Deleted ==
  ASSUME Views!ViewsTyped, Views!OneView, Views!Owned(s8), NEW X \in SUBSET Views!Targets,
         s8' = [y \in Views!Targets |-> IF y \in Views!Descendants(X) THEN 0 ELSE s8[y]],
         s9' \in [ViewTabs -> ViewPages \cup {None}], UNCHANGED <<s2, s4>>,
         s7' = s7 \/ (s7 # <<>> /\ s7' = Tail(s7)), s12' \in Seq(Views!Calls)
  PROVE  /\ Views!ViewsTyped' /\ Views!OneView' /\ Views!Owned(s8')
         /\ \A y \in Views!Targets : s8'[y] = IF y \in Views!Descendants(X) THEN 0 ELSE s8[y]
         /\ X \cap ViewTabs = {} => \A t \in ViewTabs : s8'[t] = s8[t]
<1> DEFINE gone == Views!Descendants(X)
<1>2. \A y : y \in gone <=> y \in Views!Targets /\ \E x \in X : Above(y, x) BY DEF Views!Descendants, Above
<1> HIDE DEF gone
<1>3. s8 \in [Views!Targets -> Nat] BY DEF Views!ViewsTyped
<1>5. \A y \in Views!Targets : s8'[y] = IF y \in gone THEN 0 ELSE s8[y] BY DEF gone
<1>4. s8' \in [Views!Targets -> Nat] BY <1>3 DEF gone
<1>6. Views!ViewsTyped' /\ Views!OneView' BY <1>4, <1>5, FewerViews
<1>9. Views!Owned(s8')
  <2> SUFFICES ASSUME NEW x \in Views!Targets, x \notin ViewTabs, s8'[x] # 0 PROVE s8'[Views!Parent(x)] # 0
    BY DEF Views!Owned
  <2>1. x \notin gone /\ s8[x] # 0 BY <1>5
  <2>2. Views!Parent(x) \in Views!Targets /\ Above(x, Views!Parent(x)) BY ChainFacts
  <2>3. s8[Views!Parent(x)] # 0 BY <2>1 DEF Views!Owned
  <2>4. PICK i \in DOMAIN Views!Chain(x) : Views!Chain(x)[i] = Views!Parent(x) BY <2>2 DEF Above
  <2>5. ASSUME NEW y, Above(Views!Parent(x), y) PROVE Above(x, y)
    <3>1. Above(Views!Chain(x)[i], y) BY <2>4, <2>5
    <3>2. \E j \in DOMAIN Views!Chain(x) : i <= j /\ Views!Chain(x)[j] = y BY <3>1, ChainFacts
    <3> QED BY <3>2 DEF Above
  <2>6. Views!Parent(x) \notin gone BY <1>2, <2>1, <2>5
  <2> QED BY <1>5, <2>2, <2>3, <2>6
<1>10. ASSUME X \cap ViewTabs = {}, NEW t \in ViewTabs PROVE s8'[t] = s8[t]
  <2>1. t \in Views!Targets BY DEF Views!Targets
  <2>2. \A y : Above(t, y) => y = t
    <3>1. Views!Chain(t) = <<t>> BY DEF Views!Chain
    <3> QED BY <3>1 DEF Above
  <2>3. t \notin gone BY <1>2, <1>10, <2>2
  <2> QED BY <1>5, <2>1, <2>3
<1> QED BY <1>5, <1>6, <1>9, <1>10 DEF gone

\* What is held below is not deleted with views that are not.
LEMMA HeldIsNotGone ==
  ASSUME Views!Distinct(s8), NEW call \in Views!Calls, Views!Holds(call, s8), NEW X \in SUBSET Views!Targets,
         \A x \in X : s8[x] \notin Views!Held(call)
  PROVE  /\ \A j \in DOMAIN call.items : call.items[j].on \notin Views!Descendants(X)
         /\ \A y \in Views!Descendants(X) : s8[y] \notin Views!Held(call)
<1>1. \A y : y \in Views!Descendants(X) <=> y \in Views!Targets /\ \E x \in X : Above(y, x)
  BY DEF Views!Descendants, Above
<1>2. \A j \in DOMAIN call.items : call.items[j].on \notin Views!Descendants(X)
  BY <1>1, HeldFacts
<1>3. ASSUME NEW y \in Views!Descendants(X), s8[y] \in Views!Held(call) PROVE FALSE
  <2>1. PICK j \in DOMAIN call.items : s8[y] = call.items[j].view BY <1>3, HeldFacts
  <2>2. call.items[j] \in Views!HeldItems /\ s8[call.items[j].on] = call.items[j].view BY HeldFacts
  <2>3. call.items[j].on \in Views!Targets /\ s8[y] # 0 BY <2>1, <2>2 DEF Views!HeldItems
  <2>4. y = call.items[j].on BY <1>1, <2>1, <2>2, <2>3 DEF Views!Distinct
  <2> QED BY <1>2, <2>4
<1> QED BY <1>2, <1>3

\* A holder visits all items that were not locked before.
LEMMA ReleasedFacts ==
  ASSUME Views!HoldersInv, NEW n \in 1..Len(s12), NEW j \in DOMAIN s12[n].items,
         ~s12[n].items[j].was
  PROVE  s12[n].items[j] \in Views!Released(s12[n].items)
<1> DEFINE items == s12[n].items
<1>1. s12[n] \in Views!Calls /\ Views!Holds(s12[n], s8) BY DEF Views!HoldersInv, Views!ViewsTyped, Views!Holders
<1>2. s12[n].held BY <1>1 DEF Views!Holds
<1>3. /\ s12[n].on \in Views!Targets /\ DOMAIN items = DOMAIN Views!Chain(s12[n].on)
      /\ \A k \in DOMAIN items : items[k].on = Views!Chain(s12[n].on)[k]
  BY <1>1, <1>2 DEF Views!Holds
<1>4. /\ DOMAIN items = 1..Len(Views!Chain(s12[n].on)) /\ Len(Views!Chain(s12[n].on)) \in Nat
  BY <1>3, ChainFacts
<1>5. \A k \in DOMAIN items : items[k] \in Views!HeldItems /\ s8[items[k].on] = items[k].view
  BY <1>1, HeldFacts
<1>6. ASSUME NEW k \in 1..j, items[k].was PROVE FALSE
  <2>1. k \in DOMAIN items /\ k <= j BY <1>4
  <2>2. CASE items[k].on \in ViewTabs
    <3>1. k = Len(Views!Chain(s12[n].on)) BY <1>3, <2>1, <2>2, ChainFacts
    <3>2. k = j BY <1>4, <2>1, <3>1
    <3> QED BY <1>6, <3>2
  <2>3. CASE \E m \in 1..(n - 1) : items[k].view \in Views!Held(s12[m])
    <3>1. PICK m \in 1..(n - 1) : items[k].view \in Views!Held(s12[m]) BY <2>3
    <3>2. m \in 1..Len(s12) BY DEF Views!HoldersInv, Views!ViewsTyped
    <3>3. s12[m] \in Views!Calls /\ Views!Holds(s12[m], s8)
      BY <3>2 DEF Views!HoldersInv, Views!ViewsTyped, Views!Holders
    <3>4. PICK i \in DOMAIN s12[m].items : items[k].view = s12[m].items[i].view
      BY <3>1, <3>3, HeldFacts
    <3>5. /\ s12[m].items[i] \in Views!HeldItems
          /\ s8[s12[m].items[i].on] = s12[m].items[i].view
      BY <3>3, HeldFacts
    <3>6. s12[m].items[i].on = items[k].on
      <4>1. items[k] \in Views!HeldItems /\ s8[items[k].on] = items[k].view BY <1>5, <2>1
      <4> QED BY <3>4, <3>5, <4>1 DEF Views!HoldersInv, Views!OneView, Views!Distinct, Views!HeldItems
    <3>7. Above(items[k].on, items[j].on) BY <1>3, <2>1, ChainFacts
    <3>8. s8[items[j].on] \in Views!Held(s12[m]) BY <3>3, <3>6, <3>7, HeldFacts
    <3>9. items[j].view \in Views!Held(s12[m]) BY <1>5, <3>8
    <3> QED BY <3>9 DEF Views!HoldersInv, Views!Nested
  <2> QED BY <1>6, <2>1, <2>2, <2>3 DEF Views!HoldersInv, Views!Nested
<1> QED BY <1>6 DEF Views!Released

\* The call on top of the stack is left: what is locked below stays locked and exists.
LEMMA Popped ==
  ASSUME Views!HoldersInv, s12 # <<>>, s12' = SubSeq(s12, 1, Len(s12) - 1),
         NEW gone \in SUBSET Views!Targets, s8' \in [Views!Targets -> Nat],
         \A x \in Views!Targets : s8'[x] = IF x \in gone THEN 0 ELSE s8[x],
         \A t \in ViewTabs : s8'[t] = s8[t],
         \A k \in 1..(Len(s12) - 1) : \A j \in DOMAIN s12[k].items :
            s12[k].items[j].on \notin gone,
         \A k \in 1..(Len(s12) - 1) : Views!Held(s12[k]) \subseteq s10',
         s10' \subseteq s10,
         \A v \in Views!Held(s12[Len(s12)]) : v \in s10' =>
            (\E t \in ViewTabs : s8[t] = v) \/ \E k \in 1..(Len(s12) - 1) : v \in Views!Held(s12[k])
  PROVE  /\ s12' \in Seq(Views!Calls) /\ Views!Holders(s12', s8') /\ Views!Nested(s12')
         /\ Views!Locks(s12', s8', s10')
<1> DEFINE n == Len(s12)
<1>1. s12 \in Seq(Views!Calls) BY DEF Views!HoldersInv, Views!ViewsTyped
<1>2. n \in Nat \ {0} /\ \A i \in 1..(n - 1) : i \in 1..n BY <1>1
<1>3. /\ s12' \in Seq(Views!Calls) /\ Len(s12') = n - 1
      /\ \A i \in 1..(n - 1) : s12'[i] = s12[i]
  BY <1>1, FrontFacts
<1>4. \A i \in 1..n : s12[i] \in Views!Calls /\ Views!Holds(s12[i], s8)
  BY <1>1 DEF Views!HoldersInv, Views!Holders
<1>5. Views!Holders(s12', s8')
  <2> SUFFICES ASSUME NEW i \in 1..(n - 1)
               PROVE  /\ Views!Holds(s12[i], s8') /\ Views!Placed(s12[i])
                      /\ (Views!Outermost(s12[i]) => i = 1)
    BY <1>3 DEF Views!Holders
  <2>1. i \in 1..n BY <1>2
  <2>2. Views!Placed(s12[i]) /\ (Views!Outermost(s12[i]) => i = 1) BY <2>1 DEF Views!HoldersInv, Views!Holders
  <2>3. \A j \in DOMAIN s12[i].items :
          s12[i].items[j] \in Views!HeldItems /\ s8[s12[i].items[j].on] = s12[i].items[j].view
    BY <1>4, <2>1, HeldFacts
  <2>4. \A j \in DOMAIN s12[i].items : s8'[s12[i].items[j].on] = s12[i].items[j].view
    BY <2>3 DEF Views!HeldItems
  <2> QED BY <1>4, <2>1, <2>2, <2>4 DEF Views!Holds
<1>6. Views!Nested(s12')
  <2> SUFFICES ASSUME NEW i \in 1..(n - 1), NEW j \in DOMAIN s12[i].items
               PROVE  IF s12[i].items[j].was
                      THEN \/ s12[i].items[j].on \in ViewTabs
                           \/ \E k \in 1..(i - 1) : s12[i].items[j].view \in Views!Held(s12[k])
                      ELSE \A k \in 1..(i - 1) : s12[i].items[j].view \notin Views!Held(s12[k])
    <3>1. \A i \in 1..(n - 1) : \A k \in 1..(i - 1) : k \in 1..(n - 1) BY <1>2
    <3> QED BY <1>3, <3>1 DEF Views!Nested
  <2>1. i \in 1..n BY <1>2
  <2> QED BY <2>1 DEF Views!HoldersInv, Views!Nested
<1>7. Views!Locks(s12', s8', s10')
  <2>1. 0 \notin s10' BY DEF Views!HoldersInv, Views!Locks
  <2>2. \A i \in 1..(n - 1) : Views!Held(s12'[i]) \subseteq s10' BY <1>3
  <2>3. ASSUME NEW v \in s10'
        PROVE  (\E t \in ViewTabs : s8'[t] = v) \/ \E k \in 1..(n - 1) : v \in Views!Held(s12'[k])
    <3>1. \/ \E t \in ViewTabs : s8[t] = v
          \/ \E k \in 1..n : v \in Views!Held(s12[k])
      BY DEF Views!HoldersInv, Views!Locks
    <3>2. \A k \in 1..n : k \in 1..(n - 1) \/ k = n BY <1>2
    <3>3. (\E t \in ViewTabs : s8[t] = v) \/ \E k \in 1..(n - 1) : v \in Views!Held(s12[k])
      BY <3>1, <3>2
    <3> QED BY <1>3, <3>3
  <2> QED BY <1>3, <2>1, <2>2, <2>3 DEF Views!Locks
<1> QED BY <1>3, <1>5, <1>6, <1>7

\* ~WebViewImplHolder of the call on top.
LEMMA ReleaseKeeps ==
  ASSUME Views!HoldersInv, s12 # <<>>, s12' = SubSeq(s12, 1, Len(s12) - 1),
         Views!Release(Views!Top.items), UNCHANGED <<s2, s4, s7>>
  PROVE  Views!HoldersInv'
<1> DEFINE n == Len(s12)
           items == s12[n].items
           X == {it.on : it \in {it \in Views!Released(items) : it.view \in s11 /\ it.on \notin ViewTabs}}
           unlocked == {it.view : it \in Views!Released(items)} \ s11
<1>1. s12 \in Seq(Views!Calls) BY DEF Views!HoldersInv, Views!ViewsTyped
<1>2. n \in Nat \ {0} /\ n \in 1..n /\ \A i \in 1..(n - 1) : i \in 1..n BY <1>1
<1>3. \A i \in 1..n : s12[i] \in Views!Calls /\ Views!Holds(s12[i], s8)
  BY <1>1 DEF Views!HoldersInv, Views!Holders
<1>4. s12' \in Seq(Views!Calls) BY <1>1, FrontFacts
<1>5. \A j \in DOMAIN items :
        items[j] \in Views!HeldItems /\ s8[items[j].on] = items[j].view
  BY <1>2, <1>3, HeldFacts
<1>6. \A it \in Views!Released(items) : ~it.was /\ \E j \in DOMAIN items : it = items[j]
  <2>1. \A j \in DOMAIN items : j \in 1..j
    <3>1. items \in Seq(Views!HeldItems) BY <1>2, <1>3 DEF Views!Calls
    <3> QED BY <3>1
  <2> QED BY <2>1 DEF Views!Released
<1>7. \A it \in Views!Released(items) : it \in Views!HeldItems /\ s8[it.on] = it.view BY <1>5, <1>6
<1>8. X \in SUBSET Views!Targets /\ X \cap ViewTabs = {} BY <1>7 DEF Views!HeldItems
<1>9. Views!DeleteViews(X, unlocked) BY DEF Views!Release, Views!Top
<1>a. /\ s8' = [y \in Views!Targets |-> IF y \in Views!Descendants(X) THEN 0 ELSE s8[y]]
      /\ s9' = [t \in ViewTabs |-> IF t \in Views!Descendants(X) THEN None ELSE s9[t]]
      /\ s10' = (s10 \ {s8[y] : y \in Views!Descendants(X)}) \ unlocked
      /\ s11' = s11 \ {s8[y] : y \in Views!Descendants(X)}
  BY <1>9 DEF Views!DeleteViews
<1> HIDE DEF unlocked
<1>10. /\ Views!ViewsTyped' /\ Views!OneView' /\ Views!Owned(s8')
       /\ \A y \in Views!Targets : s8'[y] = IF y \in Views!Descendants(X) THEN 0 ELSE s8[y]
       /\ s10' = (s10 \ {s8[y] : y \in Views!Descendants(X)}) \ unlocked
       /\ s11' = s11 \ {s8[y] : y \in Views!Descendants(X)}
       /\ \A t \in ViewTabs : s8'[t] = s8[t]
  <2> HIDE DEF X
  <2>1. Views!ViewsTyped /\ Views!OneView /\ Views!Owned(s8) BY DEF Views!HoldersInv
  <2>2. UNCHANGED <<s2, s4>> /\ s7' = s7 OBVIOUS
  <2>3. s9' \in [ViewTabs -> ViewPages \cup {None}] BY <1>a, <2>1 DEF Views!ViewsTyped
  <2> QED BY <1>a, <1>4, <1>8, <2>1, <2>2, <2>3, Deleted
<1>11. ASSUME NEW k \in 1..(n - 1), NEW it \in Views!Released(items) PROVE it.view \notin Views!Held(s12[k])
  <2>1. PICK j \in DOMAIN items : it = items[j] /\ ~items[j].was BY <1>6
  <2> QED BY <1>2, <2>1 DEF Views!HoldersInv, Views!Nested
<1>12. \A k \in 1..(n - 1) : \A x \in X : s8[x] \notin Views!Held(s12[k]) BY <1>7, <1>11
<1>13. ASSUME NEW k \in 1..(n - 1)
       PROVE  /\ \A j \in DOMAIN s12[k].items : s12[k].items[j].on \notin Views!Descendants(X)
              /\ \A y \in Views!Descendants(X) : s8[y] \notin Views!Held(s12[k])
  <2> HIDE DEF X
  <2>1. Views!Distinct(s8) BY DEF Views!HoldersInv, Views!OneView
  <2> QED BY <1>2, <1>3, <1>8, <1>12, <2>1, HeldIsNotGone
<1>14. Views!Descendants(X) \subseteq Views!Targets BY DEF Views!Descendants
<1>15. \A k \in 1..(n - 1) : Views!Held(s12[k]) \subseteq s10'
  <2>1. \A k \in 1..(n - 1) : Views!Held(s12[k]) \subseteq s10 BY <1>2 DEF Views!HoldersInv, Views!Locks
  <2>2. \A k \in 1..(n - 1) : \A v \in Views!Held(s12[k]) : v \notin unlocked BY <1>11 DEF unlocked
  <2> HIDE DEF X
  <2> QED BY <1>10, <1>13, <2>1, <2>2
<1>16. ASSUME NEW v \in Views!Held(s12[n]), v \in s10'
       PROVE  (\E t \in ViewTabs : s8[t] = v) \/ \E k \in 1..(n - 1) : v \in Views!Held(s12[k])
  <2>1. PICK j \in DOMAIN items : v = items[j].view BY <1>2, <1>3, HeldFacts
  <2>2. CASE items[j].was
    <3>1. \/ items[j].on \in ViewTabs
          \/ \E k \in 1..(n - 1) : items[j].view \in Views!Held(s12[k])
      BY <1>2, <2>2 DEF Views!HoldersInv, Views!Nested
    <3> QED BY <1>5, <2>1, <3>1
  <2>3. CASE ~items[j].was
    <3>1. items[j] \in Views!Released(items) BY <1>2, <2>3, ReleasedFacts
    <3>2. CASE v \notin s11
      <4>1. v \in unlocked BY <2>1, <3>1, <3>2 DEF unlocked
      <4> QED BY <1>10, <1>16, <4>1
    <3>3. CASE v \in s11 /\ items[j].on \notin ViewTabs
      <4>1. items[j].on \in X BY <2>1, <3>1, <3>3
      <4>2. items[j].on \in Views!Targets BY <1>5 DEF Views!HeldItems
      <4>3. items[j].on \in Views!Descendants(X)
        <5> HIDE DEF X
        <5>1. 1 \in DOMAIN Views!Chain(items[j].on) /\ Views!Chain(items[j].on)[1] = items[j].on
          BY <4>2, ChainFacts
        <5> QED BY <4>1, <4>2, <5>1 DEF Views!Descendants
      <4>4. v \in {s8[y] : y \in Views!Descendants(X)} BY <1>5, <2>1, <4>3
      <4> HIDE DEF X
      <4> QED BY <1>10, <1>16, <4>4
    <3>4. CASE items[j].on \in ViewTabs BY <1>5, <2>1, <3>4
    <3> QED BY <3>2, <3>3, <3>4
  <2> QED BY <2>2, <2>3
<1>17. /\ Views!Holders(s12', s8') /\ Views!Nested(s12') /\ Views!Locks(s12', s8', s10')
  <2> HIDE DEF X
  <2>1. s10' \subseteq s10 BY <1>10
  <2>2. s8' \in [Views!Targets -> Nat] BY <1>10 DEF Views!ViewsTyped
  <2> QED BY <1>10, <1>13, <1>14, <1>15, <1>16, <2>1, <2>2, Popped DEF n
<1>18. s11' \subseteq s10'
  <2>1. s11 \subseteq s10 BY DEF Views!HoldersInv
  <2> HIDE DEF X
  <2> QED BY <1>10, <2>1 DEF unlocked
<1> QED BY <1>10, <1>17, <1>18 DEF Views!HoldersInv

-----------------------------------------------------------------------------
(* The browser.                                                            *)

\* Messages are added to those under way.
LEMMA JoinFacts ==
  ASSUME NEW M, NEW q \in Seq(M), NEW new \in Seq(M)
  PROVE  /\ q \o new \in Seq(M) /\ Len(q) \in Nat /\ Len(new) \in Nat
         /\ Len(q \o new) = Len(q) + Len(new)
         /\ \A i \in 1..Len(q) : (q \o new)[i] = q[i]
         /\ \A i \in 1..Len(q \o new) : i \notin 1..Len(q) =>
              i - Len(q) \in 1..Len(new) /\ (q \o new)[i] = new[i - Len(q)]
  OBVIOUS

\* The browser opens sessions and announces them.
LEMMA Announced ==
  ASSUME Views!HoldersInv, Views!UNCHANGEDdriver, s2' \in [Views!Targets -> Nat], s4' \in Nat,
         s4 <= s4', NEW new \in Seq(Views!Messages), s7' = s7 \o new,
         \A i \in 1..Len(new) : Views!Sound(new[i]),
         \A i \in 1..Len(new) : new[i].kind = "attached" =>
            s4 < new[i].session /\ new[i].session <= s4',
         \A i, j \in 1..Len(new) : new[i].kind = "attached" /\ new[j].kind = "attached" => i = j
  PROVE  Views!HoldersInv'
<1> DEFINE n == Len(s7)
<1>1. s7 \in Seq(Views!Messages) /\ s4 \in Nat /\ s8 \in [Views!Targets -> Nat]
  BY DEF Views!HoldersInv, Views!ViewsTyped
<1>2. /\ s7' \in Seq(Views!Messages) /\ n \in Nat
      /\ \A i \in 1..n : s7'[i] = s7[i]
      /\ \A i \in 1..Len(s7') : i \notin 1..n =>
           i - n \in 1..Len(new) /\ s7'[i] = new[i - n]
  BY <1>1, JoinFacts
<1>3. UNCHANGED <<s8, s9, s10, s11, s12>> BY DEF Views!UNCHANGEDdriver
<1> HIDE DEF n
<1>4. \A i \in 1..n : Views!Sound(s7[i]) BY DEF Views!HoldersInv, Views!ViewsTyped, n
<1>5. Views!ViewsTyped'
  <2>1. \A i \in 1..Len(s7') : Views!Sound(s7'[i])
    <3>1. ASSUME NEW i \in 1..Len(s7') PROVE Views!Sound(s7'[i])
      <4>1. CASE i \in 1..n
        <5>1. s7'[i] = s7[i] BY <1>2, <4>1
        <5> QED BY <1>4, <4>1, <5>1
      <4>2. CASE i \notin 1..n
        <5>1. i - n \in 1..Len(new) /\ s7'[i] = new[i - n] BY <1>2, <4>2
        <5> QED BY <5>1
      <4> QED BY <4>1, <4>2
    <3> QED BY <3>1
  <2>2. s12' \in Seq(Views!Calls) /\ s8' \in [Views!Targets -> Nat] /\ s9' \in [ViewTabs -> ViewPages \cup {None}]
    BY <1>3 DEF Views!HoldersInv, Views!ViewsTyped
  <2> QED BY <1>2, <2>1, <2>2 DEF Views!ViewsTyped
<1>6. /\ \A x \in Views!Targets : s8[x] <= s4
      /\ \A i \in 1..n : s7[i].kind = "attached" =>
           s7[i].session <= s4 /\ \A x \in Views!Targets : s8[x] # s7[i].session
      /\ \A i, j \in 1..n : (/\ s7[i].kind = "attached" /\ s7[j].kind = "attached"
                             /\ s7[i].session = s7[j].session) => i = j
  BY DEF Views!HoldersInv, Views!OneView, n
<1>7. \A i \in 1..Len(s7') : s7'[i] \in Views!Messages BY <1>2
<1>8. \A i \in 1..Len(s7') : s7'[i].session \in Nat BY <1>7 DEF Views!Messages
<1>9. Views!OneView'
  <2>1. Views!Distinct(s8') BY <1>3 DEF Views!HoldersInv, Views!OneView
  <2>2. \A x \in Views!Targets : s8'[x] <= s4' BY <1>1, <1>3, <1>6
  <2>3. ASSUME NEW i \in 1..Len(s7'), s7'[i].kind = "attached"
        PROVE  /\ s7'[i].session <= s4'
               /\ \A x \in Views!Targets : s8'[x] # s7'[i].session
    <3>1. CASE i \in 1..n
      <4>1. s7'[i] = s7[i] BY <1>2, <3>1
      <4>2. /\ s7[i].session <= s4
            /\ \A x \in Views!Targets : s8[x] # s7[i].session BY <1>6, <2>3, <3>1, <4>1
      <4>3. s7[i].session \in Nat BY <1>8, <4>1
      <4> QED BY <1>1, <1>3, <4>1, <4>2, <4>3
    <3>2. CASE i \notin 1..n
      <4>1. i - n \in 1..Len(new) /\ s7'[i] = new[i - n] BY <1>2, <3>2
      <4>2. s4 < s7'[i].session /\ s7'[i].session <= s4'
        BY <2>3, <4>1
      <4> QED BY <1>1, <1>3, <1>6, <1>8, <4>2
    <3> QED BY <3>1, <3>2
  <2>4. ASSUME NEW i \in 1..Len(s7'), NEW j \in 1..Len(s7'),
               s7'[i].kind = "attached", s7'[j].kind = "attached",
               s7'[i].session = s7'[j].session
        PROVE  i = j
    <3>1. ASSUME NEW k \in 1..Len(s7'), s7'[k].kind = "attached"
          PROVE  /\ k \in 1..n => s7'[k].session <= s4
                 /\ k \notin 1..n => s4 < s7'[k].session
      <4>1. k \in 1..n => s7'[k] = s7[k] BY <1>2
      <4>2. k \notin 1..n => k - n \in 1..Len(new) /\ s7'[k] = new[k - n] BY <1>2
      <4>3. k \in 1..n => s7'[k].session <= s4 BY <1>6, <3>1, <4>1
      <4> QED BY <3>1, <4>2, <4>3
    <3>2. s7'[i].session \in Nat BY <1>8
    <3>a. i \in 1..n => s7'[i].session <= s4 BY <2>4, <3>1
    <3>b. i \notin 1..n => s4 < s7'[i].session BY <2>4, <3>1
    <3>c. j \in 1..n => s7'[i].session <= s4 BY <2>4, <3>1
    <3>d. j \notin 1..n => s4 < s7'[i].session BY <2>4, <3>1
    <3>3. i \in 1..n <=> j \in 1..n BY ONLY <1>1, <3>2, <3>a, <3>b, <3>c, <3>d
    <3>4. CASE i \in 1..n
      <4>1. s7'[i] = s7[i] /\ s7'[j] = s7[j] /\ j \in 1..n BY <1>2, <3>3, <3>4
      <4> QED BY <1>6, <2>4, <3>4, <4>1
    <3>5. CASE i \notin 1..n
      <4>1. i - n \in 1..Len(new) /\ s7'[i] = new[i - n] BY <1>2, <3>5
      <4>2. j - n \in 1..Len(new) /\ s7'[j] = new[j - n] BY <1>2, <3>3, <3>5
      <4>3. i - n = j - n BY <2>4, <4>1, <4>2
      <4> QED BY <1>2, <4>3
    <3> QED BY <3>4, <3>5
  <2> QED BY <2>1, <2>2, <2>3, <2>4 DEF Views!OneView
<1>10. /\ Views!Owned(s8') /\ Views!Holders(s12', s8') /\ Views!Nested(s12')
       /\ Views!Locks(s12', s8', s10') /\ s11' \subseteq s10'
  BY <1>3 DEF Views!HoldersInv
<1> QED BY <1>5, <1>9, <1>10 DEF Views!HoldersInv

\* A target appears, is shown or goes away.
LEMMA BrowserKeeps ==
  ASSUME Views!HoldersInv, Views!BrowserTyped, Views!Browser
  PROVE  Views!HoldersInv'
<1>1. s2 \in [Views!Targets -> Nat] /\ s4 \in Nat /\ s7 \in Seq(Views!Messages)
  BY DEF Views!HoldersInv, Views!ViewsTyped
<1>2. \A x \in Views!Targets : x \notin ViewTabs => Views!Parent(x) \in Views!Targets BY ChainFacts
<1>3. \A x \in Views!Targets : Views!Detached(x) \in Views!Messages /\ Views!Sound(Views!Detached(x)) /\ Views!Detached(x).kind = "detached"
  <2> TAKE x \in Views!Targets
  <2>1. s2[x] \in Nat /\ (x \notin ViewTabs => s2[Views!Parent(x)] \in Nat) BY <1>1, <1>2
  <2>2. Views!Detached(x).on \in Nat BY <2>1 DEF Views!Detached
  <2> QED BY <2>1, <2>2 DEF Views!Detached, Views!Messages, Views!Sound
<1>4. ASSUME Views!UNCHANGEDdriver, s2' \in [Views!Targets -> Nat], s4' = s4,
             s7' = s7 PROVE Views!HoldersInv'
  BY <1>4 DEF Views!HoldersInv, Views!ViewsTyped, Views!OneView, Views!Distinct, Views!Owned, Views!UNCHANGEDdriver, Views!Holders, Views!Nested, Views!Locks
<1>5. \A gone : Views!Without(gone) => s2' \in [Views!Targets -> Nat] BY <1>1 DEF Views!Without
<1>6. CASE Views!BrowserOpensTab BY <1>1, <1>4, <1>6 DEF Views!BrowserOpensTab
<1>7. CASE Views!BrowserAttaches
  <2>1. PICK x \in ViewPages \cup ViewFrames :
          /\ s2' = [s2 EXCEPT ![x] = s4 + 1] /\ s4' = s4 + 1
          /\ Views!Emit(<<Views!Attached(x, s4 + 1, x \in ViewPages /\ s5[Views!Parent(x)] = None)>>)
    BY <1>7 DEF Views!BrowserAttaches
  <2> DEFINE e == Views!Attached(x, s4 + 1, x \in ViewPages /\ s5[Views!Parent(x)] = None)
  <2>2. x \in Views!Targets /\ x \notin ViewTabs BY TargetsAreTrees DEF Views!Targets
  <2>3. s2[Views!Parent(x)] \in Nat BY <1>1, <1>2, <2>2
  <2>4. (x \in ViewPages /\ s5[Views!Parent(x)] = None) \in BOOLEAN OBVIOUS
  <2>5. e \in Views!Messages BY <1>1, <2>2, <2>3, <2>4 DEF Views!Attached, Views!Messages
  <2>6. /\ e.kind = "attached" /\ e.target = x /\ e.session = s4 + 1
        /\ (e.active => x \in ViewPages)
    BY DEF Views!Attached
  <2>7. Views!Sound(e)
    <3>1. s4 + 1 # 0 BY <1>1
    <3> HIDE DEF e
    <3> QED BY <2>2, <2>6, <3>1 DEF Views!Sound
  <2>8. s7' = s7 \o <<e>> BY <2>1 DEF Views!Emit
  <2> HIDE DEF e
  <2>9. /\ <<e>> \in Seq(Views!Messages) /\ Len(<<e>>) = 1 /\ <<e>>[1] = e
        /\ \A i \in 1..1 : i = 1 BY <2>5
  <2>10. /\ s2' \in [Views!Targets -> Nat] /\ s4' \in Nat /\ s4 <= s4'
         /\ s4 < e.session /\ e.session <= s4'
    <3>a. s2' = [s2 EXCEPT ![x] = s4 + 1] BY <2>1
    <3>b. s4 + 1 \in Nat BY <1>1
    <3>1. s2' \in [Views!Targets -> Nat] BY ONLY <1>1, <3>a, <3>b
    <3>2. e.session = s4 + 1 /\ s4' = s4 + 1 BY <2>1, <2>6
    <3> QED BY <1>1, <3>1, <3>2
  <2>11. Views!UNCHANGEDdriver BY <1>7 DEF Views!BrowserAttaches
  <2>12. /\ \A i \in 1..Len(<<e>>) : Views!Sound(<<e>>[i])
         /\ \A i \in 1..Len(<<e>>) : <<e>>[i].kind = "attached" =>
              s4 < <<e>>[i].session /\ <<e>>[i].session <= s4'
         /\ \A i, j \in 1..Len(<<e>>) :
              <<e>>[i].kind = "attached" /\ <<e>>[j].kind = "attached" => i = j
    BY <2>7, <2>9, <2>10
  <2> QED BY <2>8, <2>9, <2>10, <2>11, <2>12, Announced
<1>8. CASE Views!BrowserActivates
  <2>1. PICK x \in ViewPages \cap s1 :
          LET old == s5[Views!Parent(x)] IN
            /\ old \notin {None, x}
            /\ Views!Emit(<<[kind |-> "changed", target |-> x, session |-> s2[x],
                             on |-> s2[Views!Parent(x)], active |-> TRUE], Views!Detached(old)>>)
            /\ Views!Without(Views!Descendants({old}) \cap s1)
    BY <1>8 DEF Views!BrowserActivates
  <2> DEFINE old == s5[Views!Parent(x)]
             a == [kind |-> "changed", target |-> x, session |-> s2[x],
                   on |-> s2[Views!Parent(x)], active |-> TRUE]
             d == Views!Detached(old)
  <2>2. x \in Views!Targets /\ x \notin ViewTabs /\ Views!Parent(x) \in ViewTabs
    BY TargetsAreTrees DEF Views!Targets, Views!Parent
  <2>3. old \in Views!Targets BY <2>1, <2>2 DEF Views!BrowserTyped, Views!Targets
  <2>4. s2[x] \in Nat /\ s2[Views!Parent(x)] \in Nat BY <1>1, <1>2, <2>2
  <2>5. a \in Views!Messages /\ Views!Sound(a) /\ a.kind = "changed" BY <2>2, <2>4 DEF Views!Messages, Views!Sound
  <2>6. d \in Views!Messages /\ Views!Sound(d) /\ d.kind = "detached" BY <1>3, <2>3
  <2>7. s7' = s7 \o <<a, d>> BY <2>1 DEF Views!Emit
  <2>8. s2' \in [Views!Targets -> Nat] BY <1>5, <2>1
  <2>9. Views!UNCHANGEDdriver /\ s4' = s4 BY <1>8 DEF Views!BrowserActivates
  <2> HIDE DEF a, d
  <2>10. /\ <<a, d>> \in Seq(Views!Messages) /\ Len(<<a, d>>) = 2 /\ <<a, d>>[1] = a /\ <<a, d>>[2] = d
         /\ \A i \in 1..2 : i = 1 \/ i = 2 BY <2>5, <2>6
  <2>11. \A i \in 1..Len(<<a, d>>) : Views!Sound(<<a, d>>[i]) /\ <<a, d>>[i].kind # "attached"
    BY <2>5, <2>6, <2>10
  <2>12. s4' \in Nat /\ s4 <= s4' BY <1>1, <2>9
  <2> QED BY <2>7, <2>8, <2>9, <2>10, <2>11, <2>12, Announced
<1>9. CASE Views!BrowserDetaches
  <2>1. PICK x \in s1 : /\ s7' = s7 \/ s7' = s7 \o <<Views!Detached(x)>>
                        /\ Views!Without(Views!Descendants({x}) \cap s1)
    BY <1>9 DEF Views!BrowserDetaches, Views!Emit
  <2> DEFINE d == Views!Detached(x)
  <2>2. d \in Views!Messages /\ Views!Sound(d) /\ d.kind = "detached" BY <1>3 DEF Views!BrowserTyped
  <2>3. s2' \in [Views!Targets -> Nat] BY <1>5, <2>1
  <2>4. Views!UNCHANGEDdriver /\ s4' = s4 BY <1>9 DEF Views!BrowserDetaches
  <2>5. CASE s7' = s7 BY <1>4, <2>3, <2>4, <2>5
  <2>6. CASE s7' = s7 \o <<d>>
    <3> HIDE DEF d
    <3>1. /\ <<d>> \in Seq(Views!Messages) /\ Len(<<d>>) = 1 /\ <<d>>[1] = d
          /\ \A i \in 1..1 : i = 1 BY <2>2
    <3>2. \A i \in 1..Len(<<d>>) : Views!Sound(<<d>>[i]) /\ <<d>>[i].kind # "attached"
      BY <2>2, <3>1
    <3>3. s4' \in Nat /\ s4 <= s4' BY <1>1, <2>4
    <3> QED BY <2>3, <2>4, <2>6, <3>1, <3>2, <3>3, Announced
  <2> QED BY <2>1, <2>5, <2>6
<1> QED BY <1>6, <1>7, <1>8, <1>9 DEF Views!Browser

\* The page a tab shows is a page, before and after.
LEMMA BrowserTypedKeeps ==
  ASSUME Views!BrowserTyped, Views!Next \/ UNCHANGED Views!vars
  PROVE  Views!BrowserTyped'
<1> USE DEF Views!BrowserTyped
<1>1. CASE UNCHANGED Views!vars BY <1>1 DEF Views!vars, Views!browserVars
<1>2. CASE Views!BrowserOpensTab BY <1>2 DEF Views!BrowserOpensTab, Views!Targets
<1>3. CASE Views!BrowserAttaches
  <2>1. PICK x \in ViewPages \cup ViewFrames :
          /\ s1' = s1 \cup {x}
          /\ s5' = IF x \in ViewPages /\ s5[Views!Parent(x)] = None
                   THEN [s5 EXCEPT ![Views!Parent(x)] = x] ELSE s5
    BY <1>3 DEF Views!BrowserAttaches
  <2> QED BY <2>1 DEF Views!Targets
<1>4. CASE Views!BrowserActivates
  <2>1. PICK x \in ViewPages : /\ s5' = [s5 EXCEPT ![Views!Parent(x)] = x]
                               /\ s1' \subseteq s1
    BY <1>4 DEF Views!BrowserActivates, Views!Without
  <2> QED BY <2>1
<1>5. CASE Views!BrowserDetaches
  <2>1. PICK gone : /\ s1' \subseteq s1
          /\ s5' = [t \in ViewTabs |-> IF t \in gone \/ s5[t] \in gone THEN None ELSE s5[t]]
    BY <1>5 DEF Views!BrowserDetaches, Views!Without
  <2> QED BY <2>1
<1>6. CASE Views!Driver
  <2>1. UNCHANGED <<s1, s5>>
    BY <1>6, Zenon DEF Views!Driver, Views!browserVars, Views!vars, Views!UNCHANGEDdriver, Views!HandleMessage, Views!MessageReturns,
       Views!SetAutoAttach, Views!CallReturns, Views!WaitForPendingActivePage, Views!CallOnPage, Views!CallOnFrame,
       Views!BeginUpdateWebViews, Views!UpdateWebViews, Views!AttachToTarget, Views!UpdateReturns, Views!BeginCloseWebView,
       Views!CloseWebView, Views!Undefined
  <2> QED BY <2>1
<1> QED BY <1>1, <1>2, <1>3, <1>4, <1>5, <1>6 DEF Views!Next, Views!Browser

-----------------------------------------------------------------------------
(* Calls begin.                                                            *)

\* A holder locks a view that exists and its parents.
LEMMA ItemsFacts ==
  ASSUME NEW vw \in [Views!Targets -> Nat], Views!Owned(vw), NEW x \in Views!Targets, vw[x] # 0, NEW lk, NEW items,
         items = [i \in DOMAIN Views!Chain(x) |->
                    [on |-> Views!Chain(x)[i], view |-> vw[Views!Chain(x)[i]], was |-> vw[Views!Chain(x)[i]] \in lk]]
  PROVE  /\ items \in Seq(Views!HeldItems) /\ DOMAIN items = DOMAIN Views!Chain(x) /\ items[1].view = vw[x]
         /\ \A j \in DOMAIN items : /\ items[j].on = Views!Chain(x)[j]
                                    /\ vw[items[j].on] = items[j].view
         /\ \A j \in DOMAIN items : items[j].was <=> items[j].view \in lk
<1> DEFINE c == Views!Chain(x)
           n == Len(Views!Chain(x))
<1>1. /\ n \in Nat \ {0} /\ DOMAIN c = 1..n /\ c[1] = x /\ \A i \in 1..n : c[i] \in Views!Targets
  BY ChainFacts
<1>2. \A i \in 1..n : vw[c[i]] \in Nat \ {0} BY <1>1, ChainOwned
<1>3. items = [i \in 1..n |-> [on |-> c[i], view |-> vw[c[i]], was |-> vw[c[i]] \in lk]]
  BY <1>1
<1> HIDE DEF c, n
<1>4. \A i \in 1..n : [on |-> c[i], view |-> vw[c[i]], was |-> vw[c[i]] \in lk] \in Views!HeldItems
  <2> TAKE i \in 1..n
  <2>1. (vw[c[i]] \in lk) \in BOOLEAN OBVIOUS
  <2> QED BY <1>1, <1>2, <2>1 DEF Views!HeldItems
<1>5. items \in [1..n -> Views!HeldItems] BY <1>3, <1>4
<1>6. items \in Seq(Views!HeldItems) BY <1>1, <1>5, FunctionIsSeq
<1>7. ASSUME NEW j \in 1..n
      PROVE  /\ items[j].on = c[j] /\ items[j].view = vw[c[j]]
             /\ items[j].was <=> items[j].view \in lk
  <2> DEFINE b == vw[c[j]] \in lk
  <2>1. items[j] = [on |-> c[j], view |-> vw[c[j]], was |-> b] BY <1>3
  <2>2. b <=> vw[c[j]] \in lk OBVIOUS
  <2> HIDE DEF b
  <2>3. items[j].on = c[j] /\ items[j].view = vw[c[j]] /\ items[j].was = b BY <2>1
  <2> QED BY <2>2, <2>3
<1>8. \A j \in 1..n : items[j].on = c[j] /\ items[j].view = vw[c[j]] BY <1>7
<1>9. \A j \in 1..n : items[j].was <=> items[j].view \in lk BY <1>7
<1>10. DOMAIN items = 1..n BY <1>3
<1>11. items[1].view = vw[x]
  <2>1. 1 \in 1..n BY <1>1
  <2> QED BY <1>1, <1>8, <2>1
<1> QED BY <1>1, <1>6, <1>8, <1>9, <1>10, <1>11 DEF c, n

\* A call on a view that exists.
LEMMA NewCallFacts ==
  ASSUME Views!HoldersInv, NEW op \in {"message", "attach", "call", "wait"}, NEW x \in Views!Targets,
         s8[x] # 0, NEW held \in BOOLEAN
  PROVE  /\ Views!NewCall(op, x, held) \in Views!Calls /\ Views!Holds(Views!NewCall(op, x, held), s8)
         /\ Views!Placed(Views!NewCall(op, x, held)) /\ ~Views!Outermost(Views!NewCall(op, x, held))
         /\ \A j \in DOMAIN Views!NewCall(op, x, held).items :
              Views!NewCall(op, x, held).items[j].was <=> Views!NewCall(op, x, held).items[j].view \in s10
<1> DEFINE call == Views!NewCall(op, x, held)
<1>1. x # Root BY TargetsAreTrees
<1>2. s8 \in [Views!Targets -> Nat] /\ Views!Owned(s8) BY DEF Views!HoldersInv, Views!ViewsTyped
<1>3. Views!Items(x) = [i \in DOMAIN Views!Chain(x) |->
        [on |-> Views!Chain(x)[i], view |-> s8[Views!Chain(x)[i]], was |-> s8[Views!Chain(x)[i]] \in s10]]
  BY <1>1 DEF Views!Items
<1>4. /\ Views!Items(x) \in Seq(Views!HeldItems) /\ DOMAIN Views!Items(x) = DOMAIN Views!Chain(x)
      /\ Views!Items(x)[1].view = s8[x]
      /\ \A j \in DOMAIN Views!Items(x) : /\ Views!Items(x)[j].on = Views!Chain(x)[j]
                                          /\ s8[Views!Items(x)[j].on] = Views!Items(x)[j].view
      /\ \A j \in DOMAIN Views!Items(x) : Views!Items(x)[j].was <=> Views!Items(x)[j].view \in s10
  BY <1>2, <1>3, ItemsFacts
<1> HIDE <1>3
<1>5. /\ call.op = op /\ call.on = x /\ call.view = s8[x]
      /\ call.items = (IF held THEN Views!Items(x) ELSE <<>>) /\ call.held = held
      /\ call.activates = FALSE
  BY <1>1 DEF Views!NewCall
<1>6. call \in Views!Calls
  <2>1. (IF held THEN Views!Items(x) ELSE <<>>) \in Seq(Views!HeldItems) BY <1>4
  <2>2. s8[x] \in Nat BY <1>2
  <2> QED BY <1>1, <2>1, <2>2 DEF Views!NewCall, Views!Calls
<1> HIDE DEF call
<1>7. CASE held
  <2>1. call.items = Views!Items(x) BY <1>5, <1>7
  <2>2. Views!Holds(call, s8) BY <1>4, <1>5, <1>7, <2>1 DEF Views!Holds
  <2>3. Views!Placed(call) /\ ~Views!Outermost(call) BY <1>5 DEF Views!Placed, Views!Outermost
  <2> QED BY <1>4, <1>6, <2>1, <2>2, <2>3 DEF call
<1>8. CASE ~held
  <2>1. call.items = <<>> BY <1>5, <1>8
  <2>2. Views!Holds(call, s8) BY <1>5, <1>8, <2>1 DEF Views!Holds
  <2>3. Views!Placed(call) /\ ~Views!Outermost(call) BY <1>5 DEF Views!Placed, Views!Outermost
  <2>4. DOMAIN call.items = {} BY <2>1
  <2> QED BY <1>6, <2>2, <2>3, <2>4 DEF call
<1> QED BY <1>7, <1>8

\* A call is pushed, nothing else changes.
LEMMA PushKeeps ==
  ASSUME Views!HoldersInv, NEW call \in Views!Calls, Views!Holds(call, s8), Views!Placed(call),
         Views!Outermost(call) => s12 = <<>>,
         \A j \in DOMAIN call.items : call.items[j].was <=> call.items[j].view \in s10,
         Views!Push(call), UNCHANGED <<s2, s4, s7, s8, s9, s11>>
  PROVE  Views!HoldersInv'
<1>1. s12 \in Seq(Views!Calls) /\ s8 \in [Views!Targets -> Nat] /\ Views!Distinct(s8)
  BY DEF Views!HoldersInv, Views!ViewsTyped, Views!OneView
<1>2. s12' = Append(s12, call) /\ s10' = s10 \cup Views!Held(call) BY DEF Views!Push, Views!Held
<1>3. /\ Append(s12, call) \in Seq(Views!Calls) /\ Views!Holders(Append(s12, call), s8)
      /\ Views!Nested(Append(s12, call)) /\ Views!Locks(Append(s12, call), s8, s10 \cup Views!Held(call))
  BY <1>1, Pushed DEF Views!HoldersInv
<1>4. Views!ViewsTyped' BY <1>2, <1>3 DEF Views!HoldersInv, Views!ViewsTyped
<1>5. Views!OneView' BY DEF Views!HoldersInv, Views!OneView, Views!Distinct
<1>6. Views!Owned(s8') BY DEF Views!HoldersInv
<1>7. s11' \subseteq s10' BY <1>2 DEF Views!HoldersInv
<1>8. s8' = s8 OBVIOUS
<1> QED BY <1>2, <1>3, <1>4, <1>5, <1>6, <1>7, <1>8 DEF Views!HoldersInv

\* No call is on the stack.
LEMMA EmptyStack ==
  ASSUME NEW vw, NEW lk, 0 \notin lk, \A v \in lk : \E t \in ViewTabs : vw[t] = v
  PROVE  <<>> \in Seq(Views!Calls) /\ Views!Holders(<<>>, vw) /\ Views!Nested(<<>>) /\ Views!Locks(<<>>, vw, lk)
<1>1. <<>> \in Seq(Views!Calls) /\ Len(<<>>) = 0 /\ 1..0 = {} OBVIOUS
<1>2. Views!Holders(<<>>, vw) BY <1>1 DEF Views!Holders
<1>3. Views!Nested(<<>>) BY <1>1 DEF Views!Nested
<1>4. Views!Locks(<<>>, vw, lk) BY <1>1 DEF Views!Locks
<1> QED BY <1>1, <1>2, <1>3, <1>4

\* A call that holds nothing is alone on the stack.
LEMMA Alone ==
  ASSUME NEW call \in Views!Calls, ~call.held, call.items = <<>>, ~call.activates, NEW vw, NEW lk,
         0 \notin lk, \A v \in lk : \E t \in ViewTabs : vw[t] = v
  PROVE  /\ <<call>> \in Seq(Views!Calls) /\ Views!Holders(<<call>>, vw) /\ Views!Nested(<<call>>)
         /\ Views!Locks(<<call>>, vw, lk)
<1>1. <<call>> \in Seq(Views!Calls) /\ Len(<<call>>) = 1 /\ <<call>>[1] = call /\ \A i \in 1..1 : i = 1
  OBVIOUS
<1>2. DOMAIN call.items = {} /\ Views!Held(call) = {} BY DEF Views!Held, Views!LockedBy
<1>3. Views!Holds(call, vw) /\ Views!Placed(call) BY DEF Views!Holds, Views!Placed
<1>4. Views!Holders(<<call>>, vw) BY <1>1, <1>3 DEF Views!Holders
<1>5. Views!Nested(<<call>>) BY <1>1, <1>2 DEF Views!Nested
<1>6. Views!Locks(<<call>>, vw, lk) BY <1>1, <1>2 DEF Views!Locks
<1> QED BY <1>1, <1>4, <1>5, <1>6

\* The calls of GetTopLevelWebViewIds and CloseWebView are alone and hold nothing.
LEMMA OutermostIsAlone ==
  ASSUME Views!HoldersInv, s12 # <<>>, Views!Outermost(Views!Top)
  PROVE  /\ Len(s12) = 1 /\ Views!Top = s12[1] /\ Views!Top \in Views!Calls
         /\ ~Views!Top.held /\ Views!Top.items = <<>> /\ ~Views!Top.activates
         /\ 0 \notin s10 /\ \A v \in s10 : \E t \in ViewTabs : s8[t] = v
<1>1. s12 \in Seq(Views!Calls) /\ Len(s12) \in 1..Len(s12) BY DEF Views!HoldersInv, Views!ViewsTyped
<1>2. Len(s12) = 1 BY <1>1 DEF Views!HoldersInv, Views!Holders, Views!Top
<1>3. Views!Top = s12[1] /\ Views!Top \in Views!Calls /\ Views!Holds(Views!Top, s8) /\ Views!Placed(Views!Top)
  BY <1>1, <1>2 DEF Views!HoldersInv, Views!Holders, Views!Top
<1>4. ~Views!Top.held /\ Views!Top.items = <<>> BY <1>3 DEF Views!Holds, Views!Placed
<1>5. ~Views!Top.activates BY <1>3 DEF Views!Placed, Views!Outermost
<1>6. DOMAIN Views!Top.items = {} /\ Views!Held(Views!Top) = {} BY <1>4 DEF Views!Held, Views!LockedBy
<1>7. \A i \in 1..Len(s12) : i = 1 BY <1>2
<1>8. \A v \in s10 : \E t \in ViewTabs : s8[t] = v
  BY <1>3, <1>6, <1>7 DEF Views!HoldersInv, Views!Locks
<1>9. 0 \notin s10 BY DEF Views!HoldersInv, Views!Locks
<1> QED BY <1>2, <1>3, <1>4, <1>5, <1>8, <1>9

-----------------------------------------------------------------------------
(* Events are handled.                                                     *)

\* An event that deletes no view.
LEMMA EventMarks ==
  ASSUME Views!HoldersInv, s7 # <<>>, s7' = Tail(s7), UNCHANGED <<s2, s4>>,
         UNCHANGED <<s8, s10, s12>>, s9' \in [ViewTabs -> ViewPages \cup {None}],
         s11' \subseteq s10
  PROVE  Views!HoldersInv'
<1>1. Views!ViewsTyped /\ Views!OneView /\ s12 \in Seq(Views!Calls) /\ s8 \in [Views!Targets -> Nat]
  BY DEF Views!HoldersInv, Views!ViewsTyped
<1>2. /\ s12' = s12 /\ s8' = s8 /\ s10' = s10 OBVIOUS
<1>3. Views!ViewsTyped' /\ Views!OneView' BY <1>1, FewerViews
<1> QED BY <1>2, <1>3 DEF Views!HoldersInv

\* What is not locked is deleted, with all it owns.
LEMMA EventDeletes ==
  ASSUME Views!HoldersInv, s7 # <<>>, s7' = Tail(s7),
         UNCHANGED <<s2, s4, s12>>, s9' \in [ViewTabs -> ViewPages \cup {None}],
         NEW x \in Views!Targets, s8[x] \notin s10,
         s8' = [y \in Views!Targets |-> IF y \in Views!Descendants({x}) THEN 0 ELSE s8[y]],
         s10' = s10 \ {s8[y] : y \in Views!Descendants({x})},
         s11' = s11 \ {s8[y] : y \in Views!Descendants({x})}
  PROVE  Views!HoldersInv'
<1> DEFINE gone == Views!Descendants({x})
<1>1. Views!ViewsTyped /\ Views!OneView /\ Views!Owned(s8) /\ s12 \in Seq(Views!Calls) /\ Views!Distinct(s8)
  BY DEF Views!HoldersInv, Views!ViewsTyped, Views!OneView
<1>2. {x} \in SUBSET Views!Targets OBVIOUS
<1>3. /\ Views!ViewsTyped' /\ Views!OneView' /\ Views!Owned(s8')
      /\ \A y \in Views!Targets : s8'[y] = IF y \in gone THEN 0 ELSE s8[y]
  <2>1. UNCHANGED <<s2, s4>> /\ s12' \in Seq(Views!Calls) BY <1>1
  <2> QED BY <1>1, <1>2, <2>1, Deleted
<1>4. ASSUME NEW k \in 1..Len(s12)
      PROVE  /\ s12[k] \in Views!Calls /\ Views!Holds(s12[k], s8)
             /\ \A j \in DOMAIN s12[k].items : s12[k].items[j].on \notin gone
             /\ \A y \in gone : s8[y] \notin Views!Held(s12[k])
  <2>1. s12[k] \in Views!Calls /\ Views!Holds(s12[k], s8) BY <1>1 DEF Views!HoldersInv, Views!Holders
  <2>2. \A z \in {x} : s8[z] \notin Views!Held(s12[k]) BY DEF Views!HoldersInv, Views!Locks
  <2> QED BY <1>1, <1>2, <2>1, <2>2, HeldIsNotGone
<1> HIDE DEF gone
<1>5. Views!Holders(s12, s8')
  <2> SUFFICES ASSUME NEW i \in 1..Len(s12)
               PROVE  /\ Views!Holds(s12[i], s8') /\ Views!Placed(s12[i])
                      /\ (Views!Outermost(s12[i]) => i = 1)
    BY DEF Views!Holders
  <2>1. Views!Placed(s12[i]) /\ (Views!Outermost(s12[i]) => i = 1) BY DEF Views!HoldersInv, Views!Holders
  <2>2. \A j \in DOMAIN s12[i].items :
          s12[i].items[j] \in Views!HeldItems /\ s8[s12[i].items[j].on] = s12[i].items[j].view
    BY <1>4, HeldFacts
  <2>3. \A j \in DOMAIN s12[i].items : s8'[s12[i].items[j].on] = s12[i].items[j].view
    BY <1>3, <1>4, <2>2 DEF Views!HeldItems
  <2> QED BY <1>4, <2>1, <2>3 DEF Views!Holds
<1>6. s10' = s10 \ {s8[y] : y \in gone} /\ s11' = s11 \ {s8[y] : y \in gone}
  BY DEF gone
<1>7. Views!Locks(s12, s8', s10')
  <2>1. 0 \notin s10' BY <1>6 DEF Views!HoldersInv, Views!Locks
  <2>2. \A i \in 1..Len(s12) : Views!Held(s12[i]) \subseteq s10'
    <3>1. \A i \in 1..Len(s12) : Views!Held(s12[i]) \subseteq s10 BY DEF Views!HoldersInv, Views!Locks
    <3>2. \A i \in 1..Len(s12) : \A y \in gone : s8[y] \notin Views!Held(s12[i]) BY <1>4
    <3> SUFFICES ASSUME NEW i \in 1..Len(s12), NEW v \in Views!Held(s12[i]) PROVE v \in s10'
      OBVIOUS
    <3>3. v \in s10 /\ v \notin {s8[y] : y \in gone} BY <3>1, <3>2
    <3> QED BY <1>6, <3>3
  <2>3. ASSUME NEW v \in s10'
        PROVE  (\E t \in ViewTabs : s8'[t] = v) \/ \E i \in 1..Len(s12) : v \in Views!Held(s12[i])
    <3>1. v \in s10 /\ \A y \in gone : v # s8[y] BY <1>6
    <3>2. \A t \in ViewTabs : s8[t] = v => s8'[t] = v BY <1>3, <3>1 DEF Views!Targets
    <3> QED BY <3>1, <3>2 DEF Views!HoldersInv, Views!Locks
  <2> QED BY <2>1, <2>2, <2>3 DEF Views!Locks
<1>8. s11' \subseteq s10' BY <1>6 DEF Views!HoldersInv
<1>9. s12' = s12 OBVIOUS
<1> QED BY <1>3, <1>5, <1>7, <1>8, <1>9 DEF Views!HoldersInv

\* Two calls are pushed.
LEMMA Twice ==
  ASSUME NEW M, NEW q \in Seq(M), NEW a \in M, NEW b \in M
  PROVE  q \o <<a, b>> = Append(Append(q, a), b)
<1>1. /\ <<a, b>> \in Seq(M) /\ Len(<<a, b>>) = 2 /\ <<a, b>>[1] = a /\ <<a, b>>[2] = b OBVIOUS
<1>2. /\ Append(q, a) \in Seq(M) /\ Len(Append(q, a)) = Len(q) + 1 /\ Len(q) \in Nat
      /\ Append(q, a)[Len(q) + 1] = a /\ \A i \in 1..Len(q) : Append(q, a)[i] = q[i]
  OBVIOUS
<1>3. /\ Append(Append(q, a), b) \in Seq(M) /\ Len(Append(Append(q, a), b)) = Len(q) + 2
      /\ Append(Append(q, a), b)[Len(q) + 2] = b /\ Append(Append(q, a), b)[Len(q) + 1] = a
      /\ \A i \in 1..Len(q) : Append(Append(q, a), b)[i] = q[i]
  BY <1>2
<1>4. /\ q \o <<a, b>> \in Seq(M) /\ Len(q \o <<a, b>>) = Len(q) + 2
      /\ (q \o <<a, b>>)[Len(q) + 2] = b /\ (q \o <<a, b>>)[Len(q) + 1] = a
      /\ \A i \in 1..Len(q) : (q \o <<a, b>>)[i] = q[i]
  BY <1>1, <1>2
<1>5. \A i \in 1..(Len(q) + 2) : i \in 1..Len(q) \/ i = Len(q) + 1 \/ i = Len(q) + 2 BY <1>2
<1>6. \A i \in 1..(Len(q) + 2) : (q \o <<a, b>>)[i] = Append(Append(q, a), b)[i]
  BY <1>3, <1>4, <1>5
<1>7. \A s, t \in Seq(M) : Len(s) = Len(t) /\ (\A i \in 1..Len(s) : s[i] = t[i]) => s = t OBVIOUS
<1> QED BY <1>3, <1>4, <1>6, <1>7

\* Target.attachedToTarget: a view appears, and a call attaches to it inside the message.
LEMMA AttachedKeeps ==
  ASSUME Views!HoldersInv, s7 # <<>>, s7' = Tail(s7), UNCHANGED <<s2, s4>>,
         Views!Known(Head(s7)), Views!AttachedToTarget(Head(s7))
  PROVE  Views!HoldersInv'
<1> DEFINE e == Head(s7)
           x == e.target
<1>1. /\ Views!ViewsTyped /\ Views!OneView /\ Views!Owned(s8) /\ Views!Distinct(s8) /\ s7 \in Seq(Views!Messages)
      /\ s12 \in Seq(Views!Calls) /\ s8 \in [Views!Targets -> Nat] /\ s4 \in Nat
      /\ s9 \in [ViewTabs -> ViewPages \cup {None}] /\ Views!Holders(s12, s8) /\ Views!Nested(s12)
      /\ Views!Locks(s12, s8, s10) /\ s11 \subseteq s10
  BY DEF Views!HoldersInv, Views!ViewsTyped, Views!OneView
<1>2. /\ Tail(s7) \in Seq(Views!Messages) /\ e \in Views!Messages /\ e = s7[1] /\ 1 \in 1..Len(s7)
      /\ \A i \in 1..Len(s7') : \E j \in 1..Len(s7) : j # 1 /\ s7'[i] = s7[j]
      /\ \A i, k \in 1..Len(s7') : \E j, m \in 1..Len(s7) :
           s7'[i] = s7[j] /\ s7'[k] = s7[m] /\ (j = m => i = k)
  BY <1>1, EventTaken
<1>3. /\ e.kind = "attached" /\ s8[x] = 0
      /\ s8' = [s8 EXCEPT ![x] = e.session] /\ UNCHANGED <<s9, s11>>
  BY DEF Views!AttachedToTarget
<1>4. x \in Views!Targets /\ e.session \in Nat BY <1>2 DEF Views!Messages
<1>5. /\ e.session # 0 /\ x \notin ViewTabs /\ (e.active => x \in ViewPages)
  <2>1. Views!Sound(e) BY <1>1, <1>2 DEF Views!ViewsTyped
  <2> QED BY <1>3, <2>1 DEF Views!Sound
<1>6. s8[Views!Parent(x)] # 0 /\ Views!Parent(x) \in Views!Targets
  <2>1. s8[Views!Parent(x)] # 0 BY <1>5 DEF Views!Known
  <2> QED BY <1>4, <1>5, <2>1, ChainFacts
<1>7. e.session <= s4 /\ \A y \in Views!Targets : s8[y] # e.session
  BY <1>1, <1>2, <1>3 DEF Views!OneView
<1> DEFINE message == [Views!NewCall("message", Views!Parent(x), TRUE)
                       EXCEPT !.activates = e.active, !.page = x]
           then == s10 \cup Views!Held(message)
           items == [i \in DOMAIN Views!Chain(x) |->
                      [on |-> Views!Chain(x)[i], view |-> s8'[Views!Chain(x)[i]],
                       was |-> s8'[Views!Chain(x)[i]] \in then]]
           attach == [Views!NewCall("attach", x, FALSE)
                      EXCEPT !.view = e.session, !.items = items, !.held = TRUE]
<1>8. s12' = s12 \o <<message, attach>> /\ s10' = then \cup Views!Held(attach)
  <2>1. Views!Held(attach) = Views!LockedBy(items) /\ Views!Held(message) = Views!LockedBy(message.items)
    BY DEF Views!Held, Views!NewCall
  <2> QED BY <2>1 DEF Views!AttachedToTarget
<1>9. /\ message \in Views!Calls /\ Views!Holds(message, s8) /\ Views!Placed(message) /\ ~Views!Outermost(message)
      /\ \A j \in DOMAIN message.items :
           message.items[j].was <=> message.items[j].view \in s10
  <2> DEFINE m == Views!NewCall("message", Views!Parent(x), TRUE)
  <2>1. /\ m \in Views!Calls /\ Views!Holds(m, s8) /\ Views!Placed(m) /\ ~Views!Outermost(m)
        /\ \A j \in DOMAIN m.items : m.items[j].was <=> m.items[j].view \in s10
    BY <1>6, NewCallFacts
  <2>2. m.op = "message" /\ m.held = TRUE /\ m.on = Views!Parent(x) BY DEF Views!NewCall
  <2>3. message = [m EXCEPT !.activates = e.active, !.page = x] OBVIOUS
  <2>4. e.active \in BOOLEAN BY <1>2 DEF Views!Messages
  <2> HIDE DEF m, message, e
  <2>5. message \in Views!Calls BY <1>4, <2>1, <2>3, <2>4 DEF Views!Calls
  <2>6. /\ message.items = m.items /\ message.on = m.on /\ message.held = m.held
        /\ message.view = m.view /\ message.op = m.op /\ message.page = x
        /\ message.activates = e.active
    BY <2>1, <2>3 DEF Views!Calls
  <2>7. Views!Holds(message, s8) BY <2>1, <2>6 DEF Views!Holds
  <2>8. Views!Placed(message) BY <1>5, <2>2, <2>6 DEF Views!Placed, Views!Outermost
  <2>9. ~Views!Outermost(message) BY <2>2, <2>6 DEF Views!Outermost
  <2> QED BY <2>1, <2>5, <2>6, <2>7, <2>8, <2>9
<1> HIDE DEF message
<1>10. /\ Append(s12, message) \in Seq(Views!Calls) /\ Views!Holders(Append(s12, message), s8)
       /\ Views!Nested(Append(s12, message)) /\ Views!Locks(Append(s12, message), s8, then)
  BY <1>1, <1>9, Pushed
<1> HIDE DEF then
<1>11. /\ s8' \in [Views!Targets -> Nat] /\ Views!Distinct(s8') /\ s8'[x] = e.session
       /\ \A y \in Views!Targets : y # x => s8'[y] = s8[y]
  <2> HIDE DEF e
  <2>1. /\ s8' \in [Views!Targets -> Nat] /\ s8'[x] = e.session
        /\ \A y \in Views!Targets : y # x => s8'[y] = s8[y]
    BY <1>1, <1>3, <1>4
  <2>2. Views!Distinct(s8') BY <1>1, <1>7, <2>1 DEF Views!Distinct
  <2> QED BY <2>1, <2>2
<1>12. \A y \in Views!Targets : s8[y] # 0 => s8'[y] = s8[y] BY <1>3, <1>11
<1>13. Views!Owned(s8') 
  <2> SUFFICES ASSUME NEW y \in Views!Targets, y \notin ViewTabs, s8'[y] # 0 PROVE s8'[Views!Parent(y)] # 0
    BY DEF Views!Owned
  <2>1. Views!Parent(y) \in Views!Targets BY ChainFacts
  <2>2. CASE y = x BY <1>6, <1>12, <2>2
  <2>3. CASE y # x
    <3>1. s8[Views!Parent(y)] # 0 BY <1>1, <1>11, <2>3 DEF Views!Owned
    <3> QED BY <1>12, <2>1, <3>1
  <2> QED BY <2>2, <2>3
<1>14. /\ items \in Seq(Views!HeldItems) /\ DOMAIN items = DOMAIN Views!Chain(x) /\ items[1].view = s8'[x]
       /\ \A j \in DOMAIN items : /\ items[j].on = Views!Chain(x)[j]
                                  /\ s8'[items[j].on] = items[j].view
       /\ \A j \in DOMAIN items : items[j].was <=> items[j].view \in then
  <2> HIDE DEF e
  <2>1. s8'[x] # 0 BY <1>5, <1>11
  <2>2. x \in Views!Targets /\ s8' \in [Views!Targets -> Nat] BY <1>4, <1>11
  <2> HIDE DEF x
  <2>3. items = [i \in DOMAIN Views!Chain(x) |->
                   [on |-> Views!Chain(x)[i], view |-> s8'[Views!Chain(x)[i]],
                    was |-> s8'[Views!Chain(x)[i]] \in then]]
    BY DEF x
  <2> HIDE DEF items
  <2>4. ASSUME NEW vw, vw = s8'
        PROVE  /\ items \in Seq(Views!HeldItems) /\ DOMAIN items = DOMAIN Views!Chain(x) /\ items[1].view = vw[x]
               /\ \A j \in DOMAIN items : /\ items[j].on = Views!Chain(x)[j]
                                          /\ vw[items[j].on] = items[j].view
               /\ \A j \in DOMAIN items : items[j].was <=> items[j].view \in then
    <3>1. Views!Owned(vw) /\ vw \in [Views!Targets -> Nat] /\ vw[x] # 0 /\ x \in Views!Targets
      BY <1>13, <2>1, <2>2, <2>4
    <3>2. items = [i \in DOMAIN Views!Chain(x) |->
                     [on |-> Views!Chain(x)[i], view |-> vw[Views!Chain(x)[i]], was |-> vw[Views!Chain(x)[i]] \in then]]
      BY <2>3, <2>4
    <3> QED BY ONLY <3>1, <3>2, ItemsFacts
  <2> QED BY <2>4
<1> HIDE DEF items
<1>15. /\ attach \in Views!Calls /\ attach.op = "attach" /\ attach.on = x /\ attach.view = e.session
       /\ attach.items = items /\ attach.held = TRUE /\ attach.activates = FALSE
  <2> DEFINE a == Views!NewCall("attach", x, FALSE)
  <2>1. a \in [op : {"message", "attach", "call", "wait", "getTargets", "update", "close"},
               on : Views!Targets \cup {Root}, view : Nat, items : Seq(Views!HeldItems), held : BOOLEAN,
               activates : BOOLEAN, page : Views!Targets \cup {None}, todo : SUBSET ViewTabs]
    <3>1. x # Root BY <1>4, TargetsAreTrees
    <3>2. s8[x] \in Nat BY <1>1, <1>4
    <3> HIDE DEF x
    <3> QED BY <1>4, <3>1, <3>2 DEF Views!NewCall
  <2>2. a.op = "attach" /\ a.on = x /\ a.activates = FALSE BY DEF Views!NewCall
  <2> HIDE DEF a, x, e
  <2>3. attach = [a EXCEPT !.view = e.session, !.items = items, !.held = TRUE] BY DEF a, x
  <2> HIDE DEF attach
  <2>4. attach \in Views!Calls BY <1>4, <1>14, <2>1, <2>3 DEF Views!Calls
  <2>5. attach.op = a.op /\ attach.on = a.on /\ attach.activates = a.activates BY <2>1, <2>3
  <2>6. attach.view = e.session /\ attach.items = items /\ attach.held = TRUE BY <2>1, <2>3
  <2> QED BY <2>2, <2>4, <2>5, <2>6
<1> HIDE DEF attach
<1>16. Views!Holds(attach, s8') /\ Views!Placed(attach) /\ ~Views!Outermost(attach)
  <2>1. Views!Holds(attach, s8') BY <1>4, <1>11, <1>14, <1>15 DEF Views!Holds
  <2>2. Views!Placed(attach) /\ ~Views!Outermost(attach) BY <1>15 DEF Views!Placed, Views!Outermost
  <2> QED BY <2>1, <2>2
<1>17. /\ Append(Append(s12, message), attach) \in Seq(Views!Calls)
       /\ Views!Holders(Append(Append(s12, message), attach), s8')
       /\ Views!Nested(Append(Append(s12, message), attach))
       /\ Views!Locks(Append(Append(s12, message), attach), s8', then \cup Views!Held(attach))
  <2>1. \A j \in DOMAIN attach.items : attach.items[j].was <=> attach.items[j].view \in then
    BY <1>14, <1>15
  <2> DEFINE below == Append(s12, message)
  <2>2. below \in Seq(Views!Calls) /\ Views!Holders(below, s8) /\ Views!Nested(below) /\ Views!Locks(below, s8, then)
    BY <1>10
  <2>3. s8' \in [Views!Targets -> Nat] /\ Views!Distinct(s8') BY <1>11
  <2>4. attach \in Views!Calls BY <1>15
  <2> HIDE DEF below
  <2>5. /\ Append(below, attach) \in Seq(Views!Calls) /\ Views!Holders(Append(below, attach), s8')
        /\ Views!Nested(Append(below, attach))
        /\ Views!Locks(Append(below, attach), s8', then \cup Views!Held(attach))
    BY ONLY <1>12, <1>16, <2>1, <2>2, <2>3, <2>4, Pushed
  <2> QED BY <2>5 DEF below
<1>18. s12' = Append(Append(s12, message), attach)
  <2>1. s12 \in Seq(Views!Calls) /\ message \in Views!Calls /\ attach \in Views!Calls BY <1>1, <1>9, <1>15
  <2>2. s12' = s12 \o <<message, attach>> BY <1>8
  <2> QED BY ONLY <2>1, <2>2, Twice
<1>19. Views!ViewsTyped'
  <2>1. \A i \in 1..Len(s7') : Views!Sound(s7'[i]) BY <1>1, <1>2 DEF Views!ViewsTyped
  <2> QED BY <1>1, <1>2, <1>3, <1>11, <1>17, <1>18, <2>1 DEF Views!ViewsTyped
<1>20. Views!OneView'
  <2>1. \A y \in Views!Targets : s8'[y] <= s4' 
    <3>1. \A y \in Views!Targets : s8[y] <= s4 BY <1>1 DEF Views!OneView
    <3> QED BY <1>7, <1>11, <3>1
  <2>2. ASSUME NEW i \in 1..Len(s7'), s7'[i].kind = "attached"
        PROVE  /\ s7'[i].session <= s4'
               /\ \A y \in Views!Targets : s8'[y] # s7'[i].session
    <3>1. PICK j \in 1..Len(s7) : j # 1 /\ s7'[i] = s7[j] BY <1>2
    <3>2. s7[j].session # e.session BY <1>1, <1>2, <1>3, <2>2, <3>1 DEF Views!OneView
    <3>3. /\ s7[j].session <= s4
          /\ \A y \in Views!Targets : s8[y] # s7[j].session
      BY <1>1, <2>2, <3>1 DEF Views!OneView
    <3> QED BY <1>11, <3>1, <3>2, <3>3
  <2>3. ASSUME NEW i \in 1..Len(s7'), NEW k \in 1..Len(s7'),
               s7'[i].kind = "attached", s7'[k].kind = "attached",
               s7'[i].session = s7'[k].session
        PROVE  i = k
    <3>1. PICK j \in 1..Len(s7), m \in 1..Len(s7) :
            s7'[i] = s7[j] /\ s7'[k] = s7[m] /\ (j = m => i = k)
      BY <1>2
    <3>2. j = m BY <1>1, <2>3, <3>1 DEF Views!OneView
    <3> QED BY <3>1, <3>2
  <2> QED BY <1>11, <2>1, <2>2, <2>3 DEF Views!OneView
<1>21. s11' \subseteq s10' BY <1>1, <1>3, <1>8 DEF then
<1>22. s10' = then \cup Views!Held(attach) BY <1>8
<1> QED BY <1>13, <1>17, <1>18, <1>19, <1>20, <1>21, <1>22 DEF Views!HoldersInv

\* An event is handled.
LEMMA HandleMessageKeeps ==
  ASSUME Views!HoldersInv, Views!HandleMessage
  PROVE  Views!HoldersInv'
<1> DEFINE e == Head(s7)
<1>1. /\ s7 # <<>> /\ s7' = Tail(s7) /\ UNCHANGED <<s2, s4>>
      /\ (\/ Views!IgnoreEvent(e)
          \/ Views!Known(e) /\ (\/ Views!AttachedAgain(e) \/ Views!AttachedToTarget(e)
                                \/ Views!TargetInfoChanged(e) \/ Views!DetachedFromTarget(e)))
  BY DEF Views!HandleMessage, Views!browserVars
<1>2. /\ s7 \in Seq(Views!Messages) /\ s9 \in [ViewTabs -> ViewPages \cup {None}]
      /\ s11 \subseteq s10 /\ s8 \in [Views!Targets -> Nat]
  BY DEF Views!HoldersInv, Views!ViewsTyped
<1>3. e \in Views!Messages /\ Views!Sound(e)
  <2>1. e \in Views!Messages /\ e = s7[1] /\ 1 \in 1..Len(s7) BY <1>1, <1>2, EventTaken
  <2> QED BY <2>1 DEF Views!HoldersInv, Views!ViewsTyped
<1>4. e.target \in Views!Targets BY <1>3 DEF Views!Messages
<1> HIDE DEF e
<1>5. CASE Views!IgnoreEvent(e) BY <1>1, <1>2, <1>5, EventMarks DEF Views!IgnoreEvent
<1>6. ASSUME e.target \in ViewPages PROVE [s9 EXCEPT ![Views!Parent(e.target)] = e.target]
                                        \in [ViewTabs -> ViewPages \cup {None}]
  BY <1>2, <1>6
<1>7. CASE Views!AttachedAgain(e)
  <2>1. s9' \in [ViewTabs -> ViewPages \cup {None}]
    BY <1>2, <1>3, <1>6, <1>7 DEF Views!AttachedAgain, Views!Sound
  <2> QED BY <1>1, <1>2, <1>7, <2>1, EventMarks DEF Views!AttachedAgain
<1>8. CASE Views!TargetInfoChanged(e)
  <2>1. s9' \in [ViewTabs -> ViewPages \cup {None}]
    BY <1>2, <1>3, <1>6, <1>8 DEF Views!TargetInfoChanged, Views!Sound
  <2> QED BY <1>1, <1>2, <1>8, <2>1, EventMarks DEF Views!TargetInfoChanged
<1>9. CASE Views!Known(e) /\ Views!AttachedToTarget(e) BY <1>1, <1>9, AttachedKeeps DEF e
<1>10. CASE Views!DetachedFromTarget(e)
  <2> DEFINE x == e.target
  <2>1. Views!ActiveWithout(x) \in [ViewTabs -> ViewPages \cup {None}] BY <1>2 DEF Views!ActiveWithout
  <2>2. UNCHANGED s12 BY <1>10 DEF Views!DetachedFromTarget
  <2>3. CASE s8[x] = 0
    <3>1. UNCHANGED <<s8, s9, s10, s11>> BY <1>10, <2>3 DEF Views!DetachedFromTarget
    <3> QED BY <1>1, <1>2, <2>2, <3>1, EventMarks
  <2>4. CASE s8[x] # 0 /\ Views!KeepsDetached(x)
    <3>1. /\ s11' = s11 \cup {s8[x]} /\ s9' = Views!ActiveWithout(x)
          /\ UNCHANGED <<s8, s10>>
      BY <1>10, <2>4 DEF Views!DetachedFromTarget
    <3>2. s11' \subseteq s10 BY <1>2, <2>4, <3>1 DEF Views!KeepsDetached
    <3> QED BY <1>1, <2>1, <2>2, <3>1, <3>2, EventMarks
  <2>5. CASE s8[x] # 0 /\ ~Views!KeepsDetached(x)
    <3>1. /\ s8' = [y \in Views!Targets |-> IF y \in Views!Descendants({x}) THEN 0 ELSE s8[y]]
          /\ s9' = [t \in ViewTabs |-> IF t = x THEN None ELSE Views!ActiveWithout(x)[t]]
          /\ s10' = s10 \ {s8[y] : y \in Views!Descendants({x})}
          /\ s11' = s11 \ {s8[y] : y \in Views!Descendants({x})}
      BY <1>10, <2>5 DEF Views!DetachedFromTarget
    <3>2. s9' \in [ViewTabs -> ViewPages \cup {None}] BY <2>1, <3>1
    <3>3. s8[x] \notin s10 BY <2>5 DEF Views!KeepsDetached
    <3>4. UNCHANGED <<s2, s4, s12>> BY <1>1, <2>2
    <3> QED BY <1>1, <1>4, <3>1, <3>2, <3>3, <3>4, EventDeletes
  <2> QED BY <2>3, <2>4, <2>5
<1> QED BY <1>1, <1>5, <1>7, <1>8, <1>9, <1>10

-----------------------------------------------------------------------------
(* Calls return, and the views of tabs are updated.                        *)

\* The listener of an event returns.
LEMMA MessageReturnsKeeps ==
  ASSUME Views!HoldersInv, Views!MessageReturns
  PROVE  Views!HoldersInv'
<1>1. /\ s12 # <<>> /\ s12' = SubSeq(s12, 1, Len(s12) - 1)
      /\ UNCHANGED <<s2, s4, s7>>
  BY DEF Views!MessageReturns, Views!browserVars
<1>2. CASE ~(Views!Top.activates /\ s8[Views!Top.page] # 0)
  <2>1. Views!Release(Views!Top.items) BY <1>2 DEF Views!MessageReturns
  <2> QED BY <1>1, <2>1, ReleaseKeeps
<1>3. CASE Views!Top.activates /\ s8[Views!Top.page] # 0
  <2> DEFINE n == Len(s12)
             items == s12[n].items
             unlocked == {it.view : it \in Views!Released(items)} \ s11
  <2>1. /\ s9' = [s9 EXCEPT ![Views!Parent(Views!Top.page)] = Views!Top.page]
        /\ s10' = s10 \ unlocked /\ UNCHANGED <<s8, s11>>
    BY <1>3 DEF Views!MessageReturns, Views!Top
  <2>2. /\ s12 \in Seq(Views!Calls) /\ s8 \in [Views!Targets -> Nat] /\ s11 \subseteq s10
        /\ s9 \in [ViewTabs -> ViewPages \cup {None}] /\ Views!ViewsTyped /\ Views!OneView
    BY DEF Views!HoldersInv, Views!ViewsTyped
  <2>3. n \in Nat \ {0} /\ n \in 1..n /\ \A i \in 1..(n - 1) : i \in 1..n BY <1>1, <2>2
  <2>4. \A i \in 1..n : s12[i] \in Views!Calls /\ Views!Holds(s12[i], s8) /\ Views!Placed(s12[i])
    BY <2>2 DEF Views!HoldersInv, Views!Holders
  <2>5. Views!Top.page \in ViewPages /\ Views!Top.on = Views!Parent(Views!Top.page) /\ Views!Top.held
    BY <1>3, <2>3, <2>4 DEF Views!Top, Views!Placed
  <2>6. Views!Top.on \in ViewTabs
    <3>1. Views!Top.page \notin ViewTabs BY <2>5, TargetsAreTrees
    <3> QED BY <2>5, <3>1, TargetsAreTrees DEF Views!Parent
  <2>7. \A j \in DOMAIN items : items[j].on \in ViewTabs /\ s8[items[j].on] = items[j].view
    <3>1. Views!Chain(Views!Top.on) = <<Views!Top.on>> BY <2>6 DEF Views!Chain
    <3>2. Views!Holds(s12[n], s8) /\ Views!Top = s12[n] BY <2>3, <2>4 DEF Views!Top
    <3>3. /\ DOMAIN items = DOMAIN Views!Chain(Views!Top.on)
          /\ \A j \in DOMAIN items : items[j].on = Views!Chain(Views!Top.on)[j]
                                     /\ s8[items[j].on] = items[j].view
      BY <2>5, <3>2 DEF Views!Holds
    <3> QED BY <2>6, <3>1, <3>3
  <2>8. \A it \in Views!Released(items) : ~it.was /\ \E j \in DOMAIN items : it = items[j]
    <3>1. \A j \in DOMAIN items : j \in 1..j
      <4>1. items \in Seq(Views!HeldItems) BY <2>3, <2>4 DEF Views!Calls
      <4> QED BY <4>1
    <3> QED BY <3>1 DEF Views!Released
  <2>9. ASSUME NEW k \in 1..(n - 1), NEW it \in Views!Released(items) PROVE it.view \notin Views!Held(s12[k])
    <3>1. PICK j \in DOMAIN items : it = items[j] /\ ~items[j].was BY <2>8
    <3> QED BY <2>3, <3>1 DEF Views!HoldersInv, Views!Nested
  <2>10. \A k \in 1..(n - 1) : Views!Held(s12[k]) \subseteq s10'
    <3>1. \A k \in 1..(n - 1) : Views!Held(s12[k]) \subseteq s10 BY <2>3 DEF Views!HoldersInv, Views!Locks
    <3>2. \A k \in 1..(n - 1) : \A v \in Views!Held(s12[k]) : v \notin unlocked BY <2>9
    <3> QED BY <2>1, <3>1, <3>2
  <2>11. \A v \in Views!Held(s12[n]) : \E t \in ViewTabs : s8[t] = v
    <3> TAKE v \in Views!Held(s12[n])
    <3>1. PICK j \in DOMAIN items : v = items[j].view BY <2>3, <2>4, HeldFacts
    <3> QED BY <2>7, <3>1
  <2>12. s11' \subseteq s10' BY <2>1, <2>2
  <2>13. s10' \subseteq s10 BY <2>1
  <2> HIDE DEF unlocked
  <2>14. /\ s12' \in Seq(Views!Calls) /\ Views!Holders(s12', s8') /\ Views!Nested(s12')
         /\ Views!Locks(s12', s8', s10')
    <3>1. {} \in SUBSET Views!Targets OBVIOUS
    <3>2. /\ s8' \in [Views!Targets -> Nat] /\ \A t \in ViewTabs : s8'[t] = s8[t]
          /\ \A y \in Views!Targets : s8'[y] = IF y \in {} THEN 0 ELSE s8[y]
      BY <2>1, <2>2
    <3>3. \A k \in 1..(n - 1) : \A j \in DOMAIN s12[k].items : s12[k].items[j].on \notin {}
      OBVIOUS
    <3> QED BY <1>1, <2>10, <2>11, <2>13, <3>1, <3>2, <3>3, Popped DEF n
  <2>15. s9' \in [ViewTabs -> ViewPages \cup {None}] BY <2>1, <2>2, <2>5
  <2>16. Views!ViewsTyped' /\ Views!OneView'
    <3>1. s8' \in [Views!Targets -> Nat] /\ \A y \in Views!Targets : s8'[y] = 0 \/ s8'[y] = s8[y]
      BY <2>1, <2>2
    <3>2. UNCHANGED <<s2, s4>> /\ s7' = s7 BY <1>1
    <3> QED BY <2>2, <2>14, <2>15, <3>1, <3>2, FewerViews
  <2>17. Views!Owned(s8') BY <2>1 DEF Views!HoldersInv
  <2> QED BY <2>12, <2>14, <2>16, <2>17 DEF Views!HoldersInv
<1> QED BY <1>2, <1>3

\* A view is deleted while nothing is held.
LEMMA UpdateKeeps ==
  ASSUME Views!HoldersInv, s12 # <<>>, Views!Outermost(Views!Top), UNCHANGED <<s2, s4, s7>>,
         NEW X \in SUBSET ViewTabs, Views!DeleteViews(X, {}),
         s12' = <<>> \/ \E todo \in SUBSET ViewTabs : s12' = <<[Views!Top EXCEPT !.op = "update", !.todo = todo]>>
  PROVE  Views!HoldersInv'
<1> DEFINE gone == Views!Descendants(X)
<1>1. /\ Views!Top \in Views!Calls /\ ~Views!Top.held /\ Views!Top.items = <<>> /\ ~Views!Top.activates
      /\ 0 \notin s10 /\ \A v \in s10 : \E t \in ViewTabs : s8[t] = v
  BY OutermostIsAlone
<1>2. /\ s8' = [y \in Views!Targets |-> IF y \in gone THEN 0 ELSE s8[y]]
      /\ s9' = [t \in ViewTabs |-> IF t \in gone THEN None ELSE s9[t]]
      /\ s10' = s10 \ {s8[y] : y \in gone} /\ s11' = s11 \ {s8[y] : y \in gone}
  BY DEF Views!DeleteViews
<1>3. /\ Views!ViewsTyped /\ Views!OneView /\ Views!Owned(s8) /\ s11 \subseteq s10
      /\ s9 \in [ViewTabs -> ViewPages \cup {None}]
  BY DEF Views!HoldersInv, Views!ViewsTyped
<1>4. X \in SUBSET Views!Targets BY DEF Views!Targets
<1>5. s9' \in [ViewTabs -> ViewPages \cup {None}] BY <1>2, <1>3
<1>6. 0 \notin s10' /\ \A v \in s10' : \E t \in ViewTabs : s8'[t] = v
  <2> SUFFICES ASSUME NEW v \in s10' PROVE \E t \in ViewTabs : s8'[t] = v
    BY <1>1, <1>2
  <2>1. v \in s10 /\ \A y \in gone : v # s8[y] BY <1>2
  <2>2. PICK t \in ViewTabs : s8[t] = v BY <1>1, <2>1
  <2>3. t \in Views!Targets /\ t \notin gone BY <2>1, <2>2 DEF Views!Targets
  <2>4. s8'[t] = v BY <1>2, <2>2, <2>3
  <2> QED BY <2>4
<1>7. s12' \in Seq(Views!Calls) /\ Views!Holders(s12', s8') /\ Views!Nested(s12') /\ Views!Locks(s12', s8', s10')
  <2>1. CASE s12' = <<>>
    <3>1. /\ <<>> \in Seq(Views!Calls) /\ Views!Holders(<<>>, s8') /\ Views!Nested(<<>>)
          /\ Views!Locks(<<>>, s8', s10')
      BY <1>6, EmptyStack
    <3> QED BY <2>1, <3>1
  <2>2. CASE \E todo \in SUBSET ViewTabs : s12' = <<[Views!Top EXCEPT !.op = "update", !.todo = todo]>>
    <3>1. PICK todo \in SUBSET ViewTabs : s12' = <<[Views!Top EXCEPT !.op = "update", !.todo = todo]>>
      BY <2>2
    <3> DEFINE call == [Views!Top EXCEPT !.op = "update", !.todo = todo]
    <3>2. call \in Views!Calls BY <1>1 DEF Views!Calls
    <3>3. ~call.held BY <1>1 DEF Views!Calls
    <3>4. call.items = <<>> BY <1>1 DEF Views!Calls
    <3>5. ~call.activates BY <1>1 DEF Views!Calls
    <3>6. s12' = <<call>> BY <3>1
    <3> HIDE DEF call
    <3>7. /\ <<call>> \in Seq(Views!Calls) /\ Views!Holders(<<call>>, s8') /\ Views!Nested(<<call>>)
          /\ Views!Locks(<<call>>, s8', s10')
      BY <1>6, <3>2, <3>3, <3>4, <3>5, Alone
    <3> QED BY <3>6, <3>7
  <2> QED BY <2>1, <2>2
<1>8. Views!ViewsTyped' /\ Views!OneView' /\ Views!Owned(s8')
  <2>1. UNCHANGED <<s2, s4>> /\ s7' = s7 OBVIOUS
  <2> QED BY <1>2, <1>3, <1>4, <1>5, <1>7, <2>1, Deleted
<1>9. s11' \subseteq s10' BY <1>2, <1>3
<1> QED BY <1>7, <1>8, <1>9 DEF Views!HoldersInv

\* A tab of the snapshot is attached.
LEMMA AttachKeeps ==
  ASSUME Views!HoldersInv, Views!AttachToTarget
  PROVE  Views!HoldersInv'
<1>1. /\ s12 # <<>> /\ Views!Outermost(Views!Top) /\ UNCHANGED <<s7, s9, s11>>
  BY DEF Views!AttachToTarget, Views!Waiting, Views!Outermost
<1>2. PICK t \in Views!Top.todo :
        LET rest == <<[Views!Top EXCEPT !.todo = @ \ {t}]>> IN
          IF s8[t] # 0 \/ t \notin s1
          THEN s12' = rest /\ UNCHANGED <<s2, s4, s8, s10>>
          ELSE /\ s4' = s4 + 1
               /\ s2' = [s2 EXCEPT ![t] = s4']
               /\ s8' = [s8 EXCEPT ![t] = s4']
               /\ s12' = Append(rest, [Views!NewCall("attach", t, FALSE) EXCEPT
                             !.view = s4', !.held = TRUE,
                             !.items = <<[on |-> t, view |-> s4', was |-> FALSE]>>])
               /\ s10' = s10 \cup {s4'}
  BY DEF Views!AttachToTarget
<1>3. /\ Views!Top \in Views!Calls /\ ~Views!Top.held /\ Views!Top.items = <<>> /\ ~Views!Top.activates
      /\ 0 \notin s10 /\ \A v \in s10 : \E y \in ViewTabs : s8[y] = v
  BY <1>1, OutermostIsAlone
<1>4. /\ Views!ViewsTyped /\ Views!OneView /\ Views!Owned(s8) /\ s11 \subseteq s10 /\ Views!Distinct(s8)
      /\ s9 \in [ViewTabs -> ViewPages \cup {None}] /\ s8 \in [Views!Targets -> Nat] /\ s4 \in Nat
      /\ s2 \in [Views!Targets -> Nat] /\ s7 \in Seq(Views!Messages)
      /\ \A i \in 1..Len(s7) : Views!Sound(s7[i])
  BY DEF Views!HoldersInv, Views!ViewsTyped, Views!OneView
<1>5. t \in ViewTabs /\ t \in Views!Targets BY <1>3 DEF Views!Calls, Views!Targets
<1> DEFINE first == [Views!Top EXCEPT !.todo = Views!Top.todo \ {t}]
           rest == <<first>>
<1>6. /\ rest \in Seq(Views!Calls) /\ Views!Holders(rest, s8) /\ Views!Nested(rest) /\ Views!Locks(rest, s8, s10)
  <2>1. first \in Views!Calls BY <1>3 DEF Views!Calls
  <2>2. ~first.held BY <1>3 DEF Views!Calls
  <2>3. first.items = <<>> BY <1>3 DEF Views!Calls
  <2>4. ~first.activates BY <1>3 DEF Views!Calls
  <2> HIDE DEF first
  <2> QED BY <1>3, <2>1, <2>2, <2>3, <2>4, Alone
<1>7. CASE s8[t] # 0 \/ t \notin s1
  <2>1. s12' = rest /\ UNCHANGED <<s2, s4, s8, s10>> BY <1>2, <1>7
  <2> HIDE DEF rest
  <2>2. Views!ViewsTyped' BY <1>1, <1>4, <1>6, <2>1 DEF Views!ViewsTyped
  <2>3. Views!OneView' BY <1>1, <1>4, <2>1 DEF Views!OneView, Views!Distinct
  <2>4. s11' \subseteq s10' BY <1>1, <1>4, <2>1
  <2> QED BY <1>4, <1>6, <2>1, <2>2, <2>3, <2>4 DEF Views!HoldersInv
<1>8. CASE ~(s8[t] # 0 \/ t \notin s1)
  <2> DEFINE v == s4 + 1
             item == [on |-> t, view |-> v, was |-> FALSE]
             call == [Views!NewCall("attach", t, FALSE) EXCEPT !.view = v, !.held = TRUE, !.items = <<item>>]
  <2>1. /\ s4' = v /\ s2' = [s2 EXCEPT ![t] = v] /\ s8' = [s8 EXCEPT ![t] = v]
        /\ s12' = Append(rest, call) /\ s10' = s10 \cup {v} /\ s8[t] = 0
    BY <1>2, <1>8
  <2>2. v \in Nat \ {0} /\ s4 < v BY <1>4
  <2>3. \A y \in Views!Targets : s8[y] <= s4 BY <1>4 DEF Views!OneView
  <2>4. \A y \in Views!Targets : s8[y] # v BY <1>4, <2>2, <2>3
  <2> HIDE DEF v, rest
  <2>5. /\ item \in Views!HeldItems /\ item.on = t /\ item.view = v /\ item.was = FALSE
    BY <1>5, <2>2 DEF Views!HeldItems
  <2> HIDE DEF item
  <2>6. /\ <<item>> \in Seq(Views!HeldItems) /\ DOMAIN <<item>> = 1..1 /\ <<item>>[1] = item
        /\ \A i \in 1..1 : i = 1 BY <2>5
  <2>7. /\ call \in Views!Calls /\ call.op = "attach" /\ call.on = t /\ call.view = v
        /\ call.items = <<item>> /\ call.held = TRUE /\ call.activates = FALSE
    <3> DEFINE a == Views!NewCall("attach", t, FALSE)
    <3>1. a \in Views!Calls
      <4>1. t # Root BY <1>5, TargetsAreTrees
      <4>2. s8[t] \in Nat BY <1>4, <1>5
      <4> QED BY <1>5, <4>1, <4>2 DEF Views!NewCall, Views!Calls
    <3>2. a.op = "attach" /\ a.on = t /\ a.activates = FALSE BY DEF Views!NewCall
    <3>3. call = [a EXCEPT !.view = v, !.held = TRUE, !.items = <<item>>] OBVIOUS
    <3> HIDE DEF a, call
    <3>4. call \in Views!Calls BY <2>2, <2>6, <3>1, <3>3 DEF Views!Calls
    <3>5. call.op = a.op /\ call.on = a.on /\ call.activates = a.activates BY <3>1, <3>3 DEF Views!Calls
    <3>6. call.view = v /\ call.items = <<item>> /\ call.held = TRUE BY <3>1, <3>3 DEF Views!Calls
    <3> QED BY <3>2, <3>4, <3>5, <3>6
  <2> HIDE DEF call
  <2>8. /\ s8' \in [Views!Targets -> Nat] /\ s8'[t] = v
        /\ \A y \in Views!Targets : y # t => s8'[y] = s8[y]
    BY <1>4, <1>5, <2>1, <2>2
  <2>9. Views!Distinct(s8') BY <1>4, <2>4, <2>8 DEF Views!Distinct
  <2>10. Views!Holds(call, s8')
    <3>1. Views!Chain(t) = <<t>> BY <1>5 DEF Views!Chain
    <3>2. DOMAIN <<item>> = DOMAIN Views!Chain(t) /\ Views!Chain(t)[1] = t BY <2>6, <3>1
    <3> QED BY <1>5, <2>5, <2>6, <2>7, <2>8, <3>2 DEF Views!Holds
  <2>11. Views!Placed(call) /\ ~Views!Outermost(call) BY <2>7 DEF Views!Placed, Views!Outermost
  <2>12. v \notin s10
    <3>1. \A y \in ViewTabs : s8[y] # v BY <2>4 DEF Views!Targets
    <3> QED BY <1>3, <3>1
  <2>13. Views!Held(call) = {v}
    <3>1. call.items = <<item>> /\ DOMAIN <<item>> = {1} /\ <<item>>[1].view = v
      BY <2>5, <2>6, <2>7
    <3> QED BY <3>1 DEF Views!Held, Views!LockedBy
  <2>14. \A j \in DOMAIN call.items : call.items[j].was <=> call.items[j].view \in s10
    BY <2>5, <2>6, <2>7, <2>12
  <2>15. \A y \in Views!Targets : s8[y] # 0 => s8'[y] = s8[y] BY <2>1, <2>8
  <2>16. /\ Append(rest, call) \in Seq(Views!Calls) /\ Views!Holders(Append(rest, call), s8')
         /\ Views!Nested(Append(rest, call)) /\ Views!Locks(Append(rest, call), s8', s10 \cup Views!Held(call))
    BY <1>6, <2>7, <2>8, <2>9, <2>10, <2>11, <2>14, <2>15, Pushed
  <2>17. s2' \in [Views!Targets -> Nat] BY <1>4, <2>1, <2>2
  <2>18. Views!ViewsTyped' BY <1>1, <1>4, <2>1, <2>2, <2>8, <2>16, <2>17 DEF Views!ViewsTyped
  <2>19. Views!OneView'
    <3>1. \A y \in Views!Targets : s8'[y] <= s4' 
      <4> TAKE y \in Views!Targets
      <4>1. s8[y] <= s4 /\ s8[y] \in Nat BY <1>4, <2>3
      <4>2. s8'[y] = v \/ s8'[y] = s8[y] BY <2>8
      <4> QED BY <1>4, <2>1, <2>2, <4>1, <4>2
    <3>2. ASSUME NEW i \in 1..Len(s7), s7[i].kind = "attached"
          PROVE  s7[i].session <= s4' /\ \A y \in Views!Targets : s8'[y] # s7[i].session
      <4>1. s7[i].session <= s4 /\ \A y \in Views!Targets : s8[y] # s7[i].session
        BY <1>4, <3>2 DEF Views!OneView
      <4>2. s7[i] \in Views!Messages BY <1>4
      <4>3. s7[i].session \in Nat BY <4>2 DEF Views!Messages
      <4>4. s7[i].session # v /\ s7[i].session <= v BY <1>4, <2>2, <4>1, <4>3
      <4> QED BY <2>1, <2>8, <4>1, <4>4
    <3> QED BY <1>1, <1>4, <2>9, <3>1, <3>2 DEF Views!OneView
  <2>20. Views!Owned(s8')
    <3> SUFFICES ASSUME NEW y \in Views!Targets, y \notin ViewTabs, s8'[y] # 0 PROVE s8'[Views!Parent(y)] # 0
      BY DEF Views!Owned
    <3>1. Views!Parent(y) \in Views!Targets BY ChainFacts
    <3>2. s8[Views!Parent(y)] # 0 BY <1>4, <1>5, <2>8 DEF Views!Owned
    <3> QED BY <2>15, <3>1, <3>2
  <2>21. s11' \subseteq s10' BY <1>1, <1>4, <2>1
  <2>22. s10' = s10 \cup Views!Held(call) /\ s12' = Append(rest, call) BY <2>1, <2>13
  <2> QED BY <2>16, <2>18, <2>19, <2>20, <2>21, <2>22 DEF Views!HoldersInv
<1> QED BY <1>7, <1>8

\* Every step of the driver.
LEMMA DriverKeeps ==
  ASSUME Views!HoldersInv, Views!Driver
  PROVE  Views!HoldersInv'
<1>1. ASSUME UNCHANGED <<s2, s4, s7>>, Views!UNCHANGEDdriver PROVE Views!HoldersInv'
  BY <1>1 DEF Views!HoldersInv, Views!ViewsTyped, Views!OneView, Views!Distinct, Views!Owned, Views!UNCHANGEDdriver, Views!Holders, Views!Nested, Views!Locks
<1>2. CASE Views!HandleMessage BY <1>2, HandleMessageKeeps
<1>3. CASE Views!MessageReturns BY <1>3, MessageReturnsKeeps
<1>4. CASE Views!SetAutoAttach BY <1>1, <1>4 DEF Views!SetAutoAttach
<1>5. CASE Views!CallReturns
  <2>1. /\ s12 # <<>> /\ s12' = SubSeq(s12, 1, Len(s12) - 1) /\ Views!Release(Views!Top.items)
        /\ UNCHANGED <<s2, s4, s7>>
    BY <1>5 DEF Views!CallReturns, Views!Waiting, Views!browserVars
  <2> QED BY <2>1, ReleaseKeeps
<1>a. ASSUME NEW op \in {"call", "wait"}, NEW x \in Views!Targets, s8[x] # 0, NEW held \in BOOLEAN,
             Views!Push(Views!NewCall(op, x, held)),
             UNCHANGED <<s2, s4, s7, s8, s9, s11>>
      PROVE  Views!HoldersInv'
  <2> DEFINE call == Views!NewCall(op, x, held)
  <2>1. /\ call \in Views!Calls /\ Views!Holds(call, s8) /\ Views!Placed(call) /\ ~Views!Outermost(call)
        /\ \A j \in DOMAIN call.items : call.items[j].was <=> call.items[j].view \in s10
    BY <1>a, NewCallFacts
  <2>2. Views!Push(call) BY <1>a
  <2>3. UNCHANGED <<s2, s4, s7, s8, s9, s11>> BY <1>a
  <2> HIDE DEF call
  <2> QED BY <2>1, <2>2, <2>3, PushKeeps
<1>6. CASE Views!WaitForPendingActivePage
  <2>1. PICK t \in ViewTabs : s8[t] # 0 /\ Views!Push(Views!NewCall("wait", t, TRUE))
    BY <1>6 DEF Views!WaitForPendingActivePage
  <2>2. UNCHANGED <<s2, s4, s7, s8, s9, s11>>
    BY <1>6 DEF Views!WaitForPendingActivePage, Views!browserVars
  <2>3. t \in Views!Targets BY DEF Views!Targets
  <2> QED BY <1>a, <2>1, <2>2, <2>3
<1>7. CASE Views!CallOnPage
  <2>1. PICK t \in ViewTabs, held \in BOOLEAN :
          s9[t] # None /\ s8[s9[t]] # 0 /\ Views!Push(Views!NewCall("call", s9[t], held))
    BY <1>7 DEF Views!CallOnPage
  <2>2. UNCHANGED <<s2, s4, s7, s8, s9, s11>>
    BY <1>7 DEF Views!CallOnPage, Views!browserVars
  <2>3. s9[t] \in Views!Targets BY <2>1 DEF Views!HoldersInv, Views!ViewsTyped, Views!Targets
  <2> QED BY <1>a, <2>1, <2>2, <2>3
<1>8. CASE Views!CallOnFrame
  <2>1. PICK f \in ViewFrames : s8[f] # 0 /\ Views!Push(Views!NewCall("call", f, TRUE)) BY <1>8 DEF Views!CallOnFrame
  <2>2. UNCHANGED <<s2, s4, s7, s8, s9, s11>>
    BY <1>8 DEF Views!CallOnFrame, Views!browserVars
  <2>3. f \in Views!Targets BY DEF Views!Targets
  <2> QED BY <1>a, <2>1, <2>2, <2>3
<1>b. ASSUME s12 = <<>>, NEW call, call \in Views!Calls, ~call.held, call.items = <<>>,
             ~call.activates, Views!Push(call),
             UNCHANGED <<s2, s4, s7, s8, s9, s11>>
      PROVE  Views!HoldersInv'
  <2>1. Views!Holds(call, s8) /\ Views!Placed(call) BY <1>b DEF Views!Holds, Views!Placed
  <2>2. \A j \in DOMAIN call.items : call.items[j].was <=> call.items[j].view \in s10
    BY <1>b
  <2> QED BY <1>b, <2>1, <2>2, PushKeeps
<1>c. ASSUME NEW op \in {"getTargets", "close"}
      PROVE  /\ Views!NewCall(op, Root, FALSE) \in Views!Calls /\ ~Views!NewCall(op, Root, FALSE).held
             /\ Views!NewCall(op, Root, FALSE).items = <<>> /\ ~Views!NewCall(op, Root, FALSE).activates
  <2>1. Views!NewCall(op, Root, FALSE) = [op |-> op, on |-> Root, view |-> 0, items |-> <<>>, held |-> FALSE,
                                          activates |-> FALSE, page |-> None, todo |-> {}]
    BY DEF Views!NewCall
  <2>2. <<>> \in Seq(Views!HeldItems) OBVIOUS
  <2> DEFINE c == [op |-> op, on |-> Root, view |-> 0, items |-> <<>>, held |-> FALSE,
                   activates |-> FALSE, page |-> None, todo |-> {}]
  <2>3. c \in Views!Calls BY <2>2 DEF Views!Calls
  <2>4. c.held = FALSE /\ c.items = <<>> /\ c.activates = FALSE OBVIOUS
  <2>5. Views!NewCall(op, Root, FALSE) = c BY <2>1
  <2> HIDE DEF c
  <2> QED BY <2>3, <2>4, <2>5
<1>9. CASE Views!BeginUpdateWebViews
  <2>1. /\ s12 = <<>> /\ Views!Push(Views!NewCall("getTargets", Root, FALSE))
        /\ UNCHANGED <<s2, s4, s7, s8, s9, s11>>
    BY <1>9 DEF Views!BeginUpdateWebViews, Views!browserVars
  <2> QED BY <1>b, <1>c, <2>1
<1>10. CASE Views!BeginCloseWebView
  <2>1. PICK t \in ViewTabs : Views!Push([Views!NewCall("close", Root, FALSE) EXCEPT !.todo = {t}])
    BY <1>10 DEF Views!BeginCloseWebView
  <2>2. /\ s12 = <<>> /\ UNCHANGED <<s2, s4, s7, s8, s9, s11>>
    BY <1>10 DEF Views!BeginCloseWebView, Views!browserVars
  <2> DEFINE a == Views!NewCall("close", Root, FALSE)
             call == [a EXCEPT !.todo = {t}]
  <2>3. a \in Views!Calls /\ ~a.held /\ a.items = <<>> /\ ~a.activates BY <1>c
  <2>4. Views!Push(call) BY <2>1
  <2> HIDE DEF a
  <2>5. call \in Views!Calls BY <2>3 DEF Views!Calls
  <2>6. ~call.held BY <2>3 DEF Views!Calls
  <2>7. call.items = <<>> BY <2>3 DEF Views!Calls
  <2>8. ~call.activates BY <2>3 DEF Views!Calls
  <2> HIDE DEF call
  <2> QED BY <1>b, <2>2, <2>4, <2>5, <2>6, <2>7, <2>8
<1>11. CASE Views!UpdateWebViews
  <2>1. /\ s12 # <<>> /\ Views!Outermost(Views!Top) /\ UNCHANGED <<s2, s4, s7>>
        /\ Views!DeleteViews(ViewTabs \ s1, {})
        /\ s12' = <<[Views!Top EXCEPT !.op = "update", !.todo = ViewTabs \cap s1]>>
    BY <1>11 DEF Views!UpdateWebViews, Views!Waiting, Views!Outermost, Views!browserVars
  <2>2. ViewTabs \ s1 \in SUBSET ViewTabs /\ ViewTabs \cap s1 \in SUBSET ViewTabs OBVIOUS
  <2> QED BY <2>1, <2>2, UpdateKeeps
<1>12. CASE Views!AttachToTarget BY <1>12, AttachKeeps
<1>13. CASE Views!UpdateReturns
  <2>1. /\ s12 # <<>> /\ Views!Outermost(Views!Top) /\ s12' = <<>>
        /\ UNCHANGED <<s2, s4, s7, s8, s9, s10, s11>>
    BY <1>13 DEF Views!UpdateReturns, Views!Waiting, Views!Outermost, Views!browserVars
  <2>2. /\ Views!Top \in Views!Calls /\ ~Views!Top.held /\ Views!Top.items = <<>> /\ ~Views!Top.activates
        /\ 0 \notin s10 /\ \A v \in s10 : \E t \in ViewTabs : s8[t] = v
    BY <2>1, OutermostIsAlone
  <2>3. <<>> \in Seq(Views!Calls) /\ Views!Holders(<<>>, s8) /\ Views!Nested(<<>>) /\ Views!Locks(<<>>, s8, s10)
    BY <2>2, EmptyStack
  <2>4. Views!ViewsTyped' BY <2>1, <2>3 DEF Views!HoldersInv, Views!ViewsTyped
  <2>5. Views!OneView' BY <2>1 DEF Views!HoldersInv, Views!OneView, Views!Distinct
  <2> QED BY <2>1, <2>3, <2>4, <2>5 DEF Views!HoldersInv
<1>14. CASE Views!CloseWebView
  <2>1. /\ s12 # <<>> /\ Views!Outermost(Views!Top) /\ UNCHANGED <<s2, s4, s7>>
        /\ Views!DeleteViews(Views!Top.todo \ s1, {}) /\ s12' = <<>>
    BY <1>14 DEF Views!CloseWebView, Views!Waiting, Views!Outermost, Views!browserVars
  <2>2. Views!Top \in Views!Calls BY <2>1, OutermostIsAlone
  <2>3. Views!Top.todo \ s1 \in SUBSET ViewTabs BY <2>2 DEF Views!Calls
  <2> QED BY <2>1, <2>3, UpdateKeeps
<1>15. CASE Views!Undefined BY <1>1, <1>15 DEF Views!Undefined, Views!vars, Views!browserVars, Views!UNCHANGEDdriver
<1> QED BY <1>2, <1>3, <1>4, <1>5, <1>6, <1>7, <1>8, <1>9, <1>10, <1>11, <1>12, <1>13, <1>14, <1>15
        DEF Views!Driver

\* Nothing is held at first.
LEMMA ViewsStart ==
  ASSUME Views!Init
  PROVE  Views!HoldersInv /\ Views!BrowserTyped
<1>1. /\ s2 \in [Views!Targets -> Nat] /\ s8 \in [Views!Targets -> Nat]
      /\ s9 \in [ViewTabs -> ViewPages \cup {None}] /\ s5 \in [ViewTabs -> ViewPages \cup {None}]
      /\ s1 \subseteq Views!Targets /\ s4 = 0 /\ s7 = <<>> /\ s12 = <<>>
      /\ s10 = {} /\ s11 = {}
  BY DEF Views!Init
<1>2. \A x \in Views!Targets : s8[x] = 0 BY DEF Views!Init
<1>3. /\ <<>> \in Seq(Views!Messages) /\ <<>> \in Seq(Views!Calls) /\ Len(<<>>) = 0 /\ 1..0 = {} OBVIOUS
<1>4. Views!ViewsTyped BY <1>1, <1>3 DEF Views!ViewsTyped
<1>5. Views!OneView BY <1>1, <1>2, <1>3 DEF Views!OneView, Views!Distinct
<1>6. Views!Owned(s8) BY <1>2 DEF Views!Owned
<1>7. Views!Holders(s12, s8) /\ Views!Nested(s12) /\ Views!Locks(s12, s8, s10)
  BY <1>1, <1>3 DEF Views!Holders, Views!Nested, Views!Locks
<1> QED BY <1>1, <1>4, <1>5, <1>6, <1>7 DEF Views!HoldersInv, Views!BrowserTyped

\* The invariant gives the property.
LEMMA HoldersInvKeepViews ==
  ASSUME Views!HoldersInv
  PROVE  Views!HoldersKeepViews
<1>1. /\ s12 \in Seq(Views!Calls) /\ s8 \in [Views!Targets -> Nat] /\ DOMAIN s12 = 1..Len(s12)
  BY DEF Views!HoldersInv, Views!ViewsTyped
<1>2. Views!HeldViewsExist
  <2> SUFFICES ASSUME NEW i \in DOMAIN s12
               PROVE  /\ s12[i].held => ~Views!Dangling(s12[i])
                      /\ \A j \in DOMAIN s12[i].items :
                           s8[s12[i].items[j].on] = s12[i].items[j].view
    BY DEF Views!HeldViewsExist
  <2>1. s12[i] \in Views!Calls /\ Views!Holds(s12[i], s8) BY <1>1 DEF Views!HoldersInv, Views!Holders
  <2>2. ASSUME s12[i].held PROVE s8[s12[i].on] = s12[i].view
    <3>1. /\ s12[i].on \in Views!Targets /\ DOMAIN s12[i].items = DOMAIN Views!Chain(s12[i].on)
          /\ s12[i].view = s12[i].items[1].view
          /\ \A j \in DOMAIN s12[i].items :
               /\ s12[i].items[j].on = Views!Chain(s12[i].on)[j]
               /\ s8[s12[i].items[j].on] = s12[i].items[j].view
      BY <2>1, <2>2 DEF Views!Holds
    <3>2. 1 \in DOMAIN Views!Chain(s12[i].on) /\ Views!Chain(s12[i].on)[1] = s12[i].on
      BY <3>1, ChainFacts
    <3> QED BY <3>1, <3>2
  <2> QED BY <2>1, <2>2, HeldFacts DEF Views!Dangling
<1>3. Views!LocksMatchHolders
  <2> DEFINE tabViews == {s8[t] : t \in ViewTabs}
             all == UNION {Views!LockedBy(s12[i].items) : i \in DOMAIN s12}
  <2>1. \A v : v \in all <=> \E i \in 1..Len(s12) : v \in Views!Held(s12[i])
    BY <1>1 DEF Views!Held
  <2>2. all \subseteq s10 BY <2>1 DEF Views!HoldersInv, Views!Locks
  <2>3. \A v \in s10 : v \notin tabViews => v \in all BY <2>1 DEF Views!HoldersInv, Views!Locks
  <2>4. s10 \ tabViews = all \ tabViews BY <2>2, <2>3
  <2>5. s11 \subseteq s10 BY DEF Views!HoldersInv
  <2>6. Views!LocksMatchHolders <=> s10 \ tabViews = all \ tabViews /\ s11 \subseteq s10
    BY DEF Views!LocksMatchHolders
  <2> QED BY <2>4, <2>5, <2>6
<1> QED BY <1>2, <1>3 DEF Views!HoldersKeepViews

\* The steps of WebViews.
LEMMA ViewsSteps ==
  ASSUME part = "views", [Next]_vars
  PROVE  Views!Next \/ UNCHANGED Views!vars
<1>1. CASE Next
  BY <1>1 DEF Next, RoutingStep, ServerStep, ViewsStep, InputStep, NavStep, ElementsStep,
     CapsStep, LaunchStep, DevicesStep, WindowsStep, OverridesStep, CookiesStep, FedCmStep,
     LogsStep, ReplayStep
<1>2. CASE UNCHANGED vars BY <1>2 DEF vars, Views!vars, Views!browserVars
<1> QED BY <1>1, <1>2

ViewsInv == part = "views" => Views!HoldersInv /\ Views!BrowserTyped

LEMMA ViewsStepInv == ViewsInv /\ [Next]_vars => ViewsInv'
<1> SUFFICES ASSUME part = "views", Views!HoldersInv, Views!BrowserTyped, [Next]_vars
             PROVE  Views!HoldersInv' /\ Views!BrowserTyped'
  BY PartStays DEF ViewsInv
<1>1. Views!Next \/ UNCHANGED Views!vars BY ViewsSteps
<1>2. Views!BrowserTyped' BY <1>1, BrowserTypedKeeps
<1>3. CASE Views!Browser BY <1>2, <1>3, BrowserKeeps
<1>4. CASE Views!Driver BY <1>2, <1>4, DriverKeeps
<1>5. CASE UNCHANGED Views!vars
  <2>1. UNCHANGED <<s2, s4, s7>> /\ Views!UNCHANGEDdriver
    BY <1>5 DEF Views!vars, Views!browserVars, Views!UNCHANGEDdriver
  <2> QED BY <1>2, <2>1 DEF Views!UNCHANGEDdriver, Views!HoldersInv, Views!ViewsTyped, Views!OneView
<1> QED BY <1>1, <1>3, <1>4, <1>5 DEF Views!Next

\* No view that a holder locked is deleted before the holder is, whatever events arrive inside the
\* call and however calls are nested; and no page or frame stays locked, or is kept after it was
\* detached, without a holder (WebViewImplHolder, PageTracker, FrameTracker), for any targets,
\* number of sessions and depth of calls.
THEOREM ViewsAreHeld == Spec => []HoldersKeepViews
<1>1. Init => ViewsInv BY ViewsStart DEF Init, ViewsInv
<1>2. ViewsInv => HoldersKeepViews BY HoldersInvKeepViews DEF ViewsInv, HoldersKeepViews
<1> QED BY <1>1, <1>2, ViewsStepInv, PTL DEF Spec
-----------------------------------------------------------------------------
\* The steps of Cookies.
LEMMA CookiesSteps ==
  ASSUME part = "cookies", [Next]_vars
  PROVE  Cookies!Next \/ UNCHANGED Cookies!vars
<1>1. CASE Next
  BY <1>1 DEF Next, RoutingStep, ServerStep, ViewsStep, InputStep, NavStep, ElementsStep,
     CapsStep, LaunchStep, DevicesStep, WindowsStep, OverridesStep, CookiesStep, FedCmStep,
     LogsStep, ReplayStep
<1>2. CASE UNCHANGED vars BY <1>2 DEF vars, Cookies!vars
<1> QED BY <1>1, <1>2

DomainLabels == Cookies!Hosts \cup {<<>>, Cookies!Com, Cookies!Address}
AnyCookie ==
  [name : {"n", "m"}, labels : DomainLabels, hostOnly : BOOLEAN, path : {"/", "/a"}]
AnyUrl == [scheme : {"http", "about"}, host : DomainLabels, path : {"/", "/a"}]
RunSteps == {"getUrl", "list", "act", "check", "set"}
CookieErrors == {"error", "noSuchCookie", "invalidCookieDomain", "unableToSetCookie"}
CookieCalls ==
  [name : {"none", "get", "getNamed", "delete", "deleteAll", "add"},
   step : RunSteps \cup {"idle", "answered"},
   wanted : {"n", "m"}, domain : DomainLabels, path : {"/", "/a"}, url : AnyUrl,
   listed : SUBSET AnyCookie, todo : SUBSET AnyCookie, w3c : BOOLEAN, attempt : 0..2,
   answer : {"none", "ok"} \cup CookieErrors, blocked : BOOLEAN]
Reaches ==
  [urls : SUBSET AnyUrl, before : SUBSET AnyCookie, touched : SUBSET AnyCookie,
   added : SUBSET AnyCookie, deleted : SUBSET AnyCookie]

CookiesTyped ==
  s1 \subseteq AnyCookie /\ s2 \in AnyUrl /\ s3 \in CookieCalls /\ s4 \in Reaches

\* The frame's URL, and the one that a run has read, are among those that the frame has had; what
\* is listed, deleted and added belongs to one of them.
UrlsKnown ==
  /\ s3.step # "idle" => s2 \in s4.urls
  /\ s3.step \in {"list", "check", "set"} => s3.url \in s4.urls
  /\ \A c \in s3.listed \cup s4.deleted : \E u \in s4.urls : Cookies!VisibleAt(c, u)
  /\ s3.w3c => \A c \in s4.added : c.labels # Cookies!Address =>
                 \E u \in s4.urls : Cookies!DomainIs(u.host, c.labels)
  /\ s3.step = "set" /\ s3.w3c /\ s3.domain \notin {<<>>, Cookies!Address} =>
       Cookies!DomainIs(s3.url.host, s3.domain)

\* The cookies that are steady stay in the jar unless the command deletes them, are on its list
\* once it has one, and are among those that it has yet to delete.
SteadyKept ==
  /\ s3.todo \subseteq s3.listed
  /\ s3.name \notin {"delete", "deleteAll"} => s3.todo = {}
  /\ s3.step \in {"check", "set"} => s3.name = "add"
  /\ s3.step = "list" => s3.name # "add"
  /\ s3.step # "idle" /\ s3.name \notin {"delete", "deleteAll"} => Cookies!Steady \subseteq s1
  /\ s3.step = "act" => /\ s3.name # "add"
                        /\ s1 \cap Cookies!Steady \subseteq s3.listed
                        /\ s1 \cap Cookies!ToDelete(Cookies!Steady) \subseteq s3.todo

\* What an answer says.
AnswerHolds ==
  s3.step = "answered" /\ ~s3.blocked =>
    /\ s3.answer = "ok" => s1 \cap Cookies!ToDelete(Cookies!Steady) = {}
    /\ s3.answer = "ok" /\ s3.name = "get" => Cookies!Steady \subseteq s3.listed
    /\ s3.answer = "noSuchCookie" => \A c \in Cookies!Steady : c.name # s3.wanted

CookiesGood == CookiesTyped /\ UrlsKnown /\ SteadyKept /\ AnswerHolds
CookiesInv == part = "cookies" => CookiesGood

\* No command is under way.
LEMMA NoCall ==
  /\ Cookies!NoCookieCall \in CookieCalls
  /\ Cookies!NoCookieCall.step = "idle"
  /\ Cookies!NoCookieCall.todo = {} /\ Cookies!NoCookieCall.listed = {}
  /\ Cookies!NoReach \in Reaches
  /\ Cookies!NoReach.added = {} /\ Cookies!NoReach.deleted = {}
<1>1. Cookies!NoReach \in Reaches /\ Cookies!NoReach.added = {} /\ Cookies!NoReach.deleted = {}
  BY DEF Reaches, Cookies!NoReach, Cookies!Began
<1>2. Cookies!NoCookieCall \in CookieCalls
  BY DEF Cookies!NoCookieCall, CookieCalls, AnyUrl, DomainLabels, RunSteps
<1>3. /\ Cookies!NoCookieCall.step = "idle"
      /\ Cookies!NoCookieCall.todo = {} /\ Cookies!NoCookieCall.listed = {}
  BY DEF Cookies!NoCookieCall
<1> QED BY <1>1, <1>2, <1>3

\* Without a command all but the types holds.
LEMMA NoCallGood ==
  ASSUME CookiesTyped, s3 = Cookies!NoCookieCall, s4 = Cookies!NoReach
  PROVE  CookiesGood
<1>1. UrlsKnown BY NoCall DEF UrlsKnown
<1>2. SteadyKept BY NoCall DEF SteadyKept
<1>3. AnswerHolds BY NoCall DEF AnswerHolds
<1> QED BY <1>1, <1>2, <1>3 DEF CookiesGood

\* Initially no command has been given.
LEMMA CookiesInit == Init => CookiesInv
<1> SUFFICES ASSUME part = "cookies", Cookies!Init PROVE CookiesGood BY DEF Init, CookiesInv
<1>1. s1 \subseteq AnyCookie
  BY DEF Cookies!Init, Cookies!Cookie, AnyCookie, DomainLabels, Cookies!Hosts
<1>2. s2 \in AnyUrl BY DEF Cookies!Init, AnyUrl, DomainLabels, Cookies!Hosts
<1>3. s3 = Cookies!NoCookieCall /\ s4 = Cookies!NoReach BY DEF Cookies!Init
<1>4. CookiesTyped BY <1>1, <1>2, <1>3, NoCall DEF CookiesTyped
<1> QED BY <1>3, <1>4, NoCallGood

\* The more happens, the fewer cookies are steady.
LEMMA SteadyShrinks ==
  ASSUME s4.urls \subseteq s4'.urls, s4'.before = s4.before, s4.touched \subseteq s4'.touched
  PROVE  Cookies!Steady' \subseteq Cookies!Steady
BY DEF Cookies!Steady

\* A host belongs to its own domain.
LEMMA DomainIsItself ==
  ASSUME NEW h \in DomainLabels PROVE Cookies!DomainIs(h, h)
<1>1. /\ Len(<<>>) = 0 /\ Len(Cookies!Com) = 1 /\ Len(Cookies!Address) = 1
      /\ Len(Cookies!Site) = 2 /\ Len(Cookies!Other) = 2 /\ Len(Cookies!Shop) = 3
  BY DEF Cookies!Com, Cookies!Address, Cookies!Site, Cookies!Other, Cookies!Shop
<1>2. Len(h) \in Nat BY <1>1 DEF DomainLabels, Cookies!Hosts
<1> QED BY <1>2 DEF Cookies!DomainIs, Cookies!IsPrefix

\* A step of the page while a command is under way.
LEMMA PageStepKeeps ==
  ASSUME CookiesGood, s3' = s3, s3.step # "idle", s1' \subseteq AnyCookie, s2' \in AnyUrl,
         s4' \in Reaches, s2' \in s4'.urls, s4.urls \subseteq s4'.urls, s4'.before = s4.before,
         s4.touched \subseteq s4'.touched, s4'.added = s4.added, s4'.deleted = s4.deleted,
         \A c \in Cookies!Steady' : c \in s1 <=> c \in s1'
  PROVE  CookiesGood'
<1>0. CookiesTyped /\ UrlsKnown /\ SteadyKept /\ AnswerHolds BY DEF CookiesGood
<1>1. CookiesTyped' BY <1>0 DEF CookiesTyped
<1>2. UrlsKnown'
  <2>1. \A c \in s3'.listed \cup s4'.deleted : \E u \in s4'.urls : Cookies!VisibleAt(c, u)
    BY <1>0 DEF UrlsKnown
  <2>2. s3'.w3c => \A c \in s4'.added : c.labels # Cookies!Address =>
                     \E u \in s4'.urls : Cookies!DomainIs(u.host, c.labels)
    BY <1>0 DEF UrlsKnown
  <2>3. s3'.step \in {"list", "check", "set"} => s3'.url \in s4'.urls BY <1>0 DEF UrlsKnown
  <2>4. s3'.step = "set" /\ s3'.w3c /\ s3'.domain \notin {<<>>, Cookies!Address} =>
          Cookies!DomainIs(s3'.url.host, s3'.domain)
    BY <1>0 DEF UrlsKnown
  <2> QED BY <2>1, <2>2, <2>3, <2>4, Zenon DEF UrlsKnown
<1>3. Cookies!Steady' \subseteq Cookies!Steady BY SteadyShrinks
<1>4. s1' \cap Cookies!Steady' \subseteq s1 \cap Cookies!Steady BY <1>3
<1>5. s1' \cap Cookies!ToDelete(Cookies!Steady)' \subseteq s1 \cap Cookies!ToDelete(Cookies!Steady)
  BY <1>3, <1>4 DEF Cookies!ToDelete
<1>6. SteadyKept'
  <2>1. s3.name \notin {"delete", "deleteAll"} => Cookies!Steady' \subseteq s1'
    BY <1>0, <1>3 DEF SteadyKept
  <2> QED BY <1>0, <1>4, <1>5, <2>1 DEF SteadyKept
<1>7. AnswerHolds' BY <1>0, <1>3, <1>5 DEF AnswerHolds
<1> QED BY <1>1, <1>2, <1>6, <1>7 DEF CookiesGood

\* The page acts.
LEMMA PageKeeps ==
  ASSUME CookiesGood, Cookies!Navigate \/ Cookies!PageSetsCookie
  PROVE  CookiesGood'
<1>0. CookiesTyped /\ UrlsKnown /\ SteadyKept /\ AnswerHolds /\ s4 \in Reaches /\ s2 \in AnyUrl
  BY DEF CookiesGood, CookiesTyped
<1>1. s3' = s3 BY DEF Cookies!Navigate, Cookies!PageSetsCookie
<1>2. CASE Cookies!Navigate
  <2>1. s1' = s1 /\ s2' \in Cookies!Documents BY <1>2 DEF Cookies!Navigate
  <2>2. \A u \in Cookies!Documents : u \in AnyUrl
    BY DEF Cookies!Documents, AnyUrl, DomainLabels, Cookies!Hosts
  <2>3. s2' \in AnyUrl BY <2>1, <2>2
  <2>4. CASE s3.step = "idle"
    <3>1. s4' = s4 BY <1>2, <2>4 DEF Cookies!Navigate, Cookies!Witness
    <3>2. CookiesTyped' BY <1>0, <1>1, <2>1, <2>3, <3>1 DEF CookiesTyped
    <3>3. UrlsKnown' BY <1>0, <1>1, <2>4, <3>1 DEF UrlsKnown
    <3>4. SteadyKept' BY <1>0, <1>1, <2>4 DEF SteadyKept
    <3>5. AnswerHolds' BY <1>1, <2>4 DEF AnswerHolds
    <3> QED BY <3>2, <3>3, <3>4, <3>5 DEF CookiesGood
  <2>5. CASE s3.step # "idle"
    <3>1. s4' = [s4 EXCEPT !.urls = @ \cup {s2'}]
      BY <1>2, <2>5 DEF Cookies!Navigate, Cookies!Witness
    <3>2. /\ s4' \in Reaches /\ s4'.urls = s4.urls \cup {s2'} /\ s4'.before = s4.before
          /\ s4'.touched = s4.touched /\ s4'.added = s4.added /\ s4'.deleted = s4.deleted
      BY <1>0, <2>3, <3>1 DEF Reaches
    <3>3. s1' \subseteq AnyCookie BY <1>0, <2>1 DEF CookiesTyped
    <3> QED BY <1>1, <2>1, <2>3, <2>5, <3>2, <3>3, PageStepKeeps
  <2> QED BY <2>4, <2>5
<1>3. CASE Cookies!PageSetsCookie
  <2>1. PICK n \in {"n", "m"}, p \in {"/", "/a"} :
          LET c == Cookies!Cookie(n, s2.host, TRUE, p)
          IN /\ s1' = s1 \cup {c} \/ s1' = s1 \ {c}
             /\ Cookies!Witness([s4 EXCEPT !.touched = @ \cup {c}])
    BY <1>3 DEF Cookies!PageSetsCookie
  <2> DEFINE c == Cookies!Cookie(n, s2.host, TRUE, p)
  <2>2. s2.host \in DomainLabels BY <1>0 DEF AnyUrl
  <2>3. c \in AnyCookie BY <2>2 DEF Cookies!Cookie, AnyCookie
  <2>4. /\ s1' = s1 \cup {c} \/ s1' = s1 \ {c}
        /\ s4' = IF s3.step = "idle" THEN s4 ELSE [s4 EXCEPT !.touched = @ \cup {c}]
        /\ s2' = s2
    BY <1>3, <2>1 DEF Cookies!Witness, Cookies!PageSetsCookie
  <2> HIDE DEF c
  <2>5. s1' \subseteq AnyCookie BY <1>0, <2>3, <2>4 DEF CookiesTyped
  <2>6. CASE s3.step = "idle"
    <3>1. s4' = s4 BY <2>4, <2>6
    <3>2. CookiesTyped' BY <1>0, <1>1, <2>4, <2>5, <3>1 DEF CookiesTyped
    <3>3. UrlsKnown' BY <1>0, <1>1, <2>4, <2>6, <3>1 DEF UrlsKnown
    <3>4. SteadyKept' BY <1>0, <1>1, <2>6 DEF SteadyKept
    <3>5. AnswerHolds' BY <1>1, <2>6 DEF AnswerHolds
    <3> QED BY <3>2, <3>3, <3>4, <3>5 DEF CookiesGood
  <2>7. CASE s3.step # "idle"
    <3>1. s4' = [s4 EXCEPT !.touched = @ \cup {c}] BY <2>4, <2>7
    <3>2. /\ s4' \in Reaches /\ s4'.urls = s4.urls /\ s4'.before = s4.before
          /\ s4'.touched = s4.touched \cup {c} /\ s4'.added = s4.added /\ s4'.deleted = s4.deleted
      BY <1>0, <2>3, <3>1 DEF Reaches
    <3>3. c \notin Cookies!Steady' BY <3>2 DEF Cookies!Steady
    <3>4. \A x \in Cookies!Steady' : x \in s1 <=> x \in s1' BY <2>4, <3>3
    <3>5. s2' \in s4'.urls BY <1>0, <2>4, <2>7, <3>2 DEF UrlsKnown
    <3>6. s2' \in AnyUrl BY <1>0, <2>4
    <3> QED BY <1>1, <2>5, <2>7, <3>2, <3>4, <3>5, <3>6, PageStepKeeps
  <2> QED BY <2>6, <2>7
<1> QED BY <1>2, <1>3

\* A command begins.
LEMMA StartKeeps ==
  ASSUME CookiesGood, NEW call \in CookieCalls, Cookies!Start(call),
         call.step = "getUrl", call.todo = {}, call.listed = {}
  PROVE  CookiesGood'
<1>0. CookiesTyped BY DEF CookiesGood
<1>1. s3' = call /\ s4' = Cookies!Began({s2}, s1) /\ s1' = s1 /\ s2' = s2 BY DEF Cookies!Start
<1>2. /\ s4' \in Reaches /\ s4'.urls = {s2} /\ s4'.before = s1 /\ s4'.added = {}
      /\ s4'.deleted = {}
  BY <1>0, <1>1 DEF Cookies!Began, Reaches, CookiesTyped
<1>3. CookiesTyped' BY <1>0, <1>1, <1>2 DEF CookiesTyped
<1>4. UrlsKnown' BY <1>1, <1>2 DEF UrlsKnown
<1>5. Cookies!Steady' \subseteq s1' BY <1>1, <1>2 DEF Cookies!Steady
<1>6. SteadyKept' BY <1>1, <1>5 DEF SteadyKept
<1>7. AnswerHolds' BY <1>1 DEF AnswerHolds
<1> QED BY <1>3, <1>4, <1>6, <1>7 DEF CookiesGood

\* The five commands.
LEMMA CommandsKeep ==
  ASSUME CookiesGood,
         \/ Cookies!GetCookies \/ Cookies!DeleteAllCookies
         \/ \E n \in {"n", "m"} : Cookies!GetNamedCookie(n) \/ Cookies!DeleteCookie(n)
         \/ \E d \in Cookies!Hosts \cup {<<>>, Cookies!Com, Cookies!Address}, p \in {"/", "/a"}, w3c \in BOOLEAN :
              Cookies!AddCookie(d, p, w3c)
  PROVE  CookiesGood'
<1>1. CASE Cookies!GetCookies
  <2> DEFINE call == [Cookies!NoCookieCall EXCEPT !.name = "get", !.step = "getUrl"]
  <2>1. call \in CookieCalls BY NoCall DEF CookieCalls, DomainLabels, RunSteps
  <2>2. call.step = "getUrl" /\ call.todo = {} /\ call.listed = {} BY NoCall DEF CookieCalls
  <2>3. Cookies!Start(call) BY <1>1 DEF Cookies!GetCookies
  <2> HIDE DEF call
  <2> QED BY <2>1, <2>2, <2>3, StartKeeps
<1>2. CASE Cookies!DeleteAllCookies
  <2> DEFINE call == [Cookies!NoCookieCall EXCEPT !.name = "deleteAll", !.step = "getUrl"]
  <2>1. call \in CookieCalls BY NoCall DEF CookieCalls, DomainLabels, RunSteps
  <2>2. call.step = "getUrl" /\ call.todo = {} /\ call.listed = {} BY NoCall DEF CookieCalls
  <2>3. Cookies!Start(call) BY <1>2 DEF Cookies!DeleteAllCookies
  <2> HIDE DEF call
  <2> QED BY <2>1, <2>2, <2>3, StartKeeps
<1>3. ASSUME NEW n \in {"n", "m"}, Cookies!GetNamedCookie(n) PROVE CookiesGood'
  <2> DEFINE call == [Cookies!NoCookieCall EXCEPT !.name = "getNamed", !.step = "getUrl",
                                                 !.wanted = n]
  <2>1. call \in CookieCalls BY NoCall DEF CookieCalls, DomainLabels, RunSteps
  <2>2. call.step = "getUrl" /\ call.todo = {} /\ call.listed = {} BY NoCall DEF CookieCalls
  <2>3. Cookies!Start(call) BY <1>3 DEF Cookies!GetNamedCookie
  <2> HIDE DEF call
  <2> QED BY <2>1, <2>2, <2>3, StartKeeps
<1>4. ASSUME NEW n \in {"n", "m"}, Cookies!DeleteCookie(n) PROVE CookiesGood'
  <2> DEFINE call == [Cookies!NoCookieCall EXCEPT !.name = "delete", !.step = "getUrl",
                                                 !.wanted = n]
  <2>1. call \in CookieCalls BY NoCall DEF CookieCalls, DomainLabels, RunSteps
  <2>2. call.step = "getUrl" /\ call.todo = {} /\ call.listed = {} BY NoCall DEF CookieCalls
  <2>3. Cookies!Start(call) BY <1>4 DEF Cookies!DeleteCookie
  <2> HIDE DEF call
  <2> QED BY <2>1, <2>2, <2>3, StartKeeps
<1>5. ASSUME NEW d \in DomainLabels, NEW p \in {"/", "/a"}, NEW w3c \in BOOLEAN,
             Cookies!AddCookie(d, p, w3c)
      PROVE  CookiesGood'
  <2> DEFINE call == [Cookies!NoCookieCall EXCEPT !.name = "add", !.step = "getUrl", !.domain = d,
                                                 !.path = p, !.w3c = w3c]
  <2>1. call \in CookieCalls BY NoCall DEF CookieCalls, DomainLabels, RunSteps
  <2>2. call.step = "getUrl" /\ call.todo = {} /\ call.listed = {} BY NoCall DEF CookieCalls
  <2>3. Cookies!Start(call) BY <1>5 DEF Cookies!AddCookie
  <2> HIDE DEF call
  <2> QED BY <2>1, <2>2, <2>3, StartKeeps
<1> QED BY <1>1, <1>2, <1>3, <1>4, <1>5 DEF DomainLabels

\* What a run of the command may have done: it deleted visible cookies, and added some that belong
\* to the frame.
ReachGood(r) ==
  /\ r \in Reaches /\ r.urls = s4.urls /\ r.before = s4.before /\ r.touched = s4.touched
  /\ \A c \in r.deleted : \E u \in s4.urls : Cookies!VisibleAt(c, u)
  /\ s3.w3c => \A c \in r.added : c.labels # Cookies!Address =>
                 \E u \in s4.urls : Cookies!DomainIs(u.host, c.labels)

LEMMA ReachIsGood == ASSUME CookiesGood PROVE ReachGood(s4)
BY DEF CookiesGood, CookiesTyped, UrlsKnown, ReachGood

\* The command is answered.
LEMMA AnsweredKeeps ==
  ASSUME CookiesGood, s3.step \in RunSteps, ReachGood(s4'), s2' = s2, s1' \subseteq AnyCookie,
         s3.name \notin {"delete", "deleteAll"} => s1 \subseteq s1',
         NEW b \in {"ok"} \cup CookieErrors, NEW bl \in BOOLEAN,
         s3' = [s3 EXCEPT !.step = "answered", !.answer = b, !.blocked = bl],
         ~bl => /\ b = "ok" => s1' \cap Cookies!ToDelete(Cookies!Steady) = {}
                /\ b = "ok" /\ s3.name = "get" => Cookies!Steady \subseteq s3.listed
                /\ b = "noSuchCookie" => \A c \in Cookies!Steady : c.name # s3.wanted
  PROVE  CookiesGood'
<1>0. CookiesTyped /\ UrlsKnown /\ SteadyKept /\ s3 \in CookieCalls BY DEF CookiesGood, CookiesTyped
<1>1. s3' \in CookieCalls BY <1>0 DEF CookieCalls
<1>2. /\ s3'.step = "answered" /\ s3'.answer = b /\ s3'.blocked = bl /\ s3'.name = s3.name
      /\ s3'.wanted = s3.wanted /\ s3'.listed = s3.listed /\ s3'.todo = s3.todo
      /\ s3'.w3c = s3.w3c
  BY <1>0 DEF CookieCalls
<1>3. CookiesTyped' BY <1>0, <1>1 DEF CookiesTyped, ReachGood
<1>4. s3.step # "idle" BY DEF RunSteps
<1>5. Cookies!Steady' = Cookies!Steady BY DEF Cookies!Steady, ReachGood
<1>6. Cookies!ToDelete(Cookies!Steady)' = Cookies!ToDelete(Cookies!Steady)
  BY <1>2, <1>5 DEF Cookies!ToDelete
<1>7. UrlsKnown'
  <2>1. s4'.urls = s4.urls BY DEF ReachGood
  <2>2. \A c \in s3'.listed \cup s4'.deleted : \E u \in s4'.urls : Cookies!VisibleAt(c, u)
    BY <1>0, <1>2, <2>1 DEF UrlsKnown, ReachGood
  <2>3. s3'.w3c => \A c \in s4'.added : c.labels # Cookies!Address =>
                     \E u \in s4'.urls : Cookies!DomainIs(u.host, c.labels)
    BY <1>2, <2>1 DEF ReachGood
  <2>4. s2' \in s4'.urls BY <1>0, <1>4, <2>1 DEF UrlsKnown
  <2> QED BY <1>2, <2>2, <2>3, <2>4 DEF UrlsKnown
<1>8. SteadyKept' BY <1>0, <1>2, <1>4, <1>5 DEF SteadyKept
<1>9. AnswerHolds' BY <1>2, <1>5, <1>6 DEF AnswerHolds
<1> QED BY <1>3, <1>7, <1>8, <1>9 DEF CookiesGood

\* An answer of Answer is one of these.
LEMMA AnswerIs ==
  ASSUME s3 \in CookieCalls, NEW a, Cookies!Answer(a)
  PROVE  \E b \in {a, "error"} :
           s3' = [s3 EXCEPT !.step = "answered", !.answer = b, !.blocked = s3.blocked]
<1>1. PICK b \in {a, "error"} : s3' = [s3 EXCEPT !.step = "answered", !.answer = b]
  BY DEF Cookies!Answer
<1>2. s3' = [s3 EXCEPT !.step = "answered", !.answer = b, !.blocked = s3.blocked]
  BY <1>1 DEF CookieCalls
<1> QED BY <1>2

\* A run fails: the command is answered, or run again.
LEMMA FailKeeps ==
  ASSUME CookiesGood, s3.step \in RunSteps, NEW r, ReachGood(r), s1' \subseteq AnyCookie,
         s3.name \notin {"delete", "deleteAll"} => s1 \subseteq s1',
         NEW a \in CookieErrors, Cookies!Fails(a, r),
         a = "noSuchCookie" => \A c \in Cookies!Steady : c.name # s3.wanted
  PROVE  CookiesGood'
<1>0. /\ CookiesTyped /\ UrlsKnown /\ SteadyKept /\ s3 \in CookieCalls /\ s2 \in AnyUrl
      /\ r \in Reaches
  BY DEF CookiesGood, CookiesTyped, ReachGood
<1>1. CASE Cookies!Answer(a) /\ s4' = r /\ UNCHANGED s2
  <2>1. PICK b \in {a, "error"} :
          s3' = [s3 EXCEPT !.step = "answered", !.answer = b, !.blocked = s3.blocked]
    BY <1>0, <1>1, AnswerIs
  <2>2. b \in CookieErrors /\ b # "ok" /\ (b = "noSuchCookie" => a = "noSuchCookie")
    BY DEF CookieErrors
  <2>3. s3.blocked \in BOOLEAN BY <1>0 DEF CookieCalls
  <2>4. ReachGood(s4') BY <1>1
  <2> QED BY <1>1, <2>1, <2>2, <2>3, <2>4, AnsweredKeeps
<1>2. CASE Cookies!RunAgain(r)
  <2>1. /\ s3.attempt < 2
        /\ s3' = [s3 EXCEPT !.step = "getUrl", !.attempt = @ + 1, !.listed = {}, !.todo = {}]
        /\ s4' = [r EXCEPT !.urls = @ \cup {s2'}]
        /\ s2' \in Cookies!Documents \/ s2' = s2
    BY <1>2 DEF Cookies!RunAgain
  <2>2. \A u \in Cookies!Documents : u \in AnyUrl
    BY DEF Cookies!Documents, AnyUrl, DomainLabels, Cookies!Hosts
  <2>3. s2' \in AnyUrl BY <1>0, <2>1, <2>2
  <2>4. s3.attempt + 1 \in 0..2 BY <1>0, <2>1 DEF CookieCalls
  <2>5. s3' \in CookieCalls BY <1>0, <2>1, <2>4 DEF CookieCalls, RunSteps
  <2>6. /\ s3'.step = "getUrl" /\ s3'.name = s3.name /\ s3'.listed = {} /\ s3'.todo = {}
        /\ s3'.w3c = s3.w3c
    BY <1>0, <2>1 DEF CookieCalls
  <2>7. /\ s4' \in Reaches /\ s4'.urls = s4.urls \cup {s2'} /\ s4'.before = s4.before
        /\ s4'.touched = s4.touched /\ s4'.added = r.added /\ s4'.deleted = r.deleted
    BY <1>0, <2>1, <2>3 DEF Reaches, ReachGood
  <2>8. CookiesTyped' BY <2>3, <2>5, <2>7 DEF CookiesTyped
  <2>9. UrlsKnown'
    <3>1. \A c \in s3'.listed \cup s4'.deleted : \E u \in s4'.urls : Cookies!VisibleAt(c, u)
      BY <2>6, <2>7 DEF ReachGood
    <3>2. s3'.w3c => \A c \in s4'.added : c.labels # Cookies!Address =>
                       \E u \in s4'.urls : Cookies!DomainIs(u.host, c.labels)
      BY <2>6, <2>7 DEF ReachGood
    <3> QED BY <2>6, <2>7, <3>1, <3>2 DEF UrlsKnown
  <2>10. Cookies!Steady' \subseteq Cookies!Steady BY <2>7, SteadyShrinks
  <2>11. s3.step # "idle" BY DEF RunSteps
  <2>12. SteadyKept' BY <1>0, <2>6, <2>10, <2>11 DEF SteadyKept
  <2>13. AnswerHolds' BY <2>6 DEF AnswerHolds
  <2> QED BY <2>8, <2>9, <2>12, <2>13 DEF CookiesGood
<1> QED BY <1>1, <1>2 DEF Cookies!Fails

\* A DevTools command fails or is blocked.
LEMMA SendFailKeeps ==
  ASSUME CookiesGood, s3.step \in RunSteps, NEW r, ReachGood(r), s1' \subseteq AnyCookie,
         s3.name \notin {"delete", "deleteAll"} => s1 \subseteq s1', Cookies!SendFails(r)
  PROVE  CookiesGood'
<1>1. CASE Cookies!Fails("error", r) BY <1>1, FailKeeps DEF CookieErrors
<1>2. CASE /\ s3' = [s3 EXCEPT !.step = "answered", !.answer = "ok", !.blocked = TRUE]
           /\ s4' = r /\ UNCHANGED s2
  <2>1. ReachGood(s4') BY <1>2
  <2> QED BY <1>2, <2>1, AnsweredKeeps
<1> QED BY <1>1, <1>2 DEF Cookies!SendFails

\* The URL is read, and its cookies are listed.
LEMMA ListKeeps ==
  ASSUME CookiesGood, Cookies!GetUrl \/ Cookies!GetVisibleCookies
  PROVE  CookiesGood'
<1>0. CookiesTyped /\ UrlsKnown /\ SteadyKept /\ s3 \in CookieCalls BY DEF CookiesGood, CookiesTyped
<1>1. s1' = s1 /\ s3.step \in RunSteps
  BY DEF Cookies!GetUrl, Cookies!GetVisibleCookies, RunSteps
<1>2. CASE Cookies!SendFails(s4)
  BY <1>0, <1>1, <1>2, ReachIsGood, SendFailKeeps DEF CookiesTyped
<1>3. CASE /\ Cookies!GetUrl /\ UNCHANGED <<s2, s4>>
           /\ s3' = [s3 EXCEPT !.url = s2, !.step = IF s3.name = "add" THEN "check" ELSE "list"]
  <2>1. s3.step = "getUrl" BY <1>3 DEF Cookies!GetUrl
  <2>2. s3' \in CookieCalls BY <1>0, <1>3 DEF CookiesTyped, CookieCalls, RunSteps
  <2>3. /\ s3'.step \in {"check", "list"} /\ s3'.todo = s3.todo /\ s3'.listed = s3.listed
        /\ s3'.step = "check" => s3'.name = "add"
        /\ s3'.step = "list" => s3'.name # "add"
        /\ s3'.url = s2 /\ s3'.w3c = s3.w3c /\ s3'.name = s3.name
    BY <1>0, <1>3 DEF CookieCalls
  <2>4. CookiesTyped' BY <1>0, <1>1, <1>3, <2>2 DEF CookiesTyped
  <2>5. UrlsKnown' BY <1>0, <1>3, <2>1, <2>3 DEF UrlsKnown
  <2>6. Cookies!Steady' = Cookies!Steady BY <1>3 DEF Cookies!Steady
  <2>7. SteadyKept' BY <1>0, <1>1, <2>1, <2>3, <2>6 DEF SteadyKept
  <2>8. AnswerHolds' BY <2>3 DEF AnswerHolds
  <2> QED BY <2>4, <2>5, <2>7, <2>8 DEF CookiesGood
<1>4. CASE /\ Cookies!GetVisibleCookies /\ UNCHANGED <<s2, s4>>
           /\ s3' = [s3 EXCEPT !.listed = Cookies!Visible(s3.url),
                               !.todo = Cookies!ToDelete(Cookies!Visible(s3.url)), !.step = "act"]
  <2> DEFINE listed == Cookies!Visible(s3.url)
  <2> DEFINE todo == Cookies!ToDelete(listed)
  <2>1. s3.step = "list" /\ s3.url \in s4.urls
    BY <1>0, <1>4 DEF Cookies!GetVisibleCookies, UrlsKnown
  <2>2. listed = {c \in s1 : Cookies!VisibleAt(c, s3.url)} BY DEF Cookies!Visible
  <2>3. todo \subseteq listed /\ (s3.name \notin {"delete", "deleteAll"} => todo = {})
    BY DEF Cookies!ToDelete
  <2>4. listed \subseteq AnyCookie /\ todo \subseteq AnyCookie
    BY <1>0, <2>2, <2>3 DEF CookiesTyped
  <2>5. s1 \cap Cookies!Steady \subseteq listed BY <2>1, <2>2 DEF Cookies!Steady
  <2>6. s1 \cap Cookies!ToDelete(Cookies!Steady) \subseteq todo
    BY <2>5 DEF Cookies!ToDelete
  <2>7. s3' = [s3 EXCEPT !.listed = listed, !.todo = todo, !.step = "act"] BY <1>4
  <2> HIDE DEF listed, todo
  <2>8. s3' \in CookieCalls BY <1>0, <2>4, <2>7 DEF CookieCalls, RunSteps
  <2>9. /\ s3'.listed = listed /\ s3'.todo = todo /\ s3'.name = s3.name /\ s3'.wanted = s3.wanted
        /\ s3'.step = "act" /\ s3'.w3c = s3.w3c
    BY <1>0, <2>7 DEF CookieCalls
  <2>10. CookiesTyped' BY <1>0, <1>1, <1>4, <2>8 DEF CookiesTyped
  <2>11. UrlsKnown'
    <3>1. \A c \in listed : Cookies!VisibleAt(c, s3.url) BY <2>2
    <3>2. \A c \in s3'.listed \cup s4'.deleted : \E u \in s4'.urls : Cookies!VisibleAt(c, u)
      BY <1>0, <1>4, <2>1, <2>9, <3>1 DEF UrlsKnown
    <3> QED BY <1>0, <1>4, <2>1, <2>9, <3>2 DEF UrlsKnown
  <2>12. Cookies!Steady' = Cookies!Steady BY <1>4 DEF Cookies!Steady
  <2>13. Cookies!ToDelete(Cookies!Steady)' = Cookies!ToDelete(Cookies!Steady)
    BY <2>9, <2>12 DEF Cookies!ToDelete
  <2>14. SteadyKept'
    BY <1>0, <1>1, <2>1, <2>3, <2>5, <2>6, <2>9, <2>12, <2>13 DEF SteadyKept
  <2>15. AnswerHolds' BY <2>9 DEF AnswerHolds
  <2> QED BY <2>10, <2>11, <2>14, <2>15 DEF CookiesGood
<1> QED BY <1>2, <1>3, <1>4 DEF Cookies!GetUrl, Cookies!GetVisibleCookies

\* A listed cookie is deleted.
LEMMA DeleteKeeps ==
  ASSUME CookiesGood, Cookies!DeleteOne
  PROVE  CookiesGood'
<1>0. CookiesTyped /\ UrlsKnown /\ SteadyKept /\ s3 \in CookieCalls /\ s4 \in Reaches
  BY DEF CookiesGood, CookiesTyped
<1>1. s3.step = "act" /\ s3.step \in RunSteps BY DEF Cookies!DeleteOne, RunSteps
<1>2. PICK c \in s3.todo :
        LET r == [s4 EXCEPT !.deleted = @ \cup Cookies!DeletedBy(c)]
        IN \/ /\ s1' = s1 \ Cookies!DeletedBy(c) /\ s4' = r /\ UNCHANGED s2
              /\ s3' = [s3 EXCEPT !.todo = @ \ {c}]
           \/ Cookies!SendFails(r) /\ s1' = s1 \ Cookies!DeletedBy(c)
           \/ Cookies!SendFails(s4) /\ UNCHANGED s1
  BY DEF Cookies!DeleteOne
<1> DEFINE r == [s4 EXCEPT !.deleted = @ \cup Cookies!DeletedBy(c)]
<1>3. c \in s3.listed /\ c \in AnyCookie /\ s3.name \in {"delete", "deleteAll"}
  BY <1>0 DEF SteadyKept, CookieCalls
<1>4. Cookies!DeletedBy(c) = {d \in s1 : d = c} BY DEF Cookies!DeletedBy
<1>5. Cookies!DeletedBy(c) \subseteq {c} /\ s1 \ Cookies!DeletedBy(c) \subseteq s1 BY <1>4
<1>6. c \notin s1 \ Cookies!DeletedBy(c) BY <1>4
<1>7. /\ r \in Reaches /\ r.urls = s4.urls /\ r.before = s4.before /\ r.touched = s4.touched
      /\ r.added = s4.added /\ r.deleted \subseteq s4.deleted \cup {c}
  BY <1>0, <1>3, <1>5 DEF Reaches
<1> HIDE DEF r
<1>8. \A d \in r.deleted : \E u \in s4.urls : Cookies!VisibleAt(d, u)
  BY <1>0, <1>3, <1>7 DEF UrlsKnown
<1>9. ReachGood(r) BY <1>0, <1>7, <1>8 DEF ReachGood, UrlsKnown
<1>10. s1 \subseteq AnyCookie /\ s1 \ Cookies!DeletedBy(c) \subseteq AnyCookie
  BY <1>0, <1>5 DEF CookiesTyped
<1>11. CASE /\ s1' = s1 \ Cookies!DeletedBy(c) /\ s4' = r /\ UNCHANGED s2
            /\ s3' = [s3 EXCEPT !.todo = @ \ {c}]
  <2>1. s3' \in CookieCalls BY <1>0, <1>11 DEF CookieCalls
  <2>2. /\ s3'.todo = s3.todo \ {c} /\ s3'.listed = s3.listed /\ s3'.name = s3.name
        /\ s3'.wanted = s3.wanted /\ s3'.step = "act" /\ s3'.w3c = s3.w3c
    BY <1>0, <1>1, <1>11 DEF CookieCalls
  <2>3. CookiesTyped' BY <1>0, <1>7, <1>10, <1>11, <2>1 DEF CookiesTyped
  <2>4. UrlsKnown'
    <3>1. \A d \in s3'.listed \cup s4'.deleted : \E u \in s4'.urls : Cookies!VisibleAt(d, u)
      BY <1>0, <1>7, <1>8, <1>11, <2>2 DEF UrlsKnown
    <3>2. s3'.w3c => \A d \in s4'.added : d.labels # Cookies!Address =>
                       \E u \in s4'.urls : Cookies!DomainIs(u.host, d.labels)
      BY <1>0, <1>7, <1>11, <2>2 DEF UrlsKnown
    <3>3. s2' \in s4'.urls BY <1>0, <1>1, <1>7, <1>11 DEF UrlsKnown
    <3> QED BY <2>2, <3>1, <3>2, <3>3 DEF UrlsKnown
  <2>5. Cookies!Steady' = Cookies!Steady BY <1>7, <1>11 DEF Cookies!Steady
  <2>6. Cookies!ToDelete(Cookies!Steady)' = Cookies!ToDelete(Cookies!Steady)
    BY <2>2, <2>5 DEF Cookies!ToDelete
  <2>7. s1' \subseteq s1 /\ c \notin s1' BY <1>5, <1>6, <1>11
  <2>8. SteadyKept' BY <1>0, <1>1, <1>3, <2>2, <2>5, <2>6, <2>7 DEF SteadyKept
  <2>9. AnswerHolds' BY <2>2 DEF AnswerHolds
  <2> QED BY <2>3, <2>4, <2>8, <2>9 DEF CookiesGood
<1>12. CASE Cookies!SendFails(r) /\ s1' = s1 \ Cookies!DeletedBy(c)
  BY <1>1, <1>3, <1>9, <1>10, <1>12, SendFailKeeps
<1>13. CASE Cookies!SendFails(s4) /\ UNCHANGED s1
  BY <1>1, <1>10, <1>13, ReachIsGood, SendFailKeeps
<1> QED BY <1>2, <1>11, <1>12, <1>13 DEF r

\* A run is over.
LEMMA FinishKeeps ==
  ASSUME CookiesGood, Cookies!Finish
  PROVE  CookiesGood'
<1>0. CookiesTyped /\ SteadyKept /\ s3 \in CookieCalls BY DEF CookiesGood, CookiesTyped
<1>1. /\ s3.step = "act" /\ s3.step \in RunSteps /\ s3.todo = {} /\ s1' = s1
  BY DEF Cookies!Finish, RunSteps
<1>2. s1' \subseteq AnyCookie BY <1>0, <1>1 DEF CookiesTyped
<1>3. s3.name \notin {"delete", "deleteAll"} => Cookies!Steady \subseteq s3.listed
  BY <1>0, <1>1 DEF SteadyKept
<1>4. CASE /\ s3.name = "getNamed" /\ \A c \in s3.listed : c.name # s3.wanted
           /\ Cookies!Fails("noSuchCookie", s4)
  <2>1. \A c \in Cookies!Steady : c.name # s3.wanted BY <1>3, <1>4
  <2>2. "noSuchCookie" \in CookieErrors BY DEF CookieErrors
  <2> QED BY <1>1, <1>2, <1>4, <2>1, <2>2, ReachIsGood, FailKeeps
<1>5. CASE Cookies!Answer("ok") /\ UNCHANGED <<s2, s4>>
  <2>1. PICK b \in {"ok", "error"} :
          s3' = [s3 EXCEPT !.step = "answered", !.answer = b, !.blocked = s3.blocked]
    BY <1>0, <1>5, AnswerIs
  <2>2. s1' \cap Cookies!ToDelete(Cookies!Steady) = {} BY <1>0, <1>1 DEF SteadyKept
  <2>3. ReachGood(s4') BY <1>5, ReachIsGood
  <2>4. b \in {"ok"} \cup CookieErrors /\ b # "noSuchCookie" BY DEF CookieErrors
  <2>5. s3.blocked \in BOOLEAN BY <1>0 DEF CookieCalls
  <2> QED BY <1>1, <1>2, <1>3, <1>5, <2>1, <2>2, <2>3, <2>4, <2>5, AnsweredKeeps
<1> QED BY <1>4, <1>5 DEF Cookies!Finish

\* A cookie is checked and set.
LEMMA AddKeeps ==
  ASSUME CookiesGood, Cookies!CheckCookie \/ Cookies!SetCookie
  PROVE  CookiesGood'
<1>0. CookiesTyped /\ UrlsKnown /\ SteadyKept /\ s3 \in CookieCalls /\ s4 \in Reaches
  BY DEF CookiesGood, CookiesTyped
<1>1. s3.step \in {"check", "set"} BY DEF Cookies!CheckCookie, Cookies!SetCookie
<1>2. s3.step \in RunSteps /\ s3.name = "add" /\ s3.url \in s4.urls
  BY <1>0, <1>1 DEF SteadyKept, UrlsKnown, RunSteps
<1>3. s1 \subseteq AnyCookie BY <1>0 DEF CookiesTyped
<1>4. CASE Cookies!CheckCookie
  <2>1. s1' = s1 BY <1>4 DEF Cookies!CheckCookie
  <2>2. CASE Cookies!Fails("invalidCookieDomain", s4)
    <3>1. "invalidCookieDomain" \in CookieErrors BY DEF CookieErrors
    <3> QED BY <1>2, <1>3, <2>1, <2>2, <3>1, ReachIsGood, FailKeeps
  <2>3. CASE /\ s3' = [s3 EXCEPT !.step = "set"] /\ UNCHANGED <<s2, s4>>
             /\ s3.w3c /\ s3.domain \notin {<<>>, Cookies!Address} =>
                  Cookies!DomainIs(s3.url.host, s3.domain)
    <3>1. s3' \in CookieCalls BY <1>0, <2>3 DEF CookieCalls, RunSteps
    <3>2. /\ s3'.todo = s3.todo /\ s3'.listed = s3.listed /\ s3'.url = s3.url
          /\ s3'.step = "set" /\ s3'.name = "add" /\ s3'.w3c = s3.w3c /\ s3'.domain = s3.domain
      BY <1>0, <1>2, <2>3 DEF CookieCalls
    <3>3. CookiesTyped' BY <1>0, <2>1, <2>3, <3>1 DEF CookiesTyped
    <3>4. UrlsKnown' BY <1>0, <1>1, <1>2, <2>3, <3>2 DEF UrlsKnown
    <3>5. Cookies!Steady' = Cookies!Steady BY <2>3 DEF Cookies!Steady
    <3>6. SteadyKept' BY <1>0, <1>1, <1>2, <2>1, <3>2, <3>5 DEF SteadyKept
    <3>7. AnswerHolds' BY <3>2 DEF AnswerHolds
    <3> QED BY <3>3, <3>4, <3>6, <3>7 DEF CookiesGood
  <2> QED BY <1>4, <2>2, <2>3 DEF Cookies!CheckCookie
<1>5. CASE Cookies!SetCookie
  <2> DEFINE new == Cookies!NewCookie
             r == [s4 EXCEPT !.added = @ \cup {new}]
  <2>1. "unableToSetCookie" \in CookieErrors BY DEF CookieErrors
  <2>2. CASE Cookies!Fails("unableToSetCookie", s4) /\ UNCHANGED s1
    BY <1>2, <1>3, <2>1, <2>2, ReachIsGood, FailKeeps
  <2>3. CASE /\ s1' = s1 \cup {new}
             /\ \/ Cookies!Answer("ok") /\ s4' = r /\ UNCHANGED s2
                \/ Cookies!Fails("unableToSetCookie", r)
    <3>1. s3.url.host \in DomainLabels /\ s3.domain \in DomainLabels /\ s3.path \in {"/", "/a"}
      BY <1>0 DEF CookieCalls, AnyUrl
    <3>2. (~s3.w3c \/ s3.domain = Cookies!Address) \in BOOLEAN OBVIOUS
    <3>3. new \in AnyCookie BY <3>1, <3>2 DEF Cookies!NewCookie, Cookies!Cookie, AnyCookie
    <3>4. s3.w3c /\ new.labels # Cookies!Address => Cookies!DomainIs(s3.url.host, new.labels)
      <4>1. CASE s3.domain = <<>>
        <5>1. new.labels = s3.url.host BY <4>1 DEF Cookies!NewCookie, Cookies!Cookie
        <5> QED BY <3>1, <5>1, DomainIsItself
      <4>2. CASE s3.domain # <<>>
        <5>1. new.labels = s3.domain BY <4>2 DEF Cookies!NewCookie, Cookies!Cookie
        <5>2. s3.step = "set" BY <1>5 DEF Cookies!SetCookie
        <5> QED BY <1>0, <4>2, <5>1, <5>2 DEF UrlsKnown
      <4> QED BY <4>1, <4>2
    <3> HIDE DEF new
    <3>5. /\ r \in Reaches /\ r.urls = s4.urls /\ r.before = s4.before /\ r.touched = s4.touched
          /\ r.deleted = s4.deleted /\ r.added = s4.added \cup {new}
      BY <1>0, <3>3 DEF Reaches
    <3> HIDE DEF r
    <3>6. \A c \in r.deleted : \E u \in s4.urls : Cookies!VisibleAt(c, u)
      BY <1>0, <3>5 DEF UrlsKnown
    <3>7. s3.w3c => \A c \in r.added : c.labels # Cookies!Address =>
                      \E u \in s4.urls : Cookies!DomainIs(u.host, c.labels)
      BY <1>0, <1>2, <3>4, <3>5 DEF UrlsKnown
    <3>8. ReachGood(r) BY <3>5, <3>6, <3>7 DEF ReachGood
    <3>9. s1' \subseteq AnyCookie /\ s1 \subseteq s1' BY <1>3, <2>3, <3>3
    <3>10. CASE Cookies!Fails("unableToSetCookie", r)
      BY <1>2, <2>1, <3>8, <3>9, <3>10, FailKeeps
    <3>11. CASE Cookies!Answer("ok") /\ s4' = r /\ UNCHANGED s2
      <4>1. PICK b \in {"ok", "error"} :
              s3' = [s3 EXCEPT !.step = "answered", !.answer = b, !.blocked = s3.blocked]
        BY <1>0, <3>11, AnswerIs
      <4>2. Cookies!ToDelete(Cookies!Steady) = {} BY <1>2 DEF Cookies!ToDelete
      <4>3. b \in {"ok"} \cup CookieErrors /\ b # "noSuchCookie" BY DEF CookieErrors
      <4>4. s3.blocked \in BOOLEAN BY <1>0 DEF CookieCalls
      <4>5. ReachGood(s4') BY <3>8, <3>11
      <4> QED BY <1>2, <3>9, <3>11, <4>1, <4>2, <4>3, <4>4, <4>5, AnsweredKeeps
    <3> QED BY <2>3, <3>10, <3>11
  <2> QED BY <1>5, <2>2, <2>3 DEF Cookies!SetCookie
<1> QED BY <1>4, <1>5

\* Every step keeps the invariant.
LEMMA CookiesStepInv == ASSUME CookiesInv, [Next]_vars PROVE CookiesInv'
<1> SUFFICES ASSUME part = "cookies" PROVE CookiesGood' BY PartStays DEF CookiesInv
<1>0. CookiesGood BY DEF CookiesInv
<1>1. CASE UNCHANGED Cookies!vars
  BY <1>0, <1>1 DEF Cookies!vars, CookiesGood, CookiesTyped, UrlsKnown, SteadyKept, AnswerHolds,
     Cookies!Steady, Cookies!ToDelete
<1>2. CASE Cookies!EndCall
  <2>1. s3' = Cookies!NoCookieCall /\ s4' = Cookies!NoReach /\ UNCHANGED <<s1, s2>>
    BY <1>2 DEF Cookies!EndCall
  <2>2. CookiesTyped' BY <1>0, <2>1, NoCall DEF CookiesGood, CookiesTyped
  <2>3. UrlsKnown' BY <2>1, NoCall DEF UrlsKnown
  <2>4. SteadyKept' BY <2>1, NoCall DEF SteadyKept
  <2>5. AnswerHolds' BY <2>1, NoCall DEF AnswerHolds
  <2> QED BY <2>2, <2>3, <2>4, <2>5 DEF CookiesGood
<1> QED
  BY <1>0, <1>1, <1>2, CookiesSteps, PageKeeps, CommandsKeep, ListKeeps, DeleteKeeps, FinishKeeps,
     AddKeeps
     DEF Cookies!Next

\* Although the page navigates, sets and removes cookies at every point and the command is run
\* again after failures, a cookie command touches only cookies that the frame could see meanwhile,
\* a W3C session adds cookies only for domains the frame belonged to, and the cookies that were
\* there and visible all the time are all deleted or listed when the command says so, unless a
\* dialog blocked it.  For any number of commands and acts of the page (GetVisibleCookies,
\* ExecuteDeleteCookie, ExecuteDeleteAllCookies, ExecuteGetNamedCookie, ExecuteAddCookie).
THEOREM CookiesStayInReach == Spec => []CookiesInReach
<1>1. CookiesInv => CookiesInReach
  BY DEF CookiesInv, CookiesGood, UrlsKnown, AnswerHolds, CookiesInReach, Cookies!CookiesInReach
<1> QED BY <1>1, CookiesInit, CookiesStepInv, PTL DEF Spec
=============================================================================
