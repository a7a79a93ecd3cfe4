-------------------------- MODULE MCServices_proofs --------------------------
(***************************************************************************)
(* The components of MCServices, for every value of the bounds.  The       *)
(* initial state chooses the component, and every step is one of it:       *)
(* an invariant of a component is one of the whole.                        *)
(***************************************************************************)
EXTENDS MCServices, QueueLemmas, TLAPS

\* No step moves to another component.
LEMMA PartStays ==
  ASSUME [Next]_vars
  PROVE  part' = part
<1>1. CASE Next
  BY <1>1 DEF Next, RoutingStep, ServerStep, ViewsStep, InputStep, NavStep, ElementsStep,
     CapsStep, LaunchStep, DevicesStep, WindowsStep, OverridesStep, CookiesStep, FedCmStep,
     LogsStep, ReplayStep
<1>2. CASE UNCHANGED vars BY <1>2 DEF vars
<1> QED BY <1>1, <1>2
-----------------------------------------------------------------------------
\* The steps of FedCm.
LEMMA FedCmSteps ==
  ASSUME part = "fedcm", [Next]_vars
  PROVE  FedCm!Next \/ UNCHANGED FedCm!vars
<1>1. CASE Next
  BY <1>1 DEF Next, RoutingStep, ServerStep, ViewsStep, InputStep, NavStep, ElementsStep,
     CapsStep, LaunchStep, DevicesStep, WindowsStep, OverridesStep, CookiesStep, FedCmStep,
     LogsStep, ReplayStep
<1>2. CASE UNCHANGED vars BY <1>2 DEF vars, FedCm!vars
<1> QED BY <1>1, <1>2

FedCmEvents == {"shown", "closed"} \X Nat

FedCmTyped ==
  /\ s1 \in Nat /\ s2 \in Seq(FedCmEvents) /\ s3 \in {"none", "enabled"} /\ s7 \in Nat

FedCmInv == part = "fedcm" => FedCmTyped /\ FedCm!EventsWillTell

\* Initially no dialog is shown and none is known.
LEMMA FedCmInit == Init => FedCmInv
BY DEF Init, FedCmInv, FedCmTyped, FedCm!Init, FedCm!EventsWillTell

\* An event that tells what is shown now, or that nothing is, is sent if there is a tracker.
LEMMA EmitTells ==
  ASSUME part = "fedcm", FedCmTyped, FedCm!EventsWillTell, NEW e \in FedCmEvents,
         s1' \in Nat, FedCm!AfterEvent(e) \in {0, s1'}, s2' = FedCm!Emit(e, s2),
         s3' = s3, s4' = s4
  PROVE  s2' \in Seq(FedCmEvents) /\ FedCm!EventsWillTell'
<1>1. CASE s3 = "enabled"
  <2>1. s2' = Append(s2, e) BY <1>1 DEF FedCm!Emit
  <2>2. s2' \in Seq(FedCmEvents) /\ Len(s2') = Len(s2) + 1 /\ s2'[Len(s2) + 1] = e
    BY <2>1, AppendFacts DEF FedCmTyped
  <2>3. s2' # <<>> BY <2>2 DEF FedCmTyped
  <2>4. s2'[Len(s2')] = e BY <2>2
  <2> QED BY <2>2, <2>3, <2>4, <1>1 DEF FedCm!EventsWillTell, FedCm!AfterEvent
<1>2. CASE s3 # "enabled"
  BY <1>2 DEF FedCm!Emit, FedCmTyped, FedCm!EventsWillTell
<1> QED BY <1>1, <1>2

\* Every step keeps the invariant.
LEMMA FedCmStepInv == ASSUME FedCmInv, [Next]_vars PROVE FedCmInv'
<1> SUFFICES ASSUME part = "fedcm" PROVE FedCmTyped' /\ FedCm!EventsWillTell'
  BY PartStays DEF FedCmInv
<1>0. FedCmTyped /\ FedCm!EventsWillTell BY DEF FedCmInv
<1>1. CASE FedCm!ShowDialog
  <2>1. s1' \in Nat /\ s7' \in Nat BY <1>0, <1>1 DEF FedCmTyped, FedCm!ShowDialog
  <2>2. <<"shown", s1'>> \in FedCmEvents BY <2>1 DEF FedCmEvents
  <2>3. FedCm!AfterEvent(<<"shown", s1'>>) = s1' BY DEF FedCm!AfterEvent
  <2>4. s2' = FedCm!Emit(<<"shown", s1'>>, s2) /\ s3' = s3 /\ s4' = s4
    BY <1>1 DEF FedCm!ShowDialog
  <2>5. s2' \in Seq(FedCmEvents) /\ FedCm!EventsWillTell' BY <1>0, <2>1, <2>2, <2>3, <2>4, EmitTells
  <2> QED BY <1>0, <2>1, <2>4, <2>5 DEF FedCmTyped
<1>2. CASE FedCm!CloseDialog
  <2>1. s1' \in Nat /\ s7' \in Nat BY <1>0, <1>2 DEF FedCmTyped, FedCm!CloseDialog
  <2>2. <<"closed", s1>> \in FedCmEvents BY <1>0 DEF FedCmEvents, FedCmTyped
  <2>3. FedCm!AfterEvent(<<"closed", s1>>) = 0 BY DEF FedCm!AfterEvent
  <2>4. s2' = FedCm!Emit(<<"closed", s1>>, s2) /\ s3' = s3 /\ s4' = s4
    BY <1>2 DEF FedCm!CloseDialog
  <2>5. s2' \in Seq(FedCmEvents) /\ FedCm!EventsWillTell' BY <1>0, <2>1, <2>2, <2>3, <2>4, EmitTells
  <2> QED BY <1>0, <2>1, <2>4, <2>5 DEF FedCmTyped
<1>3. CASE FedCm!OnEvent
  <2>1. /\ s2 # <<>> /\ s4' = FedCm!AfterEvent(Head(s2)) /\ s2' = Tail(s2)
        /\ s1' = s1 /\ s3' = s3 /\ s7' = s7
    BY <1>3 DEF FedCm!OnEvent
  <2>2. /\ s2' \in Seq(FedCmEvents) /\ Len(s2) \in Nat \ {0} /\ Len(s2') = Len(s2) - 1
        /\ \A i \in 1..Len(s2') : s2'[i] = s2[i + 1]
        /\ Head(s2) = s2[1]
    BY <1>0, <2>1, TailFacts DEF FedCmTyped
  <2>3. FedCmTyped' BY <1>0, <2>1, <2>2 DEF FedCmTyped
  <2>4. s3' # "none" BY <1>0, <2>1 DEF FedCm!EventsWillTell
  <2>5. FedCm!AfterEvent(s2[Len(s2)]) \in {0, s1} BY <1>0, <2>1 DEF FedCm!EventsWillTell
  <2>6. CASE s2' = <<>>
    <3>1. Len(s2) = 1 BY <2>2, <2>6
    <3> QED BY <3>1, <2>1, <2>2, <2>3, <2>4, <2>5, <2>6 DEF FedCm!EventsWillTell
  <2>7. CASE s2' # <<>>
    <3>1. Len(s2') \in 1..Len(s2') BY <2>2, <2>7
    <3>2. s2'[Len(s2')] = s2[Len(s2)] BY <3>1, <2>2
    <3>3. FedCm!AfterEvent(s2'[Len(s2')]) \in {0, s1'} BY <3>2, <2>1, <2>5
    <3> QED BY <3>3, <2>3, <2>4, <2>7 DEF FedCm!EventsWillTell, FedCm!AfterEvent
  <2> QED BY <2>6, <2>7
<1>4. CASE FedCm!GetFedCmTracker
  BY <1>0, <1>4 DEF FedCmTyped, FedCm!EventsWillTell, FedCm!AfterEvent, FedCm!GetFedCmTracker
<1>5. CASE FedCm!Send
  <2>1. s3' = s3 /\ s4' = s4 /\ s7' = s7 BY <1>5 DEF FedCm!Send
  <2>2. CASE UNCHANGED <<s1, s2>>
    BY <1>0, <2>1, <2>2 DEF FedCmTyped, FedCm!EventsWillTell, FedCm!AfterEvent
  <2>3. CASE s1' = 0 /\ s2' = FedCm!Emit(<<"closed", s1>>, s2)
    <3>1. <<"closed", s1>> \in FedCmEvents BY <1>0 DEF FedCmEvents, FedCmTyped
    <3>2. FedCm!AfterEvent(<<"closed", s1>>) = 0 BY DEF FedCm!AfterEvent
    <3>3. s2' \in Seq(FedCmEvents) /\ FedCm!EventsWillTell'
      BY <1>0, <2>1, <2>3, <3>1, <3>2, EmitTells
    <3> QED BY <1>0, <2>1, <2>3, <3>3 DEF FedCmTyped
  <2> QED BY <1>5, <2>2, <2>3 DEF FedCm!Send
<1>6. CASE FedCm!Receive
  BY <1>0, <1>6 DEF FedCmTyped, FedCm!EventsWillTell, FedCm!AfterEvent, FedCm!Receive
<1>7. CASE UNCHANGED <<s1, s2, s3, s4, s7>>
  BY <1>0, <1>7 DEF FedCmTyped, FedCm!EventsWillTell, FedCm!AfterEvent
<1> QED
  BY FedCmSteps, <1>1, <1>2, <1>3, <1>4, <1>5, <1>6, <1>7
     DEF FedCm!Next, FedCm!vars, FedCm!Start, FedCm!CheckDialog, FedCm!EndCall

\* Once the events are handled the tracker knows no dialog but the one that is shown, whether it
\* was answered or closed by itself, and for any number of dialogs and commands
\* (fedcm_tracker.cc, fedcm_commands.cc).
THEOREM GhostsAreForgotten == Spec => []NoGhostDialog
<1>1. FedCmInv => NoGhostDialog
  BY DEF FedCmInv, NoGhostDialog, FedCm!NoGhostDialog, FedCm!EventsWillTell
<1> QED BY <1>1, FedCmInit, FedCmStepInv, PTL DEF Spec
-----------------------------------------------------------------------------
\* The steps of Devices.
LEMMA DevicesSteps ==
  ASSUME part = "devices", [Next]_vars
  PROVE  Devices!Next \/ UNCHANGED Devices!vars
<1>1. CASE Next
  BY <1>1 DEF Next, RoutingStep, ServerStep, ViewsStep, InputStep, NavStep, ElementsStep,
     CapsStep, LaunchStep, DevicesStep, WindowsStep, OverridesStep, CookiesStep, FedCmStep,
     LogsStep, ReplayStep
<1>2. CASE UNCHANGED vars BY <1>2 DEF vars, Devices!vars
<1> QED BY <1>1, <1>2

DeviceSteps ==
  {"idle", "acquire", "checkApp", "debugApp", "clearData", "commandLine", "launch", "socket",
   "forward", "devtools", "ready", "tearDown", "released"}
AdbCommands ==
  [what : {"checkApp", "debugApp", "clearData", "commandLine", "launch", "socket", "forward",
           "forceStop", "killForward"},
   dev : Devices!Serials \cup {"none"}, session : Devices!DeviceSessions]

DevicesTyped ==
  /\ s1 \in [Devices!DeviceSessions -> DeviceSteps]
  /\ s2 \in [Devices!DeviceSessions -> Devices!Wishes]
  /\ s3 \in [Devices!DeviceSessions -> {<<>>, <<"d1">>, <<"d2", "d1">>}]
  /\ s10 \subseteq AdbCommands
  /\ s11 \in [Devices!DeviceSessions -> SUBSET {"refused", "lost", "late", "stuck"}]
  /\ Devices!TypeOK

DevicesGood ==
  /\ DevicesTyped /\ Devices!HeldIsLocked /\ Devices!OneSessionPerDevice
  /\ Devices!LateIsFault /\ Devices!SetUpIsNoted /\ Devices!ReleasedIsClean
DevicesInv == part = "devices" => DevicesGood

\* Initially no session has a device and none is locked.
LEMMA DevicesInit == Init => DevicesInv
<1> SUFFICES ASSUME part = "devices", Devices!Init PROVE DevicesInv BY DEF Init, DevicesInv
<1>1. DevicesTyped
  BY DEF Devices!Init, DevicesTyped, Devices!TypeOK, DeviceSteps, Devices!Wishes
<1>2. Devices!HeldIsLocked /\ Devices!OneSessionPerDevice
  BY DEF Devices!Init, Devices!HeldIsLocked, Devices!OneSessionPerDevice
<1>3. Devices!LateIsFault BY DEF Devices!Init, Devices!LateIsFault
<1>4. Devices!SetUpIsNoted BY DEF Devices!Init, Devices!SetUpIsNoted, Devices!Noted
<1>5. Devices!ReleasedIsClean BY DEF Devices!Init, Devices!ReleasedIsClean, Devices!GivenBackClean
<1> QED BY <1>1, <1>2, <1>3, <1>4, <1>5 DEF DevicesInv, DevicesGood

\* What the fate of an adb command says: success is seen of executed commands only, and a command
\* that was executed without it had its answer lost.
LEMMA FateFacts ==
  ASSUME NEW fate \in Devices!Fates
  PROVE  /\ fate.executed \in BOOLEAN /\ fate.ok \in BOOLEAN
         /\ fate.fault \subseteq {"refused", "lost", "late"}
         /\ fate.ok <=> fate.fault = {}
         /\ fate.ok => fate.executed
         /\ fate.executed /\ ~fate.ok => "lost" \in fate.fault
<1>1. CASE \E t \in {"OKAY"}, w \in {a \in Devices!Answers : Devices!ParseOutput(a)} :
             fate = [executed |-> Devices!ParseOutput(w), ok |-> Devices!AdbQuery(t, w),
                     fault |-> {}]
  <2>1. PICK w \in Devices!Answers :
          /\ Devices!ParseOutput(w)
          /\ fate = [executed |-> Devices!ParseOutput(w), ok |-> Devices!AdbQuery("OKAY", w),
                     fault |-> {}]
    BY <1>1
  <2>2. Devices!ParseOutput(w) = TRUE BY <2>1 DEF Devices!ParseOutput
  <2>3. Devices!AdbQuery("OKAY", w) = TRUE BY <2>2 DEF Devices!AdbQuery
  <2>4. fate.executed = TRUE /\ fate.ok = TRUE /\ fate.fault = {} BY <2>1, <2>2, <2>3
  <2> QED BY <2>4
<1>2. CASE \E t \in {"OKAY", "FAIL"}, w \in {a \in Devices!Answers : ~Devices!ParseOutput(a)} :
             fate = [executed |-> FALSE, ok |-> Devices!AdbQuery(t, w), fault |-> {"refused"}]
  <2>1. PICK t \in {"OKAY", "FAIL"}, w \in Devices!Answers :
          /\ ~Devices!ParseOutput(w)
          /\ fate = [executed |-> FALSE, ok |-> Devices!AdbQuery(t, w), fault |-> {"refused"}]
    BY <1>2
  <2>2. Devices!ParseOutput(w) = FALSE BY <2>1 DEF Devices!ParseOutput
  <2>3. Devices!AdbQuery(t, w) = FALSE BY <2>2 DEF Devices!AdbQuery
  <2>4. fate.executed = FALSE /\ fate.ok = FALSE /\ fate.fault = {"refused"} BY <2>1, <2>3
  <2> QED BY <2>4
<1>3. CASE fate = [executed |-> TRUE, ok |-> FALSE, fault |-> {"lost"}] BY <1>3
<1>4. CASE fate = [executed |-> FALSE, ok |-> FALSE, fault |-> {"late"}] BY <1>4
<1> QED BY <1>1, <1>2, <1>3, <1>4 DEF Devices!Fates

\* The session and the device that a launched app, or a forwarded port, is new on.
Launches(c, s, d) == c.what = "launch" /\ s = c.session /\ d = c.dev
Forwards(c, s) == c.what = "forward" /\ s = c.session

\* What executing a command does to the device: it adds to what the session of the command has
\* there, by launch and forward, and takes away otherwise.
LEMMA ExecuteFacts ==
  ASSUME DevicesTyped, NEW c \in AdbCommands, Devices!Execute(c)
  PROVE  /\ s8' \in [Devices!Serials -> SUBSET Devices!DeviceSessions]
         /\ s9' \subseteq Devices!DeviceSessions
         /\ \A d \in Devices!Serials, s \in Devices!DeviceSessions :
              s \in s8'[d] => s \in s8[d] \/ Launches(c, s, d)
         /\ \A s \in Devices!DeviceSessions : s \in s9' => s \in s9 \/ Forwards(c, s)
         /\ c.what = "forceStop" /\ c.dev \in Devices!Serials => s8'[c.dev] = {}
         /\ c.what = "killForward" => c.session \notin s9'
<1>0. /\ s8 \in [Devices!Serials -> SUBSET Devices!DeviceSessions]
      /\ s9 \subseteq Devices!DeviceSessions
      /\ c.session \in Devices!DeviceSessions
      /\ c.what \in {"checkApp", "debugApp", "clearData", "commandLine", "launch", "socket",
                      "forward", "forceStop", "killForward"}
  BY DEF DevicesTyped, Devices!TypeOK, AdbCommands
<1>1. c.what = "launch" => s8' = [s8 EXCEPT ![c.dev] = @ \cup {c.session}] /\ s9' = s9
  BY DEF Devices!Execute
<1>2. c.what \in {"debugApp", "clearData", "forceStop"} =>
        s8' = [s8 EXCEPT ![c.dev] = {}] /\ s9' = s9
  BY DEF Devices!Execute
<1>3. c.what = "forward" => s9' = s9 \cup {c.session} /\ s8' = s8 BY DEF Devices!Execute
<1>4. c.what = "killForward" => s9' = s9 \ {c.session} /\ s8' = s8 BY DEF Devices!Execute
<1>5. c.what \in {"checkApp", "commandLine", "socket"} => s8' = s8 /\ s9' = s9
  BY DEF Devices!Execute
<1>6. s8' \in [Devices!Serials -> SUBSET Devices!DeviceSessions]
  BY <1>0, <1>1, <1>2, <1>3, <1>4, <1>5
<1>7. s9' \subseteq Devices!DeviceSessions BY <1>0, <1>1, <1>2, <1>3, <1>4, <1>5
<1>8. ASSUME NEW d \in Devices!Serials, NEW s \in Devices!DeviceSessions, s \in s8'[d],
             s \notin s8[d]
      PROVE  Launches(c, s, d)
  <2>1. c.what = "launch" BY <1>0, <1>2, <1>3, <1>4, <1>5, <1>8
  <2> QED BY <2>1, <1>0, <1>1, <1>8 DEF Launches
<1>9. ASSUME NEW s \in Devices!DeviceSessions, s \in s9', s \notin s9
      PROVE  Forwards(c, s)
  <2>1. c.what = "forward" BY <1>0, <1>1, <1>2, <1>4, <1>5, <1>9
  <2> QED BY <2>1, <1>3, <1>9 DEF Forwards
<1>10. c.what = "forceStop" /\ c.dev \in Devices!Serials => s8'[c.dev] = {} BY <1>0, <1>2
<1>11. c.what = "killForward" => c.session \notin s9' BY <1>4
<1> QED BY <1>6, <1>7, <1>8, <1>9, <1>10, <1>11

\* What sending a command does.
LEMMA CommandFacts ==
  ASSUME DevicesTyped, Devices!LateIsFault, NEW s \in Devices!DeviceSessions,
         NEW what \in {"checkApp", "debugApp", "clearData", "commandLine", "launch", "socket",
                       "forward", "forceStop", "killForward"},
         NEW fate \in Devices!Fates, Devices!Command(s, what, fate)
  PROVE  /\ s8' \in [Devices!Serials -> SUBSET Devices!DeviceSessions]
         /\ s9' \subseteq Devices!DeviceSessions
         /\ s10' \subseteq AdbCommands
         /\ s11' \in [Devices!DeviceSessions -> SUBSET {"refused", "lost", "late", "stuck"}]
         /\ Devices!LateIsFault'
         /\ \A t \in Devices!DeviceSessions : t # s => s11'[t] = s11[t]
         /\ s11'[s] \subseteq {"refused"} =>
              /\ s11[s] \subseteq {"refused"} /\ fate.fault \subseteq {"refused"}
              /\ s1[s] = "tearDown" => fate.ok
         /\ \A d \in Devices!Serials, t \in Devices!DeviceSessions :
              t \in s8'[d] => \/ t \in s8[d]
                              \/ t = s /\ what = "launch" /\ d = s4[s] /\ fate.executed
         /\ \A t \in Devices!DeviceSessions :
              t \in s9' => t \in s9 \/ (t = s /\ what = "forward" /\ fate.executed)
         /\ what = "forceStop" /\ fate.executed /\ s4[s] \in Devices!Serials => s8'[s4[s]] = {}
         /\ what = "killForward" /\ fate.executed => s \notin s9'
<1> DEFINE c == [what |-> what, dev |-> s4[s], session |-> s]
<1>0. /\ s1 \in [Devices!DeviceSessions -> DeviceSteps]
      /\ s4 \in [Devices!DeviceSessions -> Devices!Serials \cup {"none"}]
      /\ s8 \in [Devices!Serials -> SUBSET Devices!DeviceSessions]
      /\ s9 \subseteq Devices!DeviceSessions
      /\ s10 \subseteq AdbCommands
      /\ s11 \in [Devices!DeviceSessions -> SUBSET {"refused", "lost", "late", "stuck"}]
  BY DEF DevicesTyped, Devices!TypeOK
<1>1. c \in AdbCommands BY <1>0 DEF AdbCommands
<1>2. c.what = what /\ c.dev = s4[s] /\ c.session = s OBVIOUS
<1>3. /\ IF fate.executed THEN Devices!Execute(c) ELSE UNCHANGED <<s8, s9>>
      /\ s10' = IF "late" \in fate.fault THEN s10 \cup {c} ELSE s10
      /\ s11' = [s11 EXCEPT ![s] = @ \cup
           IF s1[s] = "tearDown" /\ fate.fault # {} THEN {"stuck"} ELSE fate.fault]
  BY DEF Devices!Command
<1> HIDE DEF c
<1>4. /\ fate.executed \in BOOLEAN /\ fate.ok \in BOOLEAN
      /\ fate.fault \subseteq {"refused", "lost", "late"}
      /\ fate.ok <=> fate.fault = {}
  BY FateFacts
<1>5. s11' \in [Devices!DeviceSessions -> SUBSET {"refused", "lost", "late", "stuck"}]
  BY <1>0, <1>3, <1>4
<1>6. s10' \subseteq AdbCommands BY <1>0, <1>1, <1>3
<1>7. \A t \in Devices!DeviceSessions : t # s => s11'[t] = s11[t] BY <1>0, <1>3
<1>8. s11'[s] = s11[s] \cup
        IF s1[s] = "tearDown" /\ fate.fault # {} THEN {"stuck"} ELSE fate.fault
  BY <1>0, <1>3
<1>9. s11'[s] \subseteq {"refused"} => s11[s] \subseteq {"refused"}
  BY <1>8
<1>10. s11'[s] \subseteq {"refused"} => fate.fault \subseteq {"refused"} BY <1>8
<1>11. s11'[s] \subseteq {"refused"} /\ s1[s] = "tearDown" => fate.ok BY <1>4, <1>8
<1>12. Devices!LateIsFault'
  <2> SUFFICES ASSUME NEW e \in s10' PROVE s11'[e.session] \cap {"late", "stuck"} # {}
    BY DEF Devices!LateIsFault
  <2>1. CASE e \in s10
    <3>1. s11[e.session] \cap {"late", "stuck"} # {} BY <2>1 DEF Devices!LateIsFault
    <3>2. e.session \in Devices!DeviceSessions BY <2>1, <1>0 DEF AdbCommands
    <3>3. s11[e.session] \subseteq s11'[e.session] BY <3>2, <1>7, <1>8
    <3> QED BY <3>1, <3>3
  <2>2. CASE e \notin s10
    <3>1. e = c /\ "late" \in fate.fault BY <2>2, <1>3
    <3>2. s11'[s] \cap {"late", "stuck"} # {} BY <3>1, <1>8
    <3> QED BY <3>1, <3>2, <1>2
  <2> QED BY <2>1, <2>2
<1>13. CASE fate.executed
  <2>1. Devices!Execute(c) BY <1>3, <1>13
  <2>2. /\ s8' \in [Devices!Serials -> SUBSET Devices!DeviceSessions]
        /\ s9' \subseteq Devices!DeviceSessions
        /\ \A d \in Devices!Serials, t \in Devices!DeviceSessions :
             t \in s8'[d] => t \in s8[d] \/ Launches(c, t, d)
        /\ \A t \in Devices!DeviceSessions : t \in s9' => t \in s9 \/ Forwards(c, t)
        /\ c.what = "forceStop" /\ c.dev \in Devices!Serials => s8'[c.dev] = {}
        /\ c.what = "killForward" => c.session \notin s9'
    BY <2>1, <1>1, ExecuteFacts
  <2>3. \A d \in Devices!Serials, t \in Devices!DeviceSessions :
          t \in s8'[d] => \/ t \in s8[d]
                          \/ t = s /\ what = "launch" /\ d = s4[s] /\ fate.executed
    BY <2>2, <1>2, <1>13 DEF Launches
  <2>4. \A t \in Devices!DeviceSessions :
          t \in s9' => t \in s9 \/ (t = s /\ what = "forward" /\ fate.executed)
    BY <2>2, <1>2, <1>13 DEF Forwards
  <2>5. what = "forceStop" /\ fate.executed /\ s4[s] \in Devices!Serials => s8'[s4[s]] = {}
    BY <2>2, <1>2
  <2>6. what = "killForward" /\ fate.executed => s \notin s9' BY <2>2, <1>2
  <2> QED BY <1>5, <1>6, <1>7, <1>9, <1>10, <1>11, <1>12, <2>2, <2>3, <2>4, <2>5, <2>6
<1>14. CASE ~fate.executed
  <2>1. s8' = s8 /\ s9' = s9 BY <1>3, <1>14
  <2> QED BY <1>0, <1>5, <1>6, <1>7, <1>9, <1>10, <1>11, <1>12, <1>14, <2>1
<1> QED BY <1>13, <1>14

\* What a session did, noted and left stays as it is while others act.
LEMMA OthersStay ==
  ASSUME NEW t \in Devices!DeviceSessions, Devices!Noted(t), Devices!GivenBackClean(t),
         s1'[t] = s1[t], s4'[t] = s4[t], s6'[t] = s6[t], s7'[t] = s7[t], s11'[t] = s11[t],
         \A d \in Devices!Serials : t \in s8'[d] => t \in s8[d], t \in s9' => t \in s9
  PROVE  Devices!Noted(t)' /\ Devices!GivenBackClean(t)'
BY DEF Devices!Noted, Devices!GivenBackClean

\* A step of one session: the others keep what they have.
LEMMA OneSessionActs ==
  ASSUME DevicesGood, NEW s \in Devices!DeviceSessions,
         \A t \in Devices!DeviceSessions : t # s =>
           /\ s1'[t] = s1[t] /\ s4'[t] = s4[t] /\ s6'[t] = s6[t] /\ s7'[t] = s7[t]
           /\ s11'[t] = s11[t] /\ (t \in s9' => t \in s9)
           /\ \A d \in Devices!Serials : t \in s8'[d] => t \in s8[d],
         Devices!Noted(s)', Devices!GivenBackClean(s)'
  PROVE  Devices!SetUpIsNoted' /\ Devices!ReleasedIsClean'
<1>1. ASSUME NEW t \in Devices!DeviceSessions
      PROVE  Devices!Noted(t)' /\ Devices!GivenBackClean(t)'
  <2>1. CASE t = s BY <2>1
  <2>2. CASE t # s
    <3>1. Devices!Noted(t) /\ Devices!GivenBackClean(t)
      BY DEF DevicesGood, Devices!SetUpIsNoted, Devices!ReleasedIsClean
    <3> QED BY <2>2, <3>1, OthersStay
  <2> QED BY <2>1, <2>2
<1> QED BY <1>1 DEF Devices!SetUpIsNoted, Devices!ReleasedIsClean

\* Steps that neither take nor release a device.
LEMMA DevicesKept ==
  ASSUME Devices!HeldIsLocked, Devices!OneSessionPerDevice, s4' = s4, s5' = s5
  PROVE  Devices!HeldIsLocked' /\ Devices!OneSessionPerDevice'
BY DEF Devices!HeldIsLocked, Devices!OneSessionPerDevice

\* A session that lets go of its device unlocks that one only.
LEMMA DeviceReleased ==
  ASSUME DevicesTyped, Devices!HeldIsLocked, Devices!OneSessionPerDevice,
         NEW s \in Devices!DeviceSessions, Devices!ReleaseDevice(s)
  PROVE  /\ Devices!HeldIsLocked' /\ Devices!OneSessionPerDevice'
         /\ s4' \in [Devices!DeviceSessions -> Devices!Serials \cup {"none"}]
         /\ s5' \subseteq Devices!Serials
         /\ s1' = [s1 EXCEPT ![s] = "released"] /\ s4' = [s4 EXCEPT ![s] = "none"]
<1>1. /\ s5' = s5 \ {s4[s]} /\ s4' = [s4 EXCEPT ![s] = "none"]
      /\ s1' = [s1 EXCEPT ![s] = "released"]
  BY DEF Devices!ReleaseDevice, Devices!GoTo
<1>2. /\ s4 \in [Devices!DeviceSessions -> Devices!Serials \cup {"none"}]
      /\ s5 \subseteq Devices!Serials
  BY DEF DevicesTyped, Devices!TypeOK
<1>3. Devices!HeldIsLocked'
  BY <1>1, <1>2 DEF Devices!HeldIsLocked, Devices!OneSessionPerDevice
<1>4. Devices!OneSessionPerDevice' BY <1>1, <1>2 DEF Devices!OneSessionPerDevice
<1> QED BY <1>1, <1>2, <1>3, <1>4

\* AcquireDevice takes the first unlocked device of the list: there is one.
LEMMA FirstUnlocked ==
  ASSUME DevicesTyped, NEW s \in Devices!DeviceSessions, Devices!Unlocked(s) # {}
  PROVE  s3[s][CHOOSE i \in 1..Len(s3[s]) :
                 /\ s3[s][i] \in Devices!Unlocked(s)
                 /\ \A j \in 1..i-1 : s3[s][j] \notin Devices!Unlocked(s)]
           \in Devices!Unlocked(s)
<1> DEFINE l == s3[s]
<1> DEFINE U == Devices!Unlocked(s)
<1>1. l \in {<<>>, <<"d1">>, <<"d2", "d1">>} BY DEF DevicesTyped
<1>2. \A d \in U : \E i \in 1..Len(l) : l[i] = d BY DEF Devices!Unlocked
<1>3. U # {} OBVIOUS
<1> HIDE DEF l, U
<1>4. \E i \in 1..Len(l) : l[i] \in U /\ \A j \in 1..i-1 : l[j] \notin U
  <2>1. CASE l = <<>> BY <1>2, <1>3, <2>1
  <2>2. CASE l = <<"d1">>
    <3>1. Len(l) = 1 /\ l[1] = "d1" BY <2>2
    <3>2. l[1] \in U BY <3>1, <1>2, <1>3
    <3> QED BY <3>1, <3>2
  <2>3. CASE l = <<"d2", "d1">>
    <3>1. Len(l) = 2 /\ l[1] = "d2" /\ l[2] = "d1" BY <2>3
    <3>2. CASE l[1] \in U BY <3>1, <3>2
    <3>3. CASE l[1] \notin U
      <4>1. PICK i \in 1..2 : l[i] \in U BY <1>2, <1>3, <3>1
      <4>2. i = 2 BY <4>1, <3>3
      <4>3. \A j \in 1..2-1 : l[j] \notin U BY <3>3
      <4> QED BY <4>1, <4>2, <4>3, <3>1
    <3> QED BY <3>2, <3>3
  <2> QED BY <1>1, <2>1, <2>2, <2>3
<1>5. l[CHOOSE i \in 1..Len(l) : l[i] \in U /\ \A j \in 1..i-1 : l[j] \notin U] \in U
  BY <1>4
<1> QED BY <1>5 DEF l, U

\* The types and facts of the current state, for the proofs of the actions below.
LEMMA GoodFacts ==
  ASSUME DevicesGood, NEW s \in Devices!DeviceSessions
  PROVE  /\ DevicesTyped /\ Devices!HeldIsLocked /\ Devices!OneSessionPerDevice
         /\ Devices!LateIsFault /\ Devices!Noted(s) /\ Devices!GivenBackClean(s)
         /\ s1 \in [Devices!DeviceSessions -> DeviceSteps]
         /\ s2 \in [Devices!DeviceSessions -> Devices!Wishes]
         /\ s3 \in [Devices!DeviceSessions -> {<<>>, <<"d1">>, <<"d2", "d1">>}]
         /\ s4 \in [Devices!DeviceSessions -> Devices!Serials \cup {"none"}]
         /\ s5 \subseteq Devices!Serials
         /\ s6 \in [Devices!DeviceSessions -> BOOLEAN]
         /\ s7 \in [Devices!DeviceSessions -> BOOLEAN]
         /\ s8 \in [Devices!Serials -> SUBSET Devices!DeviceSessions]
         /\ s9 \subseteq Devices!DeviceSessions /\ s10 \subseteq AdbCommands
         /\ s11 \in [Devices!DeviceSessions -> SUBSET {"refused", "lost", "late", "stuck"}]
BY DEF DevicesGood, Devices!SetUpIsNoted, Devices!ReleasedIsClean, DevicesTyped, Devices!TypeOK

\* GetDevices and LockDevice, which send no command to the device.
LEMMA GetDevicesKeeps ==
  ASSUME DevicesGood, NEW s \in Devices!DeviceSessions, Devices!GetDevices(s)
  PROVE  DevicesGood'
<1>1. PICK w \in Devices!Wishes, l \in {<<>>, <<"d1">>, <<"d2", "d1">>},
           x \in {"released", "acquire"} :
        /\ s1[s] = "idle" /\ s2' = [s2 EXCEPT ![s] = w] /\ s3' = [s3 EXCEPT ![s] = l]
        /\ s1' = [s1 EXCEPT ![s] = x] /\ UNCHANGED <<s4, s5, s6, s7, s8, s9, s10, s11>>
  BY DEF Devices!GetDevices, Devices!GoTo, Devices!NoCommand
<1>2. DevicesTyped' BY <1>1, GoodFacts DEF DevicesTyped, Devices!TypeOK, DeviceSteps
<1>3. Devices!HeldIsLocked' /\ Devices!OneSessionPerDevice' BY <1>1, GoodFacts, DevicesKept
<1>4. Devices!LateIsFault' BY <1>1, GoodFacts DEF Devices!LateIsFault
<1>5. ~s6[s] /\ ~s7[s] BY <1>1, GoodFacts DEF Devices!Noted
<1>6. s11[s] \subseteq {"refused"} =>
        s \notin s9 /\ \A d \in Devices!Serials : s \notin s8[d]
  BY <1>5, GoodFacts DEF Devices!Noted
<1>7. Devices!Noted(s)' /\ Devices!GivenBackClean(s)'
  BY <1>1, <1>5, <1>6 DEF Devices!Noted, Devices!GivenBackClean
<1>8. \A t \in Devices!DeviceSessions : t # s => s1'[t] = s1[t] BY <1>1, GoodFacts
<1>9. Devices!SetUpIsNoted' /\ Devices!ReleasedIsClean' BY <1>1, <1>7, <1>8, OneSessionActs
<1> QED BY <1>2, <1>3, <1>4, <1>9 DEF DevicesGood

\* A device that is locked was held by no session.
LEMMA LockDeviceKeeps ==
  ASSUME DevicesGood, NEW s \in Devices!DeviceSessions, Devices!LockDevice(s)
  PROVE  DevicesGood'
<1>1. s1[s] = "acquire" /\ UNCHANGED <<s2, s3, s6, s7, s8, s9, s10, s11>>
  BY DEF Devices!LockDevice, Devices!NoCommand
<1>2. ~s6[s] /\ ~s7[s] BY <1>1, GoodFacts DEF Devices!Noted
<1>3. s11[s] \subseteq {"refused"} =>
        s \notin s9 /\ \A d \in Devices!Serials : s \notin s8[d]
  BY <1>2, GoodFacts DEF Devices!Noted
<1>4. Devices!LateIsFault' BY <1>1, GoodFacts DEF Devices!LateIsFault
<1>5. CASE Devices!Unlocked(s) # {}
  <2>1. PICK d \in Devices!Unlocked(s) :
          /\ s4' = [s4 EXCEPT ![s] = d] /\ s5' = s5 \cup {d}
          /\ s1' = [s1 EXCEPT ![s] = "checkApp"]
    BY <1>5, GoodFacts, FirstUnlocked DEF Devices!LockDevice, Devices!GoTo
  <2>2. d \in Devices!Serials /\ d \notin s5 BY DEF Devices!Unlocked
  <2>3. DevicesTyped' BY <1>1, <2>1, <2>2, GoodFacts DEF DevicesTyped, Devices!TypeOK, DeviceSteps
  <2>4. Devices!HeldIsLocked' BY <2>1, GoodFacts DEF Devices!HeldIsLocked
  <2>5. \A t \in Devices!DeviceSessions : s4[t] # d
    BY <2>2, GoodFacts DEF Devices!HeldIsLocked, Devices!Serials
  <2>6. Devices!OneSessionPerDevice' BY <2>1, <2>5, GoodFacts DEF Devices!OneSessionPerDevice
  <2>7. Devices!Noted(s)' /\ Devices!GivenBackClean(s)'
    BY <1>1, <1>2, <1>3, <2>1, GoodFacts DEF Devices!Noted, Devices!GivenBackClean
  <2>8. \A t \in Devices!DeviceSessions : t # s => s1'[t] = s1[t] /\ s4'[t] = s4[t]
    BY <2>1, GoodFacts
  <2>9. Devices!SetUpIsNoted' /\ Devices!ReleasedIsClean' BY <1>1, <2>7, <2>8, OneSessionActs
  <2> QED BY <1>4, <2>3, <2>4, <2>6, <2>9 DEF DevicesGood
<1>6. CASE Devices!Unlocked(s) = {}
  <2>1. s1' = [s1 EXCEPT ![s] = "released"] /\ s4' = s4 /\ s5' = s5
    BY <1>6 DEF Devices!LockDevice, Devices!GoTo
  <2>2. DevicesTyped' BY <1>1, <2>1, GoodFacts DEF DevicesTyped, Devices!TypeOK, DeviceSteps
  <2>3. Devices!HeldIsLocked' /\ Devices!OneSessionPerDevice' BY <2>1, GoodFacts, DevicesKept
  <2>4. Devices!Noted(s)' /\ Devices!GivenBackClean(s)'
    BY <1>1, <1>2, <1>3, <2>1, GoodFacts DEF Devices!Noted, Devices!GivenBackClean
  <2>5. \A t \in Devices!DeviceSessions : t # s => s1'[t] = s1[t] BY <2>1, GoodFacts
  <2>6. Devices!SetUpIsNoted' /\ Devices!ReleasedIsClean' BY <1>1, <2>1, <2>4, <2>5, OneSessionActs
  <2> QED BY <1>4, <2>2, <2>3, <2>6 DEF DevicesGood
<1> QED BY <1>5, <1>6

\* A step of a session that keeps its device and sends no command.
LEMMA MoveKeeps ==
  ASSUME DevicesGood, NEW s \in Devices!DeviceSessions,
         NEW x \in {"forward", "ready", "tearDown"}, s1' = [s1 EXCEPT ![s] = x],
         x = "forward" => s1[s] = "socket",
         UNCHANGED <<s2, s3, s4, s5, s6, s7, s8, s9, s10, s11>>
  PROVE  DevicesGood'
<1>1. DevicesTyped' BY GoodFacts DEF DevicesTyped, Devices!TypeOK, DeviceSteps
<1>2. Devices!HeldIsLocked' /\ Devices!OneSessionPerDevice' BY GoodFacts, DevicesKept
<1>3. Devices!LateIsFault' BY GoodFacts DEF Devices!LateIsFault
<1>4. Devices!Noted(s)' /\ Devices!GivenBackClean(s)'
  BY GoodFacts DEF Devices!Noted, Devices!GivenBackClean
<1>5. \A t \in Devices!DeviceSessions : t # s => s1'[t] = s1[t] BY GoodFacts
<1>6. Devices!SetUpIsNoted' /\ Devices!ReleasedIsClean' BY <1>4, <1>5, OneSessionActs
<1> QED BY <1>1, <1>2, <1>3, <1>6 DEF DevicesGood

AdbSteps == {"checkApp", "debugApp", "clearData", "commandLine", "launch", "socket", "forward"}

\* A command of SetUp: what it started is noted when it succeeds, and nothing was started when
\* it was refused.
LEMMA SetUpCommandKeeps ==
  ASSUME DevicesGood, NEW s \in Devices!DeviceSessions, NEW fate \in Devices!Fates,
         s1[s] \in AdbSteps, Devices!Command(s, s1[s], fate),
         NEW x \in DeviceSteps \ {"idle", "acquire", "released"}, s1' = [s1 EXCEPT ![s] = x],
         UNCHANGED <<s2, s3, s4, s5>>,
         s6' = [s6 EXCEPT ![s] = @ \/ (fate.ok /\ s1[s] = "launch")],
         s7' = [s7 EXCEPT ![s] = fate.ok /\ s1[s] = "forward"],
         s6[s] \/ s1[s] = "launch" =>
           x \in {"socket", "forward", "devtools", "ready", "tearDown"},
         s1[s] = "forward" => x \in {"devtools", "tearDown"}
  PROVE  DevicesGood'
<1>0. fate.executed \in BOOLEAN /\ fate.ok \in BOOLEAN BY FateFacts
<1>1. s1[s] \in {"checkApp", "debugApp", "clearData", "commandLine", "launch", "socket",
                 "forward", "forceStop", "killForward"}
  BY DEF AdbSteps
<1>2. /\ s8' \in [Devices!Serials -> SUBSET Devices!DeviceSessions]
      /\ s9' \subseteq Devices!DeviceSessions
      /\ s10' \subseteq AdbCommands
      /\ s11' \in [Devices!DeviceSessions -> SUBSET {"refused", "lost", "late", "stuck"}]
      /\ Devices!LateIsFault'
      /\ \A t \in Devices!DeviceSessions : t # s => s11'[t] = s11[t]
      /\ s11'[s] \subseteq {"refused"} =>
           s11[s] \subseteq {"refused"} /\ fate.fault \subseteq {"refused"}
      /\ \A d \in Devices!Serials, t \in Devices!DeviceSessions :
           t \in s8'[d] => \/ t \in s8[d]
                           \/ t = s /\ s1[s] = "launch" /\ d = s4[s] /\ fate.executed
      /\ \A t \in Devices!DeviceSessions :
           t \in s9' => t \in s9 \/ (t = s /\ s1[s] = "forward" /\ fate.executed)
  BY <1>1, GoodFacts, CommandFacts
<1>3. DevicesTyped'
  <2>1. s1' \in [Devices!DeviceSessions -> DeviceSteps] BY GoodFacts
  <2>2. s6' \in [Devices!DeviceSessions -> BOOLEAN] BY GoodFacts, <1>0
  <2>3. s7' \in [Devices!DeviceSessions -> BOOLEAN] BY GoodFacts, <1>0
  <2> QED BY <1>2, <2>1, <2>2, <2>3, GoodFacts DEF DevicesTyped, Devices!TypeOK
<1>4. Devices!HeldIsLocked' /\ Devices!OneSessionPerDevice' BY GoodFacts, DevicesKept
<1>5. ~s7[s] BY GoodFacts DEF Devices!Noted, AdbSteps
<1>6. s1'[s] = x /\ s6'[s] = (s6[s] \/ (fate.ok /\ s1[s] = "launch"))
  BY GoodFacts
<1>7. s7'[s] = (fate.ok /\ s1[s] = "forward") BY GoodFacts
<1>8. s6'[s] => x \in {"socket", "forward", "devtools", "ready", "tearDown", "released"}
  BY <1>6
<1>9. s7'[s] => x \in {"devtools", "ready", "tearDown", "released"} BY <1>7
<1>10. ASSUME s11'[s] \subseteq {"refused"}
       PROVE  /\ \A d \in Devices!Serials : s \in s8'[d] => s6'[s] /\ d = s4'[s]
              /\ s \in s9' => s7'[s]
  <2>1. fate.executed => fate.ok BY <1>2, <1>10, FateFacts
  <2>2. \A d \in Devices!Serials : s \in s8[d] => s6[s] /\ d = s4[s]
    BY <1>2, <1>10, GoodFacts DEF Devices!Noted
  <2>3. s \notin s9 BY <1>2, <1>5, <1>10, GoodFacts DEF Devices!Noted
  <2>4. ASSUME NEW d \in Devices!Serials, s \in s8'[d] PROVE s6'[s] /\ d = s4'[s]
    <3>1. CASE s \in s8[d] BY <3>1, <2>2, <1>6
    <3>2. CASE s \notin s8[d]
      <4>1. s1[s] = "launch" /\ d = s4[s] /\ fate.executed BY <3>2, <2>4, <1>2
      <4> QED BY <4>1, <2>1, <1>6
    <3> QED BY <3>1, <3>2
  <2>5. s \in s9' => s7'[s]
    <3>1. s \in s9' => s1[s] = "forward" /\ fate.executed BY <1>2, <2>3
    <3> QED BY <3>1, <2>1, <1>7
  <2> QED BY <2>4, <2>5
<1>11. Devices!Noted(s)' BY <1>6, <1>8, <1>9, <1>10 DEF Devices!Noted
<1>12. Devices!GivenBackClean(s)' BY <1>6 DEF Devices!GivenBackClean
<1>13. \A t \in Devices!DeviceSessions : t # s =>
         /\ s1'[t] = s1[t] /\ s4'[t] = s4[t] /\ s6'[t] = s6[t] /\ s7'[t] = s7[t]
         /\ s11'[t] = s11[t] /\ (t \in s9' => t \in s9)
         /\ \A d \in Devices!Serials : t \in s8'[d] => t \in s8[d]
  BY <1>2, GoodFacts
<1>14. Devices!SetUpIsNoted' /\ Devices!ReleasedIsClean'
  BY <1>11, <1>12, <1>13, OneSessionActs
<1> QED BY <1>2, <1>3, <1>4, <1>14 DEF DevicesGood

\* SetUp up to the launch of the app.
LEMMA SetUpKeeps ==
  ASSUME DevicesGood, NEW s \in Devices!DeviceSessions, Devices!SetUp(s)
  PROVE  DevicesGood'
<1>1. /\ s1[s] \in {"checkApp", "debugApp", "clearData", "commandLine", "launch"}
      /\ s7' = s7 /\ UNCHANGED <<s2, s3, s4, s5>>
  BY DEF Devices!SetUp, Devices!KeepDevice
<1>2. PICK fate \in Devices!Fates :
        /\ Devices!Command(s, s1[s], fate)
        /\ s1' = [s1 EXCEPT ![s] = IF fate.ok THEN Devices!SetUpSteps(s)[s1[s]] ELSE "tearDown"]
        /\ s6' = [s6 EXCEPT ![s] = @ \/ (fate.ok /\ s1[s] = "launch")]
  BY DEF Devices!SetUp, Devices!GoTo, Devices!SetUpFails
<1> DEFINE x == IF fate.ok THEN Devices!SetUpSteps(s)[s1[s]] ELSE "tearDown"
<1>3. /\ Devices!SetUpSteps(s)["checkApp"] \in {"socket", "clearData", "debugApp"}
      /\ Devices!SetUpSteps(s)["debugApp"] = "clearData"
      /\ Devices!SetUpSteps(s)["clearData"] = "commandLine"
      /\ Devices!SetUpSteps(s)["commandLine"] = "launch"
      /\ Devices!SetUpSteps(s)["launch"] = "socket"
  BY DEF Devices!SetUpSteps, Devices!AfterCheckApp
<1>4. x \in DeviceSteps \ {"idle", "acquire", "released"} BY <1>1, <1>3 DEF DeviceSteps
<1>5. ~s6[s] /\ ~s7[s] BY <1>1, GoodFacts DEF Devices!Noted
<1>6. s1[s] = "launch" => x \in {"socket", "tearDown"} BY <1>3
<1>7. s1' = [s1 EXCEPT ![s] = x] BY <1>2
<1> HIDE DEF x
<1>8. s7' = [s7 EXCEPT ![s] = fate.ok /\ s1[s] = "forward"]
  <2>1. s7[s] = FALSE BY <1>5, GoodFacts
  <2>2. (fate.ok /\ s1[s] = "forward") = FALSE BY <1>1
  <2>3. s7 = [s7 EXCEPT ![s] = FALSE] BY <2>1, GoodFacts
  <2> QED BY <1>1, <2>2, <2>3
<1>9. s1[s] \in AdbSteps /\ s1[s] # "forward" BY <1>1 DEF AdbSteps
<1>10. s6[s] \/ s1[s] = "launch" => x \in {"socket", "forward", "devtools", "ready", "tearDown"}
  BY <1>5, <1>6
<1> QED BY <1>1, <1>2, <1>4, <1>7, <1>8, <1>9, <1>10, SetUpCommandKeeps

\* ForwardDevtoolsPort.
LEMMA FindSocketKeeps ==
  ASSUME DevicesGood, NEW s \in Devices!DeviceSessions, Devices!FindSocket(s)
  PROVE  DevicesGood'
<1>1. s1[s] = "socket" /\ UNCHANGED <<s2, s3, s4, s5, s6, s7>>
  BY DEF Devices!FindSocket, Devices!KeepDevice
<1>2. CASE s1' = [s1 EXCEPT ![s] = "forward"] /\ UNCHANGED <<s8, s9, s10, s11>>
  BY <1>1, <1>2, MoveKeeps
<1>3. CASE \E fate \in Devices!Fates :
             /\ Devices!Command(s, "socket", fate)
             /\ s1' = [s1 EXCEPT ![s] = IF fate.ok THEN "forward" ELSE "tearDown"]
  <2>1. PICK fate \in Devices!Fates :
          /\ Devices!Command(s, "socket", fate)
          /\ s1' = [s1 EXCEPT ![s] = IF fate.ok THEN "forward" ELSE "tearDown"]
    BY <1>3
  <2> DEFINE x == IF fate.ok THEN "forward" ELSE "tearDown"
  <2>2. x \in {"forward", "tearDown"} /\ s1' = [s1 EXCEPT ![s] = x] BY <2>1
  <2>3. x \in DeviceSteps \ {"idle", "acquire", "released"} BY <2>2 DEF DeviceSteps
  <2> HIDE DEF x
  <2>4. s6' = [s6 EXCEPT ![s] = @ \/ (fate.ok /\ s1[s] = "launch")]
    <3>1. (s6[s] \/ (fate.ok /\ s1[s] = "launch")) = s6[s] BY <1>1, GoodFacts
    <3>2. s6 = [s6 EXCEPT ![s] = s6[s]] BY GoodFacts
    <3>3. s6 = [s6 EXCEPT ![s] = s6[s] \/ (fate.ok /\ s1[s] = "launch")] BY <3>1, <3>2
    <3> QED BY <1>1, <3>3
  <2>5. s7' = [s7 EXCEPT ![s] = fate.ok /\ s1[s] = "forward"]
    <3>1. s7[s] = FALSE BY <1>1, GoodFacts DEF Devices!Noted
    <3>2. (fate.ok /\ s1[s] = "forward") = FALSE BY <1>1
    <3>3. s7 = [s7 EXCEPT ![s] = FALSE] BY <3>1, GoodFacts
    <3> QED BY <1>1, <3>2, <3>3
  <2>6. s1[s] \in AdbSteps /\ s1[s] # "forward" /\ Devices!Command(s, s1[s], fate)
    BY <1>1, <2>1 DEF AdbSteps
  <2>7. x \in {"socket", "forward", "devtools", "ready", "tearDown"} BY <2>2
  <2> QED BY <1>1, <2>2, <2>3, <2>4, <2>5, <2>6, <2>7, SetUpCommandKeeps
<1> QED
  BY <1>2, <1>3 DEF Devices!FindSocket, Devices!GoTo, Devices!NoCommand, Devices!SetUpFails

\* The port is forwarded, and noted if the answer says so.
LEMMA ForwardPortKeeps ==
  ASSUME DevicesGood, NEW s \in Devices!DeviceSessions, Devices!ForwardPort(s)
  PROVE  DevicesGood'
<1>1. s1[s] = "forward" /\ UNCHANGED <<s2, s3, s4, s5, s6>>
  BY DEF Devices!ForwardPort, Devices!KeepDevice
<1>2. PICK fate \in Devices!Fates :
        /\ Devices!Command(s, "forward", fate)
        /\ s1' = [s1 EXCEPT ![s] = IF fate.ok THEN "devtools" ELSE "tearDown"]
        /\ s7' = [s7 EXCEPT ![s] = fate.ok]
  BY DEF Devices!ForwardPort, Devices!GoTo, Devices!SetUpFails
<1> DEFINE x == IF fate.ok THEN "devtools" ELSE "tearDown"
<1>3. x \in {"devtools", "tearDown"} /\ s1' = [s1 EXCEPT ![s] = x] BY <1>2
<1>4. x \in DeviceSteps \ {"idle", "acquire", "released"} BY <1>3 DEF DeviceSteps
<1> HIDE DEF x
<1>5. s6' = [s6 EXCEPT ![s] = @ \/ (fate.ok /\ s1[s] = "launch")]
  <2>1. (s6[s] \/ (fate.ok /\ s1[s] = "launch")) = s6[s] BY <1>1, GoodFacts
  <2>2. s6 = [s6 EXCEPT ![s] = s6[s]] BY GoodFacts
  <2>3. s6 = [s6 EXCEPT ![s] = s6[s] \/ (fate.ok /\ s1[s] = "launch")] BY <2>1, <2>2
  <2> QED BY <1>1, <2>3
<1>6. s7' = [s7 EXCEPT ![s] = fate.ok /\ s1[s] = "forward"]
  <2>1. (fate.ok /\ s1[s] = "forward") = fate.ok BY <1>1, FateFacts
  <2> QED BY <1>2, <2>1
<1>7. s1[s] \in AdbSteps /\ Devices!Command(s, s1[s], fate) BY <1>1, <1>2 DEF AdbSteps
<1>8. x \in {"socket", "forward", "devtools", "ready", "tearDown"} BY <1>3
<1> QED BY <1>1, <1>3, <1>4, <1>5, <1>6, <1>7, <1>8, SetUpCommandKeeps

\* ForceStop: with the app stopped, none of the session is left.
LEMMA ForceStopKeeps ==
  ASSUME DevicesGood, NEW s \in Devices!DeviceSessions, Devices!ForceStop(s)
  PROVE  DevicesGood'
<1>1. s1[s] = "tearDown" /\ s6[s] /\ UNCHANGED <<s2, s3, s7>> BY DEF Devices!ForceStop
<1>2. PICK fate \in Devices!Fates :
        /\ Devices!Command(s, "forceStop", fate)
        /\ s6' = [s6 EXCEPT ![s] = ~fate.ok]
        /\ IF fate.ok THEN s1' = [s1 EXCEPT ![s] = "tearDown"] /\ UNCHANGED <<s4, s5>>
           ELSE Devices!ReleaseDevice(s)
  BY DEF Devices!ForceStop, Devices!GoTo
<1>3. /\ s8' \in [Devices!Serials -> SUBSET Devices!DeviceSessions]
      /\ s9' \subseteq Devices!DeviceSessions
      /\ s10' \subseteq AdbCommands
      /\ s11' \in [Devices!DeviceSessions -> SUBSET {"refused", "lost", "late", "stuck"}]
      /\ Devices!LateIsFault'
      /\ \A t \in Devices!DeviceSessions : t # s => s11'[t] = s11[t]
      /\ s11'[s] \subseteq {"refused"} =>
           s11[s] \subseteq {"refused"} /\ (s1[s] = "tearDown" => fate.ok)
      /\ \A d \in Devices!Serials, t \in Devices!DeviceSessions : t \in s8'[d] => t \in s8[d]
      /\ \A t \in Devices!DeviceSessions : t \in s9' => t \in s9
      /\ fate.executed /\ s4[s] \in Devices!Serials => s8'[s4[s]] = {}
  BY <1>2, GoodFacts, CommandFacts
<1>4. fate.ok \in BOOLEAN /\ (fate.ok => fate.executed) BY FateFacts
<1>5. s6' \in [Devices!DeviceSessions -> BOOLEAN] BY <1>2, <1>4, GoodFacts
<1>6. \A t \in Devices!DeviceSessions : t # s => s6'[t] = s6[t] BY <1>2, GoodFacts
<1>7. CASE fate.ok
  <2>1. s1' = [s1 EXCEPT ![s] = "tearDown"] /\ UNCHANGED <<s4, s5>> BY <1>2, <1>7
  <2>2. s1' = s1 BY <2>1, <1>1, GoodFacts
  <2>3. DevicesTyped' BY <1>1, <1>3, <1>5, <2>1, <2>2, GoodFacts DEF DevicesTyped, Devices!TypeOK
  <2>4. Devices!HeldIsLocked' /\ Devices!OneSessionPerDevice' BY <2>1, GoodFacts, DevicesKept
  <2>5. s6'[s] = FALSE BY <1>2, <1>7, GoodFacts
  <2>6. ASSUME s11'[s] \subseteq {"refused"}
        PROVE  (\A d \in Devices!Serials : s \notin s8'[d]) /\ (s \in s9' => s7'[s])
    <3>1. \A d \in Devices!Serials : s \in s8'[d] => d = s4[s]
      BY <1>3, <2>6, GoodFacts DEF Devices!Noted
    <3>2. \A d \in Devices!Serials : s \notin s8'[d] BY <3>1, <1>3, <1>4, <1>7
    <3>3. s \in s9' => s7'[s] BY <1>1, <1>3, <2>6, GoodFacts DEF Devices!Noted
    <3> QED BY <3>2, <3>3
  <2>7. Devices!Noted(s)' /\ Devices!GivenBackClean(s)'
    <3>1. Devices!Noted(s)'
      BY <1>1, <2>2, <2>5, <2>6 DEF Devices!Noted
    <3>2. Devices!GivenBackClean(s)' BY <1>1, <2>2 DEF Devices!GivenBackClean
    <3> QED BY <3>1, <3>2
  <2>8. Devices!SetUpIsNoted' /\ Devices!ReleasedIsClean'
    BY <1>1, <1>3, <1>6, <2>1, <2>2, <2>7, OneSessionActs
  <2> QED BY <1>3, <2>3, <2>4, <2>8 DEF DevicesGood
<1>8. CASE ~fate.ok
  <2>1. Devices!ReleaseDevice(s) BY <1>2, <1>8
  <2>2. /\ Devices!HeldIsLocked' /\ Devices!OneSessionPerDevice'
        /\ s4' \in [Devices!DeviceSessions -> Devices!Serials \cup {"none"}]
        /\ s5' \subseteq Devices!Serials
        /\ s1' = [s1 EXCEPT ![s] = "released"] /\ s4' = [s4 EXCEPT ![s] = "none"]
    BY <2>1, GoodFacts, DeviceReleased
  <2>3. s1' \in [Devices!DeviceSessions -> DeviceSteps] BY <2>2, GoodFacts DEF DeviceSteps
  <2>4. DevicesTyped' BY <1>1, <1>3, <1>5, <2>2, <2>3, GoodFacts DEF DevicesTyped, Devices!TypeOK
  <2>5. ~(s11'[s] \subseteq {"refused"}) BY <1>1, <1>3, <1>8
  <2>6. s1'[s] = "released" BY <2>2, GoodFacts
  <2>7. Devices!Noted(s)' /\ Devices!GivenBackClean(s)'
    BY <2>5, <2>6 DEF Devices!Noted, Devices!GivenBackClean
  <2>8. \A t \in Devices!DeviceSessions : t # s => s1'[t] = s1[t] /\ s4'[t] = s4[t]
    BY <2>2, GoodFacts
  <2>9. Devices!SetUpIsNoted' /\ Devices!ReleasedIsClean'
    BY <1>1, <1>3, <1>6, <2>7, <2>8, OneSessionActs
  <2> QED BY <1>3, <2>2, <2>4, <2>9 DEF DevicesGood
<1> QED BY <1>7, <1>8

\* A device that is released with nothing noted has nothing left of the session, or a fault is
\* known.
LEMMA ReleaseKeeps ==
  ASSUME DevicesGood, NEW s \in Devices!DeviceSessions, Devices!ReleaseDevice(s), DevicesTyped',
         Devices!LateIsFault', s6' = s6,
         \A t \in Devices!DeviceSessions : t # s =>
           /\ s7'[t] = s7[t] /\ s11'[t] = s11[t] /\ (t \in s9' => t \in s9)
           /\ \A d \in Devices!Serials : t \in s8'[d] => t \in s8[d],
         s11'[s] \subseteq {"refused"} =>
           s \notin s9' /\ \A d \in Devices!Serials : s \notin s8'[d]
  PROVE  DevicesGood'
<1>1. /\ Devices!HeldIsLocked' /\ Devices!OneSessionPerDevice'
      /\ s1' = [s1 EXCEPT ![s] = "released"] /\ s4' = [s4 EXCEPT ![s] = "none"]
  BY GoodFacts, DeviceReleased
<1>2. s1'[s] = "released" BY <1>1, GoodFacts
<1>3. Devices!Noted(s)' /\ Devices!GivenBackClean(s)'
  BY <1>2 DEF Devices!Noted, Devices!GivenBackClean
<1>4. \A t \in Devices!DeviceSessions : t # s => s1'[t] = s1[t] /\ s4'[t] = s4[t]
  BY <1>1, GoodFacts
<1>5. Devices!SetUpIsNoted' /\ Devices!ReleasedIsClean' BY <1>3, <1>4, OneSessionActs
<1> QED BY <1>1, <1>5 DEF DevicesGood

\* KillForwardPort, and the end of TearDown.
LEMMA KillForwardPortKeeps ==
  ASSUME DevicesGood, NEW s \in Devices!DeviceSessions, Devices!KillForwardPort(s)
  PROVE  DevicesGood'
<1>1. s1[s] = "tearDown" /\ ~s6[s] /\ s7[s] /\ UNCHANGED <<s2, s3, s6>>
  BY DEF Devices!KillForwardPort
<1>2. PICK fate \in Devices!Fates :
        /\ Devices!Command(s, "killForward", fate)
        /\ s7' = [s7 EXCEPT ![s] = ~fate.ok]
        /\ Devices!ReleaseDevice(s)
  BY DEF Devices!KillForwardPort
<1>3. /\ s8' \in [Devices!Serials -> SUBSET Devices!DeviceSessions]
      /\ s9' \subseteq Devices!DeviceSessions
      /\ s10' \subseteq AdbCommands
      /\ s11' \in [Devices!DeviceSessions -> SUBSET {"refused", "lost", "late", "stuck"}]
      /\ Devices!LateIsFault'
      /\ \A t \in Devices!DeviceSessions : t # s => s11'[t] = s11[t]
      /\ s11'[s] \subseteq {"refused"} =>
           s11[s] \subseteq {"refused"} /\ (s1[s] = "tearDown" => fate.ok)
      /\ \A d \in Devices!Serials, t \in Devices!DeviceSessions : t \in s8'[d] => t \in s8[d]
      /\ \A t \in Devices!DeviceSessions : t \in s9' => t \in s9
      /\ fate.executed => s \notin s9'
  BY <1>2, GoodFacts, CommandFacts
<1>4. fate.ok \in BOOLEAN /\ (fate.ok => fate.executed) BY FateFacts
<1>5. s7' \in [Devices!DeviceSessions -> BOOLEAN] BY <1>2, <1>4, GoodFacts
<1>6. \A t \in Devices!DeviceSessions : t # s => s7'[t] = s7[t] BY <1>2, GoodFacts
<1>7. /\ s4' \in [Devices!DeviceSessions -> Devices!Serials \cup {"none"}]
      /\ s5' \subseteq Devices!Serials /\ s1' = [s1 EXCEPT ![s] = "released"]
  BY <1>2, GoodFacts, DeviceReleased
<1>8. s1' \in [Devices!DeviceSessions -> DeviceSteps] BY <1>7, GoodFacts DEF DeviceSteps
<1>9. DevicesTyped' BY <1>1, <1>3, <1>5, <1>7, <1>8, GoodFacts DEF DevicesTyped, Devices!TypeOK
<1>10. ASSUME s11'[s] \subseteq {"refused"}
       PROVE  s \notin s9' /\ \A d \in Devices!Serials : s \notin s8'[d]
  <2>1. s \notin s9' BY <1>1, <1>3, <1>4, <1>10
  <2>2. \A d \in Devices!Serials : s \notin s8[d]
    BY <1>1, <1>3, <1>10, GoodFacts DEF Devices!Noted
  <2> QED BY <2>1, <2>2, <1>3
<1> QED BY <1>1, <1>2, <1>3, <1>6, <1>9, <1>10, ReleaseKeeps

\* With neither noted nothing has to be undone.
LEMMA TornDownKeeps ==
  ASSUME DevicesGood, NEW s \in Devices!DeviceSessions, Devices!TornDown(s)
  PROVE  DevicesGood'
<1>1. /\ s1[s] = "tearDown" /\ ~s6[s] /\ ~s7[s] /\ UNCHANGED <<s2, s3, s6, s7, s8, s9, s10, s11>>
      /\ Devices!ReleaseDevice(s)
  BY DEF Devices!TornDown, Devices!NoCommand
<1>2. /\ s4' \in [Devices!DeviceSessions -> Devices!Serials \cup {"none"}]
      /\ s5' \subseteq Devices!Serials /\ s1' = [s1 EXCEPT ![s] = "released"]
  BY <1>1, GoodFacts, DeviceReleased
<1>3. s1' \in [Devices!DeviceSessions -> DeviceSteps] BY <1>2, GoodFacts DEF DeviceSteps
<1>4. DevicesTyped' BY <1>1, <1>2, <1>3, GoodFacts DEF DevicesTyped, Devices!TypeOK
<1>5. Devices!LateIsFault' BY <1>1, GoodFacts DEF Devices!LateIsFault
<1>6. s11[s] \subseteq {"refused"} => s \notin s9 /\ \A d \in Devices!Serials : s \notin s8[d]
  BY <1>1, GoodFacts DEF Devices!Noted
<1> QED BY <1>1, <1>4, <1>5, <1>6, ReleaseKeeps

\* A command that is executed late adds only to what a session with a fault has.
LEMMA LateCommandKeeps ==
  ASSUME DevicesGood, Devices!LateCommand
  PROVE  DevicesGood'
<1>0. 1 \in Devices!DeviceSessions BY DEF Devices!DeviceSessions
<1>1. PICK c \in s10 : Devices!Execute(c) /\ s10' = s10 \ {c}
  BY DEF Devices!LateCommand
<1>2. UNCHANGED <<s1, s2, s3, s4, s5, s6, s7, s11>> BY DEF Devices!LateCommand
<1>3. c \in AdbCommands /\ c.session \in Devices!DeviceSessions
  BY <1>0, GoodFacts DEF AdbCommands
<1>4. ~(s11[c.session] \subseteq {"refused"}) BY <1>0, GoodFacts DEF Devices!LateIsFault
<1>5. /\ s8' \in [Devices!Serials -> SUBSET Devices!DeviceSessions]
      /\ s9' \subseteq Devices!DeviceSessions
      /\ \A d \in Devices!Serials, s \in Devices!DeviceSessions :
           s \in s8'[d] => s \in s8[d] \/ Launches(c, s, d)
      /\ \A s \in Devices!DeviceSessions : s \in s9' => s \in s9 \/ Forwards(c, s)
  BY <1>0, <1>1, <1>3, GoodFacts, ExecuteFacts
<1>6. DevicesTyped' BY <1>0, <1>1, <1>2, <1>5, GoodFacts DEF DevicesTyped, Devices!TypeOK
<1>7. Devices!HeldIsLocked' /\ Devices!OneSessionPerDevice' BY <1>0, <1>2, GoodFacts, DevicesKept
<1>8. Devices!LateIsFault' BY <1>0, <1>1, <1>2, GoodFacts DEF Devices!LateIsFault
<1>9. Devices!Noted(c.session)' /\ Devices!GivenBackClean(c.session)'
  <2> DEFINE s == c.session
  <2>1. s \in Devices!DeviceSessions /\ ~(s11[s] \subseteq {"refused"}) BY <1>3, <1>4
  <2>2. ASSUME NEW t \in Devices!DeviceSessions, ~(s11[t] \subseteq {"refused"})
        PROVE  Devices!Noted(t)' /\ Devices!GivenBackClean(t)'
    BY <1>2, <2>2, GoodFacts DEF Devices!Noted, Devices!GivenBackClean
  <2> HIDE DEF s
  <2>3. Devices!Noted(s)' /\ Devices!GivenBackClean(s)' BY <2>1, <2>2, <1>2
  <2> QED BY <2>3 DEF s
<1>10. \A t \in Devices!DeviceSessions : t # c.session =>
         /\ (t \in s9' => t \in s9)
         /\ \A d \in Devices!Serials : t \in s8'[d] => t \in s8[d]
  BY <1>5 DEF Launches, Forwards
<1>11. Devices!SetUpIsNoted' /\ Devices!ReleasedIsClean'
  BY <1>2, <1>3, <1>9, <1>10, OneSessionActs
<1> QED BY <1>6, <1>7, <1>8, <1>11 DEF DevicesGood

\* Every step keeps the invariant.
LEMMA DevicesStepInv == ASSUME DevicesInv, [Next]_vars PROVE DevicesInv'
<1> SUFFICES ASSUME part = "devices" PROVE DevicesGood' BY PartStays DEF DevicesInv
<1>0. DevicesGood BY DEF DevicesInv
<1>1. CASE UNCHANGED Devices!vars
  <2>1. UNCHANGED <<s1, s2, s3, s4, s5, s6, s7, s8, s9, s10, s11>> BY <1>1 DEF Devices!vars
  <2> QED BY <1>0, <2>1 DEF DevicesGood, DevicesTyped, Devices!TypeOK, Devices!HeldIsLocked,
             Devices!OneSessionPerDevice, Devices!LateIsFault, Devices!SetUpIsNoted,
             Devices!Noted, Devices!ReleasedIsClean, Devices!GivenBackClean
<1>2. CASE Devices!LateCommand BY <1>0, <1>2, LateCommandKeeps
<1>3. ASSUME NEW s \in Devices!DeviceSessions,
             \/ Devices!GetDevices(s) \/ Devices!LockDevice(s) \/ Devices!SetUp(s)
             \/ Devices!FindSocket(s) \/ Devices!ForwardPort(s) \/ Devices!WaitForDevTools(s)
             \/ Devices!QuitDevice(s) \/ Devices!ForceStop(s) \/ Devices!KillForwardPort(s)
             \/ Devices!TornDown(s)
      PROVE  DevicesGood'
  <2>1. CASE Devices!WaitForDevTools(s)
    <3>1. UNCHANGED <<s2, s3, s4, s5, s6, s7, s8, s9, s10, s11>>
      BY <2>1 DEF Devices!WaitForDevTools, Devices!KeepDevice, Devices!NoCommand
    <3>2. \E x \in {"ready", "tearDown"} : s1' = [s1 EXCEPT ![s] = x]
      BY <2>1 DEF Devices!WaitForDevTools, Devices!GoTo
    <3> QED BY <1>0, <3>1, <3>2, MoveKeeps
  <2>2. CASE Devices!QuitDevice(s)
    <3>1. UNCHANGED <<s2, s3, s4, s5, s6, s7, s8, s9, s10, s11>>
      BY <2>2 DEF Devices!QuitDevice, Devices!KeepDevice, Devices!NoCommand
    <3>2. s1' = [s1 EXCEPT ![s] = "tearDown"] BY <2>2 DEF Devices!QuitDevice, Devices!GoTo
    <3> QED BY <1>0, <3>1, <3>2, MoveKeeps
  <2> QED
    BY <1>0, <1>3, <2>1, <2>2, GetDevicesKeeps, LockDeviceKeeps, SetUpKeeps, FindSocketKeeps,
       ForwardPortKeeps, ForceStopKeeps, KillForwardPortKeeps, TornDownKeeps
<1> QED BY DevicesSteps, <1>1, <1>2, <1>3 DEF Devices!Next

\* A device serves one session at a time, although the list of devices is read without the lock;
\* and a device that is given back is clean unless a fault, of the kind that leaves the driver
\* ignorant, was met: for any number of faults (device_manager.cc, adb_impl.cc).
THEOREM DevicesExclusive == Spec => []DevicesAreExclusive
<1>1. DevicesInv => DevicesAreExclusive
  BY DEF DevicesInv, DevicesGood, DevicesAreExclusive, Devices!DevicesAreExclusive
<1> QED BY <1>1, DevicesInit, DevicesStepInv, PTL DEF Spec
-----------------------------------------------------------------------------
(* Commands on elements: Elements, whose variables are                     *)
(*   s1 loaderOf, s2 nodeIs, s3 pageChanges, s4 elementFrame,              *)
(*   s5 reference, s6 elementCommand, s7 elementCommands, s8 scriptCall,   *)
(*   s9 effects.                                                           *)

(* The table of points.                                                     *)

\* The points of each function.
LEMMA DomainsOfFunctions ==
  /\ DOMAIN Elements!FindElementCommon = {"find", "findChild"}
  /\ DOMAIN Elements!GetElementClickableLocation = {"location", "image", "displayed", "region"}
  /\ DOMAIN Elements!ScrollElementRegionIntoView = {"scroll", "clickable", "frames"}
  /\ DOMAIN Elements!ExecuteClickElement = {"click", "toggles", "selected", "select", "fileInput", "press"}
  /\ DOMAIN Elements!ExecuteTouch = {"tap"}
  /\ DOMAIN Elements!ExecuteClearElement = {"clear", "clearType", "editable",
                                            "readOnly", "shown", "clearing"}
  /\ DOMAIN Elements!FocusToElement = {"visible", "focused", "enabled", "focus"}
  /\ DOMAIN Elements!ExecuteSendKeysToElement = {"keys", "keysType", "strict", "paths", "color",
                                                 "content", "topEditable", "selection", "wasFocused", "caret", "type"}
  /\ DOMAIN Elements!ExecuteGetters = {"read", "rect", "size", "isXml", "submit"}
  /\ DOMAIN Elements!ExecutePageCommands = {"page"}
  /\ DOMAIN Elements!ExecuteElementScreenshot = {"screenshot", "intoView"}
  /\ DOMAIN Elements!ExecuteSwitchToFrame = {"frame", "frameAgain", "identifier"}
  /\ DOMAIN Elements!ExecuteScripts = {"execute", "async"}
BY DEF Elements!FindElementCommon, Elements!GetElementClickableLocation,
   Elements!ScrollElementRegionIntoView,
       Elements!ExecuteClickElement, Elements!ExecuteTouch, Elements!ExecuteClearElement,
       Elements!FocusToElement, Elements!ExecuteSendKeysToElement, Elements!ExecuteGetters,
       Elements!ExecutePageCommands, Elements!ExecuteElementScreenshot, Elements!ExecuteSwitchToFrame,
       Elements!ExecuteScripts

\* No two functions share a point.
LEMMA LineIsFound ==
  ASSUME NEW f \in Elements!Functions, NEW at \in DOMAIN f
  PROVE  Elements!Line(at) = f[at]
<1>1. ASSUME NEW g \in Elements!Functions, at \in DOMAIN g
      PROVE  g = f
  <2>1. CASE f = Elements!FindElementCommon
    BY <1>1, <2>1, DomainsOfFunctions DEF Elements!Functions
  <2>2. CASE f = Elements!GetElementClickableLocation
    BY <1>1, <2>2, DomainsOfFunctions DEF Elements!Functions
  <2>3. CASE f = Elements!ScrollElementRegionIntoView
    BY <1>1, <2>3, DomainsOfFunctions DEF Elements!Functions
  <2>4. CASE f = Elements!ExecuteClickElement
    BY <1>1, <2>4, DomainsOfFunctions DEF Elements!Functions
  <2>5. CASE f = Elements!ExecuteTouch
    BY <1>1, <2>5, DomainsOfFunctions DEF Elements!Functions
  <2>6. CASE f = Elements!ExecuteClearElement
    BY <1>1, <2>6, DomainsOfFunctions DEF Elements!Functions
  <2>7. CASE f = Elements!FocusToElement
    BY <1>1, <2>7, DomainsOfFunctions DEF Elements!Functions
  <2>8. CASE f = Elements!ExecuteSendKeysToElement
    BY <1>1, <2>8, DomainsOfFunctions DEF Elements!Functions
  <2>9. CASE f = Elements!ExecuteGetters
    BY <1>1, <2>9, DomainsOfFunctions DEF Elements!Functions
  <2>10. CASE f = Elements!ExecutePageCommands
    BY <1>1, <2>10, DomainsOfFunctions DEF Elements!Functions
  <2>11. CASE f = Elements!ExecuteElementScreenshot
    BY <1>1, <2>11, DomainsOfFunctions DEF Elements!Functions
  <2>12. CASE f = Elements!ExecuteSwitchToFrame
    BY <1>1, <2>12, DomainsOfFunctions DEF Elements!Functions
  <2>13. CASE f = Elements!ExecuteScripts
    BY <1>1, <2>13, DomainsOfFunctions DEF Elements!Functions
  <2>. QED BY <2>1, <2>2, <2>3, <2>4, <2>5, <2>6, <2>7, <2>8, <2>9, <2>10, <2>11, <2>12, <2>13
              DEF Elements!Functions
<1>2. f = CHOOSE g \in Elements!Functions : at \in DOMAIN g
  BY <1>1
<1>. QED BY <1>2 DEF Elements!Line

\* What the lines of the table have in common, whichever command they are of.
LineIsSound(at) ==
  /\ Elements!Line(at).what \in {"plain", "script", "effect", "parent", "input"}
  /\ Elements!Line(at).what = "effect" => at \in {"select", "clearing", "color", "submit", "execute", "async"}
  /\ Elements!Line(at).what = "input" => at \in {"press", "tap", "type"}
  /\ Elements!Line(at).what \in {"script", "effect"} => at \notin {"find", "frame", "frameAgain", "identifier"}
  /\ \A next \in Elements!Line(at).next :
       /\ Elements!Line(at).what = "effect" => next \in {"kOk", "kJavaScriptError"}
       /\ next \notin Elements!NavigationHints \cup {"kTimeout", "kStaleElementReference", "done", "byNumber"}
       /\ next = "kNoSuchElement" => at \in {"find", "findChild"}
       /\ next = "located" => at = "frames"

\* Every line of the table is so.
LEMMA LinesAreSound ==
  ASSUME NEW at \in Elements!Points
  PROVE  LineIsSound(at)
<1>1. PICK f \in Elements!Functions : at \in DOMAIN f
  BY DEF Elements!Points
<1>2. Elements!Line(at) = f[at]
  BY <1>1, LineIsFound
<1>3. CASE f = Elements!FindElementCommon
  BY <1>1, <1>2, <1>3, DomainsOfFunctions DEF LineIsSound, Elements!FindElementCommon,
     Elements!Does, Elements!NavigationHints
<1>4. CASE f = Elements!GetElementClickableLocation
  BY <1>1, <1>2, <1>4, DomainsOfFunctions DEF LineIsSound, Elements!GetElementClickableLocation,
     Elements!Does, Elements!NavigationHints
<1>5. CASE f = Elements!ScrollElementRegionIntoView
  BY <1>1, <1>2, <1>5, DomainsOfFunctions DEF LineIsSound, Elements!ScrollElementRegionIntoView,
     Elements!Does, Elements!NavigationHints
<1>6. CASE f = Elements!ExecuteClickElement
  BY <1>1, <1>2, <1>6, DomainsOfFunctions DEF LineIsSound, Elements!ExecuteClickElement,
     Elements!Does, Elements!NavigationHints
<1>7. CASE f = Elements!ExecuteTouch
  BY <1>1, <1>2, <1>7, DomainsOfFunctions DEF LineIsSound, Elements!ExecuteTouch, Elements!Does,
     Elements!NavigationHints
<1>8. CASE f = Elements!ExecuteClearElement
  BY <1>1, <1>2, <1>8, DomainsOfFunctions DEF LineIsSound, Elements!ExecuteClearElement,
     Elements!Does, Elements!NavigationHints
<1>9. CASE f = Elements!FocusToElement
  BY <1>1, <1>2, <1>9, DomainsOfFunctions DEF LineIsSound, Elements!FocusToElement,
     Elements!Does, Elements!NavigationHints
<1>10. CASE f = Elements!ExecuteSendKeysToElement
  BY <1>1, <1>2, <1>10, DomainsOfFunctions DEF LineIsSound, Elements!ExecuteSendKeysToElement,
     Elements!Does, Elements!NavigationHints
<1>11. CASE f = Elements!ExecuteGetters
  BY <1>1, <1>2, <1>11, DomainsOfFunctions DEF LineIsSound, Elements!ExecuteGetters,
     Elements!Does, Elements!NavigationHints
<1>12. CASE f = Elements!ExecutePageCommands
  BY <1>1, <1>2, <1>12, DomainsOfFunctions DEF LineIsSound, Elements!ExecutePageCommands,
     Elements!Does, Elements!NavigationHints
<1>13. CASE f = Elements!ExecuteElementScreenshot
  BY <1>1, <1>2, <1>13, DomainsOfFunctions DEF LineIsSound, Elements!ExecuteElementScreenshot,
     Elements!Does, Elements!NavigationHints
<1>14. CASE f = Elements!ExecuteSwitchToFrame
  BY <1>1, <1>2, <1>14, DomainsOfFunctions DEF LineIsSound, Elements!ExecuteSwitchToFrame,
     Elements!Does, Elements!NavigationHints
<1>15. CASE f = Elements!ExecuteScripts
  BY <1>1, <1>2, <1>15, DomainsOfFunctions DEF LineIsSound, Elements!ExecuteScripts,
     Elements!Does, Elements!NavigationHints
<1>. QED BY <1>3, <1>4, <1>5, <1>6, <1>7, <1>8, <1>9, <1>10, <1>11, <1>12, <1>13, <1>14, <1>15
            DEF Elements!Functions

\* How a function ends.
Outcomes == {"found", "switched", "located",
             "kElementClickIntercepted", "kElementNotInteractable", "kElementNotVisible", "kInvalidArgument",
             "kInvalidElementState", "kInvalidSelector", "kJavaScriptError", "kNoSuchElement",
             "kNoSuchFrame", "kOk", "kUnknownError"}

\* No point has the name of an outcome.
LEMMA PointsAreNoOutcomes == Elements!Points \cap (Outcomes \cup {"done", "backend", "byNumber"}) = {}
<1>1. ASSUME NEW at \in Elements!Points
      PROVE  at \notin Outcomes \cup {"done", "backend", "byNumber"}
  <2>1. PICK f \in Elements!Functions : at \in DOMAIN f
    BY DEF Elements!Points
  <2>. QED BY <2>1, DomainsOfFunctions DEF Elements!Functions, Outcomes
<1>. QED BY <1>1

\* What a function does is at a point.
LEMMA PointsAreOfFunctions ==
  ASSUME NEW f \in Elements!Functions
  PROVE  DOMAIN f \subseteq Elements!Points
BY DEF Elements!Points

\* A command stays at its points, and begins at one.
LEMMA CommandsKeepTheirPoints ==
  ASSUME NEW kind \in Elements!Kinds, NEW at \in Elements!PointsOf(kind), at \in Elements!Points, NEW next \in Elements!Line(at).next
  PROVE  next \in Elements!PointsOf(kind) \cup Outcomes
<1>0. ASSUME NEW f \in Elements!Functions, at \in DOMAIN f
      PROVE  next \in f[at].next
  BY <1>0, LineIsFound
<1>1. CASE kind = "click"
  <2>1. CASE at \in DOMAIN Elements!GetElementClickableLocation
    BY <1>0, <1>1, <2>1, DomainsOfFunctions DEF Elements!PointsOf, Elements!Functions, Outcomes,
       Elements!Does, Elements!GetElementClickableLocation
  <2>2. CASE at \in DOMAIN Elements!ScrollElementRegionIntoView
    BY <1>0, <1>1, <2>2, DomainsOfFunctions DEF Elements!PointsOf, Elements!Functions, Outcomes,
       Elements!Does, Elements!ScrollElementRegionIntoView
  <2>3. CASE at \in DOMAIN Elements!ExecuteClickElement
    BY <1>0, <1>1, <2>3, DomainsOfFunctions DEF Elements!PointsOf, Elements!Functions, Outcomes,
       Elements!Does, Elements!ExecuteClickElement
  <2>. QED BY <1>1, <2>1, <2>2, <2>3 DEF Elements!PointsOf
<1>2. CASE kind = "touch"
  <2>1. CASE at \in DOMAIN Elements!GetElementClickableLocation
    BY <1>0, <1>2, <2>1, DomainsOfFunctions DEF Elements!PointsOf, Elements!Functions, Outcomes,
       Elements!Does, Elements!GetElementClickableLocation
  <2>2. CASE at \in DOMAIN Elements!ScrollElementRegionIntoView
    BY <1>0, <1>2, <2>2, DomainsOfFunctions DEF Elements!PointsOf, Elements!Functions, Outcomes,
       Elements!Does, Elements!ScrollElementRegionIntoView
  <2>3. CASE at \in DOMAIN Elements!ExecuteTouch
    BY <1>0, <1>2, <2>3, DomainsOfFunctions DEF Elements!PointsOf, Elements!Functions, Outcomes,
       Elements!Does, Elements!ExecuteTouch
  <2>. QED BY <1>2, <2>1, <2>2, <2>3 DEF Elements!PointsOf
<1>3. CASE kind = "clear"
  BY <1>0, <1>3, DomainsOfFunctions DEF Elements!PointsOf, Elements!Functions, Outcomes,
     Elements!Does, Elements!ExecuteClearElement
<1>4. CASE kind = "keys"
  <2>1. CASE at \in DOMAIN Elements!ExecuteSendKeysToElement
    BY <1>0, <1>4, <2>1, DomainsOfFunctions DEF Elements!PointsOf, Elements!Functions, Outcomes,
       Elements!Does, Elements!ExecuteSendKeysToElement
  <2>2. CASE at \in DOMAIN Elements!FocusToElement
    BY <1>0, <1>4, <2>2, DomainsOfFunctions DEF Elements!PointsOf, Elements!Functions, Outcomes,
       Elements!Does, Elements!FocusToElement
  <2>. QED BY <1>4, <2>1, <2>2, PointsAreNoOutcomes DEF Elements!PointsOf
<1>5. CASE kind = "rect"
  BY <1>0, <1>5, DomainsOfFunctions DEF Elements!PointsOf, Elements!Functions, Outcomes,
     Elements!Does, Elements!ExecuteGetters
<1>6. CASE kind = "isXml"
  BY <1>0, <1>6, DomainsOfFunctions DEF Elements!PointsOf, Elements!Functions, Outcomes,
     Elements!Does, Elements!ExecuteGetters
<1>7. CASE kind = "screenshot"
  <2>1. CASE at \in DOMAIN Elements!ExecuteElementScreenshot
    BY <1>0, <1>7, <2>1, DomainsOfFunctions DEF Elements!PointsOf, Elements!Functions, Outcomes,
       Elements!Does, Elements!ExecuteElementScreenshot
  <2>2. CASE at \in DOMAIN Elements!ExecuteGetters
    BY <1>0, <1>7, <2>2, DomainsOfFunctions DEF Elements!PointsOf, Elements!Functions, Outcomes,
       Elements!Does, Elements!ExecuteGetters
  <2>. QED BY <1>7, <2>1, <2>2, DomainsOfFunctions DEF Elements!PointsOf
<1>8. CASE kind = "frame"
  BY <1>0, <1>8, DomainsOfFunctions DEF Elements!PointsOf, Elements!Functions, Outcomes,
     Elements!Does, Elements!ExecuteSwitchToFrame
<1>9. CASE kind = "label"
  BY <1>9, PointsAreNoOutcomes DEF Elements!PointsOf
<1>10. CASE kind = "find"
  BY <1>0, <1>10, DomainsOfFunctions DEF Elements!PointsOf, Elements!Functions, Outcomes,
     Elements!Does, Elements!FindElementCommon
<1>11. CASE kind = "findChild"
  BY <1>0, <1>11, DomainsOfFunctions DEF Elements!PointsOf, Elements!Functions, Outcomes,
     Elements!Does, Elements!FindElementCommon
<1>12. CASE kind = "read"
  BY <1>0, <1>12, DomainsOfFunctions DEF Elements!PointsOf, Elements!Functions, Outcomes,
     Elements!Does, Elements!ExecuteGetters
<1>13. CASE kind = "page"
  BY <1>0, <1>13, DomainsOfFunctions DEF Elements!PointsOf, Elements!Functions, Outcomes,
     Elements!Does, Elements!ExecutePageCommands
<1>14. CASE kind = "submit"
  BY <1>0, <1>14, DomainsOfFunctions DEF Elements!PointsOf, Elements!Functions, Outcomes,
     Elements!Does, Elements!ExecuteGetters
<1>15. CASE kind = "execute"
  BY <1>0, <1>15, DomainsOfFunctions DEF Elements!PointsOf, Elements!Functions, Outcomes,
     Elements!Does, Elements!ExecuteScripts
<1>16. CASE kind = "async"
  BY <1>0, <1>16, DomainsOfFunctions DEF Elements!PointsOf, Elements!Functions, Outcomes,
     Elements!Does, Elements!ExecuteScripts
<1>. QED BY <1>1, <1>2, <1>3, <1>4, <1>5, <1>6, <1>7, <1>8, <1>9, <1>10, <1>11, <1>12, <1>13,
            <1>14, <1>15, <1>16
       DEF Elements!Kinds


\* A command begins at one of its points, and two commands end with the number of a node.
LEMMA PointsOfCommands ==
  ASSUME NEW kind \in Elements!Kinds
  PROVE  /\ Elements!Start(kind) \in Elements!PointsOf(kind)
         /\ Elements!Start(kind) # "wasFocused"
         /\ Elements!PointsOf(kind) \subseteq Elements!Points \cup {"backend", "byNumber"}
         /\ "backend" \in Elements!PointsOf(kind) \/ "byNumber" \in Elements!PointsOf(kind) => kind \in {"keys", "label"}
<1>1. Elements!Start(kind) \in Elements!PointsOf(kind) /\ Elements!Start(kind) # "wasFocused"
  BY DomainsOfFunctions DEF Elements!Start, Elements!PointsOf, Elements!Kinds
<1>2. Elements!PointsOf(kind) \subseteq Elements!Points \cup {"backend", "byNumber"}
  <2>1. CASE kind = "click"
    BY <2>1, PointsAreOfFunctions, DomainsOfFunctions DEF Elements!PointsOf, Elements!Functions
  <2>2. CASE kind = "touch"
    BY <2>2, PointsAreOfFunctions, DomainsOfFunctions DEF Elements!PointsOf, Elements!Functions
  <2>3. CASE kind = "clear"
    BY <2>3, PointsAreOfFunctions, DomainsOfFunctions DEF Elements!PointsOf, Elements!Functions
  <2>4. CASE kind = "keys"
    BY <2>4, PointsAreOfFunctions, DomainsOfFunctions DEF Elements!PointsOf, Elements!Functions
  <2>5. CASE kind = "rect"
    BY <2>5, PointsAreOfFunctions, DomainsOfFunctions DEF Elements!PointsOf, Elements!Functions
  <2>6. CASE kind = "isXml"
    BY <2>6, PointsAreOfFunctions, DomainsOfFunctions DEF Elements!PointsOf, Elements!Functions
  <2>7. CASE kind = "screenshot"
    BY <2>7, PointsAreOfFunctions, DomainsOfFunctions DEF Elements!PointsOf, Elements!Functions
  <2>8. CASE kind = "frame"
    BY <2>8, PointsAreOfFunctions, DomainsOfFunctions DEF Elements!PointsOf, Elements!Functions
  <2>9. CASE kind = "label"
    BY <2>9 DEF Elements!PointsOf
  <2>10. CASE kind = "find"
    BY <2>10, PointsAreOfFunctions, DomainsOfFunctions DEF Elements!PointsOf, Elements!Functions
  <2>11. CASE kind = "findChild"
    BY <2>11, PointsAreOfFunctions, DomainsOfFunctions DEF Elements!PointsOf, Elements!Functions
  <2>12. CASE kind = "read"
    BY <2>12, PointsAreOfFunctions, DomainsOfFunctions DEF Elements!PointsOf, Elements!Functions
  <2>13. CASE kind = "page"
    BY <2>13, PointsAreOfFunctions, DomainsOfFunctions DEF Elements!PointsOf, Elements!Functions
  <2>14. CASE kind = "submit"
    BY <2>14, PointsAreOfFunctions, DomainsOfFunctions DEF Elements!PointsOf, Elements!Functions
  <2>15. CASE kind = "execute"
    BY <2>15, PointsAreOfFunctions, DomainsOfFunctions DEF Elements!PointsOf, Elements!Functions
  <2>16. CASE kind = "async"
    BY <2>16, PointsAreOfFunctions, DomainsOfFunctions DEF Elements!PointsOf, Elements!Functions
  <2>. QED BY <2>1, <2>2, <2>3, <2>4, <2>5, <2>6, <2>7, <2>8, <2>9, <2>10, <2>11, <2>12, <2>13,
              <2>14, <2>15, <2>16
         DEF Elements!Kinds
<1>3. "backend" \in Elements!PointsOf(kind) \/ "byNumber" \in Elements!PointsOf(kind) => kind \in {"keys", "label"}
  BY DomainsOfFunctions DEF Elements!PointsOf, Elements!Kinds
<1>. QED BY <1>1, <1>2, <1>3

\* Only commands on an element act, and such a command begins with its element.
LEMMA ActsOnElements ==
  ASSUME NEW kind \in Elements!Kinds, NEW at \in Elements!PointsOf(kind), at \in Elements!Points
  PROVE  /\ Elements!Line(at).what \in {"script", "effect"} => kind \notin {"find", "frame"}
         /\ Elements!Line(at).what = "effect" =>
              /\ kind \notin {"find", "findChild"} /\ at # "wasFocused"
              /\ at \notin DOMAIN Elements!FocusToElement
              /\ Elements!Start(kind) \in Elements!Points /\ Elements!Line(Elements!Start(kind)).what \in {"script", "effect"}
         /\ Elements!Line(at).what = "input" => kind # "find" /\ at \notin DOMAIN Elements!FocusToElement
         /\ at \in DOMAIN Elements!FindElementCommon => kind \in {"find", "findChild"}
<1>. LineIsSound(at)
  BY LinesAreSound
<1>1. Elements!Line(at).what \in {"script", "effect"} => kind \notin {"find", "frame"}
  BY DomainsOfFunctions DEF LineIsSound, Elements!PointsOf
<1>2. Elements!Line(at).what = "input" => kind # "find" /\ at \notin DOMAIN Elements!FocusToElement
  BY DomainsOfFunctions DEF LineIsSound, Elements!PointsOf
<1>3. ASSUME Elements!Line(at).what = "effect"
      PROVE  /\ kind \in {"click", "clear", "keys", "submit", "execute", "async"} /\ at # "wasFocused"
             /\ at \notin DOMAIN Elements!FocusToElement
  BY <1>3, DomainsOfFunctions DEF LineIsSound, Elements!PointsOf, Elements!Kinds
<1>4. ASSUME kind \in {"click", "clear", "keys", "submit", "execute", "async"}
      PROVE  Elements!Start(kind) \in Elements!Points /\ Elements!Line(Elements!Start(kind)).what \in {"script", "effect"}
  <2>1. CASE kind = "click"
    BY <2>1, LineIsFound, PointsAreOfFunctions, DomainsOfFunctions DEF Elements!Start,
       Elements!Functions, Elements!ExecuteClickElement, Elements!Does
  <2>2. CASE kind = "clear"
    BY <2>2, LineIsFound, PointsAreOfFunctions, DomainsOfFunctions DEF Elements!Start,
       Elements!Functions, Elements!ExecuteClearElement, Elements!Does
  <2>3. CASE kind = "keys"
    BY <2>3, LineIsFound, PointsAreOfFunctions, DomainsOfFunctions DEF Elements!Start,
       Elements!Functions, Elements!ExecuteSendKeysToElement, Elements!Does
  <2>4. CASE kind = "submit"
    BY <2>4, LineIsFound, PointsAreOfFunctions, DomainsOfFunctions DEF Elements!Start,
       Elements!Functions, Elements!ExecuteGetters, Elements!Does
  <2>5. CASE kind \in {"execute", "async"}
    BY <2>5, LineIsFound, PointsAreOfFunctions, DomainsOfFunctions DEF Elements!Start,
       Elements!Functions, Elements!ExecuteScripts, Elements!Does
  <2>. QED BY <1>4, <2>1, <2>2, <2>3, <2>4, <2>5
<1>5. at \in DOMAIN Elements!FindElementCommon => kind \in {"find", "findChild"}
  BY DomainsOfFunctions DEF Elements!PointsOf, Elements!Kinds
<1>. QED BY <1>1, <1>2, <1>3, <1>4, <1>5
-----------------------------------------------------------------------------
(* The page.                                                                *)

\* A node is of a frame and of a document.
LEMMA NodesAreRecords ==
  ASSUME NEW n \in Elements!Nodes
  PROVE  /\ n.loader \in Nat
         /\ n # Elements!NoNode => n.frame \in Elements!Frames /\ n.loader # 0
<1>1. Elements!NoNode.loader \in Nat
  BY DEF Elements!NoNode
<1>. QED BY <1>1 DEF Elements!Nodes

\* A document that has gone does not come back, and no node becomes the one of a reference.
PageAges ==
  /\ s1' \in [Elements!Frames -> Nat] /\ s2' \in Elements!Nodes
  /\ \A g \in Elements!Frames : s1'[g] = 0 \/ (s1[g] # 0 /\ s1[g] <= s1'[g])
  /\ s2' # Elements!NoNode => s2'.loader = s1'[s2'.frame]
  /\ s5 # Elements!NoNode /\ s2 # s5 => s2' # s5

\* The page ages when a frame navigates ...
LEMMA NavigateAges ==
  ASSUME Elements!ElementsTyped, Elements!NodesAreOfDocuments, NEW f \in Elements!Frames, Elements!Navigate(f)
  PROVE  PageAges
<1>. USE DEF Elements!ElementsTyped
<1>1. s1' \in [Elements!Frames -> Nat]
  BY DEF Elements!Navigate, Elements!Frames
<1>2. /\ s1'[f] = s1[f] + 1 /\ s1[f] # 0 /\ s1[f] \in Nat
      /\ f = "top" => s1'["sub"] = 0
      /\ f = "sub" => s1'["top"] = s1["top"]
  BY DEF Elements!Navigate, Elements!Frames
<1>3. ASSUME NEW g \in Elements!Frames
      PROVE  s1'[g] = 0 \/ (s1[g] # 0 /\ s1[g] <= s1'[g])
  BY <1>1, <1>2 DEF Elements!Frames
<1>. DEFINE new == [frame |-> f, loader |-> s1[f] + 1, attached |-> TRUE]
<1>4. new \in Elements!Nodes /\ new # Elements!NoNode /\ new.frame = f /\ new.loader = s1'[f]
  <2>1. new \in [frame : Elements!Frames, loader : Nat \ {0}, attached : BOOLEAN]
    BY <1>2
  <2>2. new.frame = f /\ new.loader = s1'[f]
    BY <1>2
  <2>3. Elements!NoNode.loader = 0
    BY DEF Elements!NoNode
  <2>. HIDE DEF new
  <2>4. new \in Elements!Nodes
    BY <2>1 DEF Elements!Nodes
  <2>5. new # Elements!NoNode
    BY <2>2, <2>3, <1>2
  <2>. QED BY <2>2, <2>4, <2>5
<1>5. s5 # Elements!NoNode => new # s5
  BY <1>2, <1>4, NodesAreRecords DEF Elements!NodesAreOfDocuments
<1>6. CASE s2 # Elements!NoNode /\ (s2.frame = f \/ f = "top")
  <2>1. s2' = Elements!NoNode \/ s2' = new
    BY <1>6 DEF Elements!Navigate
  <2>. HIDE DEF new
  <2>2. s2' \in Elements!Nodes
    BY <2>1, <1>4 DEF Elements!Nodes
  <2>. QED BY <1>1, <1>3, <1>4, <1>5, <2>1, <2>2 DEF PageAges
<1>7. CASE ~(s2 # Elements!NoNode /\ (s2.frame = f \/ f = "top"))
  <2>1. s2' = s2
    BY <1>7 DEF Elements!Navigate
  <2>2. s2 # Elements!NoNode => s2.loader = s1'[s2.frame]
    BY <1>2, <1>7, NodesAreRecords DEF Elements!NodesAreOfDocuments, Elements!Frames
  <2>. QED BY <1>1, <1>3, <2>1, <2>2 DEF PageAges
<1>. QED BY <1>6, <1>7

\* ... when a node is removed ...
LEMMA RemoveNodeAges ==
  ASSUME Elements!ElementsTyped, Elements!NodesAreOfDocuments, Elements!RemoveNode
  PROVE  PageAges
<1>. USE DEF Elements!ElementsTyped
<1>. DEFINE loose == [s2 EXCEPT !.attached = FALSE]
<1>1. s2 # Elements!NoNode /\ s1' = s1 /\ (s2' = Elements!NoNode \/ s2' = loose)
  BY DEF Elements!RemoveNode
<1>2. s2 \in [frame : Elements!Frames, loader : Nat \ {0}, attached : BOOLEAN]
  BY <1>1 DEF Elements!Nodes
<1>3. loose \in [frame : Elements!Frames, loader : Nat \ {0}, attached : BOOLEAN]
      /\ loose.frame = s2.frame /\ loose.loader = s2.loader
  BY <1>2
<1>4. ~loose.attached
  BY <1>2
<1>5. s5 # Elements!NoNode => loose # s5
  BY <1>4
<1>. HIDE DEF loose
<1>6. s2' \in Elements!Nodes
  BY <1>1, <1>3 DEF Elements!Nodes
<1>7. s2' # Elements!NoNode => s2'.loader = s1[s2'.frame]
  BY <1>1, <1>3 DEF Elements!NodesAreOfDocuments
<1>8. \A g \in Elements!Frames : s1[g] = 0 \/ (s1[g] # 0 /\ s1[g] <= s1[g])
  OBVIOUS
<1>. QED BY <1>1, <1>5, <1>6, <1>7, <1>8 DEF PageAges

\* ... and when a frame is.
LEMMA RemoveFrameAges ==
  ASSUME Elements!ElementsTyped, Elements!NodesAreOfDocuments, Elements!RemoveFrame
  PROVE  PageAges
<1>. USE DEF Elements!ElementsTyped
<1>1. /\ s1' \in [Elements!Frames -> Nat] /\ s1'["sub"] = 0 /\ s1'["top"] = s1["top"]
  BY DEF Elements!RemoveFrame, Elements!Frames
<1>2. s2' = (IF s2.frame = "sub" THEN Elements!NoNode ELSE s2)
  BY DEF Elements!RemoveFrame
<1>3. \A g \in Elements!Frames : s1'[g] = 0 \/ (s1[g] # 0 /\ s1[g] <= s1'[g])
  BY <1>1 DEF Elements!Frames
<1>4. s2' \in Elements!Nodes
  BY <1>2 DEF Elements!Nodes
<1>5. s2' # Elements!NoNode => s2'.loader = s1'[s2'.frame]
  BY <1>1, <1>2, NodesAreRecords DEF Elements!NodesAreOfDocuments, Elements!Frames
<1>6. s5 # Elements!NoNode /\ s2 # s5 => s2' # s5
  BY <1>2
<1>. QED BY <1>1, <1>3, <1>4, <1>5, <1>6 DEF PageAges

\* A page that ages keeps the invariant, wherever the command is.
LEMMA PageKeeps ==
  ASSUME Elements!ElementsInv, PageAges,
         UNCHANGED <<s4, s5, s6, s8, s9>>
  PROVE  Elements!ElementsInv'
<1>1. /\ Elements!ElementsTyped /\ Elements!CommandIsKnown /\ Elements!NodesAreOfDocuments /\ Elements!CallIsOfCommand /\ Elements!CallIsRight
      /\ Elements!BlameIsRight /\ Elements!ActsOnceInv
  BY DEF Elements!ElementsInv
<1>2. /\ s4' = s4 /\ s5' = s5 /\ s6' = s6
      /\ s8' = s8 /\ s9' = s9
  OBVIOUS
<1>3. Elements!ElementsTyped'
  BY <1>1, <1>2 DEF Elements!ElementsTyped, PageAges
<1>4. Elements!CommandIsKnown'
  BY <1>1, <1>2 DEF Elements!CommandIsKnown
<1>5. s5 # Elements!NoNode => s5.frame \in Elements!Frames /\ s5.loader \in Nat \ {0}
  BY <1>1, NodesAreRecords DEF Elements!ElementsTyped
<1>6. s5 # Elements!NoNode => \/ s1'[s5.frame] = 0
                              \/ s5.loader <= s1'[s5.frame]
  BY <1>1, <1>5 DEF Elements!NodesAreOfDocuments, PageAges, Elements!ElementsTyped
<1>7. Elements!NodesAreOfDocuments'
  BY <1>2, <1>6 DEF Elements!NodesAreOfDocuments, PageAges
<1>8. Elements!CallIsOfCommand'
  <2>1. ASSUME s8.at \in {"resolve", "again", "call", "answer"}
        PROVE  s1'[s8.frame] = 0 \/ s8.loader <= s1'[s8.frame]
    <3>1. s8.frame \in Elements!Frames /\ s8.loader \in Nat
      BY <1>1, <2>1 DEF Elements!CallIsOfCommand, Elements!ElementsTyped, Elements!CallFrame,
         Elements!Frames, Elements!Calls
    <3>. QED BY <1>1, <2>1, <3>1 DEF Elements!CallIsOfCommand, PageAges, Elements!ElementsTyped
  <2>. QED BY <1>1, <1>2, <2>1 DEF Elements!CallIsOfCommand, Elements!CallFrame
<1>9. Elements!UsesElement' <=> Elements!UsesElement
  BY <1>2 DEF Elements!UsesElement
<1>10. ASSUME s8.at = "returned", s8.status = "kStaleElementReference"
       PROVE  s2' # s5
  <2>1. Elements!UsesElement /\ s2 # s5
    BY <1>1, <1>10 DEF Elements!CallIsRight
  <2>2. s6.at \in Elements!Points
    BY <1>1, <1>10 DEF Elements!CallIsOfCommand
  <2>3. s5 # Elements!NoNode
    BY <1>1, <2>1, <2>2, PointsAreNoOutcomes, ActsOnElements DEF Elements!CommandIsKnown,
       Elements!UsesElement
  <2>. QED BY <2>1, <2>3 DEF PageAges
<1>11. Elements!CallIsRight'
  BY <1>1, <1>2, <1>9, <1>10 DEF Elements!CallIsRight
<1>12. Elements!BlameIsRight'
  BY <1>1, <1>2 DEF Elements!BlameIsRight, Elements!StaleIsTrue, PageAges
<1>13. Elements!DocumentIsGone => Elements!DocumentIsGone'
  BY <1>1, <1>2, <1>5 DEF Elements!DocumentIsGone, PageAges, Elements!ElementsTyped,
     Elements!NodesAreOfDocuments
<1>14. Elements!Acted => Elements!Acted'
  BY <1>2 DEF Elements!Acted
<1>15. Elements!CannotActAgain => Elements!CannotActAgain'
  BY <1>2, <1>9, <1>13 DEF Elements!CannotActAgain
<1>16. Elements!ActsOnceInv'
  BY <1>1, <1>2, <1>14, <1>15 DEF Elements!ActsOnceInv
<1>. QED BY <1>3, <1>4, <1>7, <1>8, <1>11, <1>12, <1>16 DEF Elements!ElementsInv

-----------------------------------------------------------------------------
(* Calls.                                                                   *)

\* The state without a call is one of a call.
LEMMA NoCallIsACall == Elements!NoCall \in Elements!Calls /\ Elements!NoCall.at = "none"
BY DEF Elements!NoCall, Elements!Calls, Elements!Statuses, Elements!Nodes

\* A call changes what the invariant says of calls alone.
LEMMA CallKeeps ==
  ASSUME Elements!ElementsInv, UNCHANGED <<s1, s2, s4, s5, s6>>,
         s9' \in Nat, s8' \in Elements!Calls, Elements!CallIsOfCommand', Elements!CallIsRight', Elements!ActsOnceInv'
  PROVE  Elements!ElementsInv'
<1>1. Elements!ElementsTyped /\ Elements!CommandIsKnown /\ Elements!NodesAreOfDocuments /\ Elements!BlameIsRight
  BY DEF Elements!ElementsInv
<1>2. /\ s1' = s1 /\ s2' = s2 /\ s4' = s4
      /\ s5' = s5 /\ s6' = s6
  OBVIOUS
<1>3. Elements!ElementsTyped'
  BY <1>1, <1>2 DEF Elements!ElementsTyped
<1>4. Elements!CommandIsKnown'
  BY <1>1, <1>2 DEF Elements!CommandIsKnown
<1>5. Elements!NodesAreOfDocuments'
  BY <1>1, <1>2 DEF Elements!NodesAreOfDocuments
<1>6. Elements!BlameIsRight'
  BY <1>1, <1>2 DEF Elements!BlameIsRight, Elements!StaleIsTrue
<1>. QED BY <1>3, <1>4, <1>5, <1>6 DEF Elements!ElementsInv

\* A command whose element is used has been given a reference.
LEMMA UsersHaveReferences ==
  ASSUME Elements!ElementsInv, s6.at \in Elements!Points, Elements!UsesElement
  PROVE  s5 # Elements!NoNode
BY PointsAreNoOutcomes, ActsOnElements DEF Elements!ElementsInv, Elements!CommandIsKnown,
   Elements!UsesElement

\* A call that fails before the function has run.
LEMMA FailedCallKeeps ==
  ASSUME Elements!ElementsInv, UNCHANGED <<s1, s2, s4, s5, s6, s9>>,
         s8.at \in {"loader", "resolve", "again", "call"},
         NEW statuses, statuses \subseteq Elements!Statuses \ {"kOk"}, Elements!FailCall(statuses),
         "kStaleElementReference" \in statuses => Elements!UsesElement /\ s2 # s5,
         "kNoSuchElement" \in statuses => Elements!UsesElement /\ s5.frame # s4
  PROVE  Elements!ElementsInv'
<1>1. Elements!ElementsTyped /\ Elements!CallIsOfCommand /\ Elements!CallIsRight /\ Elements!ActsOnceInv
  BY DEF Elements!ElementsInv
<1>2. PICK s \in statuses : s8' = [s8 EXCEPT !.at = "returned", !.status = s]
  BY DEF Elements!FailCall
<1>3. s8 \in Elements!Calls /\ s \in Elements!Statuses
  BY <1>1 DEF Elements!ElementsTyped
<1>4. s8' \in Elements!Calls /\ s8'.at = "returned" /\ s8'.status = s
  BY <1>2, <1>3 DEF Elements!Calls
<1>5. /\ s1' = s1 /\ s2' = s2 /\ s4' = s4
      /\ s5' = s5 /\ s6' = s6 /\ s9' = s9
  OBVIOUS
<1>6. Elements!UsesElement' <=> Elements!UsesElement
  BY <1>5 DEF Elements!UsesElement
<1>7. Elements!CallIsOfCommand'
  <2>1. s8' # Elements!NoCall
    BY <1>4, NoCallIsACall
  <2>2. s6.at \in Elements!Points /\ Elements!Line(s6.at).what # "input"
    BY <1>1 DEF Elements!CallIsOfCommand
  <2>. QED BY <1>4, <1>5, <2>1, <2>2 DEF Elements!CallIsOfCommand
<1>8. Elements!CallIsRight'
  BY <1>3, <1>4, <1>5, <1>6 DEF Elements!CallIsRight
<1>9. Elements!ActsOnceInv'
  <2>1. ~Elements!Acted
    BY DEF Elements!Acted
  <2>2. Elements!CannotActAgain => Elements!CannotActAgain'
    BY <1>4, <1>5, <1>6 DEF Elements!CannotActAgain, Elements!DocumentIsGone
  <2>. QED BY <1>1, <1>5, <2>1, <2>2 DEF Elements!ActsOnceInv
<1>10. s9' \in Nat
  BY <1>1, <1>5 DEF Elements!ElementsTyped
<1>. QED BY <1>4, <1>7, <1>8, <1>9, <1>10, CallKeeps

\* A round trip fails for a navigation only.
LEMMA RoundTripsFail ==
  ASSUME NEW f
  PROVE  Elements!RoundTripFails(f) \subseteq {"kNoSuchExecutionContext", "kAbortedByNavigation"}
BY DEF Elements!RoundTripFails

\* A call begins.
LEMMA CallFunctionKeeps ==
  ASSUME Elements!ElementsInv, Elements!CallFunction
  PROVE  Elements!ElementsInv'
<1>1. Elements!ElementsTyped /\ Elements!CallIsOfCommand /\ Elements!CallIsRight /\ Elements!ActsOnceInv
  BY DEF Elements!ElementsInv
<1>2. /\ s8 = Elements!NoCall /\ s6.at \in Elements!Points
      /\ Elements!Line(s6.at).what # "input"
  BY DEF Elements!CallFunction
<1>3. /\ s1' = s1 /\ s2' = s2 /\ s4' = s4
      /\ s5' = s5 /\ s6' = s6 /\ s9' = s9
  BY DEF Elements!CallFunction, Elements!CallStep
<1>4. Elements!UsesElement' <=> Elements!UsesElement
  BY <1>3 DEF Elements!UsesElement
<1>5. Elements!NoCall \in Elements!Calls /\ Elements!NoCall.at = "none"
  BY NoCallIsACall
<1>6. Elements!CallFrame \in Elements!Frames /\ Elements!CallFrame' = Elements!CallFrame
  BY <1>1, <1>3 DEF Elements!CallFrame, Elements!ElementsTyped, Elements!Frames
<1>7. \/ /\ s8' \in Elements!Calls /\ s8'.at = "loader"
         /\ s8'.frame = Elements!CallFrame /\ s8'.status = "kOk"
      \/ /\ s8' \in Elements!Calls /\ s8'.at = "returned"
         /\ s8'.status = "kTargetDetached"
  <2>1. CASE s8' = [Elements!NoCall EXCEPT !.at = "loader", !.frame = Elements!CallFrame]
    BY <1>5, <1>6, <2>1 DEF Elements!Calls, Elements!NoCall
  <2>2. CASE s8' = [Elements!NoCall EXCEPT !.at = "returned", !.status = "kTargetDetached"]
    BY <1>5, <2>2 DEF Elements!Calls, Elements!Statuses
  <2>. QED BY <2>1, <2>2 DEF Elements!CallFunction
<1>8. s8' # Elements!NoCall
  BY <1>5, <1>7
<1>9. Elements!CallIsOfCommand'
  BY <1>2, <1>3, <1>6, <1>7, <1>8 DEF Elements!CallIsOfCommand
<1>10. Elements!CallIsRight'
  BY <1>3, <1>4, <1>7 DEF Elements!CallIsRight, Elements!Statuses
<1>11. Elements!ActsOnceInv'
  <2>1. ~Elements!Acted
    BY <1>2, <1>5 DEF Elements!Acted
  <2>2. Elements!CannotActAgain => Elements!CannotActAgain'
    BY <1>2, <1>3, <1>4, <1>5, <1>7 DEF Elements!CannotActAgain, Elements!DocumentIsGone
  <2>. QED BY <1>1, <1>3, <2>1, <2>2 DEF Elements!ActsOnceInv
<1>12. s9' \in Nat
  BY <1>1, <1>3 DEF Elements!ElementsTyped
<1>. QED BY <1>3, <1>7, <1>9, <1>10, <1>11, <1>12, CallKeeps

\* The call asks for the document of its frame, which is no older than the reference.
LEMMA GetLoaderIdKeeps ==
  ASSUME Elements!ElementsInv, Elements!GetLoaderId
  PROVE  Elements!ElementsInv'
<1>1. Elements!ElementsTyped /\ Elements!NodesAreOfDocuments /\ Elements!CallIsOfCommand /\ Elements!CallIsRight /\ Elements!ActsOnceInv
  BY DEF Elements!ElementsInv
<1>2. s8.at = "loader"
  BY DEF Elements!GetLoaderId
<1>3. /\ s1' = s1 /\ s2' = s2 /\ s4' = s4
      /\ s5' = s5 /\ s6' = s6 /\ s9' = s9
  BY DEF Elements!GetLoaderId, Elements!CallStep
<1>4. CASE Elements!FailCall(Elements!RoundTripFails(s8.frame))
  <2>. DEFINE statuses == Elements!RoundTripFails(s8.frame)
  <2>1. /\ statuses \subseteq Elements!Statuses \ {"kOk"}
        /\ "kStaleElementReference" \notin statuses /\ "kNoSuchElement" \notin statuses
    BY RoundTripsFail DEF Elements!Statuses, Elements!NavigationHints
  <2>2. Elements!FailCall(statuses)
    BY <1>4
  <2>. HIDE DEF statuses
  <2>. QED BY <1>2, <1>3, <2>1, <2>2, FailedCallKeeps
<1>5. CASE /\ s1[s8.frame] # 0
           /\ s8' = [s8 EXCEPT !.at = "resolve", !.loader = Elements!LoaderOf(s8.frame)]
  <2>1. s8.frame \in Elements!Frames /\ s8.frame = Elements!CallFrame /\ s8.status = "kOk"
    BY <1>1, <1>2 DEF Elements!CallIsOfCommand, Elements!CallIsRight, Elements!ElementsTyped,
       Elements!CallFrame, Elements!Frames
  <2>2. s1[s8.frame] \in Nat /\ s8 \in Elements!Calls
    BY <1>1, <2>1 DEF Elements!ElementsTyped
  <2>3. /\ s8' \in Elements!Calls /\ s8'.at = "resolve" /\ s8'.frame = s8.frame
        /\ s8'.loader = s1[s8.frame] /\ s8'.status = "kOk"
    BY <1>5, <2>1, <2>2 DEF Elements!Calls, Elements!LoaderOf
  <2>4. Elements!UsesElement' <=> Elements!UsesElement
    BY <1>3 DEF Elements!UsesElement
  <2>5. s8' # Elements!NoCall
    BY <2>3, NoCallIsACall
  <2>6. s6.at \in Elements!Points /\ Elements!Line(s6.at).what # "input"
    BY <1>1, <1>2 DEF Elements!CallIsOfCommand
  <2>7. s5 # Elements!NoNode /\ s5.frame = s8.frame
          => s5.loader <= s1[s8.frame]
    BY <1>1, <1>5 DEF Elements!NodesAreOfDocuments
  <2>8. Elements!CallFrame' = Elements!CallFrame
    BY <1>3 DEF Elements!CallFrame
  <2>9. Elements!CallIsOfCommand'
    BY <1>3, <2>1, <2>2, <2>3, <2>5, <2>6, <2>7, <2>8 DEF Elements!CallIsOfCommand
  <2>10. Elements!CallIsRight'
    BY <1>3, <2>3, <2>4 DEF Elements!CallIsRight
  <2>11. Elements!ActsOnceInv'
    <3>1. ~Elements!Acted
      BY <1>2 DEF Elements!Acted
    <3>2. Elements!CannotActAgain => Elements!CannotActAgain'
      BY <1>2, <1>3, <2>3, <2>4 DEF Elements!CannotActAgain, Elements!DocumentIsGone
    <3>. QED BY <1>1, <1>3, <3>1, <3>2 DEF Elements!ActsOnceInv
  <2>12. s9' \in Nat
    BY <1>1, <1>3 DEF Elements!ElementsTyped
  <2>. QED BY <1>3, <2>3, <2>9, <2>10, <2>11, <2>12, CallKeeps
<1>. QED BY <1>4, <1>5 DEF Elements!GetLoaderId

\* The call looks at the reference; one that it refuses is of an older document or has no node.
LEMMA ResolveKeeps ==
  ASSUME Elements!ElementsInv, Elements!ResolveElementReferenceInPlace
  PROVE  Elements!ElementsInv'
<1>1. Elements!ElementsTyped /\ Elements!NodesAreOfDocuments /\ Elements!CallIsOfCommand /\ Elements!CallIsRight /\ Elements!ActsOnceInv
  BY DEF Elements!ElementsInv
<1>2. s8.at = "resolve" /\ s8.status = "kOk"
  BY <1>1 DEF Elements!ResolveElementReferenceInPlace, Elements!CallIsRight
<1>3. /\ s1' = s1 /\ s2' = s2 /\ s4' = s4
      /\ s5' = s5 /\ s6' = s6 /\ s9' = s9
  BY DEF Elements!ResolveElementReferenceInPlace, Elements!CallStep
<1>4. /\ s6.at \in Elements!Points /\ Elements!Line(s6.at).what # "input"
      /\ s8.frame = Elements!CallFrame /\ Elements!CallFrame' = Elements!CallFrame
      /\ s8 \in Elements!Calls /\ s8.frame \in Elements!Frames
  BY <1>1, <1>2, <1>3 DEF Elements!CallIsOfCommand, Elements!CallFrame, Elements!ElementsTyped,
     Elements!Frames
<1>5. Elements!UsesElement' <=> Elements!UsesElement
  BY <1>3 DEF Elements!UsesElement
<1>6. ~Elements!Acted
  BY <1>2 DEF Elements!Acted
\* Found, or of another frame.
<1>7. ASSUME s8' \in Elements!Calls, s8'.at = "again", s8'.frame = s8.frame,
             s8'.loader = s8.loader, s8'.status \in {"kOk", "kNoSuchElement"},
             s8'.status = "kNoSuchElement" => Elements!UsesElement /\ s5.frame # s8.frame,
             s8'.status = "kOk" /\ Elements!UsesElement =>
               s5.frame = s8.frame /\ s5.loader = s8.loader
      PROVE  Elements!ElementsInv'
  <2>1. s8' # Elements!NoCall
    BY <1>7, NoCallIsACall
  <2>2. Elements!CallIsOfCommand'
    BY <1>1, <1>2, <1>3, <1>4, <1>7, <2>1 DEF Elements!CallIsOfCommand
  <2>3. Elements!CallIsRight'
    BY <1>3, <1>5, <1>7 DEF Elements!CallIsRight
  <2>4. Elements!CannotActAgain => Elements!CannotActAgain'
    BY <1>2, <1>3, <1>5, <1>7 DEF Elements!CannotActAgain, Elements!DocumentIsGone
  <2>5. Elements!ActsOnceInv'
    BY <1>1, <1>3, <1>6, <2>4 DEF Elements!ActsOnceInv
  <2>6. s9' \in Nat
    BY <1>1, <1>3 DEF Elements!ElementsTyped
  <2>. QED BY <1>3, <1>7, <2>2, <2>3, <2>5, <2>6, CallKeeps
\* Stale.
<1>8. ASSUME Elements!FailCall({"kStaleElementReference"}), Elements!UsesElement, s2 # s5
      PROVE  Elements!ElementsInv'
  <2>. DEFINE statuses == {"kStaleElementReference"}
  <2>1. statuses \subseteq Elements!Statuses \ {"kOk"} /\ "kNoSuchElement" \notin statuses
    BY DEF Elements!Statuses
  <2>2. Elements!FailCall(statuses)
    BY <1>8
  <2>. HIDE DEF statuses
  <2>. QED BY <1>2, <1>3, <1>8, <2>1, <2>2, FailedCallKeeps
<1>9. CASE ~Elements!UsesElement
  <2>1. s8' = [s8 EXCEPT !.at = "again"]
    BY <1>9 DEF Elements!ResolveElementReferenceInPlace
  <2>2. /\ s8' \in Elements!Calls /\ s8'.at = "again" /\ s8'.frame = s8.frame
        /\ s8'.loader = s8.loader /\ s8'.status = "kOk"
    BY <1>2, <1>4, <2>1 DEF Elements!Calls
  <2>. QED BY <1>7, <1>9, <2>2
<1>10. CASE Elements!UsesElement /\ s5.frame # s8.frame
  <2>1. s8' = [s8 EXCEPT !.at = "again", !.status = "kNoSuchElement"]
    BY <1>10 DEF Elements!ResolveElementReferenceInPlace
  <2>2. /\ s8' \in Elements!Calls /\ s8'.at = "again" /\ s8'.frame = s8.frame
        /\ s8'.loader = s8.loader /\ s8'.status = "kNoSuchElement"
    BY <1>4, <2>1 DEF Elements!Calls, Elements!Statuses
  <2>. QED BY <1>7, <1>10, <2>2
<1>11. CASE Elements!UsesElement /\ s5.frame = s8.frame
  <2>1. s5 # Elements!NoNode /\ s5.frame \in Elements!Frames /\ s5.loader \in Nat \ {0}
    BY <1>1, <1>4, <1>11, UsersHaveReferences, NodesAreRecords DEF Elements!ElementsTyped
  <2>2. CASE ~Elements!RefersToDocument(s5, s8)
    <3>1. Elements!FailCall({"kStaleElementReference"})
      BY <1>11, <2>2 DEF Elements!ResolveElementReferenceInPlace
    <3>2. s5.loader # s8.loader
      BY <2>2 DEF Elements!RefersToDocument
    <3>3. s5.loader <= s8.loader /\ s8.loader \in Nat
      BY <1>1, <1>2, <1>4, <1>11, <2>1 DEF Elements!CallIsOfCommand, Elements!Calls
    <3>4. s1[s8.frame] = 0 \/ s8.loader <= s1[s8.frame]
      BY <1>1, <1>2 DEF Elements!CallIsOfCommand
    <3>5. s1[s8.frame] \in Nat
      BY <1>1, <1>4 DEF Elements!ElementsTyped
    <3>6. s5.loader # s1[s5.frame]
      BY <1>11, <2>1, <3>2, <3>3, <3>4, <3>5
    <3>7. s2 # s5
      BY <1>1, <2>1, <3>6 DEF Elements!NodesAreOfDocuments
    <3>. QED BY <1>8, <1>11, <3>1, <3>7
  <2>3. CASE Elements!RefersToDocument(s5, s8) /\ s2 = Elements!NoNode
    <3>1. Elements!FailCall({"kStaleElementReference"})
      BY <1>11, <2>3 DEF Elements!ResolveElementReferenceInPlace
    <3>. QED BY <1>8, <1>11, <2>1, <2>3, <3>1
  <2>4. CASE Elements!RefersToDocument(s5, s8) /\ s2 # Elements!NoNode
    <3>1. s8' = [s8 EXCEPT !.at = "again", !.node = s2]
      BY <1>11, <2>4 DEF Elements!ResolveElementReferenceInPlace
    <3>2. s2 \in Elements!Nodes
      BY <1>1 DEF Elements!ElementsTyped
    <3>3. /\ s8' \in Elements!Calls /\ s8'.at = "again" /\ s8'.frame = s8.frame
          /\ s8'.loader = s8.loader /\ s8'.status = "kOk"
      BY <1>2, <1>4, <3>1, <3>2 DEF Elements!Calls
    <3>. QED BY <1>7, <1>11, <2>4, <3>3 DEF Elements!RefersToDocument
  <2>. QED BY <2>2, <2>3, <2>4
<1>. QED BY <1>9, <1>10, <1>11

\* The call asks for the document again.
LEMMA CompareLoadersKeeps ==
  ASSUME Elements!ElementsInv, Elements!CompareLoaders
  PROVE  Elements!ElementsInv'
<1>1. Elements!ElementsTyped /\ Elements!CallIsOfCommand /\ Elements!CallIsRight /\ Elements!ActsOnceInv
  BY DEF Elements!ElementsInv
<1>2. s8.at = "again" /\ s8.status \in {"kOk", "kNoSuchElement"}
  BY <1>1 DEF Elements!CompareLoaders, Elements!CallIsRight
<1>3. /\ s1' = s1 /\ s2' = s2 /\ s4' = s4
      /\ s5' = s5 /\ s6' = s6 /\ s9' = s9
  BY DEF Elements!CompareLoaders, Elements!CallStep
<1>4. ASSUME NEW statuses, Elements!FailCall(statuses),
             \/ statuses \subseteq Elements!NavigationHints
             \/ statuses = {s8.status} /\ s8.status # "kOk"
      PROVE  Elements!ElementsInv'
  <2>1. statuses \subseteq Elements!Statuses \ {"kOk"} /\ "kStaleElementReference" \notin statuses
    BY <1>2, <1>4 DEF Elements!Statuses, Elements!NavigationHints
  <2>2. ASSUME "kNoSuchElement" \in statuses
        PROVE  Elements!UsesElement /\ s5.frame # s4
    <3>1. s8.status = "kNoSuchElement"
      BY <1>2, <1>4, <2>2 DEF Elements!NavigationHints
    <3>2. Elements!UsesElement /\ s5.frame # s8.frame /\ s8.frame = Elements!CallFrame
      BY <1>1, <1>2, <3>1 DEF Elements!CallIsRight, Elements!CallIsOfCommand
    <3>. QED BY <3>2 DEF Elements!UsesElement, Elements!CallFrame
  <2>. QED BY <1>2, <1>3, <1>4, <2>1, <2>2, FailedCallKeeps
<1>5. CASE s8.status = "kOk" /\ s8' = [s8 EXCEPT !.at = "call"]
  <2>1. s8 \in Elements!Calls
    BY <1>1 DEF Elements!ElementsTyped
  <2>2. /\ s8' \in Elements!Calls /\ s8'.at = "call" /\ s8'.frame = s8.frame
        /\ s8'.loader = s8.loader /\ s8'.status = "kOk"
    BY <1>5, <2>1 DEF Elements!Calls
  <2>3. Elements!UsesElement' <=> Elements!UsesElement
    BY <1>3 DEF Elements!UsesElement
  <2>4. Elements!CallFrame' = Elements!CallFrame
    BY <1>3 DEF Elements!CallFrame
  <2>5. s8' # Elements!NoCall
    BY <2>2, NoCallIsACall
  <2>6. Elements!CallIsOfCommand'
    BY <1>1, <1>2, <1>3, <2>2, <2>4, <2>5 DEF Elements!CallIsOfCommand
  <2>7. Elements!CallIsRight'
    BY <1>1, <1>2, <1>3, <1>5, <2>2, <2>3 DEF Elements!CallIsRight
  <2>8. ~Elements!Acted /\ ~Elements!CannotActAgain
    BY <1>2, <1>5 DEF Elements!Acted, Elements!CannotActAgain
  <2>9. Elements!ActsOnceInv'
    BY <1>1, <1>3, <2>8 DEF Elements!ActsOnceInv
  <2>10. s9' \in Nat
    BY <1>1, <1>3 DEF Elements!ElementsTyped
  <2>. QED BY <1>3, <2>2, <2>6, <2>7, <2>9, <2>10, CallKeeps
<1>6. CASE Elements!FailCall(Elements!RoundTripFails(s8.frame))
  BY <1>4, <1>6, RoundTripsFail DEF Elements!NavigationHints
<1>7. CASE Elements!FailCall({"kAbortedByNavigation"})
  BY <1>4, <1>7 DEF Elements!NavigationHints
<1>8. CASE s8.status # "kOk" /\ Elements!FailCall({s8.status})
  BY <1>4, <1>8
<1>. QED BY <1>5, <1>6, <1>7, <1>8 DEF Elements!CompareLoaders

\* The function runs: at a point with an effect this is the first time.
LEMMA RunFunctionKeeps ==
  ASSUME Elements!ElementsInv, Elements!RunFunction
  PROVE  Elements!ElementsInv'
<1>1. Elements!ElementsTyped /\ Elements!CallIsOfCommand /\ Elements!CallIsRight /\ Elements!ActsOnceInv
  BY DEF Elements!ElementsInv
<1>2. s8.at = "call" /\ s8.status = "kOk" /\ s8 \in Elements!Calls
  BY <1>1 DEF Elements!RunFunction, Elements!CallIsRight, Elements!ElementsTyped
<1>3. /\ s1' = s1 /\ s2' = s2 /\ s4' = s4
      /\ s5' = s5 /\ s6' = s6
  BY DEF Elements!RunFunction
<1>4. s6.at \in Elements!Points
  BY <1>1, <1>2 DEF Elements!CallIsOfCommand
<1>5. CASE Elements!FailCall(Elements!NavigationHints) /\ UNCHANGED s9
  <2>. DEFINE statuses == Elements!NavigationHints
  <2>1. /\ statuses \subseteq Elements!Statuses \ {"kOk"}
        /\ "kStaleElementReference" \notin statuses /\ "kNoSuchElement" \notin statuses
    BY DEF Elements!Statuses, Elements!NavigationHints
  <2>2. Elements!FailCall(statuses)
    BY <1>5
  <2>. HIDE DEF statuses
  <2>. QED BY <1>2, <1>3, <1>5, <2>1, <2>2, FailedCallKeeps
<1>6. CASE Elements!Refused(s8) /\ Elements!FailCall({"kStaleElementReference"}) /\ UNCHANGED s9
  <2>. DEFINE statuses == {"kStaleElementReference"}
  <2>1. statuses \subseteq Elements!Statuses \ {"kOk"} /\ "kNoSuchElement" \notin statuses
    BY DEF Elements!Statuses
  <2>2. Elements!FailCall(statuses)
    BY <1>6
  <2>3. Elements!UsesElement /\ ~s2.attached
    BY <1>6 DEF Elements!Refused
  <2>4. s5.attached
    BY <1>1, <1>4, <2>3, UsersHaveReferences DEF Elements!ElementsTyped
  <2>5. s2 # s5
    BY <2>3, <2>4
  <2>. HIDE DEF statuses
  <2>. QED BY <1>2, <1>3, <1>6, <2>1, <2>2, <2>3, <2>5, FailedCallKeeps
<1>7. CASE /\ s9' = IF Elements!Line(s6.at).what = "effect" THEN s9 + 1 ELSE s9
           /\ s8' = [s8 EXCEPT !.at = "answer"]
  <2>1. /\ s8' \in Elements!Calls /\ s8'.at = "answer" /\ s8'.frame = s8.frame
        /\ s8'.loader = s8.loader /\ s8'.status = "kOk"
    BY <1>2, <1>7 DEF Elements!Calls
  <2>2. Elements!UsesElement' <=> Elements!UsesElement
    BY <1>3 DEF Elements!UsesElement
  <2>3. Elements!CallFrame' = Elements!CallFrame
    BY <1>3 DEF Elements!CallFrame
  <2>4. s8' # Elements!NoCall
    BY <2>1, NoCallIsACall
  <2>5. Elements!CallIsOfCommand'
    BY <1>1, <1>2, <1>3, <2>1, <2>3, <2>4 DEF Elements!CallIsOfCommand
  <2>6. Elements!CallIsRight'
    BY <1>1, <1>2, <1>3, <2>1, <2>2 DEF Elements!CallIsRight
  <2>7. ~Elements!Acted /\ ~Elements!CannotActAgain
    BY <1>2 DEF Elements!Acted, Elements!CannotActAgain
  <2>8. s6.at # "done"
    BY <1>4, PointsAreNoOutcomes
  <2>9. ~s6.timedOut /\ ~s6.repeated => s9 = 0
    BY <1>1, <2>7, <2>8 DEF Elements!ActsOnceInv
  <2>10. Elements!Line(s6.at).what = "effect" => Elements!Acted'
    BY <1>3, <1>4, <2>1 DEF Elements!Acted
  <2>11. Elements!ActsOnceInv'
    BY <1>3, <1>7, <2>9, <2>10 DEF Elements!ActsOnceInv
  <2>12. s9' \in Nat
    BY <1>1, <1>7 DEF Elements!ElementsTyped
  <2>. QED BY <1>3, <2>1, <2>5, <2>6, <2>11, <2>12, CallKeeps
<1>. QED BY <1>5, <1>6, <1>7 DEF Elements!RunFunction

\* The answer arrives, or is lost with the document of the reference.
LEMMA FunctionReturnsKeeps ==
  ASSUME Elements!ElementsInv, Elements!FunctionReturns
  PROVE  Elements!ElementsInv'
<1>1. Elements!ElementsTyped /\ Elements!CallIsOfCommand /\ Elements!CallIsRight /\ Elements!ActsOnceInv
  BY DEF Elements!ElementsInv
<1>2. s8.at = "answer" /\ s8.status = "kOk" /\ s8 \in Elements!Calls
  BY <1>1 DEF Elements!FunctionReturns, Elements!CallIsRight, Elements!ElementsTyped
<1>3. /\ s1' = s1 /\ s2' = s2 /\ s4' = s4
      /\ s5' = s5 /\ s6' = s6 /\ s9' = s9
  BY DEF Elements!FunctionReturns, Elements!CallStep
<1>4. PICK s \in {"kOk", "kTimeout", "kAbortedByNavigation", "kTargetDetached"} :
        /\ s8' = [s8 EXCEPT !.at = "returned", !.status = s]
        /\ s \in {"kOk", "kTimeout"} <=> Elements!RunsIn(s8)
  BY DEF Elements!FunctionReturns, Elements!FailCall
<1>5. s8' \in Elements!Calls /\ s8'.at = "returned" /\ s8'.status = s /\ s \in Elements!Statuses
  BY <1>2, <1>4 DEF Elements!Calls, Elements!Statuses, Elements!NavigationHints
<1>6. s6.at \in Elements!Points /\ Elements!Line(s6.at).what # "input"
  BY <1>1, <1>2 DEF Elements!CallIsOfCommand
<1>7. s8' # Elements!NoCall
  BY <1>5, NoCallIsACall
<1>8. Elements!CallIsOfCommand'
  BY <1>3, <1>5, <1>6, <1>7 DEF Elements!CallIsOfCommand
<1>9. Elements!CallIsRight'
  BY <1>3, <1>4, <1>5 DEF Elements!CallIsRight
<1>10. ~Elements!CannotActAgain
  BY <1>2 DEF Elements!CannotActAgain
<1>11. Elements!Acted => Elements!Acted' \/ Elements!CannotActAgain'
  <2>1. CASE s \in {"kOk", "kTimeout"}
    BY <1>3, <1>5, <2>1 DEF Elements!Acted
  <2>2. CASE s \notin {"kOk", "kTimeout"} /\ Elements!Acted
    <3>1. Elements!UsesElement /\ Elements!Line(s6.at).what = "effect"
      BY <2>2 DEF Elements!Acted, Elements!UsesElement
    <3>2. s5 # Elements!NoNode
      BY <1>6, <3>1, UsersHaveReferences
    <3>3. s5.frame = s8.frame /\ s5.loader = s8.loader
      BY <1>1, <1>2, <3>1 DEF Elements!CallIsRight
    <3>4. s1[s8.frame] # s8.loader
      BY <1>4, <2>2 DEF Elements!RunsIn
    <3>5. Elements!DocumentIsGone'
      BY <1>3, <3>2, <3>3, <3>4 DEF Elements!DocumentIsGone
    <3>. QED BY <1>3, <1>4, <1>5, <1>6, <2>2, <3>1, <3>5 DEF Elements!CannotActAgain
  <2>. QED BY <2>1, <2>2
<1>12. Elements!ActsOnceInv'
  BY <1>1, <1>3, <1>10, <1>11 DEF Elements!ActsOnceInv
<1>13. s9' \in Nat
  BY <1>1, <1>3 DEF Elements!ElementsTyped
<1>. QED BY <1>3, <1>5, <1>8, <1>9, <1>12, <1>13, CallKeeps

-----------------------------------------------------------------------------
(* Commands.                                                                *)

\* A record with the fields of a command is one.
LEMMA RecordsAreCommands ==
  ASSUME NEW k, NEW a, NEW p, NEW n \in 0..2, NEW t \in BOOLEAN, NEW r \in BOOLEAN, NEW s
  PROVE  Elements!IsCommand([kind |-> k, at |-> a, pass |-> p, attempt |-> n, timedOut |-> t, repeated |-> r,
                             status |-> s])
BY DEF Elements!IsCommand

\* A command begins.
LEMMA NewElementCommandKeeps ==
  ASSUME Elements!ElementsInv, Elements!NewElementCommand
  PROVE  Elements!ElementsInv'
<1>1. Elements!ElementsTyped /\ Elements!NodesAreOfDocuments /\ Elements!CallIsOfCommand /\ Elements!CallIsRight
  BY DEF Elements!ElementsInv
<1>2. /\ s1' = s1 /\ s2' = s2 /\ s4' = s4
      /\ s5' = s5 /\ s8' = s8 /\ s9' = 0
  BY DEF Elements!NewElementCommand
<1>3. PICK kind \in Elements!Kinds :
        /\ s5 = Elements!NoNode => kind \in {"find", "frame"}
        /\ s6' = [Elements!NoCommand EXCEPT !.kind = kind, !.at = Elements!Start(kind)]
  BY DEF Elements!NewElementCommand
<1>4. s6'.kind = kind /\ s6'.at = Elements!Start(kind)
  BY <1>3 DEF Elements!NoCommand
<1>5. Elements!IsCommand(s6')
  <2>. DEFINE no == FALSE
  <2>1. s6' = [kind |-> kind, at |-> Elements!Start(kind), pass |-> 1, attempt |-> 0,
               timedOut |-> no, repeated |-> no, status |-> "kOk"]
    BY <1>3 DEF Elements!NoCommand
  <2>2. no \in BOOLEAN /\ 0 \in 0..2
    OBVIOUS
  <2>. HIDE DEF no
  <2>. QED BY <2>1, <2>2, RecordsAreCommands
<1>6. s8 = Elements!NoCall /\ s8.at = "none"
  <2>1. s6.at = "done"
    BY DEF Elements!NewElementCommand
  <2>. QED BY <1>1, <2>1, PointsAreNoOutcomes DEF Elements!CallIsOfCommand,
              Elements!ElementsTyped, Elements!Calls
<1>7. Elements!Start(kind) \in Elements!PointsOf(kind) /\ Elements!Start(kind) # "done"
  BY PointsOfCommands, PointsAreNoOutcomes
<1>8. Elements!ElementsTyped'
  BY <1>1, <1>2, <1>5 DEF Elements!ElementsTyped
<1>9. Elements!CommandIsKnown'
  BY <1>2, <1>3, <1>4, <1>7 DEF Elements!CommandIsKnown
<1>10. Elements!NodesAreOfDocuments'
  BY <1>1, <1>2 DEF Elements!NodesAreOfDocuments
<1>11. Elements!CallIsOfCommand' /\ Elements!CallIsRight'
  BY <1>2, <1>6 DEF Elements!CallIsOfCommand, Elements!CallIsRight
<1>12. Elements!BlameIsRight'
  BY <1>4, <1>7 DEF Elements!BlameIsRight, Elements!StaleIsTrue
<1>13. Elements!ActsOnceInv'
  BY <1>2 DEF Elements!ActsOnceInv
<1>. QED BY <1>8, <1>9, <1>10, <1>11, <1>12, <1>13 DEF Elements!ElementsInv

\* A command that ends is tried again from its start, or is done.
LEMMA EndsDoes ==
  ASSUME Elements!IsCommand(s6), s4 \in Elements!Frames, s9' \in Nat, NEW status, Elements!Ends(status)
  PROVE  /\ Elements!IsCommand(s6') /\ s4' \in Elements!Frames
         /\ s6'.kind = s6.kind
         /\ ~s6'.timedOut => ~s6.timedOut
         /\ ~s6'.repeated => ~s6.repeated
         /\ \/ /\ status # "kOk" /\ s6'.at = Elements!Start(s6.kind)
               /\ status = "kTimeout" => s6'.timedOut
               /\ status \notin Elements!NavigationHints \cup {"kTimeout"} /\ s9' # 0
                    => s6'.repeated
            \/ /\ s6'.at = "done" /\ s4' = s4
               /\ s6'.status = IF status \in Elements!NavigationHints THEN "kTimeout" ELSE status
            \/ s6'.at = "done" /\ s6'.status \in {"kTimeout", "kUnknownError"}
<1>. DEFINE hint == status \in Elements!NavigationHints \cup {"kTimeout"}
            late == s6.timedOut \/ status = "kTimeout"
            again == s6.repeated \/ (~hint /\ s9' > 0)
            result == IF status \in Elements!NavigationHints THEN "kTimeout" ELSE status
<1>1. late \in BOOLEAN /\ again \in BOOLEAN
  OBVIOUS
<1>2. CASE /\ s6.attempt < 2 /\ status \notin {"kOk", "kTargetDetached"}
           /\ s6' = [s6 EXCEPT !.at = Elements!Start(s6.kind), !.pass = 1,
                                  !.attempt = @ + 1, !.timedOut = late, !.repeated = again]
           /\ s4' \in Elements!Frames
  <2>1. late <=> s6'.timedOut
    BY <1>2 DEF Elements!IsCommand
  <2>2. again <=> s6'.repeated
    BY <1>2 DEF Elements!IsCommand
  <2>3. /\ ~s6'.timedOut => ~s6.timedOut
        /\ ~s6'.repeated => ~s6.repeated
        /\ status = "kTimeout" => s6'.timedOut
    BY <2>1, <2>2
  <2>4. ~hint /\ s9' # 0 => s6'.repeated
    BY <2>2
  <2>. HIDE DEF late, again
  <2>5. /\ s6'.kind = s6.kind
        /\ s6'.at = Elements!Start(s6.kind)
    BY <1>2 DEF Elements!IsCommand
  <2>6. Elements!IsCommand(s6')
    <3>1. s6' = [kind |-> s6.kind, at |-> Elements!Start(s6.kind),
                 pass |-> 1, attempt |-> s6.attempt + 1, timedOut |-> late,
                 repeated |-> again, status |-> s6.status]
      BY <1>2 DEF Elements!IsCommand
    <3>2. s6.attempt + 1 \in 0..2
      BY <1>2 DEF Elements!IsCommand
    <3>. QED BY <1>1, <3>1, <3>2, RecordsAreCommands
  <2>. QED BY <1>2, <2>3, <2>4, <2>5, <2>6
<1>3. ASSUME NEW s, s6' = [s6 EXCEPT !.at = "done", !.status = s]
      PROVE  /\ Elements!IsCommand(s6') /\ s6'.kind = s6.kind
             /\ ~s6'.timedOut => ~s6.timedOut
             /\ ~s6'.repeated => ~s6.repeated
             /\ s6'.at = "done" /\ s6'.status = s
  <2>1. s6'.timedOut = s6.timedOut
    BY <1>3 DEF Elements!IsCommand
  <2>2. s6'.repeated = s6.repeated
    BY <1>3 DEF Elements!IsCommand
  <2>3. s6'.kind = s6.kind /\ s6'.at = "done"
    BY <1>3 DEF Elements!IsCommand
  <2>4. s6'.status = s
    BY <1>3 DEF Elements!IsCommand
  <2>5. Elements!IsCommand(s6')
    BY <1>3 DEF Elements!IsCommand
  <2>. QED BY <2>1, <2>2, <2>3, <2>4, <2>5
<1>4. CASE /\ s6' = [s6 EXCEPT !.at = "done", !.status = result]
           /\ s4' = s4
  BY <1>3, <1>4
<1>5. CASE /\ \E s \in {"kTimeout", "kUnknownError"} :
                s6' = [s6 EXCEPT !.at = "done", !.status = s]
           /\ s4' \in Elements!Frames
  BY <1>3, <1>5
<1>. QED BY <1>2, <1>4, <1>5 DEF Elements!Ends, Elements!Frames

\* What a command that is not in a call keeps.
LEMMA CommandKeeps ==
  ASSUME Elements!ElementsInv, s8' = Elements!NoCall, s9' \in Nat,
         UNCHANGED <<s1, s2, s5>>, s4' \in Elements!Frames,
         Elements!IsCommand(s6'), Elements!CommandIsKnown', Elements!BlameIsRight', Elements!ActsOnceInv'
  PROVE  Elements!ElementsInv'
<1>1. Elements!ElementsTyped /\ Elements!NodesAreOfDocuments
  BY DEF Elements!ElementsInv
<1>2. s1' = s1 /\ s2' = s2 /\ s5' = s5
  OBVIOUS
<1>3. Elements!ElementsTyped'
  BY <1>1, <1>2, NoCallIsACall DEF Elements!ElementsTyped
<1>4. Elements!NodesAreOfDocuments'
  BY <1>1, <1>2 DEF Elements!NodesAreOfDocuments
<1>5. Elements!CallIsOfCommand' /\ Elements!CallIsRight'
  BY NoCallIsACall DEF Elements!CallIsOfCommand, Elements!CallIsRight
<1>. QED BY <1>3, <1>4, <1>5 DEF Elements!ElementsInv

\* A command that ends keeps the invariant if what it blames is to blame, and if it cannot act again
\* when it is tried again.
LEMMA EndsKeeps ==
  ASSUME Elements!ElementsInv, s8' = Elements!NoCall, UNCHANGED <<s1, s2, s5>>,
         s6.at # "done", s9' \in Nat, NEW status, Elements!Ends(status),
         status = "kStaleElementReference" => s5 # Elements!NoNode /\ s2 # s5,
         status = "kNoSuchElement" => \/ s6.kind \in {"find", "findChild", "label", "keys"}
                                      \/ s5.frame # s4,
         ~s6.timedOut /\ ~s6.repeated =>
           /\ s9' <= 1
           /\ \/ s9' = 0 \/ status \notin Elements!NavigationHints
              \/ /\ Elements!DocumentIsGone /\ Elements!Start(s6.kind) \in Elements!Points
                 /\ Elements!Line(Elements!Start(s6.kind)).what \in {"script", "effect"}
  PROVE  Elements!ElementsInv'
<1>1. Elements!ElementsTyped /\ Elements!CommandIsKnown /\ Elements!ActsOnceInv
  BY DEF Elements!ElementsInv
<1>2. Elements!IsCommand(s6) /\ s4 \in Elements!Frames /\ s6.kind \in Elements!Kinds
  BY <1>1 DEF Elements!ElementsTyped, Elements!CommandIsKnown
<1>3. /\ Elements!IsCommand(s6') /\ s4' \in Elements!Frames
      /\ s6'.kind = s6.kind
      /\ ~s6'.timedOut => ~s6.timedOut
      /\ ~s6'.repeated => ~s6.repeated
      /\ \/ /\ status # "kOk" /\ s6'.at = Elements!Start(s6.kind)
            /\ status = "kTimeout" => s6'.timedOut
            /\ status \notin Elements!NavigationHints \cup {"kTimeout"} /\ s9' # 0
                 => s6'.repeated
         \/ /\ s6'.at = "done" /\ s4' = s4
            /\ s6'.status = IF status \in Elements!NavigationHints THEN "kTimeout" ELSE status
         \/ s6'.at = "done" /\ s6'.status \in {"kTimeout", "kUnknownError"}
  BY <1>2, EndsDoes
<1>4. Elements!Start(s6.kind) \in Elements!PointsOf(s6.kind) /\ Elements!Start(s6.kind) # "done"
  BY <1>2, PointsOfCommands, PointsAreNoOutcomes
<1>5. Elements!CommandIsKnown'
  BY <1>1, <1>2, <1>3, <1>4 DEF Elements!CommandIsKnown
<1>6. Elements!BlameIsRight'
  BY <1>3, <1>4 DEF Elements!BlameIsRight, Elements!StaleIsTrue
<1>7. Elements!ActsOnceInv'
  <2>1. SUFFICES ASSUME ~s6'.timedOut, ~s6'.repeated
                 PROVE  /\ s9' <= 1
                        /\ s6'.at # "done" => s9' = 0 \/ Elements!CannotActAgain'
    BY DEF Elements!ActsOnceInv
  <2>2. ~s6.timedOut /\ ~s6.repeated
    BY <1>3, <2>1
  <2>3. CASE s6'.at = "done"
    BY <2>2, <2>3
  <2>4. CASE s6'.at # "done" /\ s9' # 0
    <3>1. status \in Elements!NavigationHints /\ s6'.at = Elements!Start(s6.kind)
      BY <1>3, <2>1, <2>4
    <3>2. /\ Elements!DocumentIsGone /\ Elements!Start(s6.kind) \in Elements!Points
          /\ Elements!Line(Elements!Start(s6.kind)).what \in {"script", "effect"}
      BY <2>2, <2>4, <3>1
    <3>3. Elements!CannotActAgain'
      BY <1>3, <3>1, <3>2, NoCallIsACall DEF Elements!CannotActAgain, Elements!DocumentIsGone,
         Elements!UsesElement
    <3>. QED BY <2>2, <3>3
  <2>. QED BY <2>2, <2>3, <2>4
<1>. QED BY <1>3, <1>5, <1>6, <1>7, CommandKeeps

\* A command that goes on to another of its points.
LEMMA CommandGoesOn ==
  ASSUME Elements!ElementsInv, s8' = Elements!NoCall, UNCHANGED <<s1, s2, s5, s4, s9>>,
         s6.at # "done", ~s6.timedOut /\ ~s6.repeated => s9 = 0,
         NEW at \in Elements!PointsOf(s6.kind), NEW pass,
         s6' = [s6 EXCEPT !.at = at, !.pass = pass]
  PROVE  Elements!ElementsInv'
<1>1. Elements!ElementsTyped /\ Elements!CommandIsKnown
  BY DEF Elements!ElementsInv
<1>2. /\ Elements!IsCommand(s6) /\ s4 \in Elements!Frames /\ s6.kind \in Elements!Kinds
      /\ s9 \in Nat
  BY <1>1 DEF Elements!ElementsTyped, Elements!CommandIsKnown
<1>3. s6'.kind = s6.kind /\ s6'.at = at
  BY <1>2 DEF Elements!IsCommand
<1>4. s6'.timedOut = s6.timedOut
  BY <1>2 DEF Elements!IsCommand
<1>41. s6'.repeated = s6.repeated
  BY <1>2 DEF Elements!IsCommand
<1>5. Elements!IsCommand(s6')
  <2>. DEFINE late == s6.timedOut
              again == s6.repeated
  <2>1. s6' = [kind |-> s6.kind, at |-> at, pass |-> pass,
               attempt |-> s6.attempt, timedOut |-> late,
               repeated |-> again, status |-> s6.status]
    BY <1>2 DEF Elements!IsCommand
  <2>2. s6.attempt \in 0..2 /\ late \in BOOLEAN /\ again \in BOOLEAN
    BY <1>2 DEF Elements!IsCommand
  <2>. HIDE DEF late, again
  <2>3. Elements!IsCommand([kind |-> s6.kind, at |-> at, pass |-> pass,
                            attempt |-> s6.attempt, timedOut |-> late,
                            repeated |-> again, status |-> s6.status])
    BY ONLY <2>2, RecordsAreCommands
  <2>. QED BY ONLY <2>1, <2>3
<1>6. at # "done"
  BY <1>2, PointsOfCommands, PointsAreNoOutcomes
<1>7. Elements!CommandIsKnown'
  BY <1>1, <1>2, <1>3 DEF Elements!CommandIsKnown
<1>8. Elements!BlameIsRight'
  BY <1>3, <1>6 DEF Elements!BlameIsRight, Elements!StaleIsTrue
<1>9. Elements!ActsOnceInv'
  BY <1>4, <1>41 DEF Elements!ActsOnceInv
<1>. QED BY <1>2, <1>5, <1>7, <1>8, <1>9, CommandKeeps

\* A command that has come back from a call.
LEMMA Returned ==
  ASSUME Elements!ElementsInv, s8.at = "returned"
  PROVE  /\ s6.at \in Elements!Points /\ s6.at # "done"
         /\ s6.kind \in Elements!Kinds /\ s6.at \in Elements!PointsOf(s6.kind)
         /\ Elements!IsCommand(s6) /\ s4 \in Elements!Frames /\ s9 \in Nat
<1>1. s6.at \in Elements!Points
  BY DEF Elements!ElementsInv, Elements!CallIsOfCommand
<1>2. s6.at # "done"
  BY <1>1, PointsAreNoOutcomes
<1>. QED BY <1>1, <1>2 DEF Elements!ElementsInv, Elements!CommandIsKnown, Elements!ElementsTyped

\* A command goes on or ends after a step that succeeded.
LEMMA StepSucceedsKeeps ==
  ASSUME Elements!ElementsInv, Elements!StepSucceeds
  PROVE  Elements!ElementsInv'
<1>1. Elements!ElementsTyped /\ Elements!NodesAreOfDocuments /\ Elements!ActsOnceInv
  BY DEF Elements!ElementsInv
<1>2. s8.at = "returned" /\ s8.status = "kOk" /\ s8' = Elements!NoCall
  BY DEF Elements!StepSucceeds
<1>3. /\ s6.at \in Elements!Points /\ s6.at # "done"
      /\ s6.kind \in Elements!Kinds /\ s6.at \in Elements!PointsOf(s6.kind)
      /\ Elements!IsCommand(s6) /\ s4 \in Elements!Frames /\ s9 \in Nat
  BY <1>2, Returned
<1>4. ~Elements!CannotActAgain
  BY <1>2 DEF Elements!CannotActAgain
<1>5. ~s6.timedOut /\ ~s6.repeated =>
        s9 <= 1 /\ (s9 = 0 \/ Elements!Line(s6.at).what = "effect")
  BY <1>1, <1>3, <1>4 DEF Elements!ActsOnceInv, Elements!Acted
<1>6. PICK next \in Elements!Line(s6.at).next :
       CASE next = "found" ->
              /\ s1[s4] # 0
              /\ UNCHANGED <<s1, s3, s7, s9>> /\ Elements!Ends("kOk")
              /\ LET new == [frame |-> s4, loader |-> s1[s4],
                             attached |-> TRUE]
                 IN IF s6'.status = "kOk" THEN s2' = new /\ s5' = new
                    ELSE UNCHANGED <<s2, s5>>
         [] next = "switched" ->
              /\ s6' = [s6 EXCEPT !.at = "done", !.status = "kOk"]
              /\ s4' = "sub" /\ s1["sub"] # 0
              /\ UNCHANGED <<s1, s2, s5, s3, s7, s9>>
         [] next = "located" ->
              /\ UNCHANGED <<s1, s2, s5, s3, s7, s9>>
              /\ \E at \in Elements!Located :
                   IF at \in Elements!NavigationHints THEN Elements!Ends(at)
                   ELSE /\ s6' = [s6 EXCEPT !.at = at, !.pass = 2]
                        /\ UNCHANGED s4
         [] next \in Elements!Points \cup {"backend"} ->
              /\ s6' = [s6 EXCEPT !.at = next]
              /\ UNCHANGED <<s1, s2, s4, s5, s3,
                             s7, s9>>
         [] OTHER -> /\ UNCHANGED <<s1, s2, s5, s3, s7,
                                    s9>>
                     /\ Elements!Ends(next)
  BY DEF Elements!StepSucceeds
<1>7. LineIsSound(s6.at)
  BY <1>3, LinesAreSound
<1>. next \in {"found", "switched", "located"} => next \notin Elements!Points \cup {"backend"}
  BY PointsAreNoOutcomes DEF Outcomes
<1>8. ~s6.timedOut /\ ~s6.repeated =>
        s9 <= 1 /\ (s9 = 0 \/ next \in {"kOk", "kJavaScriptError"})
  BY <1>5, <1>7 DEF LineIsSound
<1>9. CASE next = "found"
  <2>. DEFINE yes == TRUE
  <2>. DEFINE new == [frame |-> s4, loader |-> s1[s4], attached |-> yes]
  <2>1. /\ s1[s4] # 0 /\ Elements!Ends("kOk") /\ s1' = s1 /\ s9' = s9
        /\ \/ s6'.status = "kOk" /\ s2' = new /\ s5' = new
           \/ s6'.status # "kOk" /\ s2' = s2 /\ s5' = s5
    BY <1>6, <1>9
  <2>2. s1[s4] \in Nat \ {0}
    BY <1>1, <1>3, <2>1 DEF Elements!ElementsTyped
  <2>3. new.attached
    OBVIOUS
  <2>4. yes \in BOOLEAN
    OBVIOUS
  <2>. HIDE DEF yes
  <2>5. new \in Elements!Nodes /\ new.frame = s4 /\ new.loader = s1[s4]
    BY <1>3, <2>2, <2>4 DEF Elements!Nodes
  <2>. HIDE DEF new
  <2>6. /\ Elements!IsCommand(s6') /\ s4' \in Elements!Frames
        /\ ~s6'.timedOut => ~s6.timedOut
        /\ ~s6'.repeated => ~s6.repeated
        /\ s6'.at = "done" /\ s6'.status \in {"kOk", "kTimeout", "kUnknownError"}
    BY <1>3, <2>1, EndsDoes DEF Elements!NavigationHints
  <2>7. Elements!ElementsTyped'
    <3>1. /\ s2' \in Elements!Nodes /\ s5' \in Elements!Nodes
          /\ s5' # Elements!NoNode => s5'.attached
      BY <1>1, <2>1, <2>3, <2>5 DEF Elements!ElementsTyped
    <3>. QED BY <1>1, <1>2, <1>3, <2>1, <2>6, <3>1, NoCallIsACall DEF Elements!ElementsTyped
  <2>8. Elements!CommandIsKnown'
    BY <2>6 DEF Elements!CommandIsKnown
  <2>9. Elements!NodesAreOfDocuments'
    BY <1>1, <2>1, <2>2, <2>5 DEF Elements!NodesAreOfDocuments
  <2>10. Elements!CallIsOfCommand' /\ Elements!CallIsRight'
    BY <1>2, NoCallIsACall DEF Elements!CallIsOfCommand, Elements!CallIsRight
  <2>11. Elements!BlameIsRight'
    BY <2>6 DEF Elements!BlameIsRight, Elements!StaleIsTrue
  <2>12. Elements!ActsOnceInv'
    BY <1>8, <2>1, <2>6 DEF Elements!ActsOnceInv
  <2>. QED BY <2>7, <2>8, <2>9, <2>10, <2>11, <2>12 DEF Elements!ElementsInv
<1>10. CASE next = "switched"
  <2>1. /\ s6' = [s6 EXCEPT !.at = "done", !.status = "kOk"]
        /\ s4' = "sub" /\ s9' = s9
        /\ UNCHANGED <<s1, s2, s5>>
    BY <1>6, <1>10
  <2>2. s6'.at = "done" /\ s6'.status = "kOk"
    BY <1>3, <2>1 DEF Elements!IsCommand
  <2>3. s6'.timedOut = s6.timedOut
    BY <1>3, <2>1 DEF Elements!IsCommand
  <2>31. s6'.repeated = s6.repeated
    BY <1>3, <2>1 DEF Elements!IsCommand
  <2>4. Elements!IsCommand(s6')
    BY <1>3, <2>1 DEF Elements!IsCommand
  <2>5. s4' \in Elements!Frames
    BY <2>1 DEF Elements!Frames
  <2>6. Elements!CommandIsKnown'
    BY <2>2 DEF Elements!CommandIsKnown
  <2>7. Elements!BlameIsRight'
    BY <2>2 DEF Elements!BlameIsRight, Elements!StaleIsTrue
  <2>8. Elements!ActsOnceInv'
    BY <1>8, <2>1, <2>2, <2>3, <2>31 DEF Elements!ActsOnceInv
  <2>. QED BY <1>2, <1>3, <2>1, <2>4, <2>5, <2>6, <2>7, <2>8, CommandKeeps
<1>11. CASE next = "located"
  <2>1. PICK at \in Elements!Located :
          IF at \in Elements!NavigationHints THEN Elements!Ends(at)
          ELSE /\ s6' = [s6 EXCEPT !.at = at, !.pass = 2]
               /\ UNCHANGED s4
    BY <1>6, <1>11
  <2>2. UNCHANGED <<s1, s2, s5, s9>>
    BY <1>6, <1>11
  <2>3. ~s6.timedOut /\ ~s6.repeated => s9 = 0
    BY <1>8, <1>11
  <2>4. s6.kind \in {"click", "touch"}
    <3>1. "frames" \in Elements!PointsOf(s6.kind)
      BY <1>3, <1>7, <1>11 DEF LineIsSound
    <3>. QED BY <1>3, <3>1, DomainsOfFunctions DEF Elements!PointsOf, Elements!Kinds
  <2>5. at = "kAbortedByNavigation" \/ at \in Elements!PointsOf(s6.kind)
    BY <2>4, DomainsOfFunctions DEF Elements!Located, Elements!PointsOf
  <2>6. CASE at \in Elements!NavigationHints
    <3>1. Elements!Ends(at) /\ s9' = s9
      BY <2>1, <2>2, <2>6
    <3>2. at # "kStaleElementReference" /\ at # "kNoSuchElement" /\ at # "kTimeout"
      BY <2>6 DEF Elements!NavigationHints
    <3>. QED BY <1>2, <1>3, <2>2, <2>3, <3>1, <3>2, EndsKeeps
  <2>7. CASE at \notin Elements!NavigationHints
    <3>1. s6' = [s6 EXCEPT !.at = at, !.pass = 2] /\ s4' = s4
      BY <2>1, <2>7
    <3>2. at \in Elements!PointsOf(s6.kind)
      BY <2>5, <2>7 DEF Elements!NavigationHints
    <3>. QED BY <1>2, <1>3, <2>2, <2>3, <3>1, <3>2, CommandGoesOn
  <2>. QED BY <2>6, <2>7
<1>12. CASE next \in Elements!Points \cup {"backend"}
  <2>1. next \notin {"found", "switched", "located", "kOk", "kJavaScriptError"}
    BY <1>12, PointsAreNoOutcomes DEF Outcomes
  <2>2. /\ s6' = [s6 EXCEPT !.at = next]
        /\ UNCHANGED <<s1, s2, s4, s5, s9>>
    BY <1>6, <1>12, <2>1
  <2>3. ~s6.timedOut /\ ~s6.repeated => s9 = 0
    BY <1>8, <2>1
  <2>4. next \in Elements!PointsOf(s6.kind)
    <3>1. next \notin Outcomes
      BY <1>12, PointsAreNoOutcomes DEF Outcomes
    <3>. QED BY <1>3, <3>1, CommandsKeepTheirPoints
  <2>5. s6' = [s6 EXCEPT !.at = next, !.pass = s6.pass]
    BY <1>3, <2>2 DEF Elements!IsCommand
  <2>. QED BY <1>2, <1>3, <2>2, <2>3, <2>4, <2>5, CommandGoesOn
<1>13. CASE next \notin {"found", "switched", "located", "backend"} /\ next \notin Elements!Points
  <2>1. Elements!Ends(next) /\ UNCHANGED <<s1, s2, s5, s9>>
    BY <1>6, <1>13
  <2>2. /\ next \notin Elements!NavigationHints /\ next # "kTimeout" /\ next # "kStaleElementReference"
        /\ next = "kNoSuchElement" => s6.at \in {"find", "findChild"}
    BY <1>7 DEF LineIsSound
  <2>3. next = "kNoSuchElement" => s6.kind \in {"find", "findChild"}
    BY <1>3, <2>2, ActsOnElements, DomainsOfFunctions
  <2>4. s9' = s9
    BY <2>1
  <2>5. /\ ~s6.timedOut /\ ~s6.repeated => s9' <= 1
        /\ s9' \in Nat
    BY <1>3, <1>8, <2>4
  <2>. QED BY <1>2, <1>3, <2>1, <2>2, <2>3, <2>5, EndsKeeps
<1>. QED BY <1>9, <1>10, <1>11, <1>12, <1>13

\* What a failed step comes to.
LEMMA WrapIs ==
  ASSUME NEW command, NEW status
  PROVE  \/ Elements!Wrap(command, status) = status
         \/ Elements!Wrap(command, status) \in
              {"kOk", "kAbortedByNavigation", "kScriptTimeout", "kElementNotInteractable"}
BY DEF Elements!Wrap

\* A timeout is not turned into a navigation.
LEMMA TimeoutsAreNoHints ==
  ASSUME NEW command
  PROVE  Elements!Wrap(command, "kTimeout") \notin Elements!NavigationHints
BY DEF Elements!Wrap, Elements!NavigationHints

\* A failed step of a command that has had its effect was not answered in time, or begins again at
\* a script on the element.
LEMMA ActedBeginsAgain ==
  ASSUME Elements!ElementsInv, s8.at = "returned", s8.status # "kOk",
         ~s6.timedOut, ~s6.repeated, s9 # 0
  PROVE  /\ s9 <= 1
         /\ \/ s8.status = "kTimeout" /\ Elements!Line(s6.at).what = "effect"
            \/ /\ Elements!CannotActAgain /\ Elements!DocumentIsGone
               /\ Elements!Start(s6.kind) \in Elements!Points
               /\ Elements!Line(Elements!Start(s6.kind)).what \in {"script", "effect"}
               /\ \/ s6.at = Elements!Start(s6.kind)
                  \/ Elements!Line(s6.at).what = "effect"
<1>1. /\ s6.at \in Elements!Points /\ s6.at # "done"
      /\ s6.kind \in Elements!Kinds /\ s6.at \in Elements!PointsOf(s6.kind)
  BY Returned
<1>2. Elements!Acted => s8.status = "kTimeout" /\ Elements!Line(s6.at).what = "effect"
  BY DEF Elements!Acted
<1>3. s9 <= 1 /\ (Elements!Acted \/ Elements!CannotActAgain)
  BY <1>1 DEF Elements!ElementsInv, Elements!ActsOnceInv
<1>4. CASE Elements!CannotActAgain /\ Elements!Line(s6.at).what = "effect"
  BY <1>1, <1>3, <1>4, ActsOnElements DEF Elements!CannotActAgain
<1>5. CASE /\ Elements!CannotActAgain /\ s6.at = Elements!Start(s6.kind)
           /\ s6.at \in Elements!Points /\ Elements!UsesElement
  BY <1>3, <1>5 DEF Elements!CannotActAgain, Elements!UsesElement
<1>. QED BY <1>2, <1>3, <1>4, <1>5 DEF Elements!CannotActAgain

\* A command goes on or ends after a step that failed.
LEMMA StepFailsKeeps ==
  ASSUME Elements!ElementsInv, Elements!StepFails
  PROVE  Elements!ElementsInv'
<1>1. Elements!ElementsTyped /\ Elements!CommandIsKnown /\ Elements!CallIsRight /\ Elements!ActsOnceInv
  BY DEF Elements!ElementsInv
<1>2. s8.at = "returned" /\ s8.status # "kOk" /\ s8' = Elements!NoCall
  BY DEF Elements!StepFails
<1>3. /\ s6.at \in Elements!Points /\ s6.at # "done"
      /\ s6.kind \in Elements!Kinds /\ s6.at \in Elements!PointsOf(s6.kind)
      /\ Elements!IsCommand(s6) /\ s4 \in Elements!Frames /\ s9 \in Nat
  BY <1>2, Returned
<1>4. /\ UNCHANGED <<s1, s2, s5>> /\ s9' = s9
  BY DEF Elements!StepFails
<1>. DEFINE quiet == ~s6.timedOut /\ ~s6.repeated
<1>5. quiet /\ s9 # 0 =>
        /\ s9 <= 1
        /\ \/ s8.status = "kTimeout" /\ Elements!Line(s6.at).what = "effect"
           \/ /\ Elements!CannotActAgain /\ Elements!DocumentIsGone
              /\ Elements!Start(s6.kind) \in Elements!Points
              /\ Elements!Line(Elements!Start(s6.kind)).what \in {"script", "effect"}
              /\ s6.at = Elements!Start(s6.kind) \/ Elements!Line(s6.at).what = "effect"
  BY <1>2, ActedBeginsAgain
<1>6. quiet => s9 <= 1
  BY <1>3, <1>5
<1>7. ASSUME NEW status, Elements!Ends(status),
             s8.status = "kTimeout" => status \notin Elements!NavigationHints,
             status = "kStaleElementReference" => s5 # Elements!NoNode /\ s2 # s5,
             status = "kNoSuchElement" => \/ s6.kind \in {"find", "findChild", "label", "keys"}
                                          \/ s5.frame # s4
      PROVE  Elements!ElementsInv'
  <2>1. quiet => \/ s9' = 0 \/ status \notin Elements!NavigationHints
                 \/ /\ Elements!DocumentIsGone /\ Elements!Start(s6.kind) \in Elements!Points
                    /\ Elements!Line(Elements!Start(s6.kind)).what \in {"script", "effect"}
    BY <1>4, <1>5, <1>7
  <2>2. quiet => s9' <= 1
    BY <1>4, <1>6
  <2>3. s9' \in Nat
    BY <1>3, <1>4
  <2>. QED BY <1>2, <1>3, <1>4, <1>7, <2>1, <2>2, <2>3, EndsKeeps
<1>8. CASE /\ s6.kind \in {"find", "findChild"}
           /\ UNCHANGED <<s6, s4>>
  <2>1. s6' = s6 /\ s4' = s4
    BY <1>8
  <2>2. Elements!CommandIsKnown'
    BY <1>1, <1>4, <2>1 DEF Elements!CommandIsKnown
  <2>3. Elements!BlameIsRight'
    BY <1>3, <2>1 DEF Elements!BlameIsRight, Elements!StaleIsTrue
  <2>4. Elements!Line(s6.at).what # "effect"
    BY <1>3, <1>8, ActsOnElements
  <2>5. quiet /\ s9 # 0 => Elements!CannotActAgain'
    BY <1>2, <1>4, <1>5, <2>1, <2>4, NoCallIsACall DEF Elements!CannotActAgain,
       Elements!DocumentIsGone, Elements!UsesElement
  <2>6. Elements!ActsOnceInv'
    BY <1>4, <1>6, <2>1, <2>5 DEF Elements!ActsOnceInv
  <2>. QED BY <1>2, <1>3, <1>4, <2>1, <2>2, <2>3, <2>6, CommandKeeps
<1>9. CASE s6.kind \in {"find", "findChild"} /\ Elements!Ends("kNoSuchElement")
  BY <1>7, <1>9 DEF Elements!NavigationHints
<1>10. CASE /\ s6.at = "wasFocused" /\ s4' = s4
            /\ s6' = [s6 EXCEPT !.at = "visible"]
  <2>1. "visible" \in Elements!PointsOf(s6.kind)
    BY <1>3, <1>10, DomainsOfFunctions DEF Elements!PointsOf, Elements!Kinds
  <2>2. s6' = [s6 EXCEPT !.at = "visible", !.pass = s6.pass]
    BY <1>3, <1>10 DEF Elements!IsCommand
  <2>3. Elements!Start(s6.kind) # "wasFocused" /\ Elements!Line(s6.at).what # "effect"
    BY <1>3, <1>10, PointsOfCommands, ActsOnElements
  <2>4. quiet => s9 = 0
    BY <1>5, <1>10, <2>3
  <2>. QED BY <1>2, <1>3, <1>4, <1>10, <2>1, <2>2, <2>4, CommandGoesOn
<1>11. CASE Elements!Ends(Elements!Wrap(s6, s8.status))
  <2>. DEFINE status == Elements!Wrap(s6, s8.status)
  <2>1. \/ status = s8.status
        \/ status \in {"kOk", "kAbortedByNavigation", "kScriptTimeout", "kElementNotInteractable"}
    BY WrapIs
  <2>2. Elements!Ends(status)
    BY <1>11
  <2>5. s8.status = "kTimeout" => status \notin Elements!NavigationHints
    BY TimeoutsAreNoHints
  <2>. HIDE DEF status
  <2>3. status = "kStaleElementReference" => s5 # Elements!NoNode /\ s2 # s5
    BY <1>1, <1>2, <1>3, <2>1, UsersHaveReferences DEF Elements!CallIsRight
  <2>4. status = "kNoSuchElement" => s5.frame # s4
    BY <1>1, <1>2, <2>1 DEF Elements!CallIsRight
  <2>. QED BY <1>7, <2>2, <2>3, <2>4, <2>5
<1>. QED BY <1>8, <1>9, <1>10, <1>11 DEF Elements!StepFails

\* At a point without script nothing has been done yet.
LEMMA NothingDoneYet ==
  ASSUME Elements!ElementsInv, s6.at # "done",
         ~s6.timedOut, ~s6.repeated,
         s6.at \notin Elements!Points \/ Elements!Line(s6.at).what = "input"
  PROVE  s9 = 0
<1>1. ~Elements!Acted
  BY DEF Elements!Acted
<1>2. ~Elements!CannotActAgain
  BY DEF Elements!CannotActAgain, Elements!UsesElement
<1>. QED BY <1>1, <1>2 DEF Elements!ElementsInv, Elements!ActsOnceInv

\* Input is tried again only after it was not answered in time, or was refused.
LEMMA DispatchInputKeeps ==
  ASSUME Elements!ElementsInv, Elements!DispatchInput
  PROVE  Elements!ElementsInv'
<1>1. Elements!ElementsTyped /\ Elements!CommandIsKnown
  BY DEF Elements!ElementsInv
<1>2. /\ s8' = Elements!NoCall /\ s6.at \in Elements!Points /\ s9' = s9 + 1
      /\ Elements!Line(s6.at).what = "input" /\ UNCHANGED <<s1, s2, s5>>
  BY DEF Elements!DispatchInput
<1>3. PICK s \in {"kOk", "kTimeout", "kUnknownError", "kTargetDetached"} : Elements!Ends(Elements!Wrap(s6, s))
  BY DEF Elements!DispatchInput
<1>4. s6.at # "done"
  BY <1>2, PointsAreNoOutcomes
<1>5. s6.kind \in Elements!Kinds /\ s6.at \in Elements!PointsOf(s6.kind)
  BY <1>1, <1>4 DEF Elements!CommandIsKnown
<1>6. s6.at \in {"press", "tap", "type"}
  BY <1>2, LinesAreSound DEF LineIsSound
<1>. DEFINE status == Elements!Wrap(s6, s)
<1>7. status \in {"kOk", "kTimeout", "kUnknownError", "kTargetDetached", "kScriptTimeout"}
  <2>1. /\ s6.kind = "click" => s6.at = "press"
        /\ s6.kind \notin {"find", "findChild"}
        /\ s6.at \notin DOMAIN Elements!FocusToElement
    BY <1>5, <1>6, DomainsOfFunctions DEF Elements!PointsOf
  <2>. QED BY <2>1 DEF Elements!Wrap
<1>8. Elements!Ends(status)
  BY <1>3
<1>. HIDE DEF status
<1>9. ~s6.timedOut /\ ~s6.repeated => s9 = 0
  BY <1>2, <1>4, NothingDoneYet
<1>10. /\ status \notin Elements!NavigationHints /\ status # "kStaleElementReference"
       /\ status # "kNoSuchElement"
  BY <1>7 DEF Elements!NavigationHints
<1>11. s9' \in Nat /\ (~s6.timedOut /\ ~s6.repeated => s9' <= 1)
  BY <1>1, <1>2, <1>9 DEF Elements!ElementsTyped
<1>. QED BY <1>2, <1>4, <1>8, <1>10, <1>11, EndsKeeps

\* The commands that use the number of a node have a reference and are in no call.
LEMMA ByNumber ==
  ASSUME Elements!ElementsInv, s6.at \in {"backend", "byNumber"}
  PROVE  /\ s6.kind \in {"keys", "label"} /\ s6.at \notin Elements!Points
         /\ s5 # Elements!NoNode /\ s5.frame \in Elements!Frames /\ s8 = Elements!NoCall
<1>1. s6.at \notin Elements!Points
  BY PointsAreNoOutcomes
<1>2. /\ s6.kind \in Elements!Kinds /\ s6.at \in Elements!PointsOf(s6.kind)
      /\ s6.kind \notin {"find", "frame"} => s5 # Elements!NoNode
  BY DEF Elements!ElementsInv, Elements!CommandIsKnown
<1>3. s6.kind \in {"keys", "label"}
  BY <1>2, PointsOfCommands
<1>4. s8 = Elements!NoCall
  BY <1>1 DEF Elements!ElementsInv, Elements!CallIsOfCommand, Elements!ElementsTyped,
     Elements!Calls
<1>. QED BY <1>1, <1>2, <1>3, <1>4, NodesAreRecords DEF Elements!ElementsInv,
            Elements!ElementsTyped

\* The reference of a command by number is compared once.
LEMMA GetBackendNodeIdByElementKeeps ==
  ASSUME Elements!ElementsInv, Elements!GetBackendNodeIdByElement
  PROVE  Elements!ElementsInv'
<1>1. Elements!ElementsTyped /\ Elements!NodesAreOfDocuments
  BY DEF Elements!ElementsInv
<1>2. /\ s6.at = "backend" /\ s6.at # "done" /\ s8' = Elements!NoCall
      /\ UNCHANGED <<s1, s2, s5>> /\ s9' = s9
  BY DEF Elements!GetBackendNodeIdByElement
<1>3. /\ s6.kind \in {"keys", "label"} /\ s6.at \notin Elements!Points
      /\ s5 # Elements!NoNode
  BY <1>2, ByNumber
<1>4. /\ ~s6.timedOut /\ ~s6.repeated => s9 = 0
      /\ s9 \in Nat
  BY <1>1, <1>2, <1>3, NothingDoneYet DEF Elements!ElementsTyped
<1>5. ASSUME NEW status \in {"kNoSuchWindow", "kNoSuchElement", "kStaleElementReference"}, Elements!Ends(status),
             status = "kStaleElementReference" => s2 # s5
      PROVE  Elements!ElementsInv'
  <2>1. status # "kTimeout"
    OBVIOUS
  <2>2. ~s6.timedOut /\ ~s6.repeated => s9' <= 1 /\ s9' = 0
    BY <1>2, <1>4
  <2>. QED BY <1>2, <1>3, <1>4, <1>5, <2>1, <2>2, EndsKeeps
<1>6. CASE s1[s4] = 0 /\ Elements!Ends("kNoSuchWindow")
  BY <1>5, <1>6
<1>7. CASE Elements!Ends("kNoSuchElement")
  BY <1>5, <1>7
<1>8. CASE /\ s5.frame = s4 /\ s5.loader # s1[s4]
           /\ Elements!Ends("kStaleElementReference")
  <2>1. s2 # s5
    BY <1>1, <1>3, <1>8 DEF Elements!NodesAreOfDocuments
  <2>. QED BY <1>5, <1>8, <2>1
<1>9. CASE /\ s6' = [s6 EXCEPT !.at = "byNumber"]
           /\ s4' = s4
  <2>1. Elements!IsCommand(s6)
    BY <1>1 DEF Elements!ElementsTyped
  <2>2. s6' = [s6 EXCEPT !.at = "byNumber", !.pass = s6.pass]
    BY <1>9, <2>1 DEF Elements!IsCommand
  <2>3. "byNumber" \in Elements!PointsOf(s6.kind)
    BY <1>3 DEF Elements!PointsOf
  <2>. QED BY <1>2, <1>4, <1>9, <2>2, <2>3, CommandGoesOn
<1>. QED BY <1>6, <1>7, <1>8, <1>9 DEF Elements!GetBackendNodeIdByElement

\* The number is used, and the command ends.
LEMMA UseBackendNodeIdKeeps ==
  ASSUME Elements!ElementsInv, Elements!UseBackendNodeId
  PROVE  Elements!ElementsInv'
<1>1. /\ s6.at = "byNumber" /\ s6.at # "done" /\ s8' = s8
      /\ UNCHANGED <<s1, s2, s5>>
  BY DEF Elements!UseBackendNodeId
<1>2. /\ s6.kind \in {"keys", "label"} /\ s6.at \notin Elements!Points
      /\ s8' = Elements!NoCall
  BY <1>1, ByNumber
<1>3. s9 \in Nat
  BY DEF Elements!ElementsInv, Elements!ElementsTyped
<1>4. ~s6.timedOut /\ ~s6.repeated => s9 = 0
  BY <1>1, <1>2, NothingDoneYet
<1>5. PICK status \in {"kOk", "kNoSuchElement"} : Elements!Ends(status) /\ s9' \in {s9, s9 + 1}
  BY DEF Elements!UseBackendNodeId
<1>6. s9' \in Nat /\ (~s6.timedOut /\ ~s6.repeated => s9' <= 1)
  BY <1>3, <1>4, <1>5
<1>7. status \notin Elements!NavigationHints /\ status # "kStaleElementReference"
  BY DEF Elements!NavigationHints
<1>. QED BY <1>1, <1>2, <1>5, <1>6, <1>7, EndsKeeps
-----------------------------------------------------------------------------
\* The invariant holds at first ...
LEMMA ElementsInit == Elements!Init => Elements!ElementsInv
<1>. SUFFICES ASSUME Elements!Init PROVE Elements!ElementsInv
  OBVIOUS
<1>. USE DEF Elements!Init
<1>1. Elements!ElementsTyped
  <2>1. Elements!IsCommand(s6)
    <3>. DEFINE no == FALSE
    <3>1. s6 = [kind |-> "none", at |-> "done", pass |-> 1, attempt |-> 0,
                timedOut |-> no, repeated |-> no, status |-> "kOk"]
      BY DEF Elements!NoCommand
    <3>2. no \in BOOLEAN /\ 0 \in 0..2
      OBVIOUS
    <3>. HIDE DEF no
    <3>3. Elements!IsCommand([kind |-> "none", at |-> "done", pass |-> 1, attempt |-> 0,
                              timedOut |-> no, repeated |-> no, status |-> "kOk"])
      BY ONLY <3>2, RecordsAreCommands
    <3>. QED BY ONLY <3>1, <3>3
  <2>2. s1 \in [Elements!Frames -> Nat] /\ s4 \in Elements!Frames /\ s9 \in Nat
    BY DEF Elements!Frames
  <2>3. Elements!NoNode \in Elements!Nodes
    BY DEF Elements!Nodes
  <2>. QED BY <2>1, <2>2, <2>3, NoCallIsACall DEF Elements!ElementsTyped
<1>2. s6.at = "done" /\ s6.status = "kOk"
  BY DEF Elements!NoCommand
<1>3. Elements!CommandIsKnown /\ Elements!BlameIsRight
  BY <1>2 DEF Elements!CommandIsKnown, Elements!BlameIsRight, Elements!StaleIsTrue
<1>4. Elements!NodesAreOfDocuments
  BY DEF Elements!NodesAreOfDocuments
<1>5. Elements!CallIsOfCommand /\ Elements!CallIsRight
  BY NoCallIsACall DEF Elements!CallIsOfCommand, Elements!CallIsRight
<1>6. Elements!ActsOnceInv
  BY <1>2 DEF Elements!ActsOnceInv
<1>. QED BY <1>1, <1>3, <1>4, <1>5, <1>6 DEF Elements!ElementsInv

\* ... every step keeps it ...
LEMMA ElementsKeep ==
  ASSUME Elements!ElementsInv, Elements!Next \/ UNCHANGED Elements!vars
  PROVE  Elements!ElementsInv'
<1>. Elements!ElementsTyped /\ Elements!NodesAreOfDocuments
  BY DEF Elements!ElementsInv
<1>1. ASSUME NEW f \in Elements!Frames, Elements!Navigate(f) PROVE Elements!ElementsInv'
  BY <1>1, NavigateAges, PageKeeps DEF Elements!Navigate, Elements!PageStep
<1>2. CASE Elements!RemoveNode
  BY <1>2, RemoveNodeAges, PageKeeps DEF Elements!RemoveNode, Elements!PageStep
<1>3. CASE Elements!RemoveFrame
  BY <1>3, RemoveFrameAges, PageKeeps DEF Elements!RemoveFrame, Elements!PageStep
<1>4. CASE Elements!NewElementCommand
  BY <1>4, NewElementCommandKeeps
<1>5. CASE Elements!CallFunction
  BY <1>5, CallFunctionKeeps
<1>6. CASE Elements!GetLoaderId
  BY <1>6, GetLoaderIdKeeps
<1>7. CASE Elements!ResolveElementReferenceInPlace
  BY <1>7, ResolveKeeps
<1>8. CASE Elements!CompareLoaders
  BY <1>8, CompareLoadersKeeps
<1>9. CASE Elements!RunFunction
  BY <1>9, RunFunctionKeeps
<1>10. CASE Elements!FunctionReturns
  BY <1>10, FunctionReturnsKeeps
<1>11. CASE Elements!StepSucceeds
  BY <1>11, StepSucceedsKeeps
<1>12. CASE Elements!StepFails
  BY <1>12, StepFailsKeeps
<1>13. CASE Elements!DispatchInput
  BY <1>13, DispatchInputKeeps
<1>14. CASE Elements!GetBackendNodeIdByElement
  BY <1>14, GetBackendNodeIdByElementKeeps
<1>15. CASE Elements!UseBackendNodeId
  BY <1>15, UseBackendNodeIdKeeps
<1>16. CASE UNCHANGED Elements!vars
  <2>1. PageAges /\ UNCHANGED <<s4, s5, s6, s8, s9>>
    BY <1>16 DEF Elements!vars, PageAges, Elements!ElementsTyped, Elements!NodesAreOfDocuments
  <2>. QED BY <2>1, PageKeeps
<1>. QED BY <1>1, <1>2, <1>3, <1>4, <1>5, <1>6, <1>7, <1>8, <1>9, <1>10, <1>11, <1>12, <1>13,
            <1>14, <1>15, <1>16 DEF Elements!Next

\* ... and it says what was to be shown.
LEMMA ElementsExact == Elements!ElementsInv => Elements!ElementCommandsAreExact
BY DEF Elements!ElementsInv, Elements!ActsOnceInv, Elements!BlameIsRight,
   Elements!ElementCommandsAreExact, Elements!ActsOnce

\* The steps of Elements.
LEMMA ElementsSteps ==
  ASSUME part = "elements", [Next]_vars
  PROVE  Elements!Next \/ UNCHANGED Elements!vars
<1>1. CASE Next
  BY <1>1 DEF Next, RoutingStep, ServerStep, ViewsStep, InputStep, NavStep, ElementsStep,
     CapsStep, LaunchStep, DevicesStep, WindowsStep, OverridesStep, CookiesStep, FedCmStep,
     LogsStep, ReplayStep
<1>2. CASE UNCHANGED vars
  BY <1>2 DEF vars, Elements!vars
<1>. QED BY <1>1, <1>2

ElementCommandsInv == part = "elements" => Elements!ElementsInv

LEMMA ElementsStepInv == ElementCommandsInv /\ [Next]_vars => ElementCommandsInv'
<1>. SUFFICES ASSUME part = "elements", Elements!ElementsInv, [Next]_vars
              PROVE  Elements!ElementsInv'
  BY PartStays DEF ElementCommandsInv
<1>1. Elements!Next \/ UNCHANGED Elements!vars
  BY ElementsSteps
<1>. QED BY <1>1, ElementsKeep

\* A command on an element acts on it once, however the page navigates between its scripts and
\* however often ExecuteWindowCommand tries again, but for the two retries that need not follow the
\* loss of the page: of a command that was not answered in time, and of one that had acted and then
\* failed for another reason with a navigation pending; and an element that is reported stale or
\* unknown is so (CallFunctionWithTimeoutInternal, ResolveElementReferencesInPlace), for any number
\* of commands and changes of the page.
THEOREM ElementsActOnce == Spec => []ElementCommandsAreExact
<1>1. Init => ElementCommandsInv
  BY ElementsInit DEF Init, ElementCommandsInv
<1>2. ElementCommandsInv => ElementCommandsAreExact
  BY ElementsExact DEF ElementCommandsInv, ElementCommandsAreExact
<1>. QED BY <1>1, <1>2, ElementsStepInv, PTL DEF Spec
=============================================================================
