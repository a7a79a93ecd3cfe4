-------------------------- MODULE MCWindows_proofs ---------------------------
(***************************************************************************)
(* The start of the server, the browser of a session, its windows and what *)
(* it overrides in their pages: ServerStart, NewSession, Windows and       *)
(* Overrides, as parts of MCServices, for every value of the bounds.       *)
(***************************************************************************)
EXTENDS MCServices, FiniteSets, FiniteSetTheorems, TLAPS

\* No step moves to another component.
LEMMA PartStays ==
  ASSUME [Next]_vars
  PROVE  part' = part
<1>1. CASE Next
  BY <1>1 DEF Next, RoutingStep, ServerStep, ViewsStep, InputStep, NavStep, ElementsStep,
     CapsStep, LaunchStep, DevicesStep, WindowsStep, OverridesStep, CookiesStep, FedCmStep,
     LogsStep, ReplayStep
<1>2. CASE UNCHANGED vars BY <1>2 DEF vars
<1> QED BY <1>1, <1>2
-----------------------------------------------------------------------------
\* The steps of ServerStart.
LEMMA ServerSteps ==
  ASSUME part = "server", [Next]_vars
  PROVE  Server!Next \/ UNCHANGED Server!vars
<1>1. CASE Next
  BY <1>1 DEF Next, RoutingStep, ServerStep, ViewsStep, InputStep, NavStep, ElementsStep,
     CapsStep, LaunchStep, DevicesStep, WindowsStep, OverridesStep, CookiesStep, FedCmStep,
     LogsStep, ReplayStep
<1>2. CASE UNCHANGED vars BY <1>2 DEF vars, Server!vars
<1> QED BY <1>1, <1>2

\* What the driver may conclude of the machine, and that the addresses of the machine itself are
\* among the ones that are allowed.
MachineKnown ==
  /\ s2 = "win" \/ s5 = "0" => s6
  /\ s8.ips = {} \/ {"local4", "mapped local4"} \subseteq s8.ips

\* IPv4 is served, or nobody can know; with two sockets the port is one.
BothServed ==
  /\ "ipv4" \in s3 => Server!ServesIPv4 \/ Server!NeedIPv4 = "unknown"
  /\ s9["ipv4"] # 0 /\ s9["ipv6"] # 0 => s9["ipv4"] = s9["ipv6"]

\* The sockets at each point of the start.
SocketOrder ==
  /\ s1 \in {"flags", "ipv4"} => s9["ipv4"] = 0 /\ s9["ipv6"] = 0
  /\ s1 = "ipv4" => s2 = "mac"
  /\ s1 = "ipv6" =>
       /\ s9["ipv6"] = 0 /\ (s2 # "mac" => s9["ipv4"] = 0)
       /\ s2 = "mac" /\ "ipv4" \in s3 => s9["ipv4"] # 0
       /\ s9["ipv4"] # 0 => s7 = s9["ipv4"]
  /\ s1 = "ipv4 too" =>
       /\ s9["ipv4"] = 0 /\ s2 # "mac"
       /\ s9["ipv6"] # 0 => s7 = s9["ipv6"]
       /\ s10 = "ok" => s9["ipv6"] # 0
  /\ s1 \in {"print", "running"} => BothServed

ServerGood == Server!TypeOK /\ MachineKnown /\ SocketOrder /\ Server!LocalClientsAreServed
ServerInv == part = "server" => ServerGood

\* Initially no socket is open.
LEMMA ServerInit == Init => ServerInv
<1> SUFFICES ASSUME part = "server", Server!Init PROVE ServerGood BY DEF Init, ServerInv
<1>1. Server!TypeOK BY DEF Server!Init, Server!TypeOK
<1>2. MachineKnown BY DEF Server!Init, MachineKnown, Server!NoFlags
<1>3. SocketOrder BY DEF Server!Init, SocketOrder, Server!Families
<1>4. Server!LocalClientsAreServed
  BY DEF Server!Init, Server!LocalClientsAreServed, Server!NoRequest
<1> QED BY <1>1, <1>2, <1>3, <1>4 DEF ServerGood

\* HttpServer::Start: a protocol that the machine has gets the port asked for, or the port is in
\* use; port 0 gets any.
LEMMA ResultFacts ==
  ASSUME NEW f, NEW r \in Server!Results(f)
  PROVE  /\ r.status \in {"ok", "in use", "error"}
         /\ r.status = "ok" => r.port \in Ports /\ s7 \in {0, r.port}
         /\ r.status # "ok" => r.port = 0
         /\ f \in s3 => r.status # "error"
<1>1. CASE f \notin s3
  <2>1. r.status = "error" /\ r.port = 0 BY <1>1 DEF Server!Results
  <2> QED BY <1>1, <2>1
<1>2. CASE f \in s3
  <2> DEFINE got == {p \in Server!Free(f) : s7 \in {0, p}}
  <2>1. CASE got = {}
    <3>1. Server!Results(f) = {[status |-> "in use", port |-> 0]}
      BY <1>2, <2>1 DEF Server!Results
    <3>2. r = [status |-> "in use", port |-> 0] BY <3>1
    <3>3. r.status = "in use" /\ r.port = 0 BY <3>2
    <3> QED BY <3>3
  <2>2. CASE got # {}
    <3>1. PICK p \in got : r = [status |-> "ok", port |-> p] BY <1>2, <2>2 DEF Server!Results
    <3>2. p \in Ports /\ s7 \in {0, p} BY DEF Server!Free
    <3>3. r.status = "ok" /\ r.port = p BY <3>1
    <3> QED BY <3>2, <3>3
  <2> QED BY <2>1, <2>2
<1> QED BY <1>1, <1>2

\* The flags.
LEMMA FlagsKeep ==
  ASSUME ServerGood, Server!ParseFlags
  PROVE  ServerGood'
<1>1. PICK q \in Ports \cup {0}, i \in BOOLEAN, list \in {{}, {"remote"}}, rem \in BOOLEAN,
           org \in {{}, {"*"}, {"other.example"}} :
        /\ s7' = IF i THEN 0 ELSE q
        /\ s8' = [remote |-> rem, ips |-> Server!AllowedIps(list), origins |-> org]
  BY DEF Server!ParseFlags
<1>2. PICK p \in {"mac", "linux", "win"}, fs \in SUBSET Server!Families, both \in BOOLEAN :
        /\ s2' = p /\ s3' = fs /\ s6' = (both \/ p = "win") /\ (p = "mac" => ~both)
        /\ s5' \in {IF both THEN "0" ELSE "1", "?"}
        /\ s1' = IF p = "mac" THEN "ipv4" ELSE "ipv6"
  BY DEF Server!ParseFlags
<1>3. s1 = "flags" /\ UNCHANGED <<s4, s9, s10, s11, s12>> BY DEF Server!ParseFlags
<1>4. Server!TypeOK' BY <1>1, <1>2, <1>3 DEF ServerGood, Server!TypeOK
<1>5. s2' = "win" \/ s5' = "0" => s6' BY <1>2
<1>6. s8'.ips = {} \/ {"local4", "mapped local4"} \subseteq s8'.ips
  <2>1. s8'.ips = Server!AllowedIps(list) BY <1>1
  <2> QED BY <2>1 DEF Server!AllowedIps
<1>7. s9["ipv4"] = 0 /\ s9["ipv6"] = 0 BY <1>3 DEF ServerGood, SocketOrder
<1>8. SocketOrder'
  <2>1. CASE s2' = "mac"
    <3>1. s1' = "ipv4" BY <1>2, <2>1
    <3> QED BY <1>3, <1>7, <2>1, <3>1 DEF SocketOrder
  <2>2. CASE s2' # "mac"
    <3>1. s1' = "ipv6" BY <1>2, <2>2
    <3> QED BY <1>3, <1>7, <2>2, <3>1 DEF SocketOrder
  <2> QED BY <2>1, <2>2
<1>9. Server!LocalClientsAreServed' BY <1>3 DEF ServerGood, Server!LocalClientsAreServed
<1> QED BY <1>4, <1>5, <1>6, <1>8, <1>9 DEF ServerGood, MachineKnown

\* On a Mac: IPv4, then IPv6.
LEMMA StartIPv4FirstKeeps ==
  ASSUME ServerGood, Server!StartIPv4First
  PROVE  ServerGood'
<1>0. Server!TypeOK /\ MachineKnown /\ SocketOrder /\ Server!LocalClientsAreServed
  BY DEF ServerGood
<1>1. s1 = "ipv4" /\ UNCHANGED <<s2, s3, s4, s5, s6, s8, s10, s11, s12>>
  BY DEF Server!StartIPv4First
<1>2. PICK r \in Server!Results("ipv4") :
        /\ s9' = [s9 EXCEPT !["ipv4"] = r.port]
        /\ s7' = IF r.status = "ok" THEN r.port ELSE s7
        /\ s1' = IF r.status = "in use" THEN "exited" ELSE "ipv6"
  BY DEF Server!StartIPv4First
<1>3. /\ r.status \in {"ok", "in use", "error"}
      /\ r.status = "ok" => r.port \in Ports
      /\ r.status # "ok" => r.port = 0
      /\ "ipv4" \in s3 => r.status # "error"
  BY ResultFacts
<1>4. s9 \in [Server!Families -> Ports \cup {0}] /\ s7 \in Ports \cup {0} BY <1>0 DEF Server!TypeOK
<1>5. s9' \in [Server!Families -> Ports \cup {0}] /\ s7' \in Ports \cup {0} BY <1>2, <1>3, <1>4
<1>6. s9'["ipv4"] = r.port /\ s9'["ipv6"] = s9["ipv6"] BY <1>2, <1>4 DEF Server!Families
<1>7. s9["ipv6"] = 0 /\ s2 = "mac" BY <1>0, <1>1 DEF SocketOrder
<1>8. SocketOrder'
  <2>1. CASE s1' = "exited" BY <2>1 DEF SocketOrder
  <2>2. CASE s1' = "ipv6"
    <3>1. r.status # "in use" BY <1>2, <2>2
    <3>2. "ipv4" \in s3' => s9'["ipv4"] # 0 BY <1>1, <1>3, <1>6, <3>1, PortsArePositive
    <3>3. s9'["ipv4"] # 0 => s7' = s9'["ipv4"] BY <1>2, <1>3, <1>6
    <3> QED BY <1>1, <1>6, <1>7, <2>2, <3>2, <3>3 DEF SocketOrder
  <2> QED BY <1>2, <2>1, <2>2
<1>9. Server!TypeOK' BY <1>0, <1>1, <1>2, <1>5 DEF Server!TypeOK
<1>10. MachineKnown' /\ Server!LocalClientsAreServed'
  BY <1>0, <1>1 DEF MachineKnown, Server!LocalClientsAreServed
<1> QED BY <1>8, <1>9, <1>10 DEF ServerGood

\* IPv6: the second on a Mac, the first elsewhere.
LEMMA StartIPv6Keeps ==
  ASSUME ServerGood, Server!StartIPv6
  PROVE  ServerGood'
<1>0. Server!TypeOK /\ MachineKnown /\ SocketOrder /\ Server!LocalClientsAreServed
  BY DEF ServerGood
<1>1. s1 = "ipv6" /\ UNCHANGED <<s2, s3, s4, s5, s6, s8, s11, s12>> BY DEF Server!StartIPv6
<1>2. PICK r \in Server!Results("ipv6") :
        /\ s9' = [s9 EXCEPT !["ipv6"] = r.port]
        /\ s7' = IF r.status = "ok" THEN r.port ELSE s7
        /\ s10' = r.status
        /\ s1' = IF r.status = "in use" THEN "exited"
                 ELSE IF s2 = "mac" THEN "print" ELSE "ipv4 too"
  BY DEF Server!StartIPv6
<1>3. /\ r.status \in {"ok", "in use", "error"}
      /\ r.status = "ok" => r.port \in Ports /\ s7 \in {0, r.port}
      /\ r.status # "ok" => r.port = 0
  BY ResultFacts
<1>4. s9 \in [Server!Families -> Ports \cup {0}] /\ s7 \in Ports \cup {0} BY <1>0 DEF Server!TypeOK
<1>5. s9' \in [Server!Families -> Ports \cup {0}] /\ s7' \in Ports \cup {0} BY <1>2, <1>3, <1>4
<1>6. s9'["ipv6"] = r.port /\ s9'["ipv4"] = s9["ipv4"] BY <1>2, <1>4 DEF Server!Families
<1>7. /\ s2 # "mac" => s9["ipv4"] = 0
      /\ s2 = "mac" /\ "ipv4" \in s3 => s9["ipv4"] # 0
      /\ s9["ipv4"] # 0 => s7 = s9["ipv4"]
  BY <1>0, <1>1 DEF SocketOrder
<1>8. SocketOrder'
  <2>1. CASE s1' = "exited" BY <2>1 DEF SocketOrder
  <2>2. CASE s1' = "ipv4 too"
    <3>1. s2 # "mac" BY <1>2, <2>2
    <3>2. s9'["ipv6"] # 0 => s7' = s9'["ipv6"] BY <1>2, <1>3, <1>6
    <3>3. s10' = "ok" => s9'["ipv6"] # 0 BY <1>2, <1>3, <1>6, PortsArePositive
    <3> QED BY <1>1, <1>6, <1>7, <2>2, <3>1, <3>2, <3>3 DEF SocketOrder
  <2>3. CASE s1' = "print"
    <3>1. s2 = "mac" BY <1>2, <2>3
    <3>2. "ipv4" \in s3' => s9'["ipv4"] # 0 BY <1>1, <1>6, <1>7, <3>1
    <3>3. s9'["ipv4"] # 0 /\ s9'["ipv6"] # 0 => s9'["ipv4"] = s9'["ipv6"]
      BY <1>3, <1>6, <1>7
    <3>4. BothServed' BY <3>2, <3>3 DEF BothServed, Server!ServesIPv4
    <3> QED BY <2>3, <3>4 DEF SocketOrder
  <2> QED BY <1>2, <2>1, <2>2, <2>3
<1>9. Server!TypeOK' BY <1>0, <1>1, <1>2, <1>5 DEF Server!TypeOK
<1>10. MachineKnown' /\ Server!LocalClientsAreServed'
  BY <1>0, <1>1 DEF MachineKnown, Server!LocalClientsAreServed
<1> QED BY <1>8, <1>9, <1>10 DEF ServerGood

\* IPv4 elsewhere, unless the socket for IPv6 serves it.
LEMMA StartIPv4SecondKeeps ==
  ASSUME ServerGood, Server!StartIPv4Second
  PROVE  ServerGood'
<1>0. Server!TypeOK /\ MachineKnown /\ SocketOrder /\ Server!LocalClientsAreServed
  BY DEF ServerGood
<1>1. s1 = "ipv4 too" /\ UNCHANGED <<s2, s3, s4, s5, s6, s7, s8, s10, s11, s12>>
  BY DEF Server!StartIPv4Second
<1>2. /\ s9["ipv4"] = 0
      /\ s9["ipv6"] # 0 => s7 = s9["ipv6"]
      /\ s10 = "ok" => s9["ipv6"] # 0
  BY <1>0, <1>1 DEF SocketOrder
<1>3. MachineKnown' /\ Server!LocalClientsAreServed'
  BY <1>0, <1>1 DEF MachineKnown, Server!LocalClientsAreServed
<1>4. Server!NeedIPv4' = Server!NeedIPv4 BY <1>1 DEF Server!NeedIPv4
<1>5. CASE Server!NeedIPv4 = "not needed"
  <2>1. s1' = "print" /\ s9' = s9 BY <1>5 DEF Server!StartIPv4Second
  <2>2. s8.remote /\ s10 = "ok" /\ (s2 = "win" \/ s5 = "0") BY <1>5 DEF Server!NeedIPv4
  <2>3. s6 BY <1>0, <2>2 DEF MachineKnown
  <2>4. "ipv4" \in Server!Occupies("ipv6")' BY <1>1, <2>2, <2>3 DEF Server!Occupies
  <2>5. BothServed' BY <1>2, <2>1, <2>2, <2>4 DEF BothServed, Server!ServesIPv4
  <2>6. SocketOrder' BY <2>1, <2>5 DEF SocketOrder
  <2>7. Server!TypeOK' BY <1>0, <1>1, <2>1 DEF Server!TypeOK
  <2> QED BY <1>3, <2>6, <2>7 DEF ServerGood
<1>6. CASE Server!NeedIPv4 # "not needed"
  <2>1. PICK r \in Server!Results("ipv4") :
          /\ s9' = [s9 EXCEPT !["ipv4"] = r.port]
          /\ s1' = IF r.status = "in use" /\ Server!NeedIPv4 = "needed" THEN "exited" ELSE "print"
    BY <1>6 DEF Server!StartIPv4Second
  <2>2. /\ r.status \in {"ok", "in use", "error"}
        /\ r.status = "ok" => r.port \in Ports /\ s7 \in {0, r.port}
        /\ r.status # "ok" => r.port = 0
        /\ "ipv4" \in s3 => r.status # "error"
    BY ResultFacts
  <2>3. s9 \in [Server!Families -> Ports \cup {0}] BY <1>0 DEF Server!TypeOK
  <2>4. s9' \in [Server!Families -> Ports \cup {0}] BY <2>1, <2>2, <2>3
  <2>5. s9'["ipv4"] = r.port /\ s9'["ipv6"] = s9["ipv6"] BY <2>1, <2>3 DEF Server!Families
  <2>6. Server!TypeOK' BY <1>0, <1>1, <2>1, <2>4 DEF Server!TypeOK
  <2>7. SocketOrder'
    <3>1. CASE s1' = "exited" BY <3>1 DEF SocketOrder
    <3>2. CASE s1' = "print"
      <4>1. r.status # "in use" \/ Server!NeedIPv4 # "needed" BY <2>1, <3>2
      <4>2. Server!NeedIPv4 \in {"needed", "not needed", "unknown"} BY DEF Server!NeedIPv4
      <4>3. "ipv4" \in s3' => s9'["ipv4"] # 0 \/ Server!NeedIPv4' = "unknown"
        BY <1>1, <1>4, <1>6, <2>2, <2>5, <4>1, <4>2, PortsArePositive
      <4>4. s9'["ipv4"] # 0 /\ s9'["ipv6"] # 0 => s9'["ipv4"] = s9'["ipv6"]
        BY <1>2, <2>2, <2>5
      <4>5. BothServed' BY <4>3, <4>4 DEF BothServed, Server!ServesIPv4
      <4> QED BY <3>2, <4>5 DEF SocketOrder
    <3> QED BY <2>1, <3>1, <3>2
  <2> QED BY <1>3, <2>6, <2>7 DEF ServerGood
<1> QED BY <1>5, <1>6

\* What is served does not depend on the point of the start, nor on the ports of others.
LEMMA BothServedStays ==
  ASSUME BothServed, UNCHANGED <<s2, s3, s5, s6, s8, s9, s10>>
  PROVE  BothServed'
BY DEF BothServed, Server!ServesIPv4, Server!Occupies, Server!NeedIPv4

\* The other steps: the announcement, other processes, and requests.
LEMMA RunningKeeps ==
  ASSUME ServerGood,
         \/ Server!InvalidFlag \/ Server!PrintPort \/ Server!OtherProcess \/ Server!OnHttpRequest
         \/ UNCHANGED Server!vars
  PROVE  ServerGood'
<1>0. Server!TypeOK /\ MachineKnown /\ SocketOrder /\ Server!LocalClientsAreServed
  BY DEF ServerGood
<1>1. UNCHANGED <<s2, s3, s5, s6, s7, s8, s9, s10>>
  BY DEF Server!InvalidFlag, Server!PrintPort, Server!OtherProcess, Server!OnHttpRequest,
         Server!vars
<1>2. s1' = s1 \/ s1' = "exited" \/ (s1 = "print" /\ s1' = "running")
  BY DEF Server!InvalidFlag, Server!PrintPort, Server!OtherProcess, Server!OnHttpRequest,
         Server!vars
<1>3. SocketOrder' BY <1>0, <1>1, <1>2, BothServedStays DEF SocketOrder
<1>4. MachineKnown' BY <1>0, <1>1 DEF MachineKnown
<1>5. Server!TypeOK'
  <2>1. s11' \in Ports \cup {0}
    BY <1>0 DEF Server!TypeOK, Server!InvalidFlag, Server!PrintPort, Server!OtherProcess,
       Server!OnHttpRequest, Server!vars
  <2>2. s4' \in [Server!Families -> SUBSET Ports]
    <3>1. CASE Server!OtherProcess BY <1>0, <3>1 DEF Server!TypeOK, Server!OtherProcess
    <3>2. CASE s4' = s4 BY <1>0, <3>2 DEF Server!TypeOK
    <3> QED BY <3>1, <3>2 DEF Server!InvalidFlag, Server!PrintPort, Server!OnHttpRequest,
                              Server!vars
  <2>3. s1' \in {"flags", "ipv4", "ipv6", "ipv4 too", "print", "running", "exited"}
    BY <1>0, <1>2 DEF Server!TypeOK
  <2> QED BY <1>0, <1>1, <2>1, <2>2, <2>3 DEF Server!TypeOK
<1>6. Server!LocalClientsAreServed'
  <2>1. CASE Server!OnHttpRequest
    <3>1. PICK peer \in {"local4", "mapped local4", "mapped remote", "stranger"},
               host \in {"localhost", "own name", "other.example"},
               origin \in {"", "localhost", "other.example"} :
            s12' = [peer |-> peer, host |-> host, origin |-> origin,
                    outcome |-> IF ~Server!RequestIsSafeToServe(host, origin) THEN "500"
                                ELSE IF s8.ips # {} /\ peer \notin s8.ips THEN "401"
                                ELSE "handled"]
      BY <2>1 DEF Server!OnHttpRequest
    <3>2. /\ s12'.peer = peer /\ s12'.host = host /\ s12'.origin = origin
          /\ s12'.outcome = IF ~Server!RequestIsSafeToServe(host, origin) THEN "500"
                            ELSE IF s8.ips # {} /\ peer \notin s8.ips THEN "401" ELSE "handled"
      BY <3>1
    <3>3. Server!RequestIsSafeToServe("localhost", "") BY DEF Server!RequestIsSafeToServe
    <3>4. peer \in {"local4", "mapped local4"} => s8.ips = {} \/ peer \in s8.ips
      BY <1>0 DEF MachineKnown
    <3> QED BY <3>2, <3>3, <3>4 DEF Server!LocalClientsAreServed
  <2>2. CASE s12' = s12 BY <1>0, <2>2 DEF Server!LocalClientsAreServed
  <2> QED BY <2>1, <2>2 DEF Server!InvalidFlag, Server!PrintPort, Server!OtherProcess, Server!vars
<1> QED BY <1>3, <1>4, <1>5, <1>6 DEF ServerGood

\* Every step keeps the invariant.
LEMMA ServerStepInv == ASSUME ServerInv, [Next]_vars PROVE ServerInv'
<1> SUFFICES ASSUME part = "server" PROVE ServerGood' BY PartStays DEF ServerInv
<1>0. ServerGood BY DEF ServerInv
<1> QED BY <1>0, ServerSteps, FlagsKeep, StartIPv4FirstKeeps, StartIPv6Keeps,
           StartIPv4SecondKeeps, RunningKeeps DEF Server!Next

\* Whoever starts the server on a machine with IPv4 reaches it there, over IPv4 at the port of
\* IPv6 and from the machine itself whatever the flags are, for any set of ports
\* (StartServerOnIOThread, RequestIsSafeToServe).
THEOREM ServerIsReached == Spec => []ClientsReachTheServer
<1>1. ServerInv => ClientsReachTheServer
  BY DEF ServerInv, ServerGood, SocketOrder, BothServed, ClientsReachTheServer,
         Server!ClientsReachTheServer, Server!ServesBothFamilies
<1> QED BY <1>1, ServerInit, ServerStepInv, PTL DEF Spec
-----------------------------------------------------------------------------
\* The steps of NewSession.
LEMMA LaunchSteps ==
  ASSUME part = "launch", [Next]_vars
  PROVE  Launch!Next \/ UNCHANGED Launch!vars
<1>1. CASE Next
  BY <1>1 DEF Next, RoutingStep, ServerStep, ViewsStep, InputStep, NavStep, ElementsStep,
     CapsStep, LaunchStep, DevicesStep, WindowsStep, OverridesStep, CookiesStep, FedCmStep,
     LogsStep, ReplayStep
<1>2. CASE UNCHANGED vars BY <1>2 DEF vars, Launch!vars
<1> QED BY <1>1, <1>2

\* Where New Session is: before the process is launched, then until it owns the browser, then
\* while it does.
BeforeLaunch == {"prepare", "profile", "extensions", "launch"}
Launching == {"poll", "connect", "pipe", "created", "wrongVersion", "timeout", "crashed",
              "notConnected"}
Owning == {"setUp", "firstTab", "headless", "mapper", "ready"}
LaunchPoints == {"idle", "desktop", "remote", "replay", "over"} \cup BeforeLaunch \cup Launching
                \cup Owning

\* The kind of session that a point belongs to, and what there is at that point.
LaunchOrder ==
  /\ s2 \in LaunchPoints
  /\ s2 \in BeforeLaunch \cup Launching \cup {"desktop"} => s1.kind = "desktop"
  /\ s2 = "remote" => s1.kind = "remote"
  /\ s2 = "replay" => s1.kind = "replay"
  /\ s1.kind # "desktop" => s3 = "none" /\ s8 = {}
  /\ s2 \in {"idle", "desktop", "remote", "replay"} =>
       s3 = "none" /\ s6 = "unknown" /\ s7 = "none" /\ s8 = {}
  /\ s2 \in BeforeLaunch => s3 = "none"
  /\ s2 \in Owning => s9 = "open"
  /\ s5 = "other" => s1.ownProfile

\* The port of another browser is known only when that one came late.
OtherIsLate ==
  s1.kind = "desktop" =>
    /\ s2 \in BeforeLaunch \cup Launching /\ s5 = "other" /\ s6 # "fixed" => "late" \in s11
    /\ s6 = "other" => "late" \in s11

LaunchGood == Launch!TypeOK /\ LaunchOrder /\ OtherIsLate /\ Launch!BrowserIsOwned
LaunchInv == part = "launch" => LaunchGood

\* Initially there is no browser.
LEMMA LaunchInit == Init => LaunchInv
<1> SUFFICES ASSUME part = "launch", Launch!Init PROVE LaunchGood BY DEF Init, LaunchInv
<1>0. s1.kind = "remote" BY DEF Launch!Init, Launch!NothingWanted
<1>1. Launch!TypeOK BY DEF Launch!Init, Launch!TypeOK, Launch!NothingWanted, Launch!Capabilities
<1>2. LaunchOrder
  BY <1>0 DEF Launch!Init, LaunchOrder, LaunchPoints, BeforeLaunch, Launching, Owning
<1>3. OtherIsLate BY <1>0 DEF OtherIsLate
<1>4. Launch!BrowserIsOwned
  BY <1>0 DEF Launch!Init, Launch!BrowserIsOwned, Launch!AttachesToOwnBrowser,
              Launch!NothingIsLeftBehind
<1> QED BY <1>1, <1>2, <1>3, <1>4 DEF LaunchGood

\* A launch that fails before there is a process leaves nothing.
LEMMA EarlyFailure ==
  ASSUME LaunchGood, Launch!Fails, UNCHANGED <<s1, s3, s4, s5, s6, s7, s9, s11>>,
         s3 \in {"none", "gone"}
  PROVE  LaunchGood'
<1>1. s2' = "over" /\ s10' = TRUE /\ s8' = {} BY DEF Launch!Fails
<1>2. Launch!TypeOK' BY <1>1 DEF LaunchGood, Launch!TypeOK
<1>3. LaunchOrder'
  BY <1>1 DEF LaunchGood, LaunchOrder, LaunchPoints, BeforeLaunch, Launching, Owning
<1>4. OtherIsLate' BY <1>1 DEF LaunchGood, OtherIsLate, BeforeLaunch, Launching
<1>5. Launch!BrowserIsOwned'
  BY <1>1 DEF LaunchGood, Launch!BrowserIsOwned, Launch!AttachesToOwnBrowser,
              Launch!NothingIsLeftBehind
<1> QED BY <1>2, <1>3, <1>4, <1>5 DEF LaunchGood

\* A step of the launch to a later point, with the session not over.
LEMMA LaunchGoesOn ==
  ASSUME LaunchGood, UNCHANGED <<s1, s4, s9, s10, s11>>,
         s2' \in BeforeLaunch \cup Launching, s1.kind = "desktop",
         s3' \in {"none", "starting", "up", "gone"}, s2' \in BeforeLaunch => s3' = "none",
         s5' \in {"none", "stale", "own", "other"}, s5' = "other" => s5 = "other",
         s6' \in {"unknown", "fixed", "own", "other", "stale"},
         s7' \in {"none", "own", "other", "log"}, s8' \subseteq {"profile", "extensions"},
         s5' = "other" /\ s6' # "fixed" => "late" \in s11, s6' = "other" => "late" \in s11,
         s7' = "other" => s6' = "fixed" \/ "late" \in s11
  PROVE  LaunchGood'
<1>1. Launch!TypeOK' BY DEF LaunchGood, Launch!TypeOK
<1>2. LaunchOrder'
  BY DEF LaunchGood, LaunchOrder, LaunchPoints, BeforeLaunch, Launching, Owning
<1>3. OtherIsLate' BY DEF LaunchGood, OtherIsLate
<1>4. s2' # "over" BY DEF BeforeLaunch, Launching
<1>5. Launch!BrowserIsOwned'
  BY <1>4 DEF Launch!BrowserIsOwned, Launch!AttachesToOwnBrowser, Launch!NothingIsLeftBehind
<1> QED BY <1>1, <1>2, <1>3, <1>5 DEF LaunchGood

\* What the browsers do by themselves.
LEMMA BrowsersKeep ==
  ASSUME LaunchGood, Launch!BrowserUp \/ Launch!BrowserDies \/ Launch!OtherBrowserUp
  PROVE  LaunchGood'
<1>1. CASE Launch!BrowserUp
  <2>1. /\ s3 = "starting" /\ s3' \in {"gone", "up"} /\ s5' \in {s5, "own"}
        /\ UNCHANGED <<s1, s2, s4, s6, s7, s8, s9, s10, s11>>
    BY <1>1 DEF Launch!BrowserUp
  <2>2. Launch!TypeOK' BY <2>1 DEF LaunchGood, Launch!TypeOK
  <2>3. LaunchOrder' BY <2>1 DEF LaunchGood, LaunchOrder
  <2>4. OtherIsLate' BY <2>1 DEF LaunchGood, OtherIsLate
  <2>5. Launch!BrowserIsOwned'
    BY <2>1 DEF LaunchGood, Launch!BrowserIsOwned, Launch!AttachesToOwnBrowser,
                Launch!NothingIsLeftBehind
  <2> QED BY <2>2, <2>3, <2>4, <2>5 DEF LaunchGood
<1>2. CASE Launch!BrowserDies
  <2>1. /\ s3 \in {"starting", "up"} /\ s3' = "gone"
        /\ UNCHANGED <<s1, s2, s4, s5, s6, s7, s8, s9, s10, s11>>
    BY <1>2 DEF Launch!BrowserDies
  <2>2. Launch!TypeOK' BY <2>1 DEF LaunchGood, Launch!TypeOK
  <2>3. LaunchOrder' BY <2>1 DEF LaunchGood, LaunchOrder
  <2>4. OtherIsLate' BY <2>1 DEF LaunchGood, OtherIsLate
  <2>5. Launch!BrowserIsOwned'
    BY <2>1 DEF LaunchGood, Launch!BrowserIsOwned, Launch!AttachesToOwnBrowser,
                Launch!NothingIsLeftBehind
  <2> QED BY <2>2, <2>3, <2>4, <2>5 DEF LaunchGood
<1>3. CASE Launch!OtherBrowserUp
  <2>1. /\ s2 # "over" /\ s4' = "profile" /\ s5' = "other" /\ s11' = s11 \cup {"late"}
        /\ s1.ownProfile /\ UNCHANGED <<s1, s2, s3, s6, s7, s8, s9, s10>>
    BY <1>3 DEF Launch!OtherBrowserUp
  <2>2. Launch!TypeOK' BY <2>1 DEF LaunchGood, Launch!TypeOK
  <2>3. LaunchOrder' BY <2>1 DEF LaunchGood, LaunchOrder
  <2>4. OtherIsLate' BY <2>1 DEF LaunchGood, OtherIsLate
  <2>5. Launch!BrowserIsOwned'
    BY <2>1 DEF LaunchGood, Launch!BrowserIsOwned, Launch!AttachesToOwnBrowser,
                Launch!NothingIsLeftBehind
  <2> QED BY <2>2, <2>3, <2>4, <2>5 DEF LaunchGood
<1> QED BY <1>1, <1>2, <1>3

\* The request, and the port: the file of a browser that used the profile before is deleted,
\* unless the port is given.
LEMMA RequestKeeps ==
  ASSUME LaunchGood, Launch!LaunchChrome
  PROVE  LaunchGood'
<1>1. /\ s2 = "idle" /\ s1' \in Launch!Capabilities /\ s4' \in {"none", "fixed", "profile"}
      /\ s5' \in {"none", "stale", "own", "other"} /\ (s5' = "other" => s1'.ownProfile)
      /\ s2' = CASE s1'.kind = "remote" -> "remote"
                 [] s1'.kind = "replay" -> "replay"
                 [] OTHER -> "desktop"
      /\ UNCHANGED <<s3, s6, s7, s8, s9, s10, s11>>
  BY DEF Launch!LaunchChrome
<1>2. s1'.kind \in {"desktop", "remote", "replay"} BY <1>1 DEF Launch!Capabilities
<1>3. /\ s2' \in {"desktop", "remote", "replay"} /\ s2' = s1'.kind BY <1>1, <1>2
<1>4. s3 = "none" /\ s6 = "unknown" /\ s7 = "none" /\ s8 = {}
  BY <1>1 DEF LaunchGood, LaunchOrder
<1>5. Launch!TypeOK' BY <1>1 DEF LaunchGood, Launch!TypeOK
<1>6. LaunchOrder'
  BY <1>1, <1>3, <1>4 DEF LaunchOrder, LaunchPoints, BeforeLaunch, Launching, Owning
<1>7. OtherIsLate' BY <1>1, <1>3, <1>4 DEF OtherIsLate, BeforeLaunch, Launching
<1>8. Launch!BrowserIsOwned'
  BY <1>1, <1>3, <1>4 DEF Launch!BrowserIsOwned, Launch!AttachesToOwnBrowser,
     Launch!NothingIsLeftBehind
<1> QED BY <1>5, <1>6, <1>7, <1>8 DEF LaunchGood

\* The checks and directories before the launch.
LEMMA PreparationKeeps ==
  ASSUME LaunchGood,
         \/ Launch!CheckPort \/ Launch!PrepareDesktopCommandLine \/ Launch!PrepareUserDataDir
         \/ Launch!ProcessExtensions \/ Launch!LaunchProcess
  PROVE  LaunchGood'
<1>0. Launch!TypeOK /\ LaunchOrder /\ OtherIsLate /\ Launch!BrowserIsOwned BY DEF LaunchGood
<1>1. CASE Launch!CheckPort
  <2>1. /\ s2 = "desktop" /\ UNCHANGED <<s1, s3, s4, s7, s9, s11>>
        /\ s1.kind = "desktop" /\ s3 = "none" /\ s6 = "unknown" /\ s7 = "none"
    BY <1>0, <1>1 DEF Launch!CheckPort, LaunchOrder
  <2>2. CASE Launch!Fails /\ UNCHANGED <<s5, s6>> BY <2>1, <2>2, EarlyFailure
  <2>3. CASE /\ Launch!RemoveOldDevToolsActivePortFile
             /\ s6' = IF s1.port = "fixed" THEN "fixed" ELSE "unknown"
             /\ s2' = "prepare" /\ UNCHANGED <<s8, s10>>
    <3>1. s5' \in {"none", s5} /\ (s5' = "other" => s1.port = "fixed")
      BY <1>0, <2>3 DEF Launch!RemoveOldDevToolsActivePortFile, LaunchOrder
    <3>2. s5' \in {"none", "stale", "own", "other"} BY <1>0, <3>1 DEF Launch!TypeOK
    <3>3. s8' \subseteq {"profile", "extensions"} BY <1>0, <2>3 DEF Launch!TypeOK
    <3>4. s2' \in BeforeLaunch \cup Launching BY <2>3 DEF BeforeLaunch
    <3> QED BY <2>1, <2>3, <3>1, <3>2, <3>3, <3>4, LaunchGoesOn
  <2> QED BY <1>1, <2>2, <2>3 DEF Launch!CheckPort
<1>2. ASSUME s2 \in BeforeLaunch, UNCHANGED <<s1, s4, s5, s6, s7, s9, s11>>,
             \/ Launch!Fails /\ s3' = s3
             \/ /\ s2' \in BeforeLaunch \cup Launching /\ s10' = s10
                /\ s3' \in {"none", "starting"} /\ (s2' \in BeforeLaunch => s3' = s3)
                /\ s8' \subseteq {"profile", "extensions"}
      PROVE  LaunchGood'
  <2>1. s3 = "none" /\ s1.kind = "desktop" BY <1>0, <1>2 DEF LaunchOrder
  <2>2. CASE Launch!Fails /\ s3' = s3 BY <1>2, <2>1, <2>2, EarlyFailure
  <2>3. CASE /\ s2' \in BeforeLaunch \cup Launching /\ s10' = s10
             /\ s3' \in {"none", "starting"} /\ (s2' \in BeforeLaunch => s3' = s3)
             /\ s8' \subseteq {"profile", "extensions"}
    <3>1. /\ s5' \in {"none", "stale", "own", "other"}
          /\ s6' \in {"unknown", "fixed", "own", "other", "stale"}
          /\ s7' \in {"none", "own", "other", "log"}
      BY <1>0, <1>2 DEF Launch!TypeOK
    <3>2. /\ s5' = "other" /\ s6' # "fixed" => "late" \in s11
          /\ s6' = "other" => "late" \in s11
      BY <1>0, <1>2, <2>1 DEF OtherIsLate
    <3>3. s7' = "other" => s6' = "fixed" \/ "late" \in s11
      BY <1>0, <1>2, <2>1 DEF Launch!BrowserIsOwned, Launch!AttachesToOwnBrowser
    <3> QED BY <1>2, <2>1, <2>3, <3>1, <3>2, <3>3, LaunchGoesOn
  <2> QED BY <1>2, <2>2, <2>3
<1>3. CASE Launch!PrepareDesktopCommandLine
  <2>1. s2 \in BeforeLaunch /\ s3 = "none"
    BY <1>0, <1>3 DEF Launch!PrepareDesktopCommandLine, BeforeLaunch, LaunchOrder
  <2>2. UNCHANGED <<s1, s3, s4, s5, s6, s7, s9, s11>> BY <1>3 DEF Launch!PrepareDesktopCommandLine
  <2>3. CASE Launch!Fails BY <1>2, <2>1, <2>2, <2>3
  <2>4. CASE s2' = "profile" /\ s10' = s10 /\ s8' \in {{}, {"profile"}}
    <3>1. s2' \in BeforeLaunch BY <2>4 DEF BeforeLaunch
    <3> QED BY <1>2, <2>1, <2>2, <2>4, <3>1
  <2> QED BY <1>3, <2>3, <2>4 DEF Launch!PrepareDesktopCommandLine
<1>4. CASE Launch!PrepareUserDataDir
  <2>1. s2 \in BeforeLaunch /\ s3 = "none"
    BY <1>0, <1>4 DEF Launch!PrepareUserDataDir, BeforeLaunch, LaunchOrder
  <2>2. s8 \subseteq {"profile", "extensions"} BY <1>0 DEF Launch!TypeOK
  <2>3. UNCHANGED <<s1, s3, s4, s5, s6, s7, s9, s11>> BY <1>4 DEF Launch!PrepareUserDataDir
  <2>4. CASE Launch!Fails BY <1>2, <2>1, <2>3, <2>4
  <2>5. CASE s2' = "extensions" /\ UNCHANGED <<s8, s10>>
    <3>1. s2' \in BeforeLaunch BY <2>5 DEF BeforeLaunch
    <3> QED BY <1>2, <2>1, <2>2, <2>3, <2>5, <3>1
  <2> QED BY <1>4, <2>4, <2>5 DEF Launch!PrepareUserDataDir
<1>5. CASE Launch!ProcessExtensions
  <2>1. s2 \in BeforeLaunch /\ s3 = "none"
    BY <1>0, <1>5 DEF Launch!ProcessExtensions, BeforeLaunch, LaunchOrder
  <2>2. s8 \subseteq {"profile", "extensions"} BY <1>0 DEF Launch!TypeOK
  <2>3. UNCHANGED <<s1, s3, s4, s5, s6, s7, s9, s11>> BY <1>5 DEF Launch!ProcessExtensions
  <2>4. CASE s1.extension = "bad"
    BY <1>2, <1>5, <2>1, <2>3, <2>4 DEF Launch!ProcessExtensions
  <2>5. CASE s1.extension # "bad"
    <3>1. s2' = "launch" /\ s8' = s8 \cup {"extensions"} /\ s10' = s10
      BY <1>5, <2>5 DEF Launch!ProcessExtensions
    <3>2. s2' \in BeforeLaunch BY <3>1 DEF BeforeLaunch
    <3> QED BY <1>2, <2>1, <2>2, <2>3, <3>1, <3>2
  <2> QED BY <2>4, <2>5
<1>6. CASE Launch!LaunchProcess
  <2>1. s2 \in BeforeLaunch /\ s3 = "none"
    BY <1>0, <1>6 DEF Launch!LaunchProcess, BeforeLaunch, LaunchOrder
  <2>2. s8 \subseteq {"profile", "extensions"} BY <1>0 DEF Launch!TypeOK
  <2>3. UNCHANGED <<s1, s4, s5, s6, s7, s9, s11>> BY <1>6 DEF Launch!LaunchProcess
  <2>4. CASE Launch!Fails /\ s3' = s3 BY <1>2, <2>1, <2>3, <2>4
  <2>5. CASE s3' = "starting" /\ s2' \in {"poll", "pipe"} /\ UNCHANGED <<s8, s10>>
    <3>1. s2' \in Launching /\ s2' \notin BeforeLaunch BY <2>5 DEF Launching, BeforeLaunch
    <3> QED BY <1>2, <2>1, <2>2, <2>3, <2>5, <3>1
  <2> QED BY <1>6, <2>4, <2>5 DEF Launch!LaunchProcess
<1> QED BY <1>1, <1>3, <1>4, <1>5, <1>6

\* Whose port is read from the file, and who answers there.
LEMMA AnswerFacts ==
  ASSUME LaunchGood, s1.kind = "desktop", s2 \in Launching
  PROVE  /\ Launch!PortNow \in {"unknown", "fixed", "own", "other", "stale"}
         /\ Launch!PortNow = "other" => "late" \in s11
         /\ s6 = "fixed" => Launch!PortNow = "fixed"
         /\ Launch!Answering(s6) \in {"none", "own", "other"}
         /\ Launch!Answering(s6) = "other" => s6 = "fixed" \/ "late" \in s11
<1>0. Launch!TypeOK /\ OtherIsLate BY DEF LaunchGood
<1>1. Launch!PortNow \in {"unknown", "fixed", "own", "other", "stale"}
  BY <1>0 DEF Launch!TypeOK, Launch!PortNow
<1>2. Launch!PortNow = "other" => "late" \in s11 BY <1>0 DEF OtherIsLate, Launch!PortNow
<1>3. s6 = "fixed" => Launch!PortNow = "fixed" BY DEF Launch!PortNow
<1>4. Launch!Answering(s6) \in {"none", "own", "other"} BY DEF Launch!Answering
<1>5. Launch!Answering(s6) = "other" => s6 \in {"fixed", "other"} BY DEF Launch!Answering
<1>6. s6 = "other" => "late" \in s11 BY <1>0 DEF OtherIsLate
<1> QED BY <1>1, <1>2, <1>3, <1>4, <1>5, <1>6

\* The wait for the browser and the connection to it.
LEMMA ConnectKeeps ==
  ASSUME LaunchGood,
         \/ Launch!PollBrowser \/ Launch!CreateBrowserwideDevToolsClientAndConnect
         \/ Launch!ConnectPipe
  PROVE  LaunchGood'
<1>0. Launch!TypeOK /\ LaunchOrder /\ OtherIsLate /\ Launch!BrowserIsOwned BY DEF LaunchGood
<1>1. s2 \in Launching
  BY DEF Launch!PollBrowser, Launch!CreateBrowserwideDevToolsClientAndConnect,
         Launch!ConnectPipe, Launching
<1>2. s1.kind = "desktop" BY <1>0, <1>1 DEF LaunchOrder
<1>3. /\ s5 \in {"none", "stale", "own", "other"} /\ s3 \in {"none", "starting", "up", "gone"}
      /\ s6 \in {"unknown", "fixed", "own", "other", "stale"}
      /\ s7 \in {"none", "own", "other", "log"} /\ s8 \subseteq {"profile", "extensions"}
  BY <1>0 DEF Launch!TypeOK
<1>4. /\ s5 = "other" /\ s6 # "fixed" => "late" \in s11
      /\ s6 = "other" => "late" \in s11
  BY <1>0, <1>1, <1>2 DEF OtherIsLate
<1>5. s7 = "other" => s6 = "fixed" \/ "late" \in s11
  BY <1>0, <1>2 DEF Launch!BrowserIsOwned, Launch!AttachesToOwnBrowser
<1>6. CASE Launch!PollBrowser
  <2>1. /\ s6' = Launch!PortNow /\ UNCHANGED <<s1, s3, s4, s5, s7, s8, s9, s10, s11>>
        /\ s2' \in {"connect", "wrongVersion", "crashed", "poll", "timeout"}
    BY <1>6 DEF Launch!PollBrowser, Launch!WaitForDevToolsAndCheckVersion
  <2>2. s2' \in Launching /\ s2' \notin BeforeLaunch BY <2>1 DEF Launching, BeforeLaunch
  <2>3. /\ s6' \in {"unknown", "fixed", "own", "other", "stale"}
        /\ s6' = "other" => "late" \in s11
        /\ s6 = "fixed" => s6' = "fixed"
    BY <1>1, <1>2, <2>1, AnswerFacts
  <2> QED BY <1>2, <1>3, <1>4, <1>5, <2>1, <2>2, <2>3, LaunchGoesOn
<1>7. CASE Launch!CreateBrowserwideDevToolsClientAndConnect
  <2>1. /\ s7' \in {Launch!Answering(s6), s7} /\ UNCHANGED <<s1, s3, s4, s5, s6, s8, s9, s10, s11>>
        /\ s2' \in {"created", "notConnected"}
    BY <1>7 DEF Launch!CreateBrowserwideDevToolsClientAndConnect
  <2>2. s2' \in Launching /\ s2' \notin BeforeLaunch BY <2>1 DEF Launching, BeforeLaunch
  <2>3. /\ s7' \in {"none", "own", "other", "log"}
        /\ s7' = "other" => s6' = "fixed" \/ "late" \in s11
    BY <1>1, <1>2, <1>3, <1>5, <2>1, AnswerFacts
  <2> QED BY <1>2, <1>3, <1>4, <2>1, <2>2, <2>3, LaunchGoesOn
<1>8. CASE Launch!ConnectPipe
  <2>1. /\ s7' \in {"own", s7} /\ UNCHANGED <<s1, s3, s4, s5, s6, s8, s9, s10, s11>>
        /\ s2' \in {"created", "timeout", "wrongVersion"}
    BY <1>8 DEF Launch!ConnectPipe
  <2>2. s2' \in Launching /\ s2' \notin BeforeLaunch BY <2>1 DEF Launching, BeforeLaunch
  <2>3. /\ s7' \in {"none", "own", "other", "log"}
        /\ s7' = "other" => s6' = "fixed" \/ "late" \in s11
    BY <1>3, <1>5, <2>1
  <2> QED BY <1>2, <1>3, <1>4, <2>1, <2>2, <2>3, LaunchGoesOn
<1> QED BY <1>6, <1>7, <1>8

\* A step that ends the session, if it leaves nothing behind.
LEMMA SessionEnds ==
  ASSUME LaunchGood, s2' = "over", s10' = TRUE, UNCHANGED <<s1, s5, s6, s7>>,
         s4' \in {s4, "none"}, s3' \in {s3, "gone"}, s8' \in {s8, {}}, s9' \in {s9, "quit"},
         s11' \in {s11, s11 \cup {"kill"}, s11 \cup {"extension"}},
         s1.kind # "desktop" => s3' = s3, Launch!NothingIsLeftBehind'
  PROVE  LaunchGood'
<1>0. Launch!TypeOK /\ LaunchOrder /\ OtherIsLate /\ Launch!BrowserIsOwned BY DEF LaunchGood
<1>1. Launch!TypeOK' BY <1>0 DEF Launch!TypeOK
<1>2. LaunchOrder' BY <1>0 DEF LaunchOrder, LaunchPoints, BeforeLaunch, Launching, Owning
<1>3. OtherIsLate' BY <1>0 DEF OtherIsLate, BeforeLaunch, Launching
<1>4. Launch!AttachesToOwnBrowser'
  BY <1>0 DEF Launch!BrowserIsOwned, Launch!AttachesToOwnBrowser
<1> QED BY <1>1, <1>2, <1>3, <1>4 DEF LaunchGood, Launch!BrowserIsOwned

\* A step to a point at which the session owns the browser.
LEMMA SessionOwns ==
  ASSUME LaunchGood, s2' \in Owning, s9' = "open", UNCHANGED <<s1, s3, s4, s6, s8, s10, s11>>,
         s5' \in {s5, "none"}, s7' \in {"none", "own", "other", "log"},
         s1.kind = "desktop" => s7' = s7
  PROVE  LaunchGood'
<1>0. Launch!TypeOK /\ LaunchOrder /\ OtherIsLate /\ Launch!BrowserIsOwned BY DEF LaunchGood
<1>1. Launch!TypeOK' BY <1>0 DEF Launch!TypeOK
<1>2. s2' \notin {"idle", "desktop", "remote", "replay", "over"} \cup BeforeLaunch \cup Launching
  BY DEF Owning, BeforeLaunch, Launching
<1>3. LaunchOrder' BY <1>0, <1>2 DEF LaunchOrder, LaunchPoints
<1>4. OtherIsLate' BY <1>0, <1>2 DEF OtherIsLate
<1>5. Launch!AttachesToOwnBrowser'
  BY <1>0 DEF Launch!BrowserIsOwned, Launch!AttachesToOwnBrowser
<1>6. Launch!NothingIsLeftBehind' BY <1>2 DEF Launch!NothingIsLeftBehind
<1> QED BY <1>1, <1>3, <1>4, <1>5, <1>6 DEF LaunchGood, Launch!BrowserIsOwned

\* The end of a launch: the process is killed, or a browser is there.
LEMMA LaunchEndKeeps ==
  ASSUME LaunchGood,
         \/ Launch!LaunchFails \/ Launch!WaitForExtensionPageToLoad
         \/ Launch!LaunchRemoteChromeSession \/ Launch!LaunchReplayChrome
  PROVE  LaunchGood'
<1>0. Launch!TypeOK /\ LaunchOrder /\ OtherIsLate /\ Launch!BrowserIsOwned BY DEF LaunchGood
<1>1. CASE Launch!LaunchFails
  <2>1. s2 \in Launching /\ UNCHANGED <<s1, s4, s5, s6, s7, s9>>
    BY <1>1 DEF Launch!LaunchFails, Launching
  <2>2. s1.kind = "desktop" BY <1>0, <2>1 DEF LaunchOrder
  <2>3. /\ s2' = "over" /\ s10' = TRUE /\ s8' = {}
        /\ \/ s3' = "gone" /\ s11' = s11
           \/ s3' = s3 /\ s11' = s11 \cup {"kill"}
    BY <1>1 DEF Launch!LaunchFails, Launch!KillLaunched, Launch!Fails
  <2>4. Launch!NothingIsLeftBehind' BY <2>3 DEF Launch!NothingIsLeftBehind
  <2> QED BY <2>1, <2>2, <2>3, <2>4, SessionEnds
<1>2. CASE Launch!WaitForExtensionPageToLoad
  <2>1. s2 = "created" /\ UNCHANGED <<s1, s3, s4, s5, s6, s7, s8>>
    BY <1>2 DEF Launch!WaitForExtensionPageToLoad
  <2>2. CASE s9' = "open" /\ s2' = "setUp" /\ UNCHANGED <<s10, s11>>
    <3>1. s2' \in Owning /\ s7' \in {"none", "own", "other", "log"}
      BY <1>0, <2>1, <2>2 DEF Owning, Launch!TypeOK
    <3> QED BY <2>1, <2>2, <3>1, SessionOwns
  <2>3. CASE s2' = "over" /\ s10' = TRUE /\ s11' = s11 \cup {"extension"} /\ s9' = s9
    <3>1. Launch!NothingIsLeftBehind' BY <2>3 DEF Launch!NothingIsLeftBehind
    <3> QED BY <2>1, <2>3, <3>1, SessionEnds
  <2> QED BY <1>2, <2>2, <2>3 DEF Launch!WaitForExtensionPageToLoad
<1>3. CASE Launch!LaunchRemoteChromeSession
  <2>1. s2 = "remote" /\ UNCHANGED <<s1, s3, s4, s5, s6, s11>>
    BY <1>3 DEF Launch!LaunchRemoteChromeSession
  <2>2. s1.kind = "remote" /\ s3 = "none" BY <1>0, <2>1 DEF LaunchOrder
  <2>3. CASE Launch!Fails /\ UNCHANGED <<s7, s9>> BY <2>1, <2>2, <2>3, EarlyFailure
  <2>4. CASE s7' = "other" /\ s9' = "open" /\ s2' = "setUp" /\ UNCHANGED <<s8, s10>>
    <3>1. s2' \in Owning BY <2>4 DEF Owning
    <3> QED BY <2>1, <2>2, <2>4, <3>1, SessionOwns
  <2> QED BY <1>3, <2>3, <2>4 DEF Launch!LaunchRemoteChromeSession
<1>4. CASE Launch!LaunchReplayChrome
  <2>1. s2 = "replay" /\ UNCHANGED <<s1, s3, s4, s6, s11>>
    BY <1>4 DEF Launch!LaunchReplayChrome
  <2>2. s1.kind = "replay" /\ s3 = "none" BY <1>0, <2>1 DEF LaunchOrder
  <2>3. CASE Launch!Fails /\ UNCHANGED <<s5, s7, s9>> BY <2>1, <2>2, <2>3, EarlyFailure
  <2>4. CASE /\ s5' \in {s5, "none"} /\ s7' = "log" /\ s9' = "open" /\ s2' = "setUp"
             /\ UNCHANGED <<s8, s10>>
    <3>1. s2' \in Owning BY <2>4 DEF Owning
    <3> QED BY <2>1, <2>2, <2>4, <3>1, SessionOwns
  <2> QED BY <1>4, <2>3, <2>4 DEF Launch!LaunchReplayChrome
<1> QED BY <1>1, <1>2, <1>3, <1>4

\* ChromeImpl::Quit takes down what the session has launched, or the kill has failed.
LEMMA QuitKeeps ==
  ASSUME LaunchGood, s2 \in Owning, Launch!EndSession, Launch!Quit, Launch!EndUnchanged
  PROVE  LaunchGood'
<1>0. Launch!TypeOK /\ LaunchOrder BY DEF LaunchGood
<1>1. s2' = "over" /\ s10' = TRUE /\ UNCHANGED <<s1, s5, s6, s7>>
  BY DEF Launch!EndSession, Launch!EndUnchanged
<1>2. CASE s1.kind # "desktop"
  <2>1. s9' = "quit" /\ UNCHANGED <<s3, s4, s8, s11>> BY <1>2 DEF Launch!Quit
  <2>2. s3 = "none" /\ s8 = {} BY <1>0, <1>2 DEF LaunchOrder
  <2>3. Launch!NothingIsLeftBehind' BY <2>1, <2>2 DEF Launch!NothingIsLeftBehind
  <2> QED BY <1>1, <2>1, <2>3, SessionEnds
<1>3. CASE s1.kind = "desktop"
  <2>1. \/ s3' = "gone" /\ s9' = "quit" /\ s8' = {} /\ s11' = s11 /\ s4' \in {s4, "none"}
        \/ s11' = s11 \cup {"kill"} /\ UNCHANGED <<s3, s4, s8, s9>>
    BY <1>3 DEF Launch!Quit
  <2>2. Launch!NothingIsLeftBehind' BY <2>1 DEF Launch!NothingIsLeftBehind
  <2> QED BY <1>1, <1>3, <2>1, <2>2, SessionEnds
<1> QED BY <1>2, <1>3

\* A browser that is to be detached is let go, and still open.
LEMMA DetachKeeps ==
  ASSUME LaunchGood, s2 \in Owning, s1.detach, Launch!EndSession, Launch!Hang,
         Launch!EndUnchanged
  PROVE  LaunchGood'
<1>1. s2' = "over" /\ s10' = TRUE /\ UNCHANGED <<s1, s3, s4, s5, s6, s7, s8, s9, s11>>
  BY DEF Launch!EndSession, Launch!EndUnchanged, Launch!Hang
<1>2. s9 = "open" BY DEF LaunchGood, LaunchOrder
<1>3. Launch!NothingIsLeftBehind' BY <1>1, <1>2 DEF Launch!NothingIsLeftBehind
<1> QED BY <1>1, <1>3, SessionEnds

\* The steps of New Session after the launch.
LEMMA SetUpStepKeeps ==
  ASSUME LaunchGood, NEW from \in {"setUp", "firstTab", "headless", "mapper"},
         Launch!SetUpStep(from)
  PROVE  LaunchGood'
<1>0. s2 = from /\ s2 \in Owning BY DEF Launch!SetUpStep, Owning
<1>1. CASE Launch!EndSession /\ Launch!Quit
  BY <1>0, <1>1, QuitKeeps DEF Launch!SetUpStep
<1>2. CASE s2' \in Owning /\ UNCHANGED <<s3, s4, s8, s9, s10, s11>>
  <2>1. UNCHANGED <<s1, s5, s6, s7>> BY DEF Launch!SetUpStep, Launch!EndUnchanged
  <2>2. s9 = "open" /\ s7 \in {"none", "own", "other", "log"}
    BY <1>0 DEF LaunchGood, LaunchOrder, Launch!TypeOK
  <2> QED BY <1>2, <2>1, <2>2, SessionOwns
<1> QED BY <1>1, <1>2 DEF Launch!SetUpStep, Owning

\* Every step keeps the invariant.
LEMMA LaunchStepInv == ASSUME LaunchInv, [Next]_vars PROVE LaunchInv'
<1> SUFFICES ASSUME part = "launch" PROVE LaunchGood' BY PartStays DEF LaunchInv
<1>0. LaunchGood BY DEF LaunchInv
<1>1. CASE UNCHANGED Launch!vars
  <2>1. UNCHANGED <<s1, s2, s3, s4, s5, s6, s7, s8, s9, s10, s11>> BY <1>1 DEF Launch!vars
  <2> QED BY <1>0, <2>1 DEF LaunchGood, Launch!TypeOK, LaunchOrder, OtherIsLate,
             Launch!BrowserIsOwned, Launch!AttachesToOwnBrowser, Launch!NothingIsLeftBehind
<1>2. CASE \/ Launch!SetAcceptInsecureCerts \/ Launch!GetWebViewIdForFirstTab
           \/ Launch!ConfigureHeadlessSession \/ Launch!StartBidiMapper
  BY <1>0, <1>2, SetUpStepKeeps
     DEF Launch!SetAcceptInsecureCerts, Launch!GetWebViewIdForFirstTab,
         Launch!ConfigureHeadlessSession, Launch!StartBidiMapper
<1>3. ASSUME s2 = "ready", Launch!EndSession, Launch!EndUnchanged,
             Launch!Quit \/ (s1.detach /\ Launch!Hang)
      PROVE  LaunchGood'
  <2>1. s2 \in Owning BY <1>3 DEF Owning
  <2> QED BY <1>0, <1>3, <2>1, QuitKeeps, DetachKeeps
<1>4. CASE \E a \in BOOLEAN : Launch!ExecuteQuit(a) BY <1>3, <1>4 DEF Launch!ExecuteQuit
<1>5. CASE Launch!ExecuteBidiSessionEnd BY <1>3, <1>5 DEF Launch!ExecuteBidiSessionEnd
<1>6. CASE Launch!SessionLost BY <1>3, <1>6 DEF Launch!SessionLost
<1> QED
  BY <1>0, <1>1, <1>2, <1>4, <1>5, <1>6, LaunchSteps, BrowsersKeep, RequestKeeps,
     PreparationKeeps, ConnectKeeps, LaunchEndKeeps DEF Launch!Next

\* The session talks to the browser it launched, whatever browser uses the profile or the port,
\* and a session that is over leaves neither a process nor a directory, save in the cases the
\* property names (chrome_launcher.cc, session_commands.cc, chrome_desktop_impl.cc).
THEOREM BrowserOwned == Spec => []BrowserIsOwned
<1>1. LaunchInv => BrowserIsOwned BY DEF LaunchInv, LaunchGood, BrowserIsOwned
<1> QED BY <1>1, LaunchInit, LaunchStepInv, PTL DEF Spec
-----------------------------------------------------------------------------
\* The steps of Windows.
LEMMA WindowsSteps ==
  ASSUME part = "windows", [Next]_vars
  PROVE  Windows!Next \/ UNCHANGED Windows!vars
<1>1. CASE Next
  BY <1>1 DEF Next, RoutingStep, ServerStep, ViewsStep, InputStep, NavStep, ElementsStep,
     CapsStep, LaunchStep, DevicesStep, WindowsStep, OverridesStep, CookiesStep, FedCmStep,
     LogsStep, ReplayStep
<1>2. CASE UNCHANGED vars BY <1>2 DEF vars, Windows!vars
<1> QED BY <1>1, <1>2

WindowStates == [state : Windows!States, rect : Windows!Rects]

\* The points of a command on the bounds of a window: before it is known whether the window is
\* normal, then for both kinds, then for those that ask for a state.
BoundsPoints == {"normalize", "awaitNormal", "set", "awaitMatch"}
StatePoints == {"check", "simulate", "retry", "checkRetry", "checkFullscreen"}
ClosePoints == {"close", "closeTarget", "quit"}
WindowPoints ==
  {"idle", "getWindow", "handles", "newWindow", "switch", "answered"}
  \cup BoundsPoints \cup StatePoints \cup ClosePoints
WindowCalls ==
  [name : {"none", "state", "getRect", "rect", "close", "handles", "newWindow", "switch"},
   step : WindowPoints, state : Windows!States \cup {"none"}, rect : {"none", "wanted"},
   window : Windows!States \cup {"none"}, matched : Windows!Rects \cup {"none"},
   answer : {"none", "ok", "error"}, how : {"none", "unimplemented", "simulated"},
   isLast : BOOLEAN, counted : SUBSET (0..2), listed : SUBSET (0..2), target : {1, 2}]

WindowsTyped ==
  /\ s1 \in [0..2 -> {"none", "open", "swapping", "closed"}] /\ s2 \subseteq 0..2
  /\ s3 \in {1, 2} /\ s4 \in {"unset", "no", "yes"} /\ s5 \in BOOLEAN
  /\ s6 \in WindowStates /\ s7 \in WindowStates \cup {Windows!NoAnimation}
  /\ s8 \in WindowCalls

\* Which command a point belongs to.
WindowOrder(c) ==
  /\ c.step = "idle" => c.name = "none"
  /\ c.step = "getWindow" => c.name \in {"state", "rect", "getRect"}
  /\ c.step \in BoundsPoints => c.name \in {"state", "rect"}
  /\ c.step \in StatePoints => c.name = "state"
  /\ c.step \in ClosePoints => c.name = "close"
  /\ c.step = "handles" => c.name \in {"close", "handles"}
  /\ c.step \in {"newWindow", "switch"} => c.name = c.step
  /\ c.name = "rect" => c.state = "none"
  /\ c.name = "state" => c.state # "none"

\* The states that the window passed: the present one is among them, and "normal" is before the
\* bounds are set.
StatesPassed ==
  /\ s8.name \in {"state", "rect"} => s6.state \in s9
  /\ s8.name = "rect" /\ s8.step \in {"set", "awaitMatch"} => "normal" \in s9
  /\ s8.step = "checkFullscreen" => s8.state = "fullscreen"
  /\ s8.step = "simulate" => s8.state = "maximized" /\ "normal" \in s9

\* The windows that Close counted: the views do not change until it closes one of them, and the
\* tab of the mapper is always there.
WindowsCounted ==
  /\ s4 = "yes" => s1[0] = "open"
  /\ s4 = "unset" => s8.step = "idle"
  /\ s5 => s8.step \in {"idle", "answered"}
  /\ s8.step = "closeTarget" =>
       /\ s2 = s8.counted /\ (s4 = "yes" => 0 \in s8.counted)
       /\ s8.isLast => IF s4 = "yes" THEN Cardinality(s8.counted) <= 2
                       ELSE Cardinality(s8.counted) = 1
  /\ s8.step = "quit" => s8.counted \subseteq {0, s3}

WindowsGood ==
  WindowsTyped /\ WindowOrder(s8) /\ StatesPassed /\ WindowsCounted
  /\ Windows!StateIsReached /\ Windows!LastCloseEnds
WindowsInv == part = "windows" => WindowsGood

\* What becomes of a call that goes on.
LEMMA CallGoesOn ==
  ASSUME s8 \in WindowCalls, NEW step \in WindowPoints, NEW w \in Windows!States \cup {"none"},
         s8' = [s8 EXCEPT !.step = step, !.window = w]
  PROVE  /\ s8' \in WindowCalls /\ s8'.step = step /\ s8'.answer = s8.answer
         /\ s8'.name = s8.name /\ s8'.state = s8.state
BY DEF WindowCalls

\* What becomes of a call that is answered.
LEMMA CallIsAnswered ==
  ASSUME s8 \in WindowCalls, NEW a \in {"ok", "error"},
         s8' = [s8 EXCEPT !.step = "answered", !.answer = a]
  PROVE  /\ s8' \in WindowCalls /\ s8'.step = "answered" /\ s8'.answer = a
         /\ s8'.name = s8.name /\ s8'.state = s8.state
         /\ s8'.counted = s8.counted /\ s8'.listed = s8.listed
BY DEF WindowCalls, WindowPoints

\* The same for an answer OK of a given kind.
LEMMA CallAgrees ==
  ASSUME s8 \in WindowCalls, NEW h \in {"unimplemented", "simulated"}, Windows!Agree(h)
  PROVE  /\ s8' \in WindowCalls /\ s8'.step = "answered" /\ s8'.answer = "ok" /\ s8'.how = h
         /\ s8'.name = s8.name /\ s8'.state = s8.state
BY DEF Windows!Agree, WindowCalls, WindowPoints

\* Initially nothing is asked for.
LEMMA NoWindowCallFacts ==
  /\ Windows!NoWindowCall \in WindowCalls
  /\ Windows!NoWindowCall.step = "idle" /\ Windows!NoWindowCall.name = "none"
BY DEF Windows!NoWindowCall, WindowCalls, WindowPoints

\* After a step that leaves no call under way all but the types holds.
LEMMA IdleWindows ==
  ASSUME WindowsTyped', s8'.step = "idle", s8'.name = "none", s4' = "yes" => s1'[0] = "open"
  PROVE  WindowsGood'
<1>1. WindowOrder(s8)' BY DEF WindowOrder, BoundsPoints, StatePoints, ClosePoints
<1>2. StatesPassed' BY DEF StatesPassed
<1>3. WindowsCounted' BY DEF WindowsCounted
<1>4. Windows!StateIsReached' /\ Windows!LastCloseEnds'
  BY DEF Windows!StateIsReached, Windows!LastCloseEnds
<1> QED BY <1>1, <1>2, <1>3, <1>4 DEF WindowsGood

\* Initially one window is open.
LEMMA WindowsInit == Init => WindowsInv
<1> SUFFICES ASSUME part = "windows", Windows!Init PROVE WindowsGood BY DEF Init, WindowsInv
<1>1. /\ s1 = [t \in 0..2 |-> IF t = 1 THEN "open" ELSE "none"] /\ s2 = {1} /\ s3 = 1
      /\ s4 = "unset" /\ s5 = FALSE /\ s6 = [state |-> "normal", rect |-> "initial"]
      /\ s7 = Windows!NoAnimation /\ s8 = Windows!NoWindowCall
  BY DEF Windows!Init, Windows!Tabs
<1>2. s6 \in WindowStates BY <1>1 DEF WindowStates, Windows!States, Windows!Rects
<1>3. s1 \in [0..2 -> {"none", "open", "swapping", "closed"}] BY <1>1
<1>4. s2 \subseteq 0..2 /\ s3 \in {1, 2} BY <1>1
<1>5. s4 \in {"unset", "no", "yes"} /\ s7 \in WindowStates \cup {Windows!NoAnimation} BY <1>1
<1>6. s5 \in BOOLEAN BY <1>1
<1>7. WindowsTyped BY <1>1, <1>2, <1>3, <1>4, <1>5, <1>6, NoWindowCallFacts, Zenon DEF WindowsTyped
<1>8. s8.step = "idle" /\ s8.name = "none" /\ s4 # "yes" BY <1>1, NoWindowCallFacts
<1>9. WindowOrder(s8) /\ StatesPassed /\ WindowsCounted
  BY <1>8 DEF WindowOrder, BoundsPoints, StatePoints, ClosePoints, StatesPassed, WindowsCounted
<1>10. Windows!StateIsReached /\ Windows!LastCloseEnds
  BY <1>8 DEF Windows!StateIsReached, Windows!LastCloseEnds
<1> QED BY <1>7, <1>9, <1>10 DEF WindowsGood

\* A step on the bounds of the window.
LEMMA BoundsKeep ==
  ASSUME WindowsGood, Windows!KeepTabs,
         s8.step \in {"getWindow"} \cup BoundsPoints \cup StatePoints,
         s6' \in WindowStates, s7' \in WindowStates \cup {Windows!NoAnimation},
         s8' \in WindowCalls, s8'.name = s8.name, s8'.state = s8.state,
         s8'.step \in BoundsPoints \cup StatePoints \cup {"answered"},
         s8'.step # "answered" => s8.name # "getRect",
         s8'.step \in StatePoints => s8.state # "none",
         s9 \subseteq s9', s6'.state \in s9' \/ (s6' = s6 /\ s9' = s9),
         s8'.step \in {"set", "awaitMatch"} =>
           s8.step \in {"set", "awaitMatch"} \/ "normal" \in s9',
         s8'.step = "checkFullscreen" => s8.state = "fullscreen",
         s8'.step = "simulate" => s8.state = "maximized" /\ "normal" \in s9',
         s8'.step = "answered" /\ s8'.answer = "ok" /\ s8'.how # "unimplemented" =>
           /\ s8.name = "state" =>
                \/ s8.state \in s9'
                \/ s8'.how = "simulated" /\ s8.state = "maximized" /\ "normal" \in s9'
           /\ s8.name = "rect" => "normal" \in s9'
  PROVE  WindowsGood'
<1>0. WindowsTyped /\ WindowOrder(s8) /\ StatesPassed /\ WindowsCounted BY DEF WindowsGood
<1>1. WindowsTyped' BY <1>0 DEF WindowsTyped, Windows!KeepTabs
<1>2. s8.name \in {"state", "rect", "getRect"} BY <1>0 DEF WindowOrder
<1>3. WindowOrder(s8)'
  BY <1>0, <1>2 DEF WindowOrder, BoundsPoints, StatePoints, ClosePoints
<1>4. StatesPassed' BY <1>0, <1>2 DEF StatesPassed, BoundsPoints, StatePoints
<1>5. WindowsCounted'
  BY <1>0 DEF WindowsCounted, Windows!KeepTabs, BoundsPoints, StatePoints, ClosePoints
<1>6. Windows!StateIsReached' BY DEF Windows!StateIsReached
<1>7. Windows!LastCloseEnds' BY <1>2 DEF Windows!LastCloseEnds
<1> QED BY <1>1, <1>3, <1>4, <1>5, <1>6, <1>7 DEF WindowsGood

\* Browser.setWindowBounds: the command is answered, or goes on, and the window takes the bounds
\* now, later or never.
LEMMA SendBoundsFacts ==
  ASSUME WindowsTyped, NEW t \in WindowStates, NEW A, Windows!SendBounds(t, A)
  PROVE  /\ s6' \in WindowStates /\ s7' \in WindowStates \cup {Windows!NoAnimation}
         /\ s9 \subseteq s9'
         /\ s6'.state \in s9' \/ (s6' = s6 /\ s9' = s9)
         /\ Windows!Answer("error") \/ A
<1>1. CASE UNCHANGED <<s6, s7, s9>>
  BY <1>1 DEF WindowsTyped, Windows!SendBounds
<1>2. CASE A /\ s6' = t /\ s7' = Windows!NoAnimation /\ s9' = s9 \cup {t.state} BY <1>2
<1>3. CASE A /\ s7' = t /\ UNCHANGED <<s6, s9>> BY <1>3 DEF WindowsTyped
<1> QED BY <1>1, <1>2, <1>3 DEF Windows!SendBounds

\* The window is read, and looked for.
LEMMA ReadFacts ==
  ASSUME WindowsGood, s8.step \in {"getWindow"} \cup BoundsPoints \cup StatePoints
  PROVE  /\ Windows!Read = s6.state /\ s6.state \in Windows!States
         /\ s8.name \in {"state", "rect"} => s6.state \in s9
         /\ s8.name \in {"state", "rect", "getRect"}
         /\ s8.name = "rect" => s8.state = "none"
         /\ s8.name = "state" => s8.state # "none"
         /\ s8 \in WindowCalls /\ s8.window \in Windows!States \cup {"none"}
<1>1. WindowsTyped /\ WindowOrder(s8) /\ StatesPassed BY DEF WindowsGood
<1>2. s6.state \in Windows!States BY <1>1 DEF WindowsTyped, WindowStates
<1>3. s8 \in WindowCalls /\ s8.window \in Windows!States \cup {"none"}
  BY <1>1 DEF WindowsTyped, WindowCalls
<1> QED BY <1>1, <1>2, <1>3 DEF WindowOrder, StatesPassed, Windows!Read, Windows!ReadWindow

\* An answer that claims nothing ends a command on the bounds.
LEMMA FailureKeeps ==
  ASSUME WindowsGood, Windows!KeepTabs,
         s8.step \in {"getWindow"} \cup BoundsPoints \cup StatePoints,
         s6' \in WindowStates, s7' \in WindowStates \cup {Windows!NoAnimation},
         s9 \subseteq s9', s6'.state \in s9' \/ (s6' = s6 /\ s9' = s9),
         Windows!Answer("error")
  PROVE  WindowsGood'
<1>1. s8 \in WindowCalls BY ReadFacts
<1>2. s8' = [s8 EXCEPT !.step = "answered", !.answer = "error"] BY DEF Windows!Answer
<1>3. /\ s8' \in WindowCalls /\ s8'.step = "answered" /\ s8'.answer = "error"
      /\ s8'.name = s8.name /\ s8'.state = s8.state
  BY <1>1, <1>2, CallIsAnswered
<1>4. s8'.step \notin BoundsPoints \cup StatePoints /\ s8'.answer # "ok"
  BY <1>3 DEF BoundsPoints, StatePoints
<1> QED BY <1>3, <1>4, BoundsKeep

\* So does an answer OK of a browser that does not implement Browser.setWindowBounds.
LEMMA NotImplementedKeeps ==
  ASSUME WindowsGood, Windows!KeepTabs,
         s8.step \in {"getWindow"} \cup BoundsPoints \cup StatePoints, Windows!NotImplemented
  PROVE  WindowsGood'
<1>1. s8 \in WindowCalls BY ReadFacts
<1>2. Windows!Agree("unimplemented") /\ UNCHANGED <<s6, s7, s9>> BY DEF Windows!NotImplemented
<1>3. /\ s8' \in WindowCalls /\ s8'.step = "answered" /\ s8'.how = "unimplemented"
      /\ s8'.name = s8.name /\ s8'.state = s8.state
  BY <1>1, <1>2, CallAgrees
<1>4. s8'.step \notin BoundsPoints \cup StatePoints BY <1>3 DEF BoundsPoints, StatePoints
<1>5. s6 \in WindowStates /\ s7 \in WindowStates \cup {Windows!NoAnimation}
  BY DEF WindowsGood, WindowsTyped
<1> QED BY <1>2, <1>3, <1>4, <1>5, BoundsKeep

\* An answer that is true ends it as well.
LEMMA SuccessKeeps ==
  ASSUME WindowsGood, Windows!KeepAll,
         s8.step \in {"getWindow"} \cup BoundsPoints \cup StatePoints,
         s8.name = "state" => s8.state \in s9, s8.name = "rect" => "normal" \in s9,
         Windows!Answer("ok")
  PROVE  WindowsGood'
<1>1. s8 \in WindowCalls /\ s8' = [s8 EXCEPT !.step = "answered", !.answer = "ok"]
  BY ReadFacts DEF Windows!Answer
<1>2. s6 \in WindowStates /\ s7 \in WindowStates \cup {Windows!NoAnimation}
  BY DEF WindowsGood, WindowsTyped
<1>3. /\ s8' \in WindowCalls /\ s8'.step = "answered"
      /\ s8'.name = s8.name /\ s8'.state = s8.state
  BY <1>1, CallIsAnswered
<1>4. s8'.step \notin BoundsPoints \cup StatePoints BY <1>3 DEF BoundsPoints, StatePoints
<1>5. Windows!KeepTabs /\ UNCHANGED <<s6, s7, s9>> BY DEF Windows!KeepAll
<1> QED BY <1>2, <1>3, <1>4, <1>5, BoundsKeep

\* The command goes on at another point.
LEMMA ProgressKeeps ==
  ASSUME WindowsGood, Windows!KeepTabs,
         s8.step \in {"getWindow"} \cup BoundsPoints \cup StatePoints,
         s6' \in WindowStates, s7' \in WindowStates \cup {Windows!NoAnimation},
         s9 \subseteq s9', s6'.state \in s9' \/ (s6' = s6 /\ s9' = s9),
         NEW step \in BoundsPoints \cup StatePoints,
         NEW w \in Windows!States \cup {"none"}, Windows!GoOn(step, w),
         s8.name # "getRect", step \in StatePoints => s8.state # "none",
         step \in {"set", "awaitMatch"} => s8.step \in {"set", "awaitMatch"} \/ "normal" \in s9',
         step = "checkFullscreen" => s8.state = "fullscreen",
         step = "simulate" => s8.state = "maximized" /\ "normal" \in s9'
  PROVE  WindowsGood'
<1>1. s8 \in WindowCalls BY ReadFacts
<1>2. s8' = [s8 EXCEPT !.step = step, !.window = w] BY DEF Windows!GoOn
<1>3. step \in WindowPoints /\ step # "answered"
  BY DEF WindowPoints, BoundsPoints, StatePoints
<1>4. s8' \in WindowCalls /\ s8'.step = step /\ s8'.name = s8.name /\ s8'.state = s8.state
  BY <1>1, <1>2, <1>3, CallGoesOn
<1> QED BY <1>3, <1>4, BoundsKeep

\* GetWindow: a window that is in the state asked for is left alone.
LEMMA GetWindowKeeps == ASSUME WindowsGood, Windows!GetWindow PROVE WindowsGood'
<1>0. s8.step = "getWindow" /\ Windows!KeepAll BY DEF Windows!GetWindow
<1>1. Windows!KeepTabs /\ UNCHANGED <<s6, s7, s9>> BY <1>0 DEF Windows!KeepAll
<1>2. s6 \in WindowStates /\ s7 \in WindowStates \cup {Windows!NoAnimation}
  BY DEF WindowsGood, WindowsTyped
<1>3. CASE Windows!Answer("error") BY <1>0, <1>1, <1>2, <1>3, FailureKeeps
<1>4. CASE Windows!Answer("ok") /\ (s8.name = "getRect" \/ Windows!Read = s8.state)
  BY <1>0, <1>4, ReadFacts, SuccessKeeps DEF Windows!States
<1>5. CASE /\ Windows!GoOn(IF Windows!Read = "normal" THEN "set" ELSE "normalize", Windows!Read)
           /\ s8.name # "getRect"
  <2>1. CASE s6.state = "normal"
    <3>1. Windows!GoOn("set", s6.state) BY <1>0, <1>5, <2>1, ReadFacts
    <3> QED BY <1>0, <1>1, <1>2, <1>5, <2>1, <3>1, ReadFacts, ProgressKeeps
            DEF BoundsPoints, StatePoints
  <2>2. CASE s6.state # "normal"
    <3>1. Windows!GoOn("normalize", s6.state) BY <1>0, <1>5, <2>2, ReadFacts
    <3> QED BY <1>0, <1>1, <1>2, <1>5, <3>1, ReadFacts, ProgressKeeps
            DEF BoundsPoints, StatePoints
  <2> QED BY <2>1, <2>2
<1> QED BY <1>3, <1>4, <1>5 DEF Windows!GetWindow

\* SetWindowBounds up to the first time the bounds are sent.
LEMMA NormalizeKeeps ==
  ASSUME WindowsGood, Windows!Normalize \/ Windows!AwaitNormal PROVE WindowsGood'
<1>0. s6 \in WindowStates /\ s7 \in WindowStates \cup {Windows!NoAnimation} /\ WindowsTyped
  BY DEF WindowsGood, WindowsTyped
<1>1. s8.step \in BoundsPoints /\ Windows!KeepTabs
  BY DEF Windows!Normalize, Windows!AwaitNormal, Windows!KeepAll, BoundsPoints
<1>2. s8.name \in {"state", "rect"} BY <1>1 DEF WindowsGood, WindowOrder
<1>3. CASE Windows!Normalize
  <2> DEFINE t == [s6 EXCEPT !.state = "normal"]
  <2>1. t \in WindowStates BY <1>0 DEF WindowStates, Windows!States
  <2>2. \/ Windows!SendBounds(t, Windows!GoOn("awaitNormal", s8.window))
        \/ Windows!NotImplemented
    BY <1>3 DEF Windows!Normalize
  <2> HIDE DEF t
  <2>3. CASE Windows!NotImplemented BY <1>1, <2>3, NotImplementedKeeps
  <2>4. CASE Windows!SendBounds(t, Windows!GoOn("awaitNormal", s8.window))
    <3>1. /\ s6' \in WindowStates /\ s7' \in WindowStates \cup {Windows!NoAnimation}
          /\ s9 \subseteq s9' /\ (s6'.state \in s9' \/ (s6' = s6 /\ s9' = s9))
          /\ Windows!Answer("error") \/ Windows!GoOn("awaitNormal", s8.window)
      BY <1>0, <2>1, <2>4, SendBoundsFacts
    <3>2. CASE Windows!Answer("error") BY <1>1, <3>1, <3>2, FailureKeeps
    <3>3. CASE Windows!GoOn("awaitNormal", s8.window)
      BY <1>1, <1>2, <3>1, <3>3, ReadFacts, ProgressKeeps DEF BoundsPoints, StatePoints
    <3> QED BY <3>1, <3>2, <3>3
  <2> QED BY <2>2, <2>3, <2>4
<1>4. CASE Windows!AwaitNormal
  <2>1. UNCHANGED <<s6, s7, s9>> BY <1>4 DEF Windows!AwaitNormal, Windows!KeepAll
  <2>2. CASE s6.state = "normal"
    <3>1. Windows!GoOn("set", s6.state) BY <1>1, <1>4, <2>2, ReadFacts DEF Windows!AwaitNormal
    <3> QED BY <1>0, <1>1, <1>2, <2>1, <2>2, <3>1, ReadFacts, ProgressKeeps
            DEF BoundsPoints, StatePoints
  <2>3. CASE Windows!GoOn("awaitNormal", Windows!Read)
    <3>1. Windows!GoOn("awaitNormal", s6.state) BY <1>1, <2>3, ReadFacts
    <3> QED BY <1>0, <1>1, <1>2, <2>1, <3>1, ReadFacts, ProgressKeeps
            DEF BoundsPoints, StatePoints
  <2>4. CASE Windows!Answer("error") BY <1>0, <1>1, <2>1, <2>4, FailureKeeps
  <2> QED BY <1>1, <1>4, <2>2, <2>3, <2>4, ReadFacts DEF Windows!AwaitNormal
<1> QED BY <1>3, <1>4

\* The fullscreen request and the check after it.
LEMMA FullscreenKeeps ==
  ASSUME WindowsGood, Windows!RequestFullscreen \/ Windows!CheckFullscreen PROVE WindowsGood'
<1>0. s6 \in WindowStates /\ s7 \in WindowStates \cup {Windows!NoAnimation} /\ WindowsTyped
  BY DEF WindowsGood, WindowsTyped
<1>1. s8.step \in BoundsPoints \cup StatePoints /\ Windows!KeepTabs
  BY DEF Windows!RequestFullscreen, Windows!CheckFullscreen, Windows!KeepAll, BoundsPoints,
     StatePoints
<1>2. s8.name \in {"state", "rect"} BY <1>1 DEF WindowsGood, WindowOrder
<1>3. CASE Windows!RequestFullscreen
  <2>1. s8.step = "set" /\ s8.state = "fullscreen" BY <1>3 DEF Windows!RequestFullscreen
  <2>2. CASE Windows!Answer("error") /\ UNCHANGED <<s6, s7, s9>>
    BY <1>0, <1>1, <2>2, FailureKeeps
  <2>3. CASE /\ Windows!GoOn("checkFullscreen", s8.window)
             /\ s6' = [s6 EXCEPT !.state = "fullscreen"]
             /\ s7' = Windows!NoAnimation /\ s9' = s9 \cup {s6'.state}
    <3>1. s6' \in WindowStates BY <1>0, <2>3 DEF WindowStates, Windows!States
    <3> QED BY <1>1, <1>2, <2>1, <2>3, <3>1, ReadFacts, ProgressKeeps
            DEF BoundsPoints, StatePoints
  <2>4. CASE Windows!GoOn("checkFullscreen", s8.window) /\ UNCHANGED <<s6, s7, s9>>
    BY <1>0, <1>1, <1>2, <2>1, <2>4, ReadFacts, ProgressKeeps DEF BoundsPoints, StatePoints
  <2> QED BY <1>3, <2>2, <2>3, <2>4 DEF Windows!RequestFullscreen
<1>4. CASE Windows!CheckFullscreen
  <2>1. UNCHANGED <<s6, s7, s9>> /\ Windows!KeepAll
    BY <1>4 DEF Windows!CheckFullscreen, Windows!KeepAll
  <2>2. s8.state = "fullscreen" /\ s8.name = "state"
    BY <1>4 DEF Windows!CheckFullscreen, WindowsGood, StatesPassed, WindowOrder, StatePoints
  <2>3. CASE s6.state = "fullscreen"
    <3>1. Windows!Answer("ok") BY <1>1, <1>4, <2>3, ReadFacts DEF Windows!CheckFullscreen
    <3> QED BY <1>1, <2>1, <2>2, <2>3, <3>1, ReadFacts, SuccessKeeps
  <2>4. CASE s6.state # "fullscreen"
    <3>1. Windows!Answer("error") BY <1>1, <1>4, <2>4, ReadFacts DEF Windows!CheckFullscreen
    <3> QED BY <1>0, <1>1, <2>1, <3>1, FailureKeeps
  <2> QED BY <2>3, <2>4
<1> QED BY <1>3, <1>4

\* The bounds that are sent.
LEMMA ToDictFacts == ASSUME WindowsTyped PROVE Windows!ToDict \in WindowStates
BY DEF WindowsTyped, Windows!ToDict, WindowStates, WindowCalls, Windows!States, Windows!Rects

\* The bounds are set and awaited.
LEMMA SetBoundsKeeps ==
  ASSUME WindowsGood, Windows!SetBounds \/ Windows!AwaitMatch PROVE WindowsGood'
<1>0. s6 \in WindowStates /\ s7 \in WindowStates \cup {Windows!NoAnimation} /\ WindowsTyped
  BY DEF WindowsGood, WindowsTyped
<1>1. s8.step \in {"set", "awaitMatch"} /\ Windows!KeepTabs
  BY DEF Windows!SetBounds, Windows!AwaitMatch, Windows!KeepAll
<1>2. s8.step \in BoundsPoints BY <1>1 DEF BoundsPoints
<1>3. s8.name \in {"state", "rect"} BY <1>2 DEF WindowsGood, WindowOrder
<1>4. CASE Windows!SetBounds
  <2>1. \/ Windows!SendBounds(Windows!ToDict, Windows!GoOn("awaitMatch", s8.window))
        \/ Windows!NotImplemented
    BY <1>4 DEF Windows!SetBounds
  <2>2. CASE Windows!NotImplemented BY <1>1, <1>2, <2>2, NotImplementedKeeps
  <2>3. CASE Windows!SendBounds(Windows!ToDict, Windows!GoOn("awaitMatch", s8.window))
    <3>1. /\ s6' \in WindowStates /\ s7' \in WindowStates \cup {Windows!NoAnimation}
          /\ s9 \subseteq s9' /\ (s6'.state \in s9' \/ (s6' = s6 /\ s9' = s9))
          /\ Windows!Answer("error") \/ Windows!GoOn("awaitMatch", s8.window)
      BY <1>0, <2>3, ToDictFacts, SendBoundsFacts
    <3>2. CASE Windows!Answer("error") BY <1>1, <1>2, <3>1, <3>2, FailureKeeps
    <3>3. CASE Windows!GoOn("awaitMatch", s8.window)
      BY <1>1, <1>2, <1>3, <3>1, <3>3, ReadFacts, ProgressKeeps DEF BoundsPoints, StatePoints
    <3> QED BY <3>1, <3>2, <3>3
  <2> QED BY <2>1, <2>2, <2>3
<1>5. CASE Windows!AwaitMatch
  <2>1. UNCHANGED <<s6, s7, s9>> /\ Windows!KeepAll BY <1>5 DEF Windows!AwaitMatch, Windows!KeepAll
  <2>2. s8.name = "rect" => "normal" \in s9 BY <1>1 DEF WindowsGood, StatesPassed
  <2>3. CASE Windows!Answer("ok") /\ s8.state = "none"
    BY <1>2, <2>1, <2>2, <2>3, ReadFacts, SuccessKeeps
  <2>4. CASE Windows!GoOn("check", s8.window) /\ s8.state # "none"
    BY <1>0, <1>1, <1>2, <1>3, <2>1, <2>4, ReadFacts, ProgressKeeps DEF BoundsPoints, StatePoints
  <2>5. CASE s8' = [s8 EXCEPT !.window = Windows!Read, !.matched = s6.rect]
    <3>1. s8' = [s8 EXCEPT !.window = s6.state, !.matched = s6.rect] BY <1>2, <2>5, ReadFacts
    <3>2. s6.rect \in Windows!Rects BY <1>0 DEF WindowStates
    <3>3. /\ s8' \in WindowCalls /\ s8'.step = s8.step /\ s8'.name = s8.name
          /\ s8'.state = s8.state
      BY <1>2, <3>1, <3>2, ReadFacts DEF WindowCalls
    <3>4. s8.step # "answered" /\ s8.step \notin StatePoints BY <1>1 DEF StatePoints
    <3> QED BY <1>0, <1>1, <1>2, <1>3, <2>1, <3>3, <3>4, ReadFacts, BoundsKeep
  <2> QED BY <1>5, <2>3, <2>4, <2>5 DEF Windows!AwaitMatch
<1> QED BY <1>4, <1>5

\* The state is checked, and the bounds are sent again.
LEMMA CheckStateKeeps ==
  ASSUME WindowsGood,
         \/ Windows!CheckState \/ Windows!SimulateMaximize
         \/ Windows!RetryBounds \/ Windows!CheckRetry
  PROVE  WindowsGood'
<1>0. s6 \in WindowStates /\ s7 \in WindowStates \cup {Windows!NoAnimation} /\ WindowsTyped
  BY DEF WindowsGood, WindowsTyped
<1>1. s8.step \in StatePoints /\ Windows!KeepTabs
  BY DEF Windows!CheckState, Windows!SimulateMaximize, Windows!RetryBounds, Windows!CheckRetry,
     Windows!KeepAll, StatePoints
<1>2. s8.name = "state" BY <1>1 DEF WindowsGood, WindowOrder
<1>3. ASSUME Windows!KeepAll, s6.state = s8.state, Windows!Answer("ok") PROVE WindowsGood'
  BY <1>1, <1>2, <1>3, ReadFacts, SuccessKeeps
<1>4. ASSUME Windows!KeepAll, Windows!Answer("error") PROVE WindowsGood'
  <2>1. UNCHANGED <<s6, s7, s9>> BY <1>4 DEF Windows!KeepAll
  <2> QED BY <1>0, <1>1, <1>4, <2>1, FailureKeeps
<1>5. ASSUME s6' \in WindowStates, s7' \in WindowStates \cup {Windows!NoAnimation},
             s9 \subseteq s9', s6'.state \in s9' \/ (s6' = s6 /\ s9' = s9),
             NEW step \in {"simulate", "retry", "checkRetry"},
             NEW w \in Windows!States \cup {"none"}, Windows!GoOn(step, w),
             step = "simulate" => s8.state = "maximized" /\ "normal" \in s9'
      PROVE  WindowsGood'
  <2>1. step \in StatePoints /\ step \notin {"set", "awaitMatch", "checkFullscreen"}
    BY DEF StatePoints
  <2> QED BY <1>1, <1>2, <1>5, <2>1, ReadFacts, ProgressKeeps
<1>6. CASE Windows!CheckState
  <2>1. UNCHANGED <<s6, s7, s9>> /\ Windows!KeepAll BY <1>6 DEF Windows!CheckState, Windows!KeepAll
  <2>2. \/ s6.state = s8.state /\ Windows!Answer("ok")
        \/ /\ Windows!GoOn("simulate", s6.state)
           /\ s8.state = "maximized" /\ s6.state = "normal"
        \/ Windows!GoOn("retry", s6.state)
    BY <1>1, <1>6, ReadFacts DEF Windows!CheckState
  <2>3. s6.state \in s9 /\ s6.state \in Windows!States BY <1>1, <1>2, ReadFacts
  <2>4. CASE Windows!GoOn("retry", s6.state) BY <1>0, <1>5, <2>1, <2>3, <2>4
  <2>5. CASE /\ Windows!GoOn("simulate", s6.state)
             /\ s8.state = "maximized" /\ s6.state = "normal"
    BY <1>0, <1>5, <2>1, <2>3, <2>5
  <2> QED BY <1>3, <2>1, <2>2, <2>4, <2>5
<1>7. CASE Windows!CheckRetry
  <2>1. UNCHANGED <<s6, s7, s9>> /\ Windows!KeepAll BY <1>7 DEF Windows!CheckRetry, Windows!KeepAll
  <2>2. \/ s6.state = s8.state /\ Windows!Answer("ok")
        \/ Windows!GoOn("retry", s6.state) \/ Windows!Answer("error")
    BY <1>1, <1>7, ReadFacts DEF Windows!CheckRetry
  <2> QED BY <1>0, <1>1, <1>3, <1>4, <1>5, <2>1, <2>2, ReadFacts
<1>8. CASE Windows!SimulateMaximize
  <2> DEFINE t == [s6 EXCEPT !.rect = "screen"]
  <2>1. t \in WindowStates BY <1>0 DEF WindowStates, Windows!Rects
  <2>2. Windows!SendBounds(t, Windows!Agree("simulated")) BY <1>8 DEF Windows!SimulateMaximize
  <2> HIDE DEF t
  <2>3. /\ s6' \in WindowStates /\ s7' \in WindowStates \cup {Windows!NoAnimation}
        /\ s9 \subseteq s9' /\ (s6'.state \in s9' \/ (s6' = s6 /\ s9' = s9))
        /\ Windows!Answer("error") \/ Windows!Agree("simulated")
    BY <1>0, <2>1, <2>2, SendBoundsFacts
  <2>4. CASE Windows!Answer("error") BY <1>1, <2>3, <2>4, FailureKeeps
  <2>5. CASE Windows!Agree("simulated")
    <3>1. s8.state = "maximized" /\ "normal" \in s9 /\ s8 \in WindowCalls
      BY <1>8 DEF Windows!SimulateMaximize, WindowsGood, StatesPassed, WindowsTyped
    <3>2. /\ s8' \in WindowCalls /\ s8'.step = "answered" /\ s8'.how = "simulated"
          /\ s8'.name = s8.name /\ s8'.state = s8.state
      BY <2>5, <3>1, CallAgrees
    <3>3. s8'.step \notin BoundsPoints \cup StatePoints BY <3>2 DEF BoundsPoints, StatePoints
    <3> QED BY <1>1, <1>2, <2>3, <3>1, <3>2, <3>3, BoundsKeep
  <2> QED BY <2>3, <2>4, <2>5
<1>9. CASE Windows!RetryBounds
  <2>1. Windows!ToDict \in WindowStates BY <1>0, ToDictFacts
  <2>2. Windows!GoOn("checkRetry", s8.window) BY <1>9 DEF Windows!RetryBounds
  <2>3. /\ s6' \in WindowStates /\ s7' \in WindowStates \cup {Windows!NoAnimation}
        /\ s9 \subseteq s9' /\ (s6'.state \in s9' \/ (s6' = s6 /\ s9' = s9))
    BY <1>0, <1>9, <2>1 DEF Windows!RetryBounds
  <2> QED BY <1>1, <1>5, <2>2, <2>3, ReadFacts
<1> QED BY <1>6, <1>7, <1>8, <1>9

\* The instance of FiniteSets that Windows extends is the same.
LEMMA SameCardinality == ASSUME NEW X PROVE Windows!Cardinality(X) = Cardinality(X)
BY DEF Windows!Cardinality, Cardinality, Windows!IsFiniteSet, IsFiniteSet

\* A window that is closed last is the only one that was counted, but for the mapper's.
LEMMA OnlyOneCounted ==
  ASSUME NEW X \in SUBSET (0..2), NEW w \in {1, 2}, w \in X
  PROVE  /\ Cardinality(X) = 1 => X \subseteq {0, w}
         /\ 0 \in X /\ Cardinality(X) <= 2 => X \subseteq {0, w}
<1>1. IsFiniteSet(0..2)
  <2>1. 0 \in Int /\ 2 \in Int OBVIOUS
  <2> QED BY <2>1, FS_Interval, Zenon
<1>2. IsFiniteSet(X) BY <1>1, FS_Subset
<1>3. ASSUME Cardinality(X) = 1 PROVE X \subseteq {0, w}
  <2>1. PICK x : X = {x} BY <1>2, <1>3, FS_Singleton
  <2> QED BY <2>1
<1>4. ASSUME 0 \in X, Cardinality(X) <= 2, NEW x \in X, x \notin {0, w} PROVE FALSE
  <2>1. IsFiniteSet({0}) /\ Cardinality({0}) = 1 BY FS_Singleton
  <2>2. IsFiniteSet({0} \cup {w}) /\ Cardinality({0} \cup {w}) = 2 BY <2>1, FS_AddElement
  <2>3. Cardinality(({0} \cup {w}) \cup {x}) = 3 BY <1>4, <2>2, FS_AddElement
  <2>4. Cardinality(({0} \cup {w}) \cup {x}) <= Cardinality(X) BY <1>2, <1>4, FS_Subset
  <2>5. Cardinality(X) \in Nat BY <1>2, FS_CardinalityType
  <2> QED BY <1>4, <2>3, <2>4, <2>5
<1> QED BY <1>3, <1>4

\* The browser and its user change the window or the tabs.
LEMMA BrowserKeeps ==
  ASSUME WindowsGood,
         \/ Windows!WindowArrives \/ Windows!WindowChanges \/ Windows!TabChanges
         \/ Windows!SwapEnds
  PROVE  WindowsGood'
<1>0. WindowsTyped /\ WindowOrder(s8) /\ StatesPassed /\ WindowsCounted BY DEF WindowsGood
<1>1. UNCHANGED <<s2, s3, s4, s5, s8>>
  BY DEF Windows!WindowArrives, Windows!WindowChanges, Windows!TabChanges, Windows!SwapEnds,
     Windows!KeepSession
<1>2. /\ s6' \in WindowStates /\ s7' \in WindowStates \cup {Windows!NoAnimation}
      /\ s9 \subseteq s9' /\ (s6'.state \in s9' \/ (s6' = s6 /\ s9' = s9))
  <2>1. CASE Windows!WindowArrives BY <1>0, <2>1 DEF Windows!WindowArrives, WindowsTyped
  <2>2. CASE Windows!WindowChanges
    <3>1. PICK s \in Windows!States : s6' = [s6 EXCEPT !.state = s]
      BY <2>2 DEF Windows!WindowChanges
    <3>2. s6' \in WindowStates BY <1>0, <3>1 DEF WindowsTyped, WindowStates
    <3> QED BY <1>0, <2>2, <3>2 DEF Windows!WindowChanges, WindowsTyped
  <2>3. CASE Windows!TabChanges \/ Windows!SwapEnds
    BY <1>0, <2>3 DEF Windows!TabChanges, Windows!SwapEnds, Windows!KeepWindow, WindowsTyped
  <2> QED BY <2>1, <2>2, <2>3
<1>3. /\ s1' \in [0..2 -> {"none", "open", "swapping", "closed"}]
      /\ s1[0] = "open" => s1'[0] = "open"
  <2>1. CASE UNCHANGED s1 BY <1>0, <2>1 DEF WindowsTyped
  <2>2. CASE Windows!TabChanges
    <3>1. PICK t \in Windows!Tabs \ {Windows!MapperTab}, v \in {"open", "swapping", "closed"} :
            s1' = [s1 EXCEPT ![t] = v]
      BY <2>2 DEF Windows!TabChanges
    <3>2. t \in 0..2 /\ t # 0 BY DEF Windows!Tabs, Windows!MapperTab
    <3> QED BY <1>0, <3>1, <3>2 DEF WindowsTyped
  <2>3. CASE Windows!SwapEnds
    <3>1. PICK t \in 0..2 : s1' = [s1 EXCEPT ![t] = "open"]
      BY <2>3 DEF Windows!SwapEnds, Windows!Tabs
    <3> QED BY <1>0, <3>1 DEF WindowsTyped
  <2> QED BY <2>1, <2>2, <2>3 DEF Windows!WindowArrives, Windows!WindowChanges
<1>4. WindowsTyped' BY <1>0, <1>1, <1>2, <1>3 DEF WindowsTyped
<1>5. WindowOrder(s8)' BY <1>0, <1>1
<1>6. StatesPassed' BY <1>0, <1>1, <1>2 DEF StatesPassed
<1>7. WindowsCounted' BY <1>0, <1>1, <1>3 DEF WindowsCounted
<1>8. Windows!StateIsReached' BY <1>1, <1>2 DEF WindowsGood, Windows!StateIsReached
<1>9. Windows!LastCloseEnds' BY <1>1 DEF WindowsGood, Windows!LastCloseEnds
<1> QED BY <1>4, <1>5, <1>6, <1>7, <1>8, <1>9 DEF WindowsGood

\* A command that has just begun.
NewCommand(c) ==
  /\ WindowOrder(c)
  /\ c.step \notin {"answered", "set", "awaitMatch", "checkFullscreen", "simulate", "closeTarget",
                    "quit"}

\* What a client may ask for.
LEMMA WindowCommandFacts ==
  ASSUME NEW c, \/ c \in Windows!StateCommands \/ c \in Windows!RectCommands
                \/ c \in Windows!LegacyRectCommands \/ c \in Windows!TabCommands
  PROVE  c \in WindowCalls /\ NewCommand(c)
<1> DEFINE none == Windows!NoWindowCall
<1>0. none \in WindowCalls /\ none.state = "none" /\ none.rect = "none"
  BY NoWindowCallFacts DEF Windows!NoWindowCall
<1> HIDE DEF none
<1>1. ASSUME NEW s \in Windows!States,
             c = [none EXCEPT !.name = "state", !.step = "getWindow", !.state = s]
      PROVE  c \in WindowCalls /\ NewCommand(c)
  <2>1. c \in WindowCalls BY <1>0, <1>1 DEF WindowCalls, WindowPoints
  <2>2. c.name = "state" /\ c.step = "getWindow" /\ c.state # "none"
    BY <1>0, <1>1 DEF WindowCalls, Windows!States
  <2> QED BY <2>1, <2>2 DEF NewCommand, WindowOrder, BoundsPoints, StatePoints, ClosePoints
<1>2. ASSUME c = [none EXCEPT !.name = "getRect", !.step = "getWindow"]
      PROVE  c \in WindowCalls /\ NewCommand(c)
  <2>1. c \in WindowCalls BY <1>0, <1>2 DEF WindowCalls, WindowPoints
  <2>2. c.name = "getRect" /\ c.step = "getWindow" BY <1>0, <1>2 DEF WindowCalls
  <2> QED BY <2>1, <2>2 DEF NewCommand, WindowOrder, BoundsPoints, StatePoints, ClosePoints
<1>3. ASSUME NEW r \in {"none", "wanted"},
             c = [none EXCEPT !.name = "rect", !.step = "getWindow", !.rect = r]
      PROVE  c \in WindowCalls /\ NewCommand(c)
  <2>1. c \in WindowCalls BY <1>0, <1>3 DEF WindowCalls, WindowPoints
  <2>2. c.name = "rect" /\ c.step = "getWindow" /\ c.state = "none" BY <1>0, <1>3 DEF WindowCalls
  <2> QED BY <2>1, <2>2 DEF NewCommand, WindowOrder, BoundsPoints, StatePoints, ClosePoints
<1>4. ASSUME NEW n \in {"close", "handles", "newWindow"}, c = [none EXCEPT !.name = n, !.step = n]
      PROVE  c \in WindowCalls /\ NewCommand(c)
  <2>1. c \in WindowCalls BY <1>0, <1>4 DEF WindowCalls, WindowPoints, ClosePoints
  <2>2. c.name = n /\ c.step = n BY <1>0, <1>4 DEF WindowCalls
  <2> QED BY <2>1, <2>2 DEF NewCommand, WindowOrder, BoundsPoints, StatePoints, ClosePoints
<1>5. ASSUME NEW t \in {1, 2}, c = [none EXCEPT !.name = "switch", !.step = "switch", !.target = t]
      PROVE  c \in WindowCalls /\ NewCommand(c)
  <2>1. c \in WindowCalls BY <1>0, <1>5 DEF WindowCalls, WindowPoints
  <2>2. c.name = "switch" /\ c.step = "switch" BY <1>0, <1>5 DEF WindowCalls
  <2> QED BY <2>1, <2>2 DEF NewCommand, WindowOrder, BoundsPoints, StatePoints, ClosePoints
<1>6. \A t \in Windows!Tabs \ {Windows!MapperTab} : t \in {1, 2}
  BY DEF Windows!Tabs, Windows!MapperTab
<1>7. CASE c \in Windows!StateCommands BY <1>1, <1>2, <1>7 DEF Windows!StateCommands, none
<1>8. CASE c \in Windows!RectCommands \/ c \in Windows!LegacyRectCommands
  BY <1>3, <1>8 DEF Windows!RectCommands, Windows!LegacyRectCommands, none
<1>9. CASE c \in Windows!TabCommands BY <1>4, <1>5, <1>6, <1>9 DEF Windows!TabCommands, none
<1> QED BY <1>7, <1>8, <1>9

\* The session starts, commands begin and end.
LEMMA CallsKeep ==
  ASSUME WindowsGood, Windows!StartSession \/ Windows!StartCall \/ Windows!EndCall
  PROVE  WindowsGood'
<1>0. WindowsTyped /\ WindowOrder(s8) /\ WindowsCounted BY DEF WindowsGood
<1>1. CASE Windows!StartSession
  <2>1. UNCHANGED <<s3, s5, s6, s7, s8, s9>> /\ s4 = "unset" BY <1>1 DEF Windows!StartSession
  <2>2. s8.step = "idle" /\ s8.name = "none"
    BY <1>0, <2>1 DEF WindowsCounted, WindowOrder
  <2>3. \/ s4' = "no" /\ UNCHANGED <<s1, s2>>
        \/ s4' = "yes" /\ s1' = [s1 EXCEPT ![0] = "open"] /\ s2' = s2 \cup {0}
    BY <1>1 DEF Windows!StartSession, Windows!MapperTab
  <2>4. /\ s1' \in [0..2 -> {"none", "open", "swapping", "closed"}]
        /\ s4' = "yes" => s1'[0] = "open"
    BY <1>0, <2>3 DEF WindowsTyped
  <2>5. s2' \subseteq 0..2
    <3>1. s2 \subseteq 0..2 /\ 0 \in 0..2 BY <1>0 DEF WindowsTyped
    <3> QED BY <2>3, <3>1
  <2>6. WindowsTyped' BY <1>0, <2>1, <2>3, <2>4, <2>5 DEF WindowsTyped
  <2>7. s8'.step = "idle" /\ s8'.name = "none" BY <2>1, <2>2
  <2> QED BY <2>4, <2>6, <2>7, IdleWindows
<1>2. CASE Windows!EndCall
  <2>1. UNCHANGED <<s1, s2, s3, s4, s5, s6, s7>> /\ s8' = Windows!NoWindowCall
    BY <1>2 DEF Windows!EndCall
  <2>2. WindowsTyped' BY <1>0, <2>1, NoWindowCallFacts DEF WindowsTyped
  <2>3. s4' = "yes" => s1'[0] = "open" BY <1>0, <2>1 DEF WindowsCounted
  <2> QED BY <2>1, <2>2, <2>3, NoWindowCallFacts, IdleWindows
<1>3. CASE Windows!StartCall
  <2>1. /\ UNCHANGED <<s1, s2, s3, s4, s5, s6, s7>> /\ s4 # "unset" /\ ~s5
        /\ s9' = {s6.state}
        /\ s8' \in Windows!StateCommands \cup Windows!RectCommands \cup Windows!LegacyRectCommands
                   \cup Windows!TabCommands
    BY <1>3 DEF Windows!StartCall
  <2>2. PICK c \in WindowCalls : c = s8' /\ NewCommand(c) BY <2>1, WindowCommandFacts
  <2>3. WindowsTyped' BY <1>0, <2>1, <2>2 DEF WindowsTyped
  <2>4. StatesPassed' BY <2>1, <2>2 DEF StatesPassed, NewCommand
  <2>5. WindowsCounted' BY <1>0, <2>1, <2>2 DEF WindowsCounted, NewCommand
  <2>6. Windows!StateIsReached' /\ Windows!LastCloseEnds'
    BY <2>2 DEF NewCommand, Windows!StateIsReached, Windows!LastCloseEnds
  <2>7. WindowOrder(s8)' BY <2>2 DEF NewCommand
  <2> QED BY <2>3, <2>4, <2>5, <2>6, <2>7 DEF WindowsGood
<1> QED BY <1>1, <1>2, <1>3

\* A step of a command on tabs that answers it: what remains to be shown is about Close.
LEMMA TabAnswerKeeps ==
  ASSUME WindowsGood, WindowsTyped', s8.name \in {"close", "handles", "newWindow", "switch"},
         s8'.name = s8.name, s8'.step = "answered", s4' = s4, s4 # "unset",
         s4 = "yes" => s1'[0] = "open",
         s8.name = "close" =>
           IF s5' THEN s8'.counted \subseteq {0, s3'}
           ELSE s8'.answer = "error" \/ 0 \notin s8'.listed
  PROVE  WindowsGood'
<1>1. WindowOrder(s8)' BY DEF WindowOrder, BoundsPoints, StatePoints, ClosePoints
<1>2. StatesPassed' BY DEF StatesPassed
<1>3. WindowsCounted' BY DEF WindowsCounted
<1>4. Windows!StateIsReached' BY DEF Windows!StateIsReached
<1>5. Windows!LastCloseEnds' BY DEF Windows!LastCloseEnds, Windows!MapperTab
<1> QED BY <1>1, <1>2, <1>3, <1>4, <1>5 DEF WindowsGood

\* What every step of a command on tabs may rely on.
LEMMA TabCommandFacts ==
  ASSUME WindowsGood, s8.step \in ClosePoints \cup {"handles", "newWindow", "switch"}
  PROVE  /\ s8.name \in {"close", "handles", "newWindow", "switch"}
         /\ s8.step \in ClosePoints => s8.name = "close"
         /\ s8 \in WindowCalls /\ WindowsTyped /\ ~s5 /\ s4 # "unset"
         /\ s4 = "yes" => s1[0] = "open"
         /\ s1 \in [0..2 -> {"none", "open", "swapping", "closed"}]
         /\ Windows!OpenTabs \subseteq 0..2
<1>1. WindowsTyped /\ WindowOrder(s8) /\ WindowsCounted BY DEF WindowsGood
<1>2. s8.name \in {"close", "handles", "newWindow", "switch"} BY <1>1 DEF WindowOrder
<1>3. s8.step \notin {"idle", "answered"} BY DEF ClosePoints
<1>4. ~s5 /\ s4 # "unset" BY <1>1, <1>3 DEF WindowsCounted
<1>5. s8.step \in ClosePoints => s8.name = "close" BY <1>1 DEF WindowOrder
<1>6. s4 = "yes" => s1[0] = "open" BY <1>1 DEF WindowsCounted
<1>7. Windows!OpenTabs \subseteq 0..2 BY DEF Windows!OpenTabs, Windows!Tabs
<1>8. s8 \in WindowCalls /\ s1 \in [0..2 -> {"none", "open", "swapping", "closed"}]
  BY <1>1 DEF WindowsTyped
<1> QED BY <1>1, <1>2, <1>4, <1>5, <1>6, <1>7, <1>8

\* GetWindowHandles lists the user's windows alone.
LEMMA GetWindowHandlesKeeps == ASSUME WindowsGood, Windows!GetWindowHandles PROVE WindowsGood'
<1> DEFINE h == Windows!WindowHandles(Windows!OpenTabs)
<1>0. s8.step = "handles" /\ s2' = Windows!OpenTabs /\ UNCHANGED <<s1, s3, s4, s5, s6, s7>>
  BY DEF Windows!GetWindowHandles, Windows!UpdateWebViews, Windows!Keep
<1>1. s8' = [s8 EXCEPT !.step = "answered", !.answer = "ok", !.listed = h]
  BY DEF Windows!GetWindowHandles
<1>2. h \subseteq 0..2 /\ 0 \notin h
  BY <1>0, TabCommandFacts DEF Windows!WindowHandles, Windows!MapperTab
<1> HIDE DEF h
<1>3. s8 \in WindowCalls BY <1>0, TabCommandFacts
<1>4. s8' \in WindowCalls /\ s8'.step = "answered" /\ s8'.name = s8.name /\ s8'.listed = h
  BY <1>1, <1>2, <1>3 DEF WindowCalls, WindowPoints
<1>5. WindowsTyped' BY <1>0, <1>4, TabCommandFacts DEF WindowsTyped
<1> QED BY <1>0, <1>2, <1>4, <1>5, TabCommandFacts, TabAnswerKeeps

\* A step of Close that is not its last.
LEMMA CloseGoesOn ==
  ASSUME WindowsGood, WindowsTyped', s8'.name = "close", s4' = s4, s4 # "unset", ~s5',
         s4 = "yes" => s1'[0] = "open", s8'.step \in {"closeTarget", "quit", "handles"},
         s8'.step = "closeTarget" =>
           /\ s2' = s8'.counted /\ (s4 = "yes" => 0 \in s8'.counted)
           /\ s8'.isLast => IF s4 = "yes" THEN Cardinality(s8'.counted) <= 2
                            ELSE Cardinality(s8'.counted) = 1,
         s8'.step = "quit" => s8'.counted \subseteq {0, s3'}
  PROVE  WindowsGood'
<1>1. WindowOrder(s8)' BY DEF WindowOrder, BoundsPoints, StatePoints, ClosePoints
<1>2. StatesPassed' BY DEF StatesPassed
<1>3. WindowsCounted' BY DEF WindowsCounted
<1>4. Windows!StateIsReached' /\ Windows!LastCloseEnds'
  BY DEF Windows!StateIsReached, Windows!LastCloseEnds
<1> QED BY <1>1, <1>2, <1>3, <1>4 DEF WindowsGood

\* ExecuteClose counts the windows.
LEMMA CountKeeps == ASSUME WindowsGood, Windows!CountWebViews PROVE WindowsGood'
<1> DEFINE o == Windows!OpenTabs
           last == Windows!IsLastWebView(Windows!Cardinality(o))
<1>0. s8.step = "close" /\ s2' = o /\ UNCHANGED <<s1, s3, s4, s5, s6, s7>>
  BY DEF Windows!CountWebViews, Windows!UpdateWebViews, Windows!Keep
<1>1. s8' = [s8 EXCEPT !.step = "closeTarget", !.counted = o, !.isLast = last]
  BY Zenon DEF Windows!CountWebViews
<1>2. o \subseteq 0..2 /\ s8 \in WindowCalls /\ s8.name = "close" /\ WindowsTyped /\ s4 # "unset"
  BY <1>0, TabCommandFacts DEF ClosePoints
<1>3. s4 = "yes" => s1[0] = "open" /\ 0 \in o
  BY <1>0, TabCommandFacts DEF ClosePoints, Windows!OpenTabs, Windows!Tabs
<1>4. IsFiniteSet(o)
  <2>1. IsFiniteSet(0..2)
    <3>1. 0 \in Int /\ 2 \in Int OBVIOUS
    <3> QED BY <3>1, FS_Interval, Zenon
  <2> QED BY <1>2, <2>1, FS_Subset
<1>5. Cardinality(o) \in Nat BY <1>4, FS_CardinalityType
<1>6. last => IF s4 = "yes" THEN Cardinality(o) <= 2 ELSE Cardinality(o) = 1
  BY SameCardinality DEF Windows!IsLastWebView
<1>7. last \in BOOLEAN
  <2>1. CASE s4 = "yes"
    <3>1. last = (Windows!Cardinality(o) <= 2) BY <2>1, Zenon DEF Windows!IsLastWebView
    <3> QED BY <3>1
  <2>2. CASE s4 # "yes"
    <3>1. last = (Windows!Cardinality(o) = 1) BY <2>2, Zenon DEF Windows!IsLastWebView
    <3> QED BY <3>1
  <2> QED BY <2>1, <2>2
<1> HIDE DEF o, last
<1>8. s8' \in WindowCalls BY <1>1, <1>2, <1>7 DEF WindowCalls, WindowPoints, ClosePoints
<1>9. s8'.step = "closeTarget" /\ s8'.counted = o /\ s8'.name = s8.name
  BY <1>1, <1>2 DEF WindowCalls
<1>10. s8'.isLast = last BY <1>1, <1>2 DEF WindowCalls
<1>11. WindowsTyped' BY <1>0, <1>2, <1>8 DEF WindowsTyped
<1>12. ~s5' BY <1>0, TabCommandFacts DEF ClosePoints
<1>13. s8'.isLast => IF s4 = "yes" THEN Cardinality(s8'.counted) <= 2
                     ELSE Cardinality(s8'.counted) = 1
  BY <1>6, <1>9, <1>10
<1> QED BY <1>0, <1>2, <1>3, <1>9, <1>11, <1>12, <1>13, CloseGoesOn

\* CloseWebView closes the window if its page is still there.
LEMMA CloseKeeps == ASSUME WindowsGood, Windows!CloseWebView PROVE WindowsGood'
<1>0. s8.step = "closeTarget" /\ UNCHANGED <<s3, s4, s5, s6, s7>>
  BY DEF Windows!CloseWebView, Windows!Keep
<1>1. /\ s8 \in WindowCalls /\ s8.name = "close" /\ WindowsTyped /\ s4 # "unset" /\ ~s5
      /\ s4 = "yes" => s1[0] = "open"
  BY <1>0, TabCommandFacts DEF ClosePoints
<1>2. CASE Windows!Answer("error") /\ UNCHANGED <<s1, s2>>
  <2>1. s8' \in WindowCalls /\ s8'.step = "answered" /\ s8'.answer = "error" /\ s8'.name = s8.name
    BY <1>1, <1>2, CallIsAnswered DEF Windows!Answer
  <2>2. WindowsTyped' BY <1>0, <1>1, <1>2, <2>1 DEF WindowsTyped
  <2> QED BY <1>0, <1>1, <1>2, <2>1, <2>2, TabAnswerKeeps
<1>3. CASE /\ Windows!GetActivePage(s3)
           /\ s1' = [s1 EXCEPT ![s3] = "closed"] /\ s2' = s2 \ {s3}
           /\ s8' = [s8 EXCEPT !.step = IF s8.isLast THEN "quit" ELSE "handles"]
  <2> DEFINE step == IF s8.isLast THEN "quit" ELSE "handles"
  <2>1. s8' = [s8 EXCEPT !.step = step] /\ step \in {"quit", "handles"} BY <1>3
  <2> HIDE DEF step
  <2>2. /\ s8' \in WindowCalls /\ s8'.step = step /\ s8'.name = s8.name
        /\ s8'.counted = s8.counted
    BY <1>1, <2>1 DEF WindowCalls, WindowPoints, ClosePoints
  <2>3. s3 \in {1, 2} BY <1>1 DEF WindowsTyped
  <2>4. WindowsTyped' BY <1>0, <1>1, <1>3, <2>2, <2>3 DEF WindowsTyped
  <2>5. s4 = "yes" => s1'[0] = "open" BY <1>1, <1>3, <2>3 DEF WindowsTyped
  <2>6. s3 \in s8.counted /\ s8.counted \subseteq 0..2
    <3>1. s2 = s8.counted BY <1>0 DEF WindowsGood, WindowsCounted
    <3>2. s2 \subseteq 0..2 BY <1>1 DEF WindowsTyped
    <3> QED BY <1>3, <3>1, <3>2 DEF Windows!GetActivePage
  <2>7. s8.isLast => s8.counted \subseteq {0, s3}
    <3>1. /\ s4 = "yes" => 0 \in s8.counted
          /\ s8.isLast => IF s4 = "yes" THEN Cardinality(s8.counted) <= 2
                          ELSE Cardinality(s8.counted) = 1
      BY <1>0 DEF WindowsGood, WindowsCounted
    <3> QED BY <2>3, <2>6, <3>1, OnlyOneCounted
  <2>8. step = "quit" => s8'.counted \subseteq {0, s3'} BY <1>0, <2>2, <2>7 DEF step
  <2> QED BY <1>0, <1>1, <2>1, <2>2, <2>4, <2>5, <2>8, CloseGoesOn
<1> QED BY <1>2, <1>3 DEF Windows!CloseWebView

\* The session ends with its last window.
LEMMA QuitAfterCloseKeeps == ASSUME WindowsGood, Windows!QuitAfterClose PROVE WindowsGood'
<1>0. s8.step = "quit" /\ s5' = TRUE /\ UNCHANGED <<s1, s2, s3, s4, s6, s7>>
  BY DEF Windows!QuitAfterClose, Windows!Keep
<1>1. /\ s8 \in WindowCalls /\ s8.name = "close" /\ WindowsTyped /\ s4 # "unset"
      /\ s4 = "yes" => s1[0] = "open"
  BY <1>0, TabCommandFacts DEF ClosePoints
<1>2. PICK a \in {"ok", "error"} : s8' = [s8 EXCEPT !.step = "answered", !.answer = a]
  BY DEF Windows!QuitAfterClose, Windows!Answer
<1>3. s8' \in WindowCalls /\ s8'.step = "answered" /\ s8'.name = s8.name /\ s8'.counted = s8.counted
  BY <1>1, <1>2, CallIsAnswered
<1>4. s5' \in BOOLEAN BY <1>0
<1>5. WindowsTyped' BY <1>0, <1>1, <1>3, <1>4 DEF WindowsTyped
<1>6. s8'.counted \subseteq {0, s3'} BY <1>0, <1>3 DEF WindowsGood, WindowsCounted
<1> QED BY <1>0, <1>1, <1>3, <1>5, <1>6, TabAnswerKeeps

\* Switching to a window, and opening one.
LEMMA SwitchKeeps ==
  ASSUME WindowsGood, Windows!SwitchToWindow \/ Windows!NewWindow PROVE WindowsGood'
<1>0. s8.step \in {"switch", "newWindow"} /\ UNCHANGED <<s4, s5>>
  BY DEF Windows!SwitchToWindow, Windows!NewWindow, Windows!Keep
<1>1. /\ s8 \in WindowCalls /\ WindowsTyped /\ s4 # "unset" /\ Windows!OpenTabs \subseteq 0..2
      /\ s4 = "yes" => s1[0] = "open"
  BY <1>0, TabCommandFacts
<1>2. s8.name \in {"newWindow", "switch"} BY <1>0 DEF WindowsGood, WindowOrder
<1>3. /\ s8' \in WindowCalls /\ s8'.step = "answered" /\ s8'.name = s8.name
  BY <1>1, CallIsAnswered DEF Windows!SwitchToWindow, Windows!NewWindow, Windows!Answer
<1>4. CASE Windows!SwitchToWindow
  <2>1. s1' = s1 /\ s2' = Windows!OpenTabs
    BY <1>4 DEF Windows!SwitchToWindow, Windows!UpdateWebViews
  <2>2. s8.target \in {1, 2} BY <1>1 DEF WindowCalls
  <2>3. s3' \in {1, 2} BY <1>1, <1>4, <2>2 DEF Windows!SwitchToWindow, WindowsTyped
  <2>4. [state |-> "normal", rect |-> "initial"] \in WindowStates
    BY DEF WindowStates, Windows!States, Windows!Rects
  <2>5. s6' \in WindowStates /\ s7' \in WindowStates \cup {Windows!NoAnimation}
    BY <1>1, <1>4, <2>4 DEF Windows!SwitchToWindow, WindowsTyped
  <2>6. WindowsTyped' BY <1>0, <1>1, <1>3, <2>1, <2>3, <2>5 DEF WindowsTyped
  <2> QED BY <1>0, <1>1, <1>2, <1>3, <2>1, <2>6, TabAnswerKeeps
<1>5. CASE Windows!NewWindow
  <2>1. UNCHANGED <<s3, s6, s7>> BY <1>5 DEF Windows!NewWindow, Windows!Keep
  <2>2. /\ s1' \in [0..2 -> {"none", "open", "swapping", "closed"}] /\ s2' \subseteq 0..2
        /\ s4 = "yes" => s1'[0] = "open"
    <3>1. CASE UNCHANGED <<s1, s2>> BY <1>1, <3>1 DEF WindowsTyped
    <3>2. CASE \E t \in Windows!Tabs \ {Windows!MapperTab} :
                 s1' = [s1 EXCEPT ![t] = "open"] /\ s2' = Windows!OpenTabs \cup {t}
      <4>1. PICK t \in 0..2 : s1' = [s1 EXCEPT ![t] = "open"] /\ s2' = Windows!OpenTabs \cup {t}
        BY <3>2 DEF Windows!Tabs
      <4>2. s1 \in [0..2 -> {"none", "open", "swapping", "closed"}] BY <1>1 DEF WindowsTyped
      <4>3. s2' \subseteq 0..2 BY <1>1, <4>1
      <4> QED BY <1>1, <4>1, <4>2, <4>3
    <3> QED BY <1>5, <3>1, <3>2 DEF Windows!NewWindow
  <2>3. WindowsTyped' BY <1>0, <1>1, <1>3, <2>1, <2>2 DEF WindowsTyped
  <2> QED BY <1>0, <1>1, <1>2, <1>3, <2>2, <2>3, TabAnswerKeeps
<1> QED BY <1>4, <1>5

\* Every step keeps the invariant.
LEMMA WindowsStepInv == ASSUME WindowsInv, [Next]_vars PROVE WindowsInv'
<1> SUFFICES ASSUME part = "windows" PROVE WindowsGood' BY PartStays DEF WindowsInv
<1>0. WindowsGood BY DEF WindowsInv
<1>1. CASE UNCHANGED Windows!vars
  BY <1>0, <1>1 DEF Windows!vars, WindowsGood, WindowsTyped, WindowOrder, StatesPassed,
     WindowsCounted, Windows!StateIsReached, Windows!LastCloseEnds
<1> QED
  BY <1>0, <1>1, WindowsSteps, BrowserKeeps, CallsKeep, GetWindowKeeps, NormalizeKeeps,
     FullscreenKeeps, SetBoundsKeeps, CheckStateKeeps, GetWindowHandlesKeeps, CountKeeps,
     CloseKeeps, QuitAfterCloseKeeps, SwitchKeeps
     DEF Windows!Next

\* A window command that answers OK has had the window in the state asked for, unless the browser
\* does not implement Browser.setWindowBounds or the window was sent the size of the screen in
\* place of the maximized state; and Close ends the session only with the last window that was
\* counted.  For any number of commands and of changes (SetWindowBounds, ExecuteClose).
THEOREM WindowAnswersTrue == Spec => []WindowAnswersAreTrue
<1>1. WindowsInv => WindowAnswersAreTrue
  BY DEF WindowsInv, WindowsGood, WindowAnswersAreTrue, Windows!WindowAnswersAreTrue
<1> QED BY <1>1, WindowsInit, WindowsStepInv, PTL DEF Spec
-----------------------------------------------------------------------------
\* The steps of Overrides.
LEMMA OverridesSteps ==
  ASSUME part = "overrides", [Next]_vars
  PROVE  Overrides!Next \/ UNCHANGED Overrides!vars
<1>1. CASE Next
  BY <1>1 DEF Next, RoutingStep, ServerStep, ViewsStep, InputStep, NavStep, ElementsStep,
     CapsStep, LaunchStep, DevicesStep, WindowsStep, OverridesStep, CookiesStep, FedCmStep,
     LogsStep, ReplayStep
<1>2. CASE UNCHANGED vars BY <1>2 DEF vars, Overrides!vars
<1> QED BY <1>1, <1>2

AnyPosition == Overrides!Positions \cup {"none"}
Emulations ==
  [geo : AnyPosition, net : {"none", "slow", "offline", "undefined"},
   metrics : {"own", "device", "content"}, download : {"none", "directory"},
   direct : {"none", "set"}]

\* Of references and of the timeouts of the session nothing need be known.
IsSession(s) ==
  s \in [window : {1, 2}, geo : AnyPosition, net : {s.net}, download : BOOLEAN,
         timeouts : {s.timeouts}]
SwitchPoints == {"switchNet", "switchDownload", "activate"}
MetricsPoints == {"capture", "restoreMetrics"}
OverridePoints ==
  {"idle", "answered", "sendGeo", "sendNet", "nextPage", "setMetrics", "sendDirect", "refuse"}
  \cup SwitchPoints \cup MetricsPoints
IsOverrideCall(c) ==
  c \in [name : {"none", "setLocation", "conditions", "connection", "delete", "switch", "fullPage",
                 "direct", "unchecked"},
         step : OverridePoints, page : {0, 1, 2}, value : AnyPosition, ref : {c.ref},
         retry : {0, 1}, broken : {c.broken}]

OverridesTyped ==
  /\ s1 \in [{1, 2} -> Emulations] /\ s3 \in [{1, 2} -> AnyPosition]
  /\ IsSession(s6) /\ s7 \in {"unset", "yes", "no"} /\ IsOverrideCall(s8) /\ s9 \in BOOLEAN
  /\ s13 \in [{1, 2} -> SUBSET {"metrics", "geo"}]

\* Which command a point belongs to, and on which page it works.
OverrideOrder ==
  /\ s8.step # "idle" => s8.page \in {1, 2}
  /\ s8.step = "sendGeo" => s8.name \in {"setLocation", "switch"}
  /\ s8.step \in SwitchPoints => s8.name = "switch"
  /\ s8.step = "sendNet" => s8.name \in {"conditions", "connection", "delete", "switch"}
  /\ s8.step = "nextPage" => s8.name = "connection"
  /\ s8.step \in MetricsPoints \cup {"setMetrics"} => s8.name = "fullPage"
  /\ s8.name = "setLocation" => s8.page = s6.window
  /\ s7 = "unset" => s8.step = "idle" /\ s6.window = 1

\* A page whose events are handled has the position of its manager, unless that is being sent
\* or the manager has failed.
PositionsKept ==
  /\ \A p \in {1, 2} :
       s3[p] # "none" /\ p \notin s2 /\ "geo" \notin s13[p] /\ ~(s8.step = "sendGeo" /\ p = s8.page) =>
         s1[p].geo = s3[p]
  /\ s8.step = "sendGeo" => s8.value = s3[s8.page]
  /\ s6.geo # "none" /\ ~(s8.step = "sendGeo" /\ s8.name = "setLocation") =>
       s3[s6.window] = s6.geo
  /\ s8.name = "switch" /\ s8.step \notin {"idle", "answered"} /\ s6.geo # "none" =>
       s3[s8.page] = s6.geo

\* It has the metrics of the device, unless a screenshot of it is taken or the manager has failed.
MetricsKept ==
  \A p \in {1, 2} :
    ((p \notin s2 /\ "metrics" \notin s13[p]) \/ s7 # "yes") /\ ~(s8.step \in MetricsPoints /\ p = s8.page) =>
      s1[p].metrics = Overrides!DeviceMetrics

\* A window has the directory before it becomes the current one.
DirectoryKept ==
  s6.download =>
    /\ s6.window # 1 => s1[s6.window].download = "directory"
    /\ s8.step = "activate" => s1[s8.page].download = "directory"

\* All this as long as no command has failed.
OverridesGood ==
  OverridesTyped /\ OverrideOrder /\ (~s9 => PositionsKept /\ MetricsKept /\ DirectoryKept)
OverridesInv == part = "overrides" => OverridesGood

\* What becomes of a call that goes on or is answered.
LEMMA OverrideCallGoesOn ==
  ASSUME IsOverrideCall(s8), NEW step \in OverridePoints, s8' = [s8 EXCEPT !.step = step]
  PROVE  /\ IsOverrideCall(s8)' /\ s8'.step = step /\ s8'.name = s8.name /\ s8'.page = s8.page
         /\ s8'.value = s8.value
BY DEF IsOverrideCall

\* There is no call.
LEMMA NoOverrideCall ==
  /\ IsOverrideCall(Overrides!NoCall)
  /\ Overrides!NoCall.step = "idle" /\ Overrides!NoCall.name = "none" /\ Overrides!NoCall.page = 0
  /\ Overrides!NoCall.value = "none"
BY DEF Overrides!NoCall, IsOverrideCall, OverridePoints, AnyPosition

\* A command sets the position of its page.
LEMMA SetGeo ==
  ASSUME s1 \in [{1, 2} -> Emulations], s8.page \in {1, 2}, NEW v \in AnyPosition,
         Overrides!Set("geo", v)
  PROVE  /\ s1' \in [{1, 2} -> Emulations] /\ s1'[s8.page].geo = v
         /\ \A p \in {1, 2} : /\ p # s8.page => s1'[p].geo = s1[p].geo
                              /\ s1'[p].metrics = s1[p].metrics
                              /\ s1'[p].download = s1[p].download
BY DEF Overrides!Set, Emulations

\* The same for the metrics.
LEMMA SetMetricsTo ==
  ASSUME s1 \in [{1, 2} -> Emulations], s8.page \in {1, 2},
         NEW v \in {"own", "device", "content"}, Overrides!Set("metrics", v)
  PROVE  /\ s1' \in [{1, 2} -> Emulations] /\ s1'[s8.page].metrics = v
         /\ \A p \in {1, 2} : /\ p # s8.page => s1'[p].metrics = s1[p].metrics
                              /\ s1'[p].geo = s1[p].geo
                              /\ s1'[p].download = s1[p].download
BY DEF Overrides!Set, Emulations

\* The same for the directory.
LEMMA SetDownload ==
  ASSUME s1 \in [{1, 2} -> Emulations], s8.page \in {1, 2},
         Overrides!Set("download", "directory")
  PROVE  /\ s1' \in [{1, 2} -> Emulations] /\ s1'[s8.page].download = "directory"
         /\ \A p \in {1, 2} : /\ p # s8.page => s1'[p].download = s1[p].download
                              /\ s1'[p].geo = s1[p].geo
                              /\ s1'[p].metrics = s1[p].metrics
BY DEF Overrides!Set, Emulations

\* The network and the other settings leave these alone.
LEMMA SetRest ==
  ASSUME s1 \in [{1, 2} -> Emulations], s8.page \in {1, 2},
         \/ \E v \in {"none", "slow", "offline", "undefined"} : Overrides!Set("net", v)
         \/ Overrides!Set("direct", "set")
  PROVE  /\ s1' \in [{1, 2} -> Emulations]
         /\ \A p \in {1, 2} : /\ s1'[p].geo = s1[p].geo /\ s1'[p].metrics = s1[p].metrics
                              /\ s1'[p].download = s1[p].download
<1>1. ASSUME NEW v \in {"none", "slow", "offline", "undefined"}, Overrides!Set("net", v)
      PROVE  /\ s1' \in [{1, 2} -> Emulations]
             /\ \A p \in {1, 2} : /\ s1'[p].geo = s1[p].geo /\ s1'[p].metrics = s1[p].metrics
                                  /\ s1'[p].download = s1[p].download
  BY <1>1 DEF Overrides!Set, Emulations
<1>2. ASSUME Overrides!Set("direct", "set")
      PROVE  /\ s1' \in [{1, 2} -> Emulations]
             /\ \A p \in {1, 2} : /\ s1'[p].geo = s1[p].geo /\ s1'[p].metrics = s1[p].metrics
                                  /\ s1'[p].download = s1[p].download
  BY <1>2 DEF Overrides!Set, Emulations
<1> QED BY <1>1, <1>2

\* Initially nothing is overridden.
LEMMA OverridesInit == Init => OverridesInv
<1> SUFFICES ASSUME part = "overrides", Overrides!Init PROVE OverridesGood
  BY DEF Init, OverridesInv
<1>1. /\ s1 = [p \in {1, 2} |-> [geo |-> "none", net |-> "none", metrics |-> "own",
                                 download |-> "none", direct |-> "none"]]
      /\ s3 = [p \in {1, 2} |-> "none"] /\ s7 = "unset" /\ s8 = Overrides!NoCall
      /\ s13 = [p \in {1, 2} |-> {}]
  BY DEF Overrides!Init, Overrides!Pages
<1>2. s9 = FALSE BY DEF Overrides!Init
<1>3. IsSession(s6) /\ s6.window = 1 /\ s6.geo = "none"
  BY DEF Overrides!Init, IsSession, AnyPosition
<1>4. ~s6.download BY DEF Overrides!Init
<1>5. s1 \in [{1, 2} -> Emulations] BY <1>1 DEF Emulations, AnyPosition
<1>6. s3 \in [{1, 2} -> AnyPosition] BY <1>1 DEF AnyPosition
<1>7. s9 \in BOOLEAN BY <1>2
<1>8. OverridesTyped BY <1>1, <1>3, <1>5, <1>6, <1>7, NoOverrideCall DEF OverridesTyped
<1>9. OverrideOrder
  BY <1>1, <1>3, NoOverrideCall DEF OverrideOrder, SwitchPoints, MetricsPoints
<1>10. PositionsKept BY <1>1, <1>3, NoOverrideCall DEF PositionsKept
<1>11. MetricsKept BY <1>1 DEF MetricsKept, Overrides!DeviceMetrics
<1>12. DirectoryKept BY <1>4 DEF DirectoryKept
<1> QED BY <1>8, <1>9, <1>10, <1>11, <1>12 DEF OverridesGood

\* A step that neither overrides nor takes away what the invariant is about.
LEMMA QuietKeeps ==
  ASSUME OverridesGood, OverridesTyped', OverrideOrder', UNCHANGED <<s2, s3, s7, s13>>,
         s6'.window = s6.window, s6'.geo = s6.geo, s6'.download = s6.download,
         \A p \in {1, 2} : /\ s1'[p].geo = s1[p].geo /\ s1'[p].metrics = s1[p].metrics
                           /\ s1'[p].download = s1[p].download,
         s9 => s9',
         s8.step # "sendGeo", s8'.step \notin {"sendGeo", "activate"},
         s8.step \in MetricsPoints => s8'.step \in MetricsPoints /\ s8'.page = s8.page,
         s8'.name = "switch" /\ s8'.step \notin {"idle", "answered"} =>
           s8.name = "switch" /\ s8.step \notin {"idle", "answered"} /\ s8'.page = s8.page
  PROVE  OverridesGood'
<1> SUFFICES ASSUME ~s9' PROVE PositionsKept' /\ MetricsKept' /\ DirectoryKept'
  BY DEF OverridesGood
<1>1. PositionsKept /\ MetricsKept /\ DirectoryKept /\ OverridesTyped BY DEF OverridesGood
<1>2. PositionsKept' BY <1>1 DEF PositionsKept
<1>3. MetricsKept' BY <1>1 DEF MetricsKept, Overrides!DeviceMetrics
<1>4. DirectoryKept' BY <1>1 DEF DirectoryKept, OverridesTyped, IsSession
<1> QED BY <1>2, <1>3, <1>4

\* A command that fails ends.
LEMMA RefusedKeeps ==
  ASSUME OverridesGood, s8.step # "idle", s9' = TRUE, s8' = [s8 EXCEPT !.step = "answered"],
         s1' \in [{1, 2} -> Emulations], UNCHANGED <<s3, s6, s7, s13>>
  PROVE  OverridesGood'
<1>0. OverridesTyped /\ OverrideOrder BY DEF OverridesGood
<1>1. /\ IsOverrideCall(s8)' /\ s8'.step = "answered" /\ s8'.name = s8.name
      /\ s8'.page = s8.page
  BY <1>0, OverrideCallGoesOn DEF OverridesTyped, OverridePoints
<1>2. s9' \in BOOLEAN OBVIOUS
<1>3. OverridesTyped' BY <1>0, <1>1, <1>2 DEF OverridesTyped, IsSession
<1>4. OverrideOrder' BY <1>0, <1>1 DEF OverrideOrder, SwitchPoints, MetricsPoints
<1> QED BY <1>3, <1>4 DEF OverridesGood

\* A command begins: on the page it names, or on the current one.
LEMMA StartFacts ==
  ASSUME OverridesGood, NEW c, IsOverrideCall(c), Overrides!Start(c)
  PROVE  /\ IsOverrideCall(s8)' /\ s8'.step = c.step /\ s8'.name = c.name /\ s8'.value = c.value
         /\ s8'.page = (IF c.page = 0 THEN s6.window ELSE c.page) /\ s8'.page \in {1, 2}
         /\ s8.step = "idle" /\ s7 # "unset" /\ UNCHANGED <<s1, s2, s7, s9, s13>>
<1>1. OverridesTyped BY DEF OverridesGood
<1>2. s6.window \in {1, 2} BY <1>1 DEF OverridesTyped, IsSession
<1> DEFINE q == IF c.page = 0 THEN s6.window ELSE c.page
<1>3. s8' = [c EXCEPT !.page = q] BY DEF Overrides!Start
<1>4. c.page \in {0, 1, 2} BY DEF IsOverrideCall
<1>5. q \in {1, 2} BY <1>2, <1>4
<1> HIDE DEF q
<1>6. IsOverrideCall(s8)' BY <1>3, <1>5 DEF IsOverrideCall
<1>7. s8'.step = c.step /\ s8'.name = c.name /\ s8'.value = c.value /\ s8'.page = q
  BY <1>3, <1>5 DEF IsOverrideCall
<1> QED BY <1>5, <1>6, <1>7 DEF Overrides!Start, q

\* A command begins that has no part in what the invariant is about.
LEMMA BeginKeeps ==
  ASSUME OverridesGood, NEW c, IsOverrideCall(c), Overrides!Start(c),
         c.step \in {"sendNet", "setMetrics", "sendDirect", "refuse"},
         c.step = "sendNet" => c.name \in {"conditions", "connection", "delete"},
         c.step = "setMetrics" => c.name = "fullPage",
         c.step \in {"sendDirect", "refuse"} => c.name \in {"direct", "unchecked"},
         s3' = s3, IsSession(s6)', s6'.window = s6.window, s6'.geo = s6.geo,
         s6'.download = s6.download
  PROVE  OverridesGood'
<1>1. /\ IsOverrideCall(s8)' /\ s8'.step = c.step /\ s8'.name = c.name /\ s8'.page \in {1, 2}
      /\ s8.step = "idle" /\ s7 # "unset" /\ UNCHANGED <<s1, s2, s7, s9, s13>>
  BY StartFacts
<1>2. c.name \notin {"switch", "setLocation"} OBVIOUS
<1>3. OverridesTyped' BY <1>1 DEF OverridesGood, OverridesTyped
<1>4. OverrideOrder' BY <1>1, <1>2 DEF OverrideOrder, SwitchPoints, MetricsPoints
<1>5. s8.step \notin MetricsPoints BY <1>1 DEF MetricsPoints
<1> QED BY <1>1, <1>2, <1>3, <1>4, <1>5, QuietKeeps

\* The commands that begin like this.
LEMMA BeginnersKeep ==
  ASSUME OverridesGood,
         \/ Overrides!SetConditions("conditions", 0) \/ Overrides!SetConditions("connection", 1)
         \/ Overrides!DeleteConditions \/ Overrides!FullPageScreenshot \/ Overrides!DirectCommand
  PROVE  OverridesGood'
<1> DEFINE none == Overrides!NoCall
<1>0. IsOverrideCall(none) /\ IsSession(s6)
  BY NoOverrideCall DEF OverridesGood, OverridesTyped
<1> HIDE DEF none
<1>1. ASSUME NEW name \in {"conditions", "connection"}, NEW first \in {0, 1},
             Overrides!SetConditions(name, first)
      PROVE  OverridesGood'
  <2> DEFINE ref == s10 + 1
             c == [none EXCEPT !.name = name, !.step = "sendNet", !.ref = ref, !.page = first]
  <2>1. Overrides!Start(c) /\ s6' = [s6 EXCEPT !.net = ref] /\ s3' = s3
    BY <1>1 DEF Overrides!SetConditions, none
  <2> HIDE DEF ref
  <2>2. IsOverrideCall(c) BY <1>0 DEF IsOverrideCall, OverridePoints
  <2>3. c.name = name /\ c.step = "sendNet" BY <1>0 DEF IsOverrideCall
  <2>4. IsSession(s6)' BY <1>0, <2>1 DEF IsSession
  <2>5. s6'.window = s6.window /\ s6'.geo = s6.geo /\ s6'.download = s6.download
    BY <1>0, <2>1 DEF IsSession
  <2> HIDE DEF c
  <2> QED BY <2>1, <2>2, <2>3, <2>4, <2>5, BeginKeeps
<1>2. CASE Overrides!DeleteConditions
  <2> DEFINE ref == s10 + 1
             c == [none EXCEPT !.name = "delete", !.step = "sendNet", !.ref = ref]
  <2>1. Overrides!Start(c) /\ s6' = s6 /\ s3' = s3
    BY <1>2 DEF Overrides!DeleteConditions, none
  <2> HIDE DEF ref
  <2>2. IsOverrideCall(c) BY <1>0 DEF IsOverrideCall, OverridePoints
  <2>3. c.name = "delete" /\ c.step = "sendNet" BY <1>0 DEF IsOverrideCall
  <2> HIDE DEF c
  <2> QED BY <1>0, <2>1, <2>2, <2>3, BeginKeeps
<1>3. CASE Overrides!FullPageScreenshot
  <2> DEFINE c == [none EXCEPT !.name = "fullPage", !.step = "setMetrics"]
  <2>1. Overrides!Start(c) /\ s6' = s6 /\ s3' = s3
    BY <1>3 DEF Overrides!FullPageScreenshot, none
  <2>2. IsOverrideCall(c) BY <1>0 DEF IsOverrideCall, OverridePoints
  <2>3. c.name = "fullPage" /\ c.step = "setMetrics" BY <1>0 DEF IsOverrideCall
  <2> HIDE DEF c
  <2> QED BY <1>0, <2>1, <2>2, <2>3, BeginKeeps
<1>4. CASE Overrides!DirectCommand
  <2>1. PICK d \in Overrides!DirectCommands :
          /\ Overrides!Start([none EXCEPT !.name = IF d.checked THEN "direct" ELSE "unchecked",
                                          !.step = IF d.send THEN "sendDirect" ELSE "refuse"])
          /\ s6' = s6 /\ s3' = s3
    BY <1>4 DEF Overrides!DirectCommand, none
  <2> DEFINE name == IF d.checked THEN "direct" ELSE "unchecked"
             step == IF d.send THEN "sendDirect" ELSE "refuse"
             c == [none EXCEPT !.name = name, !.step = step]
  <2>2. Overrides!Start(c) BY <2>1
  <2>3. name \in {"direct", "unchecked"} /\ step \in {"sendDirect", "refuse"} OBVIOUS
  <2> HIDE DEF name, step
  <2>4. IsOverrideCall(c) BY <1>0, <2>3 DEF IsOverrideCall, OverridePoints
  <2>5. c.name = name /\ c.step = step BY <1>0 DEF IsOverrideCall
  <2> HIDE DEF c
  <2> QED BY <1>0, <2>1, <2>2, <2>3, <2>4, <2>5, BeginKeeps
<1> QED BY <1>1, <1>2, <1>3, <1>4

\* Steps that go on with a command, or end it, and have no part in it either.
LEMMA GoOnKeeps ==
  ASSUME OverridesGood, UNCHANGED <<s2, s3, s7, s13>>, IsSession(s6)', s6'.window = s6.window,
         s6'.geo = s6.geo, s6'.download = s6.download,
         s1' \in [{1, 2} -> Emulations],
         \A p \in {1, 2} : /\ s1'[p].geo = s1[p].geo /\ s1'[p].metrics = s1[p].metrics
                           /\ s1'[p].download = s1[p].download,
         s9' \in BOOLEAN, s9 => s9',
         s8.step \in {"sendNet", "nextPage", "switchNet", "capture", "sendDirect", "refuse"},
         s8.step = "capture" => s8'.step \in MetricsPoints,
         NEW step \in {"answered", "sendNet", "nextPage", "switchDownload", "restoreMetrics",
                       "capture"},
         IsOverrideCall(s8)', s8'.step = step, s8'.name = s8.name,
         s8'.page = s8.page \/ (s8.name = "connection" /\ s8'.page \in {1, 2}),
         step = "sendNet" => s8.step \in {"nextPage", "switchNet"},
         step = "nextPage" => s8.name = "connection", step = "switchDownload" => s8.name = "switch",
         step \in {"restoreMetrics", "capture"} => s8.step = "capture"
  PROVE  OverridesGood'
<1>0. OverridesTyped /\ OverrideOrder BY DEF OverridesGood
<1>1. OverridesTyped' BY <1>0 DEF OverridesTyped
<1>2. s8.page \in {1, 2} /\ s7 # "unset" BY <1>0 DEF OverrideOrder
<1>3. OverrideOrder' BY <1>0, <1>2 DEF OverrideOrder, SwitchPoints, MetricsPoints
<1>4. s8.step \in MetricsPoints => s8.step = "capture" BY DEF MetricsPoints
<1>5. s8.step = "capture" => s8.name = "fullPage" BY <1>0 DEF OverrideOrder, MetricsPoints
<1> QED BY <1>0, <1>1, <1>3, <1>4, <1>5, QuietKeeps

\* The conditions of the network are sent; those of every page are in turn.
LEMMA SendNetKeeps ==
  ASSUME OverridesGood, Overrides!SendNet \/ Overrides!NextPage \/ Overrides!SwitchNet
  PROVE  OverridesGood'
<1>0. OverridesTyped /\ OverrideOrder BY DEF OverridesGood
<1>1. IsOverrideCall(s8) /\ IsSession(s6) /\ s1 \in [{1, 2} -> Emulations] /\ s9 \in BOOLEAN
  BY <1>0 DEF OverridesTyped
<1>2. s8.step \in {"sendNet", "nextPage", "switchNet"} /\ UNCHANGED <<s2, s3, s7, s13>>
  BY DEF Overrides!SendNet, Overrides!NextPage, Overrides!SwitchNet, Overrides!KeepRest
<1>3. s8.page \in {1, 2} BY <1>0, <1>2 DEF OverrideOrder
<1>4. CASE Overrides!SendNet
  <2>0. s8.step = "sendNet" BY <1>4 DEF Overrides!SendNet
  <2> DEFINE v == Overrides!SentConditions
  <2>1. v \in {"none", "slow", "offline", "undefined"}
    BY DEF Overrides!SentConditions, Overrides!Dereference, Overrides!Conditions
  <2> HIDE DEF v
  <2>2. s1' = s1 \/ Overrides!Set("net", v)
    BY <1>4 DEF Overrides!SendNet, Overrides!MaySet, v
  <2>3. /\ s1' \in [{1, 2} -> Emulations]
        /\ \A p \in {1, 2} : /\ s1'[p].geo = s1[p].geo /\ s1'[p].metrics = s1[p].metrics
                             /\ s1'[p].download = s1[p].download
    BY <1>1, <1>3, <2>1, <2>2, SetRest
  <2>4. CASE Overrides!Answer(TRUE) /\ s6' = s6
    <3>1. s8' = [s8 EXCEPT !.step = "answered"] /\ s9' = TRUE BY <2>4 DEF Overrides!Answer
    <3> QED BY <1>2, <2>3, <2>4, <3>1, RefusedKeeps
  <2>5. CASE Overrides!GoTo("nextPage") /\ s6' = s6 /\ s8.name = "connection"
    <3>1. s8' = [s8 EXCEPT !.step = "nextPage"] /\ s9' = s9 BY <2>5 DEF Overrides!GoTo
    <3>2. /\ IsOverrideCall(s8)' /\ s8'.step = "nextPage" /\ s8'.name = s8.name
          /\ s8'.page = s8.page
      BY <1>1, <3>1, OverrideCallGoesOn DEF OverridePoints
    <3>3. IsSession(s6)' BY <1>1, <2>5 DEF IsSession
    <3> QED BY <1>1, <1>2, <2>0, <2>3, <2>5, <3>1, <3>2, <3>3, GoOnKeeps
  <2>6. CASE Overrides!Succeeds
    <3>2. UNCHANGED s6 \/ s6' = [s6 EXCEPT !.net = 0]
      BY <1>4 DEF Overrides!SendNet
    <3>3. IsSession(s6)' BY <1>1, <3>2 DEF IsSession
    <3>4. s6'.window = s6.window /\ s6'.geo = s6.geo /\ s6'.download = s6.download
      BY <1>1, <3>2 DEF IsSession
    <3>5. PICK step \in {"answered", "nextPage", "switchDownload"} :
            /\ s8' = [s8 EXCEPT !.step = step] /\ (s9 => s9') /\ s9' \in BOOLEAN
            /\ step = "nextPage" => s8.name = "connection"
            /\ step = "switchDownload" => s8.name = "switch"
      <4>1. CASE Overrides!Answer(TRUE)
        BY <4>1 DEF Overrides!Answer
      <4>2. CASE Overrides!Answer(FALSE)
        BY <1>1, <4>2 DEF Overrides!Answer
      <4>3. CASE Overrides!GoTo("nextPage") /\ s8.name = "connection"
        BY <1>1, <4>3 DEF Overrides!GoTo
      <4>4. CASE Overrides!GoTo("switchDownload") /\ s8.name = "switch"
        BY <1>1, <4>4 DEF Overrides!GoTo
      <4> QED BY <1>4, <4>1, <4>2, <4>3, <4>4 DEF Overrides!SendNet
    <3>6. step \in OverridePoints BY DEF OverridePoints, SwitchPoints
    <3>7. IsOverrideCall(s8)' /\ s8'.step = step /\ s8'.name = s8.name /\ s8'.page = s8.page
      BY <1>1, <3>5, <3>6, OverrideCallGoesOn
    <3> QED BY <1>2, <2>0, <2>3, <3>3, <3>4, <3>5, <3>7, GoOnKeeps
  <2> QED BY <1>4, <2>4, <2>5, <2>6 DEF Overrides!SendNet
<1>5. CASE Overrides!NextPage
  <2>0. s8.step = "nextPage" /\ UNCHANGED <<s1, s6, s9>> BY <1>5 DEF Overrides!NextPage
  <2>1. s8.name = "connection" BY <1>0, <2>0 DEF OverrideOrder
  <2>2. IsSession(s6)' BY <1>1, <2>0 DEF IsSession
  <2>3. CASE s8' = [s8 EXCEPT !.page = 2, !.step = "sendNet", !.broken = FALSE]
    <3>1. IsOverrideCall(s8)' /\ s8'.step = "sendNet" /\ s8'.name = s8.name /\ s8'.page = 2
      BY <1>1, <2>3 DEF IsOverrideCall, OverridePoints
    <3> QED BY <1>1, <1>2, <2>0, <2>1, <2>2, <3>1, GoOnKeeps
  <2>4. CASE s8' = [s8 EXCEPT !.step = "answered"]
    <3>1. /\ IsOverrideCall(s8)' /\ s8'.step = "answered" /\ s8'.name = s8.name
          /\ s8'.page = s8.page
      BY <1>1, <2>4, OverrideCallGoesOn DEF OverridePoints
    <3> QED BY <1>1, <1>2, <2>0, <2>1, <2>2, <3>1, GoOnKeeps
  <2> QED BY <1>5, <2>3, <2>4 DEF Overrides!NextPage
<1>6. CASE Overrides!SwitchNet
  <2>0. s8.step = "switchNet" /\ UNCHANGED <<s1, s6, s9>>
    BY <1>6 DEF Overrides!SwitchNet, Overrides!GoTo
  <2>1. s8.name = "switch" BY <1>0, <2>0 DEF OverrideOrder, SwitchPoints
  <2>2. IsSession(s6)' BY <1>1, <2>0 DEF IsSession
  <2>3. PICK step \in {"sendNet", "switchDownload"} : s8' = [s8 EXCEPT !.step = step]
    BY <1>6 DEF Overrides!SwitchNet, Overrides!GoTo
  <2>4. step \in OverridePoints BY DEF OverridePoints, SwitchPoints
  <2>5. IsOverrideCall(s8)' /\ s8'.step = step /\ s8'.name = s8.name /\ s8'.page = s8.page
    BY <1>1, <2>3, <2>4, OverrideCallGoesOn
  <2> QED BY <1>1, <1>2, <2>0, <2>1, <2>2, <2>5, GoOnKeeps
<1> QED BY <1>4, <1>5, <1>6

\* A screenshot is captured, a setting is sent.
LEMMA SendDirectKeeps ==
  ASSUME OverridesGood, Overrides!CaptureScreenshot \/ Overrides!SendDirect
  PROVE  OverridesGood'
<1>0. OverridesTyped /\ OverrideOrder BY DEF OverridesGood
<1>1. IsOverrideCall(s8) /\ IsSession(s6) /\ s1 \in [{1, 2} -> Emulations] /\ s9 \in BOOLEAN
  BY <1>0 DEF OverridesTyped
<1>2. s8.step \in {"capture", "sendDirect", "refuse"} /\ UNCHANGED <<s2, s3, s6, s7, s13>>
  BY DEF Overrides!CaptureScreenshot, Overrides!SendDirect, Overrides!KeepRest
<1>3. s8.page \in {1, 2} BY <1>0, <1>2 DEF OverrideOrder
<1>4. IsSession(s6)' BY <1>1, <1>2 DEF IsSession
<1>5. ASSUME s1' \in [{1, 2} -> Emulations], Overrides!Answer(TRUE) PROVE OverridesGood'
  <2>1. s8' = [s8 EXCEPT !.step = "answered"] /\ s9' = TRUE BY <1>5 DEF Overrides!Answer
  <2> QED BY <1>2, <1>5, <2>1, RefusedKeeps
<1>6. CASE Overrides!CaptureScreenshot
  <2>0. s8.step = "capture" /\ s1' = s1 BY <1>6 DEF Overrides!CaptureScreenshot
  <2>1. CASE Overrides!GoTo("restoreMetrics")
    <3>1. s8' = [s8 EXCEPT !.step = "restoreMetrics"] /\ s9' = s9 BY <2>1 DEF Overrides!GoTo
    <3>2. /\ IsOverrideCall(s8)' /\ s8'.step = "restoreMetrics" /\ s8'.name = s8.name
          /\ s8'.page = s8.page
      BY <1>1, <3>1, OverrideCallGoesOn DEF OverridePoints, MetricsPoints
    <3>3. s8'.step \in MetricsPoints BY <3>2 DEF MetricsPoints
    <3> QED BY <1>1, <1>2, <1>4, <2>0, <3>1, <3>2, <3>3, GoOnKeeps
  <2>2. CASE s8' = [s8 EXCEPT !.retry = 1, !.broken = FALSE] /\ s9' = s9
    <3>1. /\ IsOverrideCall(s8)' /\ s8'.step = "capture" /\ s8'.name = s8.name
          /\ s8'.page = s8.page
      BY <1>1, <2>0, <2>2 DEF IsOverrideCall
    <3>2. s8'.step \in MetricsPoints BY <3>1 DEF MetricsPoints
    <3> QED BY <1>1, <1>2, <1>4, <2>0, <2>2, <3>1, <3>2, GoOnKeeps
  <2> QED BY <1>1, <1>5, <1>6, <2>0, <2>1, <2>2 DEF Overrides!CaptureScreenshot
<1>7. CASE Overrides!SendDirect
  <2>0. s8.step \in {"sendDirect", "refuse"} BY <1>7 DEF Overrides!SendDirect
  <2>1. ASSUME s1' = s1 \/ Overrides!Set("direct", "set"),
               NEW e \in BOOLEAN, Overrides!Answer(e)
        PROVE  OverridesGood'
    <3>1. /\ s1' \in [{1, 2} -> Emulations]
          /\ \A p \in {1, 2} : /\ s1'[p].geo = s1[p].geo /\ s1'[p].metrics = s1[p].metrics
                               /\ s1'[p].download = s1[p].download
      BY <1>1, <1>3, <2>1, SetRest
    <3>2. s8' = [s8 EXCEPT !.step = "answered"] BY <2>1 DEF Overrides!Answer
    <3>3. (s9 => s9') /\ s9' \in BOOLEAN BY <1>1, <2>1 DEF Overrides!Answer
    <3>4. /\ IsOverrideCall(s8)' /\ s8'.step = "answered" /\ s8'.name = s8.name
          /\ s8'.page = s8.page
      BY <1>1, <3>2, OverrideCallGoesOn DEF OverridePoints
    <3> QED BY <1>2, <1>4, <2>0, <3>1, <3>3, <3>4, GoOnKeeps
  <2>2. (s8.name = "direct") \in BOOLEAN OBVIOUS
  <2>3. CASE Overrides!Answer(s8.name = "direct") /\ (s1' = s1 \/ Overrides!Set("direct", "set"))
    BY <2>1, <2>2, <2>3
  <2>4. CASE Overrides!Answer(FALSE) /\ Overrides!Set("direct", "set") BY <2>1, <2>4
  <2>5. CASE Overrides!Answer(TRUE) /\ s1' = s1 BY <1>1, <1>5, <2>5
  <2> QED BY <1>7, <2>3, <2>4, <2>5 DEF Overrides!SendDirect, Overrides!MaySet
<1> QED BY <1>6, <1>7

\* The session starts, a command ends, the timeouts of the session are set.
LEMMA SessionKeeps ==
  ASSUME OverridesGood, Overrides!StartSession \/ Overrides!EndCall \/ Overrides!SetTimeouts
  PROVE  OverridesGood'
<1>0. OverridesTyped /\ OverrideOrder BY DEF OverridesGood
<1>1. IsOverrideCall(s8) /\ IsSession(s6) /\ s1 \in [{1, 2} -> Emulations] /\ s9 \in BOOLEAN
  BY <1>0 DEF OverridesTyped
<1>2. CASE Overrides!StartSession
  <2>0. s7 = "unset" /\ s7' \in {"yes", "no"} /\ UNCHANGED <<s2, s3, s8, s9, s13>>
    BY <1>2 DEF Overrides!StartSession
  <2>1. PICK d \in BOOLEAN : s6' = [s6 EXCEPT !.download = d] BY <1>2 DEF Overrides!StartSession
  <2>2. IsSession(s6)' BY <1>1, <2>1 DEF IsSession
  <2>3. s6'.window = s6.window /\ s6'.geo = s6.geo BY <1>1, <2>1 DEF IsSession
  <2> DEFINE m == IF s7' = "yes" THEN "device" ELSE "own"
  <2>4. s1' = [p \in {1, 2} |-> [s1[p] EXCEPT !.metrics = m]]
    BY <1>2 DEF Overrides!StartSession, Overrides!Pages
  <2>5. m = Overrides!DeviceMetrics' /\ m \in {"own", "device"} BY DEF Overrides!DeviceMetrics
  <2> HIDE DEF m
  <2>6. /\ s1' \in [{1, 2} -> Emulations]
        /\ \A p \in {1, 2} : s1'[p].geo = s1[p].geo /\ s1'[p].metrics = m
    BY <1>1, <2>4, <2>5 DEF Emulations
  <2>7. s8.step = "idle" /\ s6.window = 1 BY <1>0, <2>0 DEF OverrideOrder
  <2>8. IsOverrideCall(s8)' BY <1>1, <2>0 DEF IsOverrideCall
  <2>9. OverridesTyped' BY <1>0, <2>0, <2>2, <2>6, <2>8 DEF OverridesTyped
  <2>10. OverrideOrder' BY <1>0, <2>0, <2>3, <2>7 DEF OverrideOrder
  <2>11. ~s9 => PositionsKept'
    BY <2>0, <2>3, <2>6, <2>7 DEF OverridesGood, PositionsKept
  <2>12. MetricsKept' BY <2>5, <2>6 DEF MetricsKept
  <2>13. DirectoryKept' BY <2>0, <2>3, <2>7 DEF DirectoryKept
  <2> QED BY <2>0, <2>9, <2>10, <2>11, <2>12, <2>13 DEF OverridesGood
<1>3. CASE Overrides!EndCall
  <2>0. s8.step = "answered" /\ s8' = Overrides!NoCall /\ UNCHANGED <<s1, s2, s3, s6, s7, s9, s13>>
    BY <1>3 DEF Overrides!EndCall
  <2>1. IsSession(s6)' BY <1>1, <2>0 DEF IsSession
  <2>2. OverridesTyped' BY <1>0, <2>0, <2>1, NoOverrideCall DEF OverridesTyped
  <2>3. OverrideOrder' BY <1>0, <2>0, NoOverrideCall DEF OverrideOrder, SwitchPoints, MetricsPoints
  <2>4. s8.step \notin MetricsPoints BY <2>0 DEF MetricsPoints
  <2> QED BY <2>0, <2>2, <2>3, <2>4, NoOverrideCall, QuietKeeps
<1>4. CASE Overrides!SetTimeouts
  <2>0. s8.step = "idle" /\ s7 # "unset" /\ UNCHANGED <<s1, s2, s3, s7, s8, s13>>
    BY <1>4 DEF Overrides!SetTimeouts
  <2>1. PICK params \in Overrides!TimeoutParams :
          /\ s6' = [s6 EXCEPT !.timeouts = Overrides!AfterSetTimeouts(@, params)]
          /\ s9' = (s9 \/ Overrides!FirstInvalid(params) <= 3)
    BY <1>4 DEF Overrides!SetTimeouts
  <2>2. IsSession(s6)' BY <1>1, <2>1 DEF IsSession
  <2>3. s6'.window = s6.window /\ s6'.geo = s6.geo /\ s6'.download = s6.download
    BY <1>1, <2>1 DEF IsSession
  <2>4. s9 => s9' BY <2>1
  <2>5. s9' \in BOOLEAN BY <1>1, <2>1
  <2>6. IsOverrideCall(s8)' BY <1>1, <2>0 DEF IsOverrideCall
  <2>7. OverridesTyped' BY <1>0, <2>0, <2>2, <2>5, <2>6 DEF OverridesTyped
  <2>8. OverrideOrder' BY <1>0, <2>0, <2>3 DEF OverrideOrder
  <2>9. s8.step \notin MetricsPoints BY <2>0 DEF MetricsPoints
  <2> QED BY <2>0, <2>3, <2>4, <2>7, <2>8, <2>9, QuietKeeps
<1> QED BY <1>2, <1>3, <1>4

\* A page navigates and loses what it was given.
LEMMA LoseKeeps ==
  ASSUME OverridesGood, NEW p \in {1, 2}, Overrides!LoseOverrides(p)
  PROVE  OverridesGood'
<1>0. OverridesTyped /\ OverrideOrder BY DEF OverridesGood
<1>1. IsOverrideCall(s8) /\ IsSession(s6) /\ s1 \in [{1, 2} -> Emulations]
  BY <1>0 DEF OverridesTyped
<1>2. /\ s1' = [s1 EXCEPT ![p].geo = "none", ![p].net = "none", ![p].metrics = "own"]
      /\ s2' = s2 \cup {p} /\ UNCHANGED <<s3, s6, s7, s8, s9, s13>>
  BY DEF Overrides!LoseOverrides
<1>3. /\ s1' \in [{1, 2} -> Emulations] /\ s1'[p].metrics = "own"
      /\ \A q \in {1, 2} : q # p => s1'[q] = s1[q]
      /\ \A q \in {1, 2} : s1'[q].download = s1[q].download
  BY <1>1, <1>2 DEF Emulations, AnyPosition
<1>4. IsOverrideCall(s8)' /\ IsSession(s6)' BY <1>1, <1>2 DEF IsOverrideCall, IsSession
<1>5. OverridesTyped' BY <1>0, <1>2, <1>3, <1>4 DEF OverridesTyped
<1>6. OverrideOrder' BY <1>0, <1>2 DEF OverrideOrder
<1>7. ASSUME ~s9 PROVE PositionsKept' /\ MetricsKept' /\ DirectoryKept'
  <2>0. PositionsKept /\ MetricsKept /\ DirectoryKept BY <1>7 DEF OverridesGood
  <2>1. PositionsKept' BY <1>2, <1>3, <2>0 DEF PositionsKept
  <2>2. MetricsKept' BY <1>2, <1>3, <2>0 DEF MetricsKept, Overrides!DeviceMetrics
  <2>3. s6.window \in {1, 2} /\ (s8.step = "activate" => s8.page \in {1, 2})
    BY <1>0, <1>1 DEF IsSession, OverrideOrder
  <2>4. DirectoryKept' BY <1>2, <1>3, <2>0, <2>3 DEF DirectoryKept
  <2> QED BY <2>1, <2>2, <2>4
<1> QED BY <1>2, <1>5, <1>6, <1>7 DEF OverridesGood

\* The managers apply their overrides again, up to one that fails.
LEMMA NavigatedKeeps ==
  ASSUME OverridesGood, NEW p \in {1, 2}, Overrides!Navigated(p)
  PROVE  OverridesGood'
<1>0. OverridesTyped /\ OverrideOrder BY DEF OverridesGood
<1>1. /\ IsOverrideCall(s8) /\ IsSession(s6) /\ s1 \in [{1, 2} -> Emulations]
      /\ s13 \in [{1, 2} -> SUBSET {"metrics", "geo"}]
  BY <1>0 DEF OverridesTyped
<1>2. s2' = s2 \ {p} /\ UNCHANGED <<s3, s6, s7, s9>>
  BY DEF Overrides!Navigated
<1>3. PICK n \in 0..3 : /\ s1' = [s1 EXCEPT ![p] = Overrides!ApplyOverrides(p, @, n)]
                        /\ s13' = [s13 EXCEPT ![p] = Overrides!NotApplied(n)]
                        /\ s8' = s8 \/ s8' = [s8 EXCEPT !.broken = TRUE]
  BY DEF Overrides!Navigated
<1>4. /\ IsOverrideCall(s8)' /\ s8'.step = s8.step /\ s8'.name = s8.name /\ s8'.page = s8.page
      /\ s8'.value = s8.value
  BY <1>1, <1>3 DEF IsOverrideCall
<1> DEFINE geo == IF n >= 2 /\ s3[p] # "none" THEN s3[p] ELSE s1[p].geo
           metrics == IF n >= 1 /\ s7 = "yes" THEN "device" ELSE s1[p].metrics
           net == IF n >= 3 /\ s4[p] # 0 THEN Overrides!Dereference(s4[p]) ELSE s1[p].net
<1>5. s1' = [s1 EXCEPT ![p] = [@ EXCEPT !.metrics = metrics, !.geo = geo, !.net = net]]
  BY <1>3 DEF Overrides!ApplyOverrides, Overrides!DeviceMetrics
<1>6. s1[p] \in Emulations BY <1>1
<1>7. net \in {"none", "slow", "offline", "undefined"}
  BY <1>6 DEF Emulations, Overrides!Dereference, Overrides!Conditions
<1>8. geo \in AnyPosition BY <1>0, <1>6 DEF OverridesTyped, Emulations
<1>9. metrics \in {"own", "device", "content"} BY <1>6 DEF Emulations
<1>10. "geo" \notin Overrides!NotApplied(n) /\ s3[p] # "none" => geo = s3[p]
  BY DEF Overrides!NotApplied
<1>11. /\ "metrics" \notin Overrides!NotApplied(n) /\ s7 = "yes" => metrics = "device"
       /\ s7 # "yes" => metrics = s1[p].metrics
  BY DEF Overrides!NotApplied
<1>12. Overrides!NotApplied(n) \subseteq {"metrics", "geo"} BY DEF Overrides!NotApplied
<1> HIDE DEF geo, metrics, net
<1>13. /\ s1' \in [{1, 2} -> Emulations] /\ s1'[p].metrics = metrics /\ s1'[p].geo = geo
       /\ \A q \in {1, 2} : q # p => s1'[q] = s1[q]
       /\ \A q \in {1, 2} : s1'[q].download = s1[q].download
  BY <1>1, <1>5, <1>7, <1>8, <1>9 DEF Emulations
<1>14. /\ s13' \in [{1, 2} -> SUBSET {"metrics", "geo"}] /\ s13'[p] = Overrides!NotApplied(n)
       /\ \A q \in {1, 2} : q # p => s13'[q] = s13[q]
  BY <1>1, <1>3, <1>12
<1>15. IsSession(s6)' BY <1>1, <1>2 DEF IsSession
<1>16. OverridesTyped' BY <1>0, <1>2, <1>4, <1>13, <1>14, <1>15 DEF OverridesTyped
<1>17. OverrideOrder' BY <1>0, <1>2, <1>4 DEF OverrideOrder
<1>18. ASSUME ~s9 PROVE PositionsKept' /\ MetricsKept' /\ DirectoryKept'
  <2>0. PositionsKept /\ MetricsKept /\ DirectoryKept BY <1>18 DEF OverridesGood
  <2>1. PositionsKept' BY <1>2, <1>4, <1>10, <1>13, <1>14, <2>0 DEF PositionsKept
  <2>2. MetricsKept'
    BY <1>2, <1>4, <1>11, <1>13, <1>14, <2>0 DEF MetricsKept, Overrides!DeviceMetrics
  <2>3. s6.window \in {1, 2} /\ (s8.step = "activate" => s8.page \in {1, 2})
    BY <1>0, <1>1 DEF IsSession, OverrideOrder
  <2>4. DirectoryKept' BY <1>2, <1>4, <1>13, <2>0, <2>3 DEF DirectoryKept
  <2> QED BY <2>1, <2>2, <2>4
<1> QED BY <1>2, <1>16, <1>17, <1>18 DEF OverridesGood

\* A position is set, or given to the window that the session switches to.
LEMMA BeginGeoKeeps ==
  ASSUME OverridesGood,
         \/ \E v \in Overrides!Positions : Overrides!SetLocation(v)
         \/ \E p \in {1, 2} : Overrides!SwitchToWindow(p)
  PROVE  OverridesGood'
<1> DEFINE none == Overrides!NoCall
<1>0. OverridesTyped /\ OverrideOrder /\ IsOverrideCall(none) /\ none.page = 0
  BY NoOverrideCall DEF OverridesGood
<1> HIDE DEF none
<1>1. /\ IsSession(s6) /\ s3 \in [{1, 2} -> AnyPosition] /\ s6.window \in {1, 2}
      /\ s6.geo \in AnyPosition
  BY <1>0 DEF OverridesTyped, IsSession
<1>2. ASSUME NEW v \in Overrides!Positions, Overrides!SetLocation(v) PROVE OverridesGood'
  <2> DEFINE c == [none EXCEPT !.name = "setLocation", !.step = "sendGeo", !.value = v]
  <2>1. Overrides!Start(c) /\ s3' = [s3 EXCEPT ![s6.window] = v] /\ s6' = s6
    BY <1>2 DEF Overrides!SetLocation, none
  <2>2. IsOverrideCall(c) BY <1>0 DEF IsOverrideCall, OverridePoints, AnyPosition
  <2>3. c.name = "setLocation" /\ c.step = "sendGeo" /\ c.value = v /\ c.page = 0
    BY <1>0 DEF IsOverrideCall
  <2> HIDE DEF c
  <2>4. /\ IsOverrideCall(s8)' /\ s8'.step = "sendGeo" /\ s8'.name = "setLocation"
        /\ s8'.value = v /\ s8'.page = s6.window
        /\ s8.step = "idle" /\ s7 # "unset" /\ UNCHANGED <<s1, s2, s7, s9, s13>>
    BY <2>1, <2>2, <2>3, StartFacts
  <2>5. s3' \in [{1, 2} -> AnyPosition] BY <1>1, <2>1 DEF AnyPosition
  <2>6. OverridesTyped' BY <1>0, <2>1, <2>4, <2>5 DEF OverridesTyped, IsSession
  <2>7. OverrideOrder' BY <1>1, <2>1, <2>4 DEF OverrideOrder, SwitchPoints, MetricsPoints
  <2>8. ASSUME ~s9 PROVE PositionsKept' /\ MetricsKept' /\ DirectoryKept'
    <3>0. PositionsKept /\ MetricsKept /\ DirectoryKept BY <2>8 DEF OverridesGood
    <3>1. PositionsKept' BY <1>1, <2>1, <2>4, <3>0 DEF PositionsKept
    <3>2. MetricsKept' BY <2>4, <3>0 DEF MetricsKept, Overrides!DeviceMetrics, MetricsPoints
    <3>3. DirectoryKept' BY <2>1, <2>4, <3>0 DEF DirectoryKept
    <3> QED BY <3>1, <3>2, <3>3
  <2> QED BY <2>4, <2>6, <2>7, <2>8 DEF OverridesGood
<1>3. ASSUME NEW p \in {1, 2}, Overrides!SwitchToWindow(p) PROVE OverridesGood'
  <2> DEFINE step == IF s6.geo # "none" THEN "sendGeo" ELSE "switchNet"
             c == [none EXCEPT !.name = "switch", !.value = s6.geo, !.ref = s6.net, !.page = p,
                               !.step = step]
  <2>1. /\ Overrides!Start(c) /\ s6' = s6
        /\ s3' = IF s6.geo = "none" THEN s3 ELSE [s3 EXCEPT ![p] = s6.geo]
    BY <1>3 DEF Overrides!SwitchToWindow, none
  <2>2. step \in OverridePoints BY DEF OverridePoints, SwitchPoints
  <2> HIDE DEF step
  <2>3. IsOverrideCall(c) BY <1>0, <1>1, <2>2 DEF IsOverrideCall
  <2>4. c.name = "switch" /\ c.step = step /\ c.value = s6.geo /\ c.page = p
    BY <1>0, <1>1 DEF IsOverrideCall
  <2> HIDE DEF c
  <2>5. /\ IsOverrideCall(s8)' /\ s8'.step = step /\ s8'.name = "switch"
        /\ s8'.value = s6.geo /\ s8'.page = p
        /\ s8.step = "idle" /\ s7 # "unset" /\ UNCHANGED <<s1, s2, s7, s9, s13>>
    BY <2>1, <2>3, <2>4, StartFacts
  <2>6. s3' \in [{1, 2} -> AnyPosition] BY <1>1, <2>1
  <2>7. OverridesTyped' BY <1>0, <2>1, <2>5, <2>6 DEF OverridesTyped, IsSession
  <2>8. OverrideOrder' BY <1>1, <2>1, <2>5 DEF OverrideOrder, SwitchPoints, MetricsPoints, step
  <2>9. ASSUME ~s9 PROVE PositionsKept' /\ MetricsKept' /\ DirectoryKept'
    <3>0. PositionsKept /\ MetricsKept /\ DirectoryKept BY <2>9 DEF OverridesGood
    <3>1. MetricsKept' BY <2>5, <3>0 DEF MetricsKept, Overrides!DeviceMetrics, MetricsPoints, step
    <3>2. DirectoryKept' BY <2>1, <2>5, <3>0 DEF DirectoryKept, step
    <3>3. PositionsKept'
      <4>1. CASE s6.geo = "none"
        BY <1>1, <2>1, <2>5, <3>0, <4>1 DEF PositionsKept, step
      <4>2. CASE s6.geo # "none"
        BY <1>1, <2>1, <2>5, <3>0, <4>2 DEF PositionsKept, step
      <4> QED BY <4>1, <4>2
    <3> QED BY <3>1, <3>2, <3>3
  <2> QED BY <2>5, <2>7, <2>8, <2>9 DEF OverridesGood
<1> QED BY <1>2, <1>3

\* The position is sent.
LEMMA SendGeoKeeps == ASSUME OverridesGood, Overrides!SendGeo PROVE OverridesGood'
<1>0. OverridesTyped /\ OverrideOrder BY DEF OverridesGood
<1>1. /\ IsOverrideCall(s8) /\ IsSession(s6) /\ s1 \in [{1, 2} -> Emulations]
      /\ s3 \in [{1, 2} -> AnyPosition] /\ s9 \in BOOLEAN
      /\ s13 \in [{1, 2} -> SUBSET {"metrics", "geo"}]
  BY <1>0 DEF OverridesTyped
<1>2. s8.step = "sendGeo" /\ UNCHANGED <<s2, s3, s7>> BY DEF Overrides!SendGeo, Overrides!KeepRest
<1>3. /\ s8.page \in {1, 2} /\ s8.name \in {"setLocation", "switch"} /\ s7 # "unset"
      /\ s8.name = "setLocation" => s8.page = s6.window
  BY <1>0, <1>2 DEF OverrideOrder
<1>s. s8.value \in AnyPosition BY <1>1 DEF IsOverrideCall
<1>r. ASSUME Overrides!Restored("geo")
      PROVE  /\ s13' \in [{1, 2} -> SUBSET {"metrics", "geo"}]
             /\ \A p \in {1, 2} : /\ p # s8.page => s13'[p] = s13[p]
                                  /\ "metrics" \in s13[p] => "metrics" \in s13'[p]
  BY <1>1, <1>3, <1>r DEF Overrides!Restored
<1>4. CASE /\ Overrides!Answer(TRUE) /\ Overrides!MaySet("geo", s8.value)
           /\ UNCHANGED <<s6, s13>>
  <2>1. s8' = [s8 EXCEPT !.step = "answered"] /\ s9' = TRUE BY <1>4 DEF Overrides!Answer
  <2>2. s1' \in [{1, 2} -> Emulations]
    BY <1>1, <1>3, <1>s, <1>4, SetGeo DEF Overrides!MaySet
  <2> QED BY <1>2, <1>4, <2>1, <2>2, RefusedKeeps
<1>5. CASE /\ Overrides!Set("geo", s8.value) /\ s8.name = "switch" /\ Overrides!GoTo("switchNet")
           /\ s6' = s6 /\ Overrides!Restored("geo")
  <2>1. s8' = [s8 EXCEPT !.step = "switchNet"] /\ s9' = s9 BY <1>5 DEF Overrides!GoTo
  <2>2. s8.value \in AnyPosition BY <1>s
  <2>3. /\ s1' \in [{1, 2} -> Emulations] /\ s1'[s8.page].geo = s8.value
        /\ \A p \in {1, 2} : /\ p # s8.page => s1'[p].geo = s1[p].geo
                             /\ s1'[p].metrics = s1[p].metrics
                             /\ s1'[p].download = s1[p].download
    BY <1>1, <1>3, <1>5, <2>2, SetGeo
  <2>4. IsOverrideCall(s8)' /\ s8'.step = "switchNet" /\ s8'.name = s8.name /\ s8'.page = s8.page
    BY <1>1, <2>1, OverrideCallGoesOn DEF OverridePoints, SwitchPoints
  <2>5. IsSession(s6)' BY <1>1, <1>5 DEF IsSession
  <2>6. OverridesTyped' BY <1>0, <1>2, <1>5, <1>r, <2>1, <2>3, <2>4, <2>5 DEF OverridesTyped
  <2>7. OverrideOrder' BY <1>2, <1>3, <1>5, <2>4 DEF OverrideOrder, SwitchPoints, MetricsPoints
  <2>8. ASSUME ~s9 PROVE PositionsKept' /\ MetricsKept' /\ DirectoryKept'
    <3>0. PositionsKept /\ MetricsKept /\ DirectoryKept BY <2>8 DEF OverridesGood
    <3>1. PositionsKept' BY <1>2, <1>3, <1>5, <1>r, <2>3, <2>4, <3>0 DEF PositionsKept
    <3>2. MetricsKept'
      BY <1>2, <1>5, <1>r, <2>3, <2>4, <3>0 DEF MetricsKept, Overrides!DeviceMetrics, MetricsPoints
    <3>3. s6.window \in {1, 2} BY <1>1 DEF IsSession
    <3>4. DirectoryKept' BY <1>5, <2>3, <2>4, <3>0, <3>3 DEF DirectoryKept
    <3> QED BY <3>1, <3>2, <3>4
  <2> QED BY <2>1, <2>6, <2>7, <2>8 DEF OverridesGood
<1>6. CASE /\ Overrides!Set("geo", s8.value) /\ s8.name # "switch" /\ Overrides!Answer(FALSE)
           /\ Overrides!Restored("geo") /\ s6' = [s6 EXCEPT !.geo = s8.value]
  <2>1. s8' = [s8 EXCEPT !.step = "answered"] BY <1>6 DEF Overrides!Answer
  <2>2. s8.value \in AnyPosition BY <1>s
  <2>3. /\ s1' \in [{1, 2} -> Emulations] /\ s1'[s8.page].geo = s8.value
        /\ \A p \in {1, 2} : /\ p # s8.page => s1'[p].geo = s1[p].geo
                             /\ s1'[p].metrics = s1[p].metrics
                             /\ s1'[p].download = s1[p].download
    BY <1>1, <1>3, <1>6, <2>2, SetGeo
  <2>4. IsOverrideCall(s8)' /\ s8'.step = "answered" /\ s8'.name = s8.name /\ s8'.page = s8.page
    BY <1>1, <2>1, OverrideCallGoesOn DEF OverridePoints
  <2>5. IsSession(s6)' BY <1>1, <1>6, <2>2 DEF IsSession
  <2>6. s6'.window = s6.window /\ s6'.geo = s8.value BY <1>1, <1>6 DEF IsSession
  <2>7. s6'.download = s6.download BY <1>1, <1>6 DEF IsSession
  <2>8. s9' \in BOOLEAN /\ (s9 => s9') BY <1>1, <1>6 DEF Overrides!Answer
  <2>9. OverridesTyped' BY <1>0, <1>2, <1>6, <1>r, <2>3, <2>4, <2>5, <2>8 DEF OverridesTyped
  <2>10. OverrideOrder'
    BY <1>2, <1>3, <1>6, <2>4, <2>6 DEF OverrideOrder, SwitchPoints, MetricsPoints
  <2>11. ASSUME ~s9 PROVE PositionsKept' /\ MetricsKept' /\ DirectoryKept'
    <3>0. PositionsKept /\ MetricsKept /\ DirectoryKept BY <2>11 DEF OverridesGood
    <3>1. PositionsKept' BY <1>2, <1>3, <1>6, <1>r, <2>3, <2>4, <2>6, <3>0 DEF PositionsKept
    <3>2. MetricsKept'
      BY <1>2, <1>6, <1>r, <2>3, <2>4, <3>0 DEF MetricsKept, Overrides!DeviceMetrics, MetricsPoints
    <3>3. s6.window \in {1, 2} BY <1>1 DEF IsSession
    <3>4. DirectoryKept' BY <2>3, <2>4, <2>6, <2>7, <3>0, <3>3 DEF DirectoryKept
    <3> QED BY <3>1, <3>2, <3>4
  <2> QED BY <2>8, <2>9, <2>10, <2>11 DEF OverridesGood
<1> QED BY <1>4, <1>5, <1>6 DEF Overrides!SendGeo

\* The rest of ExecuteSwitchToWindow: the directory, and the activation.
LEMMA SwitchDownloadKeeps ==
  ASSUME OverridesGood, Overrides!SwitchDownload \/ Overrides!Activate PROVE OverridesGood'
<1>0. OverridesTyped /\ OverrideOrder BY DEF OverridesGood
<1>1. IsOverrideCall(s8) /\ IsSession(s6) /\ s1 \in [{1, 2} -> Emulations] /\ s9 \in BOOLEAN
  BY <1>0 DEF OverridesTyped
<1>2. s8.step \in {"switchDownload", "activate"} /\ UNCHANGED <<s2, s3, s7, s13>>
  BY DEF Overrides!SwitchDownload, Overrides!Activate, Overrides!KeepRest
<1>3. /\ s8.page \in {1, 2} /\ s8.name = "switch" /\ s7 # "unset" /\ s6.window \in {1, 2}
  BY <1>0, <1>1, <1>2 DEF OverrideOrder, SwitchPoints, IsSession
<1>4. CASE /\ Overrides!Answer(TRUE) /\ s6' = s6
           /\ s1' = s1 \/ Overrides!Set("download", "directory")
  <2>1. s8' = [s8 EXCEPT !.step = "answered"] /\ s9' = TRUE BY <1>4 DEF Overrides!Answer
  <2>2. s1' \in [{1, 2} -> Emulations] BY <1>1, <1>3, <1>4, SetDownload
  <2> QED BY <1>2, <1>4, <2>1, <2>2, RefusedKeeps
<1>5. CASE /\ s8.step = "switchDownload" /\ Overrides!GoTo("activate") /\ s6' = s6
           /\ IF s6.download THEN Overrides!Set("download", "directory") ELSE s1' = s1
  <2>1. s8' = [s8 EXCEPT !.step = "activate"] /\ s9' = s9 BY <1>5 DEF Overrides!GoTo
  <2>2. /\ s1' \in [{1, 2} -> Emulations] /\ (s6.download => s1'[s8.page].download = "directory")
        /\ \A p \in {1, 2} : /\ p # s8.page => s1'[p].download = s1[p].download
                             /\ s1'[p].geo = s1[p].geo
                             /\ s1'[p].metrics = s1[p].metrics
    <3>1. CASE s6.download BY <1>1, <1>3, <1>5, <3>1, SetDownload
    <3>2. CASE ~s6.download BY <1>1, <1>5, <3>2
    <3> QED BY <3>1, <3>2
  <2>3. IsOverrideCall(s8)' /\ s8'.step = "activate" /\ s8'.name = s8.name /\ s8'.page = s8.page
    BY <1>1, <2>1, OverrideCallGoesOn DEF OverridePoints, SwitchPoints
  <2>4. IsSession(s6)' BY <1>1, <1>5 DEF IsSession
  <2>5. OverridesTyped' BY <1>0, <1>2, <2>1, <2>2, <2>3, <2>4 DEF OverridesTyped
  <2>6. OverrideOrder' BY <1>2, <1>3, <2>3 DEF OverrideOrder, SwitchPoints, MetricsPoints
  <2>7. ASSUME ~s9 PROVE PositionsKept' /\ MetricsKept' /\ DirectoryKept'
    <3>0. PositionsKept /\ MetricsKept /\ DirectoryKept BY <2>7 DEF OverridesGood
    <3>1. PositionsKept' BY <1>2, <1>3, <1>5, <2>2, <2>3, <3>0 DEF PositionsKept
    <3>2. MetricsKept'
      BY <1>2, <1>5, <2>2, <2>3, <3>0 DEF MetricsKept, Overrides!DeviceMetrics, MetricsPoints
    <3>3. DirectoryKept' BY <1>3, <1>5, <2>2, <2>3, <3>0 DEF DirectoryKept
    <3> QED BY <3>1, <3>2, <3>3
  <2> QED BY <2>1, <2>5, <2>6, <2>7 DEF OverridesGood
<1>6. CASE /\ s8.step = "activate" /\ Overrides!Answer(FALSE) /\ s1' = s1
           /\ s6' = [s6 EXCEPT !.window = s8.page]
  <2>1. s8' = [s8 EXCEPT !.step = "answered"] BY <1>6 DEF Overrides!Answer
  <2>2. IsOverrideCall(s8)' /\ s8'.step = "answered" /\ s8'.name = s8.name /\ s8'.page = s8.page
    BY <1>1, <2>1, OverrideCallGoesOn DEF OverridePoints
  <2>3. IsSession(s6)' BY <1>1, <1>3, <1>6 DEF IsSession
  <2>4. s6'.window = s8.page /\ s6'.geo = s6.geo BY <1>1, <1>6 DEF IsSession
  <2>5. s6'.download = s6.download BY <1>1, <1>6 DEF IsSession
  <2>6. s9' \in BOOLEAN /\ (s9 => s9') BY <1>1, <1>6 DEF Overrides!Answer
  <2>7. OverridesTyped' BY <1>0, <1>2, <1>6, <2>2, <2>3, <2>6 DEF OverridesTyped
  <2>8. OverrideOrder' BY <1>2, <1>3, <2>2, <2>4 DEF OverrideOrder, SwitchPoints, MetricsPoints
  <2>9. ASSUME ~s9 PROVE PositionsKept' /\ MetricsKept' /\ DirectoryKept'
    <3>0. PositionsKept /\ MetricsKept /\ DirectoryKept BY <2>9 DEF OverridesGood
    <3>1. PositionsKept' BY <1>2, <1>3, <1>6, <2>2, <2>4, <3>0 DEF PositionsKept
    <3>2. MetricsKept'
      BY <1>2, <1>6, <2>2, <3>0 DEF MetricsKept, Overrides!DeviceMetrics, MetricsPoints
    <3>3. DirectoryKept' BY <1>6, <2>2, <2>4, <2>5, <3>0 DEF DirectoryKept
    <3> QED BY <3>1, <3>2, <3>3
  <2> QED BY <2>6, <2>7, <2>8, <2>9 DEF OverridesGood
<1>7. CASE Overrides!SwitchDownload
  <2>1. s6' = s6 /\ s8.step = "switchDownload" BY <1>7 DEF Overrides!SwitchDownload
  <2> QED BY <1>4, <1>5, <1>7, <2>1 DEF Overrides!SwitchDownload, Overrides!MaySet
<1>8. CASE Overrides!Activate
  <2>1. s1' = s1 /\ s8.step = "activate" BY <1>8 DEF Overrides!Activate
  <2> QED BY <1>4, <1>6, <1>8, <2>1 DEF Overrides!Activate
<1> QED BY <1>7, <1>8

\* The metrics of the content, and those of the device again.
LEMMA MetricsKeeps ==
  ASSUME OverridesGood, Overrides!SetMetrics \/ Overrides!RestoreMetrics PROVE OverridesGood'
<1>0. OverridesTyped /\ OverrideOrder BY DEF OverridesGood
<1>1. /\ IsOverrideCall(s8) /\ IsSession(s6) /\ s1 \in [{1, 2} -> Emulations] /\ s9 \in BOOLEAN
      /\ s13 \in [{1, 2} -> SUBSET {"metrics", "geo"}]
  BY <1>0 DEF OverridesTyped
<1>2. s8.step \in {"setMetrics", "restoreMetrics"} /\ UNCHANGED <<s2, s3, s6, s7>>
  BY DEF Overrides!SetMetrics, Overrides!RestoreMetrics, Overrides!KeepRest
<1>3. s8.page \in {1, 2} /\ s8.name = "fullPage" /\ s7 # "unset" /\ s6.window \in {1, 2}
  BY <1>0, <1>1, <1>2 DEF OverrideOrder, MetricsPoints, IsSession
<1>4. ASSUME Overrides!Answer(TRUE), s13' = s13, NEW v \in {"own", "device", "content"},
             s1' = s1 \/ Overrides!Set("metrics", v)
      PROVE  OverridesGood'
  <2>1. s8' = [s8 EXCEPT !.step = "answered"] /\ s9' = TRUE BY <1>4 DEF Overrides!Answer
  <2>2. s1' \in [{1, 2} -> Emulations] BY <1>1, <1>3, <1>4, SetMetricsTo
  <2> QED BY <1>2, <1>4, <2>1, <2>2, RefusedKeeps
<1>5. ASSUME NEW v \in {"own", "device", "content"}, Overrides!Set("metrics", v),
             NEW step \in {"capture", "answered"}, s8' = [s8 EXCEPT !.step = step],
             step = "answered" => v = Overrides!DeviceMetrics,
             s13' = s13 \/ (step = "answered" /\ Overrides!Restored("metrics")),
             s9' \in BOOLEAN, s9 => s9'
      PROVE  OverridesGood'
  <2>1. /\ s1' \in [{1, 2} -> Emulations] /\ s1'[s8.page].metrics = v
        /\ \A p \in {1, 2} : /\ p # s8.page => s1'[p].metrics = s1[p].metrics
                             /\ s1'[p].geo = s1[p].geo
                             /\ s1'[p].download = s1[p].download
    BY <1>1, <1>3, <1>5, SetMetricsTo
  <2>2. step \in OverridePoints BY DEF OverridePoints, MetricsPoints
  <2>3. IsOverrideCall(s8)' /\ s8'.step = step /\ s8'.name = s8.name /\ s8'.page = s8.page
    BY <1>1, <1>5, <2>2, OverrideCallGoesOn
  <2>4. IsSession(s6)' BY <1>1, <1>2 DEF IsSession
  <2>m. /\ s13' \in [{1, 2} -> SUBSET {"metrics", "geo"}]
        /\ \A p \in {1, 2} : /\ p # s8.page => s13'[p] = s13[p]
                             /\ "geo" \in s13[p] => "geo" \in s13'[p]
                             /\ step # "answered" => s13'[p] = s13[p]
    BY <1>1, <1>3, <1>5 DEF Overrides!Restored
  <2>5. OverridesTyped' BY <1>0, <1>2, <1>5, <2>1, <2>3, <2>4, <2>m DEF OverridesTyped
  <2>6. OverrideOrder' BY <1>2, <1>3, <2>3 DEF OverrideOrder, SwitchPoints, MetricsPoints
  <2>7. ASSUME ~s9 PROVE PositionsKept' /\ MetricsKept' /\ DirectoryKept'
    <3>0. PositionsKept /\ MetricsKept /\ DirectoryKept BY <2>7 DEF OverridesGood
    <3>1. PositionsKept' BY <1>2, <1>3, <2>1, <2>3, <2>m, <3>0 DEF PositionsKept
    <3>2. Overrides!DeviceMetrics' = Overrides!DeviceMetrics BY <1>2 DEF Overrides!DeviceMetrics
    <3>3. step = "capture" => step \in MetricsPoints BY DEF MetricsPoints
    <3>4. MetricsKept' BY <1>2, <1>5, <2>1, <2>3, <2>m, <3>0, <3>2, <3>3 DEF MetricsKept
    <3>5. DirectoryKept' BY <1>2, <1>3, <2>1, <2>3, <3>0 DEF DirectoryKept
    <3> QED BY <3>1, <3>4, <3>5
  <2> QED BY <1>5, <2>5, <2>6, <2>7 DEF OverridesGood
<1>6. CASE Overrides!SetMetrics
  <2>1. CASE Overrides!Set("metrics", "content") /\ Overrides!GoTo("capture")
    <3>1. s8' = [s8 EXCEPT !.step = "capture"] /\ s9' = s9 BY <2>1 DEF Overrides!GoTo
    <3> QED BY <1>1, <1>5, <1>6, <2>1, <3>1 DEF Overrides!SetMetrics
  <2> QED BY <1>4, <1>6, <2>1 DEF Overrides!SetMetrics, Overrides!MaySet
<1>7. CASE Overrides!RestoreMetrics
  <2>1. Overrides!DeviceMetrics \in {"own", "device", "content"} BY DEF Overrides!DeviceMetrics
  <2>2. CASE /\ Overrides!Answer(FALSE) /\ Overrides!Set("metrics", Overrides!DeviceMetrics)
             /\ Overrides!Restored("metrics")
    <3>1. s8' = [s8 EXCEPT !.step = "answered"] BY <2>2 DEF Overrides!Answer
    <3>2. s9' \in BOOLEAN /\ (s9 => s9') BY <1>1, <2>2 DEF Overrides!Answer
    <3> QED BY <1>5, <2>1, <2>2, <3>1, <3>2
  <2> QED BY <1>4, <1>7, <2>1, <2>2
          DEF Overrides!RestoreMetrics, Overrides!MetricsAfterwards, Overrides!MaySet
<1> QED BY <1>6, <1>7

\* Every step keeps the invariant.
LEMMA OverridesStepInv == ASSUME OverridesInv, [Next]_vars PROVE OverridesInv'
<1> SUFFICES ASSUME part = "overrides" PROVE OverridesGood' BY PartStays DEF OverridesInv
<1>0. OverridesGood BY DEF OverridesInv
<1>1. CASE UNCHANGED Overrides!vars
  BY <1>0, <1>1 DEF Overrides!vars, OverridesGood, OverridesTyped, IsSession, IsOverrideCall,
     OverrideOrder, PositionsKept, MetricsKept, DirectoryKept, Overrides!DeviceMetrics
<1> QED
  BY <1>0, <1>1, OverridesSteps, BeginnersKeep, SendNetKeeps, SendDirectKeeps, SessionKeeps,
     LoseKeeps, NavigatedKeeps, BeginGeoKeeps, SendGeoKeeps, SwitchDownloadKeeps, MetricsKeeps
     DEF Overrides!Next, Overrides!Pages

\* While no command has answered an error the current page has the position, the metrics and the
\* directory that the session asked for, after any number of navigations, switches and screenshots,
\* but for a position and metrics whose manager failed to apply them after the page's last
\* navigation, an error that no command need answer
\* (ExecuteSwitchToWindow, ExecuteFullPageScreenshot, HandleMessage and the override managers).
THEOREM OverridesAreKept == Spec => []OverridesHold
<1>1. OverridesInv => OverridesHold
  <2> SUFFICES ASSUME part = "overrides", OverridesGood PROVE Overrides!OverridesHold
    BY DEF OverridesInv, OverridesHold
  <2>1. s6.window \in {1, 2} BY DEF OverridesGood, OverridesTyped, IsSession
  <2> QED BY <2>1 DEF OverridesGood, PositionsKept, MetricsKept, DirectoryKept, MetricsPoints,
               Overrides!OverridesHold
<1> QED BY <1>1, OverridesInit, OverridesStepInv, PTL DEF Spec
=============================================================================
