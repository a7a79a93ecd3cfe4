---------------------------- MODULE ServerStart ----------------------------
(***************************************************************************)
(* The start of the server process: main and its flags, the sockets of     *)
(* StartServerOnIOThread on the platforms it distinguishes, the port it    *)
(* announces, and which requests HttpServer and HandleRequestOnCmdThread   *)
(* let through.  Other processes take and leave ports in between.          *)
(***************************************************************************)
EXTENDS Naturals, FiniteSets

CONSTANT Ports    \* the ports of the machine, positive numbers

Families == {"ipv4", "ipv6"}

VARIABLES
  phase,        \* where the start is: "flags", "ipv4", "ipv6", "ipv4 too", "print",
               \* "running" or "exited"
  machine,    \* "mac", "linux" or "win"
  families,    \* the protocols of the machine
  taken,       \* the ports other processes listen on, by family
  bindv6only,  \* /proc/sys/net/ipv6/bindv6only: "0", "1" or "?" when unreadable
  dual,        \* a bind of all IPv6 addresses also binds the port of IPv4
  port,        \* the parameter of StartServerOnIOThread; 0 asks for any port
  flags,       \* allow_remote, allowed_ips and allowed_origins
  server,      \* server_ipv4 and server_ipv6: the port they listen on, or 0
  ipv6Status,  \* what Start returned for IPv6
  announced,   \* the port that is printed, 0 before
  served       \* a request that was let through or refused

vars == <<phase, machine, families, taken, bindv6only, dual, port, flags, server, ipv6Status,
          announced, served>>

NoFlags == [remote |-> FALSE, ips |-> {}, origins |-> {}]
NoRequest == [peer |-> "", host |-> "", origin |-> "", outcome |-> ""]

Init ==
  /\ phase = "flags" /\ machine = "linux" /\ families = Families
  /\ taken = [f \in Families |-> {}] /\ bindv6only = "0" /\ dual = TRUE
  /\ port = 0 /\ flags = NoFlags /\ server = [f \in Families |-> 0] /\ ipv6Status = "none"
  /\ announced = 0 /\ served = NoRequest

-----------------------------------------------------------------------------
\* The flag --allowed-ips: an address stands for its IPv4-mapped form too, and the
\* addresses of the machine itself are added to a list that is not empty.
AllowedIps(list) ==
  IF list = {} THEN {}
  ELSE list \cup (IF "remote" \in list THEN {"mapped remote"} ELSE {})
            \cup {"local4", "local6", "mapped local4"}

\* main parses the flags; a port that is not one, or an address that is not, ends it.
ParseFlags ==
  /\ phase = "flags"
  /\ \E requested \in Ports \cup {0}, ignore \in BOOLEAN, list \in {{}, {"remote"}},
        remote \in BOOLEAN, origins \in {{}, {"*"}, {"other.example"}} :
       /\ list # {} => remote
       /\ port' = IF ignore THEN 0 ELSE requested
       /\ flags' = [remote |-> remote, ips |-> AllowedIps(list), origins |-> origins]
  /\ \E p \in {"mac", "linux", "win"}, fs \in SUBSET Families, both \in BOOLEAN :
       /\ machine' = p /\ families' = fs
       /\ dual' = (both \/ p = "win") /\ (p = "mac" => ~both)
       /\ bindv6only' \in {IF both THEN "0" ELSE "1", "?"}
       /\ phase' = IF p = "mac" THEN "ipv4" ELSE "ipv6"
  /\ UNCHANGED <<taken, server, ipv6Status, announced, served>>

InvalidFlag ==
  /\ phase = "flags" /\ phase' = "exited"
  /\ UNCHANGED <<machine, families, taken, bindv6only, dual, port, flags, server, ipv6Status,
                 announced, served>>

-----------------------------------------------------------------------------
\* HttpServer::Start: the ports a bind in |f| can get, and the families it then
\* occupies.  IPv4 is occupied too when all addresses of a dual machine are bound.
Occupies(f) == {f} \cup (IF f = "ipv6" /\ flags.remote /\ dual THEN {"ipv4"} ELSE {})

Free(f) == {p \in Ports : \A g \in Occupies(f) : p \notin taken[g] /\ server[g] # p}

Results(f) ==
  IF f \notin families THEN {[status |-> "error", port |-> 0]}
  ELSE LET got == {p \in Free(f) : port \in {0, p}} IN
         IF got = {} THEN {[status |-> "in use", port |-> 0]}
         ELSE {[status |-> "ok", port |-> p] : p \in got}

\* On a Mac IPv4 comes first.
StartIPv4First ==
  /\ phase = "ipv4"
  /\ \E r \in Results("ipv4") :
       /\ server' = [server EXCEPT !["ipv4"] = r.port]
       /\ port' = IF r.status = "ok" THEN r.port ELSE port
       /\ phase' = IF r.status = "in use" THEN "exited" ELSE "ipv6"
  /\ UNCHANGED <<machine, families, taken, bindv6only, dual, flags, ipv6Status, announced, served>>

StartIPv6 ==
  /\ phase = "ipv6"
  /\ \E r \in Results("ipv6") :
       /\ server' = [server EXCEPT !["ipv6"] = r.port]
       /\ port' = IF r.status = "ok" THEN r.port ELSE port
       /\ ipv6Status' = r.status
       /\ phase' = IF r.status = "in use" THEN "exited"
                  ELSE IF machine = "mac" THEN "print" ELSE "ipv4 too"
  /\ UNCHANGED <<machine, families, taken, bindv6only, dual, flags, announced, served>>

\* Mutant: a machine that binds both is taken to be the rule.
NeedIPv4Seldom ==
  IF ipv6Status # "ok" THEN "needed" ELSE "not needed"

NeedIPv4 ==
  IF ~flags.remote \/ ipv6Status # "ok" THEN "needed"
  ELSE IF machine = "win" THEN "not needed"
  ELSE IF bindv6only = "1" THEN "needed"
  ELSE IF bindv6only = "0" THEN "not needed" ELSE "unknown"

\* Elsewhere IPv4 comes second, if it is needed.  The port that is printed is not
\* updated.
StartIPv4Second ==
  /\ phase = "ipv4 too"
  /\ IF NeedIPv4 = "not needed"
     THEN phase' = "print" /\ UNCHANGED server
     ELSE \E r \in Results("ipv4") :
            /\ server' = [server EXCEPT !["ipv4"] = r.port]
            /\ phase' = IF r.status = "in use" /\ NeedIPv4 = "needed" THEN "exited" ELSE "print"
  /\ UNCHANGED <<machine, families, taken, bindv6only, dual, port, flags, ipv6Status, announced,
                 served>>

\* The server runs if one of the two does.
PrintPort ==
  /\ phase = "print"
  /\ IF \E f \in Families : server[f] # 0
     THEN phase' = "running" /\ announced' = port
     ELSE phase' = "exited" /\ UNCHANGED announced
  /\ UNCHANGED <<machine, families, taken, bindv6only, dual, port, flags, server, ipv6Status, served>>

\* Another process takes or leaves a port.
OtherProcess ==
  /\ phase \in {"flags", "ipv4", "ipv6", "ipv4 too"}
  /\ \E f \in Families, p \in Ports :
       \/ /\ \A g \in Families : f \in Occupies(g) => server[g] # p
          /\ taken' = [taken EXCEPT ![f] = @ \cup {p}]
       \/ taken' = [taken EXCEPT ![f] = @ \ {p}]
  /\ UNCHANGED <<phase, machine, families, bindv6only, dual, port, flags, server, ipv6Status,
                 announced, served>>

-----------------------------------------------------------------------------
\* HostIsSafeToServe: the host of a request that is not local is a name or an
\* address of this machine, or is allowed.
HostIsSafeToServe(host) == "*" \in flags.origins \/ host \in flags.origins \/ host = "own name"

RequestIsSafeToServe(host, origin) ==
  LET hostLocal == host = "localhost"
      originLocal == origin = "localhost" IN
    /\ originLocal => hostLocal
    /\ ~flags.remote => origin \in {"", "localhost"} /\ host \in {"", "localhost"}
    /\ flags.remote =>
         /\ origin \notin {"", "localhost"} => flags.ips = {}
         /\ host \notin {"", "localhost"} => HostIsSafeToServe(host)

\* OnHttpRequest on the I/O thread and HandleRequestOnCmdThread.
OnHttpRequest ==
  /\ phase = "running" /\ served = NoRequest
  /\ \E peer \in {"local4", "mapped local4", "mapped remote", "stranger"},
        host \in {"localhost", "own name", "other.example"},
        origin \in {"", "localhost", "other.example"} :
       served' = [peer |-> peer, host |-> host, origin |-> origin,
                  outcome |-> IF ~RequestIsSafeToServe(host, origin) THEN "500"
                              ELSE IF flags.ips # {} /\ peer \notin flags.ips THEN "401"
                              ELSE "handled"]
  /\ UNCHANGED <<phase, machine, families, taken, bindv6only, dual, port, flags, server, ipv6Status,
                 announced>>

Next ==
  \/ ParseFlags \/ InvalidFlag \/ StartIPv4First \/ StartIPv6 \/ StartIPv4Second \/ PrintPort
  \/ OtherProcess \/ OnHttpRequest

Spec == Init /\ [][Next]_vars

-----------------------------------------------------------------------------
TypeOK ==
  /\ phase \in {"flags", "ipv4", "ipv6", "ipv4 too", "print", "running", "exited"}
  /\ port \in Ports \cup {0} /\ server \in [Families -> Ports \cup {0}]
  /\ announced \in Ports \cup {0} /\ taken \in [Families -> SUBSET Ports]

ServesIPv4 == server["ipv4"] # 0 \/ (server["ipv6"] # 0 /\ "ipv4" \in Occupies("ipv6"))

\* A server that runs on a machine with IPv4 is reached over IPv4, over which the
\* clients connect, at the port it listens on for IPv6: whether IPv6 sockets serve
\* IPv4 is guessed correctly, and a port that is taken in between ends the process,
\* unless nothing is known of the machine.
ServesBothFamilies ==
  phase = "running" =>
    /\ "ipv4" \in families => ServesIPv4 \/ NeedIPv4 = "unknown"
    /\ server["ipv4"] # 0 /\ server["ipv6"] # 0 => server["ipv4"] = server["ipv6"]

\* A client on the machine itself that names it is served whatever the flags are.
LocalClientsAreServed ==
  served.peer \in {"local4", "mapped local4"} /\ served.host = "localhost"
    => served.outcome = "handled" \/ served.origin # ""

\* Both together: whoever starts the server on a machine can reach it there.
ClientsReachTheServer == ServesBothFamilies /\ LocalClientsAreServed
=============================================================================
