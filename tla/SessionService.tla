--------------------------- MODULE SessionService ---------------------------
(***************************************************************************)
(* What ChromeDriver promises the clients of its HTTP interface, without    *)
(* threads, queues and nested loops: a request that was sent is answered at *)
(* most once, a session is created, ends and is removed in that order and   *)
(* only once, and the service stops only after it answered a request.       *)
(***************************************************************************)
CONSTANTS Requests, Sessions

VARIABLES
  request,   \* state of each request
  session,   \* state of each session
  running    \* the servers accept requests

vars == <<request, session, running>>

Init ==
  /\ request = [r \in Requests |-> "unsent"]
  /\ session \in [Sessions -> {"none", "live"}]
  /\ running = TRUE

Send(r) ==
  /\ running /\ request[r] = "unsent"
  /\ request' = [request EXCEPT ![r] = "sent"]
  /\ UNCHANGED <<session, running>>

Answer(r) ==
  /\ running /\ request[r] = "sent"
  /\ request' = [request EXCEPT ![r] = "answered"]
  /\ UNCHANGED <<session, running>>

Advance(s, from, to) ==
  /\ session[s] = from
  /\ session' = [session EXCEPT ![s] = to]
  /\ UNCHANGED <<request, running>>

Create(s) == running /\ Advance(s, "none", "live")
End(s) == Advance(s, "live", "ended")
Remove(s) == running /\ Advance(s, "ended", "removed")

Stop ==
  /\ running /\ \E r \in Requests : request[r] = "answered"
  /\ running' = FALSE
  /\ UNCHANGED <<request, session>>

Next ==
  \/ \E r \in Requests : Send(r) \/ Answer(r)
  \/ \E s \in Sessions : Create(s) \/ End(s) \/ Remove(s)
  \/ Stop

Spec == Init /\ [][Next]_vars
=============================================================================
