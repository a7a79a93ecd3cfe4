---------------------------- MODULE HttpRouting ----------------------------
(***************************************************************************)
(* What HttpHandler does with the text of a request: command_map_, the     *)
(* matching of method and path against it, the parameters a command gets,  *)
(* the commands a W3C session refuses, and the codes of the answer.        *)
(* One request at a time; SessionDispatch models requests that overlap.    *)
(***************************************************************************)
EXTENDS Naturals, Sequences, FiniteSets, SequencesExt, FiniteSetsExt

CONSTANTS
  CommandMap,     \* command_map_, the sequence of mappings (HttpCommandMap)
  PathVariables,  \* the segments of its patterns that match any value
  PathValues,   \* values of the variable segments of a path
  SessionId,    \* the id of the session there may be
  NoRequest

\* Commands that are bound to no session; the status of the application cache is
\* that of the server.
Unbound == {"InitSession", "GetStatus", "GetSessions", "QuitAll"}

-----------------------------------------------------------------------------
(* Statuses and what the client reads of them.                             *)

\* StatusCodeToString
ErrorString == [
  kOk |-> "ok", kInvalidSessionId |-> "invalid session id",
  kNoSuchElement |-> "no such element", kNoSuchFrame |-> "no such frame",
  kUnknownCommand |-> "unknown command", kStaleElementReference |-> "stale element reference",
  kElementNotVisible |-> "element not interactable",
  kInvalidElementState |-> "invalid element state", kUnknownError |-> "unknown error",
  kInvalidArgument |-> "invalid argument",
  kMoveTargetOutOfBounds |-> "move target out of bounds",
  kElementNotInteractable |-> "element not interactable",
  kUnsupportedOperation |-> "unsupported operation", kJavaScriptError |-> "javascript error",
  kXPathLookupError |-> "invalid selector", kTimeout |-> "timeout",
  kNoSuchWindow |-> "no such window", kInvalidCookieDomain |-> "invalid cookie domain",
  kUnexpectedAlertOpen |-> "unexpected alert open", kNoSuchAlert |-> "no such alert",
  kScriptTimeout |-> "script timeout", kInvalidSelector |-> "invalid selector",
  kSessionNotCreated |-> "session not created",
  kNoSuchExecutionContext |-> "no such execution context",
  kChromeNotReachable |-> "chrome not reachable", kDisconnected |-> "disconnected",
  kTabCrashed |-> "tab crashed", kNoSuchCookie |-> "no such cookie",
  kUnableToSetCookie |-> "unable to set cookie", kTargetDetached |-> "target frame detached",
  kElementClickIntercepted |-> "element click intercepted",
  kNoSuchShadowRoot |-> "no such shadow root", kDetachedShadowRoot |-> "detached shadow root",
  kAbortedByNavigation |-> "aborted by navigation"]

\* PrepareStandardResponse
BadRequest == {"kElementClickIntercepted", "kElementNotInteractable", "kInvalidArgument",
  "kInvalidCookieDomain", "kInvalidElementState", "kInvalidSelector", "kElementNotVisible",
  "kXPathLookupError", "kNoSuchExecutionContext"}
NotFound == {"kInvalidSessionId", "kNoSuchAlert", "kNoSuchCookie", "kNoSuchElement",
  "kNoSuchFrame", "kNoSuchWindow", "kStaleElementReference", "kUnknownCommand",
  "kTargetDetached", "kNoSuchShadowRoot", "kDetachedShadowRoot"}

PrepareStandardResponse(status) ==
  [http |-> IF status = "kOk" THEN 200
            ELSE IF status \in BadRequest THEN 400
            ELSE IF status \in NotFound THEN 404 ELSE 500,
   error |-> ErrorString[status]]

PrepareLegacyResponse(status) ==
  [http |-> IF status = "kUnknownCommand" THEN 501 ELSE 200, error |-> ErrorString[status]]

-----------------------------------------------------------------------------
VARIABLES
  mode,              \* the session: "none", "w3c" or "legacy"
  receivedShutdown,  \* received_shutdown_
  request,           \* the request that is handled
  running,           \* the command that runs for it: route, session and params
  answer,            \* the answer that is under way
  quit               \* quit_func_ has run

vars == <<mode, receivedShutdown, request, running, answer, quit>>

Idle == [route |-> 0, session |-> "", params |-> {}]
NoAnswer == [http |-> 0, error |-> "", w3c |-> TRUE]

Init ==
  /\ mode = "none" /\ receivedShutdown = FALSE /\ request = NoRequest
  /\ running = Idle /\ answer = NoAnswer /\ quit = FALSE

W3cMode(session) == session = SessionId /\ mode # "none" => mode = "w3c"

\* Put is another name of Post.
MatchesMethod(method, used) == used = method \/ (method = "Post" /\ used = "Put")

\* Mutant: a path that begins with the pattern matches.
MatchesPrefix(r, route) ==
  /\ MatchesMethod(route.method, r.method)
  /\ Len(r.path) >= Len(route.path)
  /\ \A i \in DOMAIN route.path :
       route.path[i] \in PathVariables \/ route.path[i] = r.path[i]

MatchesCommand(r, route) ==
  /\ MatchesMethod(route.method, r.method)
  /\ Len(r.path) = Len(route.path)
  /\ \A i \in DOMAIN route.path :
       route.path[i] \in PathVariables \/ route.path[i] = r.path[i]

\* The session id is set by every mapping that matches the first two segments.
SessionOf(r) ==
  IF \E i \in DOMAIN CommandMap : LET route == CommandMap[i] IN
       /\ MatchesMethod(route.method, r.method) /\ Len(r.path) = Len(route.path)
       /\ Len(r.path) >= 2 /\ route.path[2] = ":sessionId" /\ r.path[1] = "session"
  THEN r.path[2] ELSE ""

\* The parameters: the segments that are variables, which a body may override.
Params(r, route) ==
  {<<route.path[i], IF r.body = "overrides" THEN "body" ELSE r.path[i]>> :
     i \in {j \in DOMAIN route.path : route.path[j] \in PathVariables \ {":sessionId"}}}

IsShutdown(r) == r.path = <<"shutdown">>

\* PrepareResponse sends the answer of |status|; the answer to a shutdown stops
\* the server, whatever it says.
Answer(r, status, w3c) ==
  LET response == IF w3c THEN PrepareStandardResponse(status) ELSE PrepareLegacyResponse(status)
  IN  /\ answer' = [http |-> response.http, error |-> response.error, w3c |-> w3c]
      /\ request' = NoRequest /\ running' = Idle
      /\ quit' = (quit \/ IsShutdown(r))

\* Plain text for a session that is not W3C.
AnswerText(http) ==
  /\ answer' = [http |-> http, error |-> "", w3c |-> FALSE]
  /\ request' = NoRequest /\ running' = Idle
  /\ UNCHANGED quit

\* HandleCommand.  ExecuteSessionCommand answers at once when there is no session,
\* or when the session is a W3C one and the command is not.
HandleCommand(r) ==
  LET matching == {i \in DOMAIN CommandMap : MatchesCommand(r, CommandMap[i])}
      session == SessionOf(r) IN
    IF matching = {} THEN
      IF W3cMode(session) THEN Answer(r, "kUnknownCommand", TRUE) ELSE AnswerText(404)
    ELSE
      LET i == Min(matching)
          route == CommandMap[i] IN
        IF r.body = "other" \/ (r.body = "none" /\ route.method = "Post" /\ W3cMode(session))
        THEN IF W3cMode(session) THEN Answer(r, "kInvalidArgument", TRUE) ELSE AnswerText(400)
        ELSE IF route.command \notin Unbound /\ (session # SessionId \/ mode = "none")
        THEN Answer(r, IF route.command = "Quit" THEN "kOk" ELSE "kInvalidSessionId", TRUE)
        ELSE IF route.command \notin Unbound /\ mode = "w3c" /\ ~route.standard
        THEN Answer(r, "kUnknownCommand", TRUE)
        ELSE /\ running' = [route |-> i, session |-> session, params |-> Params(r, route)]
             /\ request' = r
             /\ UNCHANGED <<answer, quit>>

\* Handle: a path outside url_base_ is refused.
Handle(r) ==
  /\ IF r.based THEN HandleCommand(r) ELSE AnswerText(400)
  /\ receivedShutdown' = (r.based /\ IsShutdown(r))
  /\ UNCHANGED mode

\* The command returns.
CommandReturns(status) ==
  /\ running.route # 0
  /\ LET command == CommandMap[running.route].command IN
       /\ mode' \in (IF command = "InitSession" /\ status = "kOk" /\ mode = "none"
                     THEN {"w3c", "legacy"}
                     ELSE IF command \in {"Quit", "QuitAll"} THEN {"none"} ELSE {mode})
       /\ command = "InitSession" => status \in {"kOk", "kSessionNotCreated"}
       /\ command \in {"GetStatus", "GetSessions", "QuitAll"} => status = "kOk"
  /\ Answer(request, status, mode' # "legacy")
  /\ UNCHANGED receivedShutdown

\* The client reads the answer.
AnswerArrives ==
  /\ answer # NoAnswer /\ answer' = NoAnswer
  /\ UNCHANGED <<mode, receivedShutdown, request, running, quit>>

Fill(path, value) ==
  [i \in DOMAIN path |-> IF path[i] = ":sessionId" THEN SessionId
                         ELSE IF path[i] \in PathVariables THEN value ELSE path[i]]

Bodies == {"none", "object", "overrides", "other"}

\* Requests that are made from a mapping with the values of its variables and, where
\* |of| is 0, with another method, one segment less or one more.
Requests ==
  UNION {
    LET route == CommandMap[i]
        path(v) == Fill(route.path, v)
        Req(of, m, p, b) == [of |-> of, method |-> m, path |-> p, body |-> b, based |-> of # 0]
    IN  {Req(i, m, path(v), b) : m \in {route.method, IF route.method = "Post" THEN "Put"
                                                      ELSE route.method},
                                 v \in PathValues, b \in Bodies}
        \cup {Req(0, "Head", path(v), "object") : v \in PathValues}
        \cup {[Req(0, route.method, p, "object") EXCEPT !.based = TRUE] :
                p \in {Append(path("v"), "v"), Front(path("v"))}}
    : i \in DOMAIN CommandMap}

\* A client sends a request; nothing is handled once a shutdown was.
OnRequest ==
  /\ request = NoRequest /\ answer = NoAnswer /\ ~receivedShutdown
  /\ \E r \in Requests : Handle(r)

\* Statuses a command can return to a client.
Returned == DOMAIN ErrorString \ {"kChromeNotReachable", "kAbortedByNavigation"}

Next ==
  \/ OnRequest
  \/ \E status \in Returned : CommandReturns(status)
  \/ AnswerArrives

Spec == Init /\ [][Next]_vars

-----------------------------------------------------------------------------
TypeOK ==
  /\ mode \in {"none", "w3c", "legacy"} /\ receivedShutdown \in BOOLEAN /\ quit \in BOOLEAN
  /\ running.route \in 0..Len(CommandMap) /\ answer.http \in {0, 200, 400, 404, 500, 501}
  /\ (running.route # 0) <=> (request # NoRequest)

\* The command that runs is the one of the mapping the request was made from,
\* whatever values its path carries: no mapping of command_map_ hides a later one,
\* and ids, names and keys never select a command.  What of the path is variable
\* reaches the command, unless the body overrides it.
RoutesAreReachable ==
  running.route # 0 =>
    /\ request.of # 0 => running.route = request.of
    /\ running.session \in {"", SessionId}
    /\ request.body # "overrides" =>
         \A p \in running.params : \E i \in DOMAIN request.path : request.path[i] = p[2]

\* The HTTP status the W3C specification gives each of its errors.
W3cHttpStatus(error) ==
  CASE error \in {"element click intercepted", "element not interactable",
                  "invalid argument", "invalid cookie domain", "invalid element state",
                  "invalid selector"} -> {400}
    [] error \in {"invalid session id", "no such alert", "no such cookie",
                  "no such element", "no such frame", "no such window",
                  "no such shadow root", "stale element reference",
                  "detached shadow root", "unknown command"} -> {404}
    [] error \in {"javascript error", "move target out of bounds", "script timeout",
                  "session not created", "timeout", "unable to set cookie",
                  "unexpected alert open", "unknown error", "unsupported operation"} -> {500}
    [] error = "ok" -> {200}
    [] OTHER -> {400, 404, 500}

\* The two tables of a W3C answer, the error string and the HTTP status, agree with
\* each other and with the specification.
AnswersAreStandard ==
  answer # NoAnswer /\ answer.w3c => answer.http \in W3cHttpStatus(answer.error)

\* Requests reach the command they name and answers keep to the W3C tables, for every
\* mapping of command_map_ and every status a command returns.
RoutingIsStandard == RoutesAreReachable /\ AnswersAreStandard
=============================================================================
